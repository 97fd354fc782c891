--------------------------- MODULE AIPanelProofs ---------------------------
(***************************************************************************)
(* Proofs about AIPanel for every set of projects and every bound, and, at *)
(* the end, about ProcessCapture, which runs the commands the panel's      *)
(* requests need: for every size of pipe, buffer and output limit, and     *)
(* every amount of output, endless output included.                        *)
(***************************************************************************)
EXTENDS AIPanel, ProcessCapture, TLAPS

AnswerAt(i) == inbox[i].what \in Answers

(* Request numbers on their way are positive and not from the future, and  *)
(* each of them is on its way only once.                                   *)
OneAnswerEach ==
    /\ \A t \in threads : t.req \in 1..fActiveRequestId
    /\ \A i \in DOMAIN inbox : AnswerAt(i) => inbox[i].req \in 1..fActiveRequestId
    /\ \A t, u \in threads : t.req = u.req => t = u
    /\ \A t \in threads, i \in DOMAIN inbox : AnswerAt(i) => inbox[i].req # t.req
    /\ \A i, j \in DOMAIN inbox :
           AnswerAt(i) /\ AnswerAt(j) /\ inbox[i].req = inbox[j].req => i = j

(* The token held is that of the running request; what was stopped is past. *)
TokenOfRunning ==
    /\ fActiveCancellation = IF fRequestRunning THEN fActiveRequestId ELSE 0
    /\ fRequestRunning => fActiveRequestId > 0
    /\ \A r \in cancelled : r \in 1 .. fActiveRequestId - 1

(* Proposals, pending or on disk, come from requests that are over.        *)
Over(r) == r <= fActiveRequestId /\ (fRequestRunning => r < fActiveRequestId)
ProposalsAreOver ==
    /\ Over(fPendingDiff.origin)
    /\ \A w \in audit \cup written : Over(w[1])

IInv ==
    /\ TypeOK
    /\ OneAnswerEach
    /\ TokenOfRunning
    /\ ProposalsAreOver
    /\ IdleAcceptsNothing
    /\ OneLiveWorker
    /\ StoppedProposesNothing

-----------------------------------------------------------------------------
(* Queue lemmas.                                                           *)

LEMMA TakeFacts ==
    ASSUME TypeOK, NEW what, Take(what)
    PROVE  /\ inbox' \in Seq(Messages)
           /\ 1 \in DOMAIN inbox /\ inbox[1] = Head(inbox) /\ Head(inbox) \in Messages
           /\ Head(inbox).what \in what
           /\ \A i \in DOMAIN inbox' : i + 1 \in DOMAIN inbox /\ inbox'[i] = inbox[i + 1]
           /\ \A i \in DOMAIN inbox : i # 1 => i - 1 \in DOMAIN inbox'
           /\ DOMAIN inbox \subseteq Nat
           /\ DOMAIN inbox' \subseteq Nat \ {0}
  BY DEF TypeOK, Take

LEMMA PostFacts ==
    ASSUME TypeOK, NEW m \in Messages, inbox' = Append(inbox, m)
    PROVE  /\ inbox' \in Seq(Messages)
           /\ DOMAIN inbox' = DOMAIN inbox \cup {Len(inbox) + 1}
           /\ Len(inbox) + 1 \notin DOMAIN inbox
           /\ inbox'[Len(inbox) + 1] = m
           /\ \A i \in DOMAIN inbox : inbox'[i] = inbox[i]
  BY DEF TypeOK

-----------------------------------------------------------------------------
(* Types, one group of variables at a time.                                *)

LEMMA UnchangedTypes ==
    /\ RequestTypes /\ UNCHANGED request => RequestTypes'
    /\ PatchTypes /\ UNCHANGED patch => PatchTypes'
    /\ CommandTypes /\ UNCHANGED commands => CommandTypes'
    /\ DiskTypes /\ UNCHANGED disk => DiskTypes'
  <1>1. RequestTypes /\ UNCHANGED request => RequestTypes'
    BY DEF RequestTypes, request
  <1>2. PatchTypes /\ UNCHANGED patch => PatchTypes'
    BY DEF PatchTypes, patch
  <1>3. CommandTypes /\ UNCHANGED commands => CommandTypes'
    BY DEF CommandTypes, commands
  <1>4. DiskTypes /\ UNCHANGED disk => DiskTypes'
    BY DEF DiskTypes, disk
  <1>5. QED
    BY <1>1, <1>2, <1>3, <1>4

LEMMA BeginTypes ==
    ASSUME RequestTypes, NEW answer \in Answers, BeginRequest(answer)
    PROVE  RequestTypes' /\ commandControls' = FALSE
  <1>1. fRequestRunning' \in BOOLEAN /\ requestControls' \in BOOLEAN /\ commandControls' = FALSE
    BY DEF BeginRequest
  <1>2. /\ fActiveRequestId' \in Nat /\ fActiveCancellation' \in Nat
        /\ cancelled' \subseteq Nat
        /\ threads' \subseteq [what : Answers, req : Nat]
    BY DEF BeginRequest, RequestTypes
  <1>3. QED
    BY <1>1, <1>2 DEF RequestTypes

LEMMA FinishTypes ==
    ASSUME RequestTypes, FinishRequest, fActiveRequestId' \in Nat, cancelled' \subseteq Nat,
           fPendingCommands' \in Seq(CommandKinds)
    PROVE  RequestTypes' /\ CommandTypes'
  BY DEF FinishRequest, RequestTypes, CommandTypes

LEMMA ClearTypes == ClearPatch => PatchTypes'
  <1> SUFFICES ASSUME ClearPatch PROVE PatchTypes'
    OBVIOUS
  <1>1. fPendingDiff' \in [origin : Nat, left : Nat]
    BY DEF ClearPatch, NoDiff
  <1>2. fSavedPendingPatchPath' \in Projects \cup {NoProject} /\ patchControls' \in BOOLEAN
    BY DEF ClearPatch
  <1>3. QED
    BY <1>1, <1>2 DEF PatchTypes

LEMMA RemoveTypes ==
    ASSUME PatchTypes, NEW n \in 1..fPendingDiff.left, RemoveHunks(n)
    PROVE  PatchTypes'
  <1>1. CASE n = fPendingDiff.left /\ ClearPatch
    BY <1>1, ClearTypes
  <1>2. CASE /\ n < fPendingDiff.left
             /\ fPendingDiff' = [fPendingDiff EXCEPT !.left = @ - n]
             /\ patchControls' = TRUE
             /\ UNCHANGED fSavedPendingPatchPath
    <2>1. fPendingDiff' \in [origin : Nat, left : Nat]
      BY <1>2 DEF PatchTypes
    <2>2. fSavedPendingPatchPath' \in Projects \cup {NoProject} /\ patchControls' \in BOOLEAN
      BY <1>2 DEF PatchTypes
    <2>3. QED
      BY <2>1, <2>2 DEF PatchTypes
  <1>3. QED
    BY <1>1, <1>2 DEF RemoveHunks

LEMMA ListTypes ==
    ASSUME NEW list \in Seq(CommandKinds), SetCommands(list)
    PROVE  CommandTypes'
  BY DEF SetCommands, CommandTypes

(* SendPrompt, for a review and for any other prompt.                      *)
LEMMA PromptTypes ==
    ASSUME RequestTypes, PatchTypes, DiskTypes,
           fProjectRoot \in Projects \cup {NoProject},
           NEW review \in BOOLEAN, SendPrompt(review)
    PROVE  /\ RequestTypes' /\ PatchTypes' /\ CommandTypes' /\ DiskTypes'
           /\ fProjectRoot' \in Projects \cup {NoProject}
  <1>1. RequestTypes' /\ commandControls' = FALSE
    BY BeginTypes DEF SendPrompt, Answers
  <1>2. PatchTypes'
    <2>1. patchControls' \in BOOLEAN
      BY DEF SendPrompt
    <2>2. fPendingDiff' \in [origin : Nat, left : Nat]
      BY DEF SendPrompt, PatchTypes, NoDiff
    <2>3. fSavedPendingPatchPath' \in Projects \cup {NoProject}
      BY DEF SendPrompt, PatchTypes
    <2>4. QED
      BY <2>1, <2>2, <2>3 DEF PatchTypes
  <1>3. DiskTypes' /\ fProjectRoot' \in Projects \cup {NoProject}
    BY UnchangedTypes DEF SendPrompt
  <1>4. fPendingCommands' \in Seq(CommandKinds)
    BY DEF SendPrompt
  <1>5. QED
    BY <1>1, <1>2, <1>3, <1>4 DEF CommandTypes

LEMMA ResponseTypes == TypeOK /\ FinishResponse => TypeOK'
  <1> SUFFICES ASSUME TypeOK, FinishResponse PROVE TypeOK'
    OBVIOUS
  <1>1. inbox' \in Seq(Messages) /\ Head(inbox) \in Messages
    BY DEF FinishResponse, Take, TypeOK
  <1>2. Head(inbox).req \in Nat
    BY <1>1 DEF Messages
  <1>3. fPendingCommands' \in Seq(CommandKinds)
    <2>1. CASE UNCHANGED fPendingCommands
      BY <2>1 DEF TypeOK, CommandTypes
    <2>2. ASSUME NEW kind \in CommandKinds, fPendingCommands' = <<kind>>
          PROVE  fPendingCommands' \in Seq(CommandKinds)
      BY <2>2
    <2>3. QED
      BY <2>1, <2>2 DEF FinishResponse
  <1>4. RequestTypes' /\ CommandTypes'
    <2>1. fActiveRequestId' \in Nat /\ cancelled' \subseteq Nat
      BY DEF FinishResponse, TypeOK, RequestTypes
    <2>2. QED
      BY <1>3, <2>1, FinishTypes DEF FinishResponse, TypeOK
  <1>5. PatchTypes' /\ DiskTypes'
    <2>1. written' \subseteq Nat \X Projects
      BY DEF FinishResponse, TypeOK, DiskTypes
    <2>2. CASE KeepProposal
      <3>1. patchControls' \in BOOLEAN
        BY <2>2 DEF KeepProposal
      <3>2. QED
        BY <2>1, <2>2, <3>1 DEF KeepProposal, TypeOK, PatchTypes, DiskTypes
    <2>3. ASSUME NEW hunks \in 1..MaxHunks, NEW saved \in SaveOutcomes,
                 TakeProposal(hunks, saved)
          PROVE  PatchTypes' /\ DiskTypes'
      <3>1. patchControls' \in BOOLEAN
        BY <2>3 DEF TakeProposal
      <3>2. fPendingDiff' \in [origin : Nat, left : Nat]
        BY <2>3, <1>2, BoundsAssumption DEF TakeProposal
      <3>3. /\ fSavedPendingPatchPath' \in Projects \cup {NoProject}
            /\ audit' \subseteq Nat \X Projects
        BY <2>3, <1>2 DEF TakeProposal, TypeOK, DiskTypes
      <3>4. QED
        BY <2>1, <3>1, <3>2, <3>3 DEF PatchTypes, DiskTypes
    <2>4. QED
      BY <2>2, <2>3 DEF FinishResponse
  <1>6. QED
    BY <1>1, <1>4, <1>5 DEF FinishResponse, TypeOK

LEMMA TypeStep == TypeOK /\ [Next]_vars => TypeOK'
  <1> SUFFICES ASSUME TypeOK, [Next]_vars PROVE TypeOK'
    OBVIOUS
  <1> USE UnchangedTypes DEF TypeOK
  <1>1. ASSUME NEW review \in BOOLEAN, SendPrompt(review),
               inbox' \in Seq(Messages)
        PROVE  TypeOK'
    BY <1>1, PromptTypes
  <1>a. ASSUME Ask \/ ReviewPatch PROVE TypeOK'
    <2>1. inbox' \in Seq(Messages)
      <3>1. CASE Ask
        BY <3>1 DEF Ask, Take
      <3>2. CASE ReviewPatch
        BY <3>2 DEF ReviewPatch, Take
      <3>3. QED
        BY <1>a, <3>1, <3>2
    <2>2. SendPrompt(FALSE) \/ SendPrompt(TRUE)
      BY <1>a DEF Ask, ReviewPatch
    <2>3. QED
      BY <1>1, <2>1, <2>2
  <1>2. ASSUME StartPlainRequest PROVE TypeOK'
    <2>1. RequestTypes' /\ commandControls' = FALSE
      BY <1>2, BeginTypes DEF StartPlainRequest, Answers
    <2>2. QED
      <3>1. inbox' \in Seq(Messages)
        BY <1>2 DEF StartPlainRequest, Take
      <3>2. CommandTypes'
        BY <1>2, <2>1 DEF StartPlainRequest, CommandTypes
      <3>3. QED
        BY <1>2, <2>1, <3>1, <3>2 DEF StartPlainRequest
  <1>3. ASSUME AnswerWithoutProposal PROVE TypeOK'
    <2>1. RequestTypes' /\ CommandTypes'
      BY <1>3, FinishTypes DEF AnswerWithoutProposal, RequestTypes, CommandTypes
    <2>2. QED
      BY <1>3, <2>1 DEF AnswerWithoutProposal, Take
  <1>4. ASSUME CancelRequest PROVE TypeOK'
    <2>1. RequestTypes' /\ CommandTypes'
      BY <1>4, FinishTypes DEF CancelRequest, CancelRunning, RequestTypes, CommandTypes
    <2>2. QED
      BY <1>4, <2>1 DEF CancelRequest, Take
  <1>5. ASSUME QueueCodexCommand PROVE TypeOK'
    <2>1. /\ Append(fPendingCommands, "codex") \in Seq(CommandKinds)
          /\ Append(fPendingCommands, "argv") \in Seq(CommandKinds)
      BY DEF CommandTypes, CommandKinds
    <2>2. CommandTypes'
      BY <1>5, <2>1, ListTypes DEF QueueCodexCommand
    <2>3. QED
      BY <1>5, <2>2 DEF QueueCodexCommand, Take
  <1>6. ASSUME RunPendingCommand PROVE TypeOK'
    <2>1. Tail(fPendingCommands) \in Seq(CommandKinds)
      BY <1>6 DEF RunPendingCommand, CommandTypes
    <2>2. RequestTypes' /\ CommandTypes'
      BY <1>6, <2>1, ListTypes, BeginTypes DEF RunPendingCommand, Answers, CommandTypes
    <2>3. QED
      BY <1>6, <2>2 DEF RunPendingCommand, Take
  <1>7. ASSUME RejectPendingCommand PROVE TypeOK'
    <2>1. CommandTypes'
      <3>1. CASE fPendingCommands # <<>> /\ SetCommands(Tail(fPendingCommands))
        <4>1. Tail(fPendingCommands) \in Seq(CommandKinds)
          BY <3>1 DEF CommandTypes
        <4>2. QED
          BY <3>1, <4>1, ListTypes
      <3>2. QED
        BY <1>7, <3>1 DEF RejectPendingCommand
    <2>2. QED
      BY <1>7, <2>1 DEF RejectPendingCommand, Take
  <1>8. ASSUME ApplyPatch \/ ApplyPatchFailed PROVE TypeOK'
    <2>1. PatchTypes' /\ DiskTypes'
      BY <1>8, ClearTypes DEF ApplyPatch, ApplyPatchFailed, Proposal, DiskTypes, PatchTypes
    <2>2. QED
      BY <1>8, <2>1 DEF ApplyPatch, ApplyPatchFailed, Take
  <1>9. ASSUME ApplyPart PROVE TypeOK'
    <2>1. DiskTypes'
      BY <1>9 DEF ApplyPart, Proposal, DiskTypes, PatchTypes
    <2>2. QED
      BY <1>9, <2>1, RemoveTypes DEF ApplyPart, Take
  <1>10. ASSUME RejectPart \/ RejectPatch PROVE TypeOK'
    BY <1>10, RemoveTypes, ClearTypes DEF RejectPart, RejectPatch, Take
  <1>11. ASSUME \/ PromptRefused \/ PlainRequestRefused \/ StaleAnswer \/ NothingToCancel
                \/ CodexUnavailable \/ RunRefused \/ PatchRefused
         PROVE TypeOK'
    BY <1>11 DEF PromptRefused, PlainRequestRefused, StaleAnswer, NothingToCancel,
        CodexUnavailable, RunRefused, PatchRefused, Ignore, Take
  <1>12. ASSUME NEW t \in threads, ThreadEnd(t) PROVE TypeOK'
    <2>1. [what |-> t.what, req |-> t.req] \in Messages
      BY DEF RequestTypes, Messages
    <2>2. RequestTypes'
      BY <1>12 DEF ThreadEnd, RequestTypes
    <2>3. QED
      BY <1>12, <2>1, <2>2 DEF ThreadEnd
  <1>13. ASSUME NEW p \in Projects \cup {NoProject}, SetActiveContext(p) PROVE TypeOK'
    BY <1>13 DEF SetActiveContext
  <1>14. ASSUME NEW what \in RequestClicks \cup CommandClicks \cup PatchClicks \cup Outside
                        \cup {"kMsgCancelRequest"}, Click(what)
         PROVE TypeOK'
    <2>1. [what |-> what, req |-> fPendingDiff.origin] \in Messages
      BY DEF PatchTypes, Messages
    <2>2. QED
      BY <1>14, <2>1 DEF Click
  <1>15. CASE UNCHANGED vars
    BY <1>15 DEF vars
  <1>16. QED
    BY <1>a, <1>2, <1>3, <1>4, ResponseTypes, <1>5, <1>6, <1>7, <1>8, <1>9, <1>10, <1>11,
       <1>12, <1>13, <1>14, <1>15 DEF Next, Dispatch

LEMMA InitTypes == Init => TypeOK
  <1> SUFFICES ASSUME Init PROVE TypeOK
    OBVIOUS
  <1>1. RequestTypes
    BY DEF Init, RequestTypes
  <1>2. PatchTypes
    <2>1. patchControls \in BOOLEAN
      BY DEF Init
    <2>2. QED
      BY <2>1 DEF Init, PatchTypes, NoDiff
  <1>3. CommandTypes
    <2>1. commandControls \in BOOLEAN
      BY DEF Init
    <2>2. QED
      BY <2>1 DEF Init, CommandTypes
  <1>4. QED
    BY <1>1, <1>2, <1>3 DEF Init, TypeOK, DiskTypes

(* Every variable keeps its type.                                          *)
THEOREM TypeCorrect == SafeSpec => []TypeOK
  BY InitTypes, TypeStep, PTL DEF SafeSpec


-----------------------------------------------------------------------------
(* Seen from the request life cycle, every step is of one of six kinds.    *)
(* The 21 handlers are opened once, to show that, and the proofs of the    *)
(* invariants then go by kind.                                             *)

life == <<fRequestRunning, fActiveRequestId, fActiveCancellation, cancelled, threads>>

proposals == <<fPendingDiff, audit, written>>

(* The pending proposal stays or goes, and only it is saved or written.    *)
KeepsProposals ==
    /\ fPendingDiff'.origin \in {fPendingDiff.origin, 0}
    /\ audit' \in {audit, audit \cup {Proposal}}
    /\ \/ UNCHANGED written
       \/ HasPatch /\ written' = written \cup {Proposal}

(* An accepted answer may put its own proposal in the place of the old.    *)
TakesProposal ==
    /\ fPendingDiff'.origin \in {fPendingDiff.origin, fActiveRequestId}
    /\ \A w \in audit' : w \in audit \/ w[1] = fActiveRequestId
    /\ UNCHANGED written

(* A message is dealt with that is not the answer to the running request.  *)
Quiet ==
    /\ \E what : Take(what)
    /\ ~(Head(inbox).what \in Answers /\ IsCurrentRequest /\ fRequestRunning)
    /\ UNCHANGED life
    /\ KeepsProposals

Begins ==
    /\ \E what : Take(what) /\ what \cap Answers = {}
    /\ ~fRequestRunning
    /\ \E answer \in Answers : BeginRequest(answer)
    /\ fPendingDiff'.origin \in {fPendingDiff.origin, 0}
    /\ UNCHANGED disk

Accepts ==
    /\ Take(Answers)
    /\ IsCurrentRequest
    /\ FinishRequest
    /\ UNCHANGED <<fActiveRequestId, cancelled>>
    /\ TakesProposal

Cancels ==
    /\ Take({"kMsgCancelRequest"})
    /\ fRequestRunning
    /\ CancelRunning
    /\ UNCHANGED proposals

Posts ==
    /\ \E m \in Messages : m.what \notin Answers /\ inbox' = Append(inbox, m)
    /\ UNCHANGED <<life, proposals>>

Ends ==
    /\ \E t \in threads :
           /\ threads' = threads \ {t}
           /\ inbox' = Append(inbox, [what |-> t.what, req |-> t.req])
    /\ UNCHANGED <<fRequestRunning, fActiveRequestId, fActiveCancellation, cancelled, proposals>>

Rests ==
    /\ UNCHANGED <<life, inbox, proposals>>

LEMMA KeepUnchanged == UNCHANGED proposals => KeepsProposals
  BY DEF proposals, KeepsProposals

LEMMA RemoveOrigin ==
    ASSUME TypeOK, NEW n \in 1..fPendingDiff.left, RemoveHunks(n)
    PROVE  fPendingDiff'.origin \in {fPendingDiff.origin, 0}
  BY DEF RemoveHunks, ClearPatch, NoDiff, TypeOK, PatchTypes

LEMMA StepKinds ==
    ASSUME TypeOK, [Next]_vars
    PROVE  Quiet \/ Begins \/ Accepts \/ Cancels \/ Posts \/ Ends \/ Rests
  <1> DEFINE Goal == Quiet \/ Begins \/ Accepts \/ Cancels \/ Posts \/ Ends \/ Rests
  <1>1. ASSUME NEW review \in BOOLEAN, SendPrompt(review),
               NEW what, Take(what), what \cap Answers = {}
        PROVE  Goal
    <2>1. fPendingDiff'.origin \in {fPendingDiff.origin, 0} /\ UNCHANGED disk
      BY <1>1 DEF SendPrompt, NoDiff
    <2>2. ~fRequestRunning /\ BeginRequest("kMsgAIResponse")
      BY <1>1 DEF SendPrompt
    <2>3. QED
      BY <1>1, <2>1, <2>2 DEF Begins, Answers
  <1>2. CASE Ask \/ ReviewPatch
    <2>1. {"kMsgAsk"} \cap Answers = {} /\ {"kMsgReviewPatch"} \cap Answers = {}
      BY DEF Answers
    <2>2. QED
      BY <1>1, <1>2, <2>1 DEF Ask, ReviewPatch
  <1>3. CASE StartPlainRequest
    <2>1. fPendingDiff'.origin \in {fPendingDiff.origin, 0} /\ UNCHANGED disk
      BY <1>3 DEF StartPlainRequest, patch
    <2>2. /\ {"kMsgTestProvider", "kMsgSetupSaved"} \cap Answers = {}
          /\ {"kMsgExchangeOAuth", "kMsgOAuthCallback", "kMsgSetupSaved"} \cap Answers = {}
          /\ "kMsgTestProviderResponse" \in Answers /\ "kMsgOAuthResponse" \in Answers
      BY DEF Answers
    <2>3. QED
      BY <1>3, <2>1, <2>2 DEF StartPlainRequest, Begins
  <1>4. CASE AnswerWithoutProposal
    <2>1. TakesProposal
      BY <1>4 DEF AnswerWithoutProposal, patch, disk, TakesProposal
    <2>2. QED
      BY <1>4, <2>1 DEF AnswerWithoutProposal, Accepts
  <1>5. CASE FinishResponse
    <2>1. Take(Answers)
      BY <1>5 DEF FinishResponse, Take, Answers
    <2>2. TakesProposal
      <3>1. CASE KeepProposal
        BY <1>5, <3>1 DEF FinishResponse, KeepProposal, TakesProposal
      <3>2. ASSUME NEW hunks \in 1..MaxHunks, NEW saved \in SaveOutcomes,
                   TakeProposal(hunks, saved)
            PROVE  TakesProposal
        BY <1>5, <3>2 DEF FinishResponse, TakeProposal, TakesProposal, IsCurrentRequest
      <3>3. QED
        BY <1>5, <3>1, <3>2 DEF FinishResponse
    <2>3. QED
      BY <1>5, <2>1, <2>2 DEF FinishResponse, Accepts
  <1>6. CASE CancelRequest
    BY <1>6 DEF CancelRequest, Cancels, patch, disk, proposals
  <1>7. ASSUME NEW what, Take(what), what \cap Answers = {}, UNCHANGED life, KeepsProposals
        PROVE  Goal
    BY <1>7, TakeFacts DEF Quiet
  <1>8. CASE QueueCodexCommand
    <2>1. KeepsProposals /\ UNCHANGED life
      BY <1>8, KeepUnchanged DEF QueueCodexCommand, proposals, patch, disk, request, life
    <2>2. {"kMsgCodexAsk"} \cap Answers = {} /\ {"kMsgCodexStatus"} \cap Answers = {}
      BY DEF Answers
    <2>3. QED
      BY <1>7, <1>8, <2>1, <2>2 DEF QueueCodexCommand
  <1>9. CASE RunPendingCommand
    <2>1. UNCHANGED proposals /\ KeepsProposals
      BY <1>9, KeepUnchanged DEF RunPendingCommand, proposals, patch, disk
    <2>2. {"kMsgRunCommand"} \cap Answers = {}
      BY DEF Answers
    <2>3. CASE UNCHANGED request
      BY <1>7, <1>9, <2>1, <2>2, <2>3 DEF RunPendingCommand, request, life
    <2>4. CASE BeginRequest("kMsgCodexCaptureResponse") \/ BeginRequest("kMsgCommandCaptureResponse")
      BY <1>9, <2>1, <2>2, <2>4 DEF RunPendingCommand, Begins, Answers, proposals, disk
    <2>5. QED
      BY <1>9, <2>3, <2>4 DEF RunPendingCommand
  <1>10. CASE RejectPendingCommand
    <2>1. KeepsProposals /\ UNCHANGED life
      BY <1>10, KeepUnchanged DEF RejectPendingCommand, proposals, patch, disk, request, life
    <2>2. {"kMsgRejectCommand"} \cap Answers = {}
      BY DEF Answers
    <2>3. QED
      BY <1>7, <1>10, <2>1, <2>2 DEF RejectPendingCommand
  <1>11. CASE ApplyPatch \/ ApplyPatchFailed
    <2>1. fPendingDiff'.origin \in {fPendingDiff.origin, 0}
      BY <1>11 DEF ApplyPatch, ApplyPatchFailed, ClearPatch, NoDiff, patch
    <2>2. KeepsProposals
      BY <1>11, <2>1 DEF ApplyPatch, ApplyPatchFailed, KeepsProposals
    <2>3. {"kMsgApplyPatch"} \cap Answers = {} /\ UNCHANGED life
      BY <1>11 DEF Answers, ApplyPatch, ApplyPatchFailed, request, life
    <2>4. QED
      BY <1>7, <1>11, <2>2, <2>3 DEF ApplyPatch, ApplyPatchFailed
  <1>12. CASE ApplyPart \/ RejectPart
    <2>1. fPendingDiff'.origin \in {fPendingDiff.origin, 0}
      BY <1>12, RemoveOrigin DEF ApplyPart, RejectPart
    <2>2. KeepsProposals
      BY <1>12, <2>1 DEF ApplyPart, RejectPart, disk, KeepsProposals
    <2>3. /\ {"kMsgApplyPart"} \cap Answers = {} /\ {"kMsgRejectPart"} \cap Answers = {}
          /\ UNCHANGED life
      BY <1>12 DEF Answers, ApplyPart, RejectPart, request, life
    <2>4. QED
      BY <1>7, <1>12, <2>2, <2>3 DEF ApplyPart, RejectPart
  <1>13. CASE RejectPatch
    <2>1. KeepsProposals
      BY <1>13 DEF RejectPatch, ClearPatch, NoDiff, disk, KeepsProposals
    <2>2. {"kMsgRejectPatch"} \cap Answers = {} /\ UNCHANGED life
      BY <1>13 DEF Answers, RejectPatch, request, life
    <2>3. QED
      BY <1>7, <1>13, <2>1, <2>2 DEF RejectPatch
  <1>14. CASE \/ StaleAnswer \/ PromptRefused \/ PlainRequestRefused \/ NothingToCancel
              \/ CodexUnavailable \/ RunRefused \/ PatchRefused
    <2>0. Ignore
      BY <1>14 DEF StaleAnswer, PromptRefused, PlainRequestRefused, NothingToCancel,
          CodexUnavailable, RunRefused, PatchRefused
    <2>1. KeepsProposals /\ UNCHANGED life
      BY <2>0, KeepUnchanged DEF Ignore, request, life, proposals, patch, disk
    <2>2. CASE StaleAnswer
      BY <2>1, <2>2 DEF StaleAnswer, Quiet
    <2>3. CASE PromptRefused
      BY <1>7, <2>1, <2>3 DEF PromptRefused, Answers
    <2>4. CASE PlainRequestRefused
      BY <1>7, <2>1, <2>4 DEF PlainRequestRefused, Answers
    <2>5. CASE NothingToCancel
      BY <1>7, <2>1, <2>5 DEF NothingToCancel, Answers
    <2>6. CASE CodexUnavailable
      BY <1>7, <2>1, <2>6 DEF CodexUnavailable, Answers
    <2>7. CASE RunRefused
      BY <1>7, <2>1, <2>7 DEF RunRefused, Answers
    <2>8. CASE PatchRefused
      BY <1>7, <2>1, <2>8 DEF PatchRefused, Answers
    <2>9. QED
      BY <1>14, <2>2, <2>3, <2>4, <2>5, <2>6, <2>7, <2>8
  <1>15. ASSUME NEW t \in threads, ThreadEnd(t) PROVE Goal
    BY <1>15 DEF ThreadEnd, Ends, proposals, patch, disk
  <1>16. ASSUME NEW p \in Projects \cup {NoProject}, SetActiveContext(p) PROVE Goal
    BY <1>16 DEF SetActiveContext, Rests, request, life, proposals, patch, disk
  <1>17. ASSUME NEW what \in RequestClicks \cup CommandClicks \cup PatchClicks \cup Outside
                        \cup {"kMsgCancelRequest"}, Click(what)
         PROVE  Goal
    <2>1. [what |-> what, req |-> fPendingDiff.origin] \in Messages
      BY DEF TypeOK, PatchTypes, Messages
    <2>2. what \notin Answers
      BY DEF Answers, RequestClicks, CommandClicks, PatchClicks, Outside
    <2>3. UNCHANGED <<life, proposals>>
      BY <1>17 DEF Click, request, life, proposals, patch, disk
    <2>4. QED
      BY <1>17, <2>1, <2>2, <2>3 DEF Click, Posts
  <1>18. CASE UNCHANGED vars
    BY <1>18 DEF vars, request, life, proposals, patch, disk, Rests
  <1>19. QED
    BY <1>2, <1>3, <1>4, <1>5, <1>6, <1>8, <1>9, <1>10, <1>11, <1>12, <1>13, <1>14, <1>15,
       <1>16, <1>17, <1>18 DEF Next, Dispatch

-----------------------------------------------------------------------------
(* The inductive step, one kind at a time.                                 *)

LEMMA QueueStep ==
    ASSUME IInv, [Next]_vars, TypeOK'
    PROVE  OneAnswerEach' /\ IdleAcceptsNothing'
  <1> USE DEF IInv
  <1> DEFINE Goal == OneAnswerEach' /\ IdleAcceptsNothing'
  <1>t. fActiveRequestId \in Nat /\ DOMAIN inbox \subseteq Nat
    BY DEF TypeOK, RequestTypes
  <1>1. CASE Quiet
    BY <1>1, <1>t, TakeFacts
       DEF Quiet, life, OneAnswerEach, AnswerAt, IdleAcceptsNothing, UnderWay, IsCurrentRequest
  <1>s. ASSUME NEW what, Take(what)
        PROVE  /\ DOMAIN inbox' \subseteq Nat \ {0}
               /\ \A i \in DOMAIN inbox' : i + 1 \in DOMAIN inbox /\ inbox'[i] = inbox[i + 1]
               /\ 1 \in DOMAIN inbox /\ inbox[1] = Head(inbox)
    BY <1>s, TakeFacts
  <1>2. CASE Begins
    <2>1. PICK answer \in Answers : BeginRequest(answer)
      BY <1>2 DEF Begins
    <2>2. /\ fActiveRequestId' = fActiveRequestId + 1
          /\ threads' = threads \cup {[what |-> answer, req |-> fActiveRequestId + 1]}
          /\ fRequestRunning' = TRUE
      BY <2>1 DEF BeginRequest
    <2>3. \A i \in DOMAIN inbox' : i + 1 \in DOMAIN inbox /\ inbox'[i] = inbox[i + 1]
      BY <1>2, <1>s DEF Begins
    <2>4. DOMAIN inbox' \subseteq Nat
      BY <1>2, <1>s DEF Begins
    <2>5. OneAnswerEach'
      BY <1>t, <2>2, <2>3, <2>4 DEF OneAnswerEach, AnswerAt
    <2>6. QED
      BY <2>2, <2>5 DEF IdleAcceptsNothing
  <1>f. ASSUME NEW what, Take(what), UNCHANGED threads, fActiveRequestId' \in Nat,
               fActiveRequestId' >= fActiveRequestId
        PROVE  OneAnswerEach'
    BY <1>f, <1>t, <1>s DEF OneAnswerEach, AnswerAt
  <1>3. CASE Accepts
    <2>1. OneAnswerEach'
      BY <1>3, <1>f, <1>t DEF Accepts, FinishRequest
    <2>2. 1 \in DOMAIN inbox /\ AnswerAt(1) /\ inbox[1].req = fActiveRequestId
      BY <1>3, <1>s DEF Accepts, Take, IsCurrentRequest, AnswerAt
    <2>3. \A t \in threads' : t.req # fActiveRequestId
      BY <1>3, <2>2 DEF Accepts, FinishRequest, OneAnswerEach
    <2>4. \A i \in DOMAIN inbox' : inbox'[i].what \in Answers => inbox'[i].req # fActiveRequestId
      BY <1>3, <1>s, <2>2 DEF Accepts, OneAnswerEach, AnswerAt
    <2>5. QED
      BY <1>3, <2>1, <2>3, <2>4 DEF Accepts, IdleAcceptsNothing, UnderWay
  <1>4. CASE Cancels
    <2>1. OneAnswerEach'
      BY <1>4, <1>f, <1>t DEF Cancels, CancelRunning, FinishRequest
    <2>2. fActiveRequestId' = fActiveRequestId + 1 /\ threads' = threads
      BY <1>4 DEF Cancels, CancelRunning, FinishRequest
    <2>3. \A t \in threads' : t.req # fActiveRequestId'
      BY <1>t, <2>2 DEF OneAnswerEach
    <2>4. \A i \in DOMAIN inbox' : inbox'[i].what \in Answers => inbox'[i].req # fActiveRequestId'
      BY <1>4, <1>s, <1>t, <2>2 DEF Cancels, OneAnswerEach, AnswerAt
    <2>5. QED
      BY <2>1, <2>3, <2>4 DEF IdleAcceptsNothing, UnderWay
  <1>5. CASE Posts
    BY <1>5, <1>t, PostFacts
       DEF Posts, life, OneAnswerEach, AnswerAt, IdleAcceptsNothing, UnderWay
  <1>6. CASE Ends
    BY <1>6, <1>t, PostFacts
       DEF Ends, OneAnswerEach, AnswerAt, IdleAcceptsNothing, UnderWay, TypeOK, RequestTypes,
           Messages
  <1>7. CASE Rests
    BY <1>7 DEF Rests, life, OneAnswerEach, AnswerAt, IdleAcceptsNothing, UnderWay
  <1>8. QED
    BY <1>1, <1>2, <1>3, <1>4, <1>5, <1>6, <1>7, StepKinds

LEMMA TokenStep ==
    ASSUME IInv, [Next]_vars
    PROVE  TokenOfRunning' /\ OneLiveWorker'
  <1> USE DEF IInv, TokenOfRunning, OneLiveWorker
  <1>t. fActiveRequestId \in Nat
    BY DEF TypeOK, RequestTypes
  <1>1. CASE Quiet \/ Posts \/ Rests
    BY <1>1 DEF Quiet, Posts, Rests, life
  <1>2. CASE Begins
    BY <1>2, <1>t DEF Begins, BeginRequest
  <1>3. CASE Accepts
    <2>1. 1 \in DOMAIN inbox /\ AnswerAt(1) /\ inbox[1].req = fActiveRequestId
      BY <1>3, TakeFacts DEF Accepts, IsCurrentRequest, AnswerAt
    <2>2. \A t \in threads : t.req # fActiveRequestId
      BY <2>1 DEF OneAnswerEach
    <2>3. QED
      BY <1>3, <1>t, <2>2 DEF Accepts, FinishRequest
  <1>4. CASE Cancels
    BY <1>4, <1>t DEF Cancels, CancelRunning, FinishRequest
  <1>5. CASE Ends
    BY <1>5, <1>t DEF Ends
  <1>6. QED
    BY <1>1, <1>2, <1>3, <1>4, <1>5, StepKinds

LEMMA ProposalStep ==
    ASSUME IInv, [Next]_vars, TypeOK', TokenOfRunning'
    PROVE  ProposalsAreOver' /\ StoppedProposesNothing'
  <1> USE DEF IInv, ProposalsAreOver, Over, StoppedProposesNothing
  <1>t. /\ fActiveRequestId \in Nat /\ fPendingDiff.origin \in Nat
        /\ \A w \in audit \cup written : w[1] \in Nat
    BY DEF TypeOK, RequestTypes, PatchTypes, DiskTypes
  <1>1. CASE Posts \/ Rests \/ Ends
    BY <1>1, <1>t DEF Posts, Rests, Ends, life, proposals
  <1>2. CASE Quiet
    BY <1>2, <1>t DEF Quiet, life, KeepsProposals, Proposal, TokenOfRunning
  <1>3. CASE Begins
    BY <1>3, <1>t DEF Begins, BeginRequest, disk, TokenOfRunning
  <1>4. CASE Accepts
    BY <1>4, <1>t DEF Accepts, FinishRequest, TakesProposal, TokenOfRunning
  <1>5. CASE Cancels
    BY <1>5, <1>t DEF Cancels, CancelRunning, FinishRequest, proposals, TokenOfRunning
  <1>6. QED
    BY <1>1, <1>2, <1>3, <1>4, <1>5, StepKinds

(* The inductive invariant that the theorems below rest on.                *)
LEMMA Inductive == SafeSpec => []IInv
  <1>1. Init => IInv
    <2> SUFFICES ASSUME Init PROVE IInv
      OBVIOUS
    <2>1. TypeOK
      BY InitTypes
    <2>2. QED
      BY <2>1 DEF Init, IInv, OneAnswerEach, TokenOfRunning, ProposalsAreOver, Over, NoDiff,
        IdleAcceptsNothing, UnderWay, OneLiveWorker, StoppedProposesNothing
  <1>2. IInv /\ [Next]_vars => IInv'
    <2> SUFFICES ASSUME IInv, [Next]_vars PROVE IInv'
      OBVIOUS
    <2>1. TypeOK'
      BY TypeStep DEF IInv
    <2>2. TokenOfRunning' /\ OneLiveWorker'
      BY TokenStep
    <2>3. QED
      BY <2>1, <2>2, QueueStep, ProposalStep DEF IInv
  <1>3. QED
    BY <1>1, <1>2, PTL DEF SafeSpec

(* However the user stops and restarts requests, at most one worker has    *)
(* not been told to stop.                                                  *)
THEOREM OneWorker == SafeSpec => []OneLiveWorker
  BY Inductive, PTL DEF IInv

(* Nothing that a stopped request answers is ever pending, saved, written. *)
THEOREM StoppedIsInert == SafeSpec => []StoppedProposesNothing
  BY Inductive, PTL DEF IInv

(* An idle panel accepts no answer that is still on its way.               *)
THEOREM IdleIsDeaf == SafeSpec => []IdleAcceptsNothing
  BY Inductive, PTL DEF IInv

-----------------------------------------------------------------------------
(* The request life cycle never gets stuck: while a request runs, what     *)
(* will end it is still to come.                                           *)
LEMMA UnderWayStep ==
    ASSUME IInv, RunningIsUnderWay, [Next]_vars
    PROVE  RunningIsUnderWay'
  <1> SUFFICES ASSUME fRequestRunning' PROVE UnderWay(fActiveRequestId)'
    BY DEF RunningIsUnderWay
  <1>t. TypeOK
    BY DEF IInv
  <1>1. CASE Quiet
    <2>1. fRequestRunning /\ UNCHANGED <<fActiveRequestId, threads>>
      BY <1>1 DEF Quiet, life
    <2>2. CASE \E t \in threads : t.req = fActiveRequestId
      BY <2>1, <2>2 DEF UnderWay
    <2>3. CASE \E i \in DOMAIN inbox : inbox[i].what \in Answers /\ inbox[i].req = fActiveRequestId
      <3>1. PICK i \in DOMAIN inbox : inbox[i].what \in Answers /\ inbox[i].req = fActiveRequestId
        BY <2>3
      <3>2. i # 1
        BY <1>1, <1>t, <2>1, <3>1, TakeFacts DEF Quiet, IsCurrentRequest
      <3>3. i - 1 \in DOMAIN inbox' /\ inbox'[i - 1] = inbox[i]
        BY <1>1, <1>t, <3>1, <3>2, TakeFacts DEF Quiet
      <3>4. QED
        BY <2>1, <3>1, <3>3 DEF UnderWay
    <2>4. QED
      BY <2>1, <2>2, <2>3 DEF RunningIsUnderWay, UnderWay
  <1>2. CASE Begins
    <2>1. PICK answer \in Answers : BeginRequest(answer)
      BY <1>2 DEF Begins
    <2>2. [what |-> answer, req |-> fActiveRequestId + 1] \in threads'
      BY <2>1 DEF BeginRequest
    <2>3. fActiveRequestId' = fActiveRequestId + 1
      BY <2>1 DEF BeginRequest
    <2>4. QED
      BY <2>2, <2>3 DEF UnderWay
  <1>3. CASE Accepts \/ Cancels
    BY <1>3 DEF Accepts, Cancels, CancelRunning, FinishRequest
  <1>4. CASE Posts
    BY <1>4, <1>t, PostFacts DEF Posts, life, RunningIsUnderWay, UnderWay
  <1>5. CASE Ends
    <2>1. PICK t \in threads : /\ threads' = threads \ {t}
                               /\ inbox' = Append(inbox, [what |-> t.what, req |-> t.req])
      BY <1>5 DEF Ends
    <2>2. [what |-> t.what, req |-> t.req] \in Messages /\ t.what \in Answers
      BY <1>t DEF TypeOK, RequestTypes, Messages
    <2>3. fRequestRunning /\ UNCHANGED fActiveRequestId
      BY <1>5 DEF Ends
    <2>4. QED
      BY <1>t, <2>1, <2>2, <2>3, PostFacts DEF RunningIsUnderWay, UnderWay
  <1>6. CASE Rests
    BY <1>6 DEF Rests, life, RunningIsUnderWay, UnderWay
  <1>7. QED
    BY <1>t, <1>1, <1>2, <1>3, <1>4, <1>5, <1>6, StepKinds

(* While the panel says a request runs, its answer is on its way.          *)
THEOREM NeverStuck == SafeSpec => []RunningIsUnderWay
  <1>1. Init => RunningIsUnderWay
    BY DEF Init, RunningIsUnderWay
  <1>2. QED
    BY <1>1, UnderWayStep, Inductive, PTL DEF SafeSpec

(* A request is shown as running exactly as long as its answer is on its   *)
(* way, through any number of stops, restarts and late answers.            *)
THEOREM RunningFollowsAnswer == SafeSpec => []RunningIffUnderWay
  <1>1. RunningIsUnderWay /\ IdleAcceptsNothing => RunningIffUnderWay
    BY DEF RunningIffUnderWay
  <1>2. QED
    BY <1>1, IdleIsDeaf, NeverStuck, PTL

-----------------------------------------------------------------------------
(* The panel implements SupervisedAI.                                      *)

LEMMA RefinementStep ==
    ASSUME IInv, [Next]_vars
    PROVE  [Supervised!Next]_(Supervised!vars)
  <1> DEFINE live == IF fRequestRunning THEN fActiveRequestId ELSE 0
             numbers == {w[1] : w \in written}
             Goal == [Supervised!Next]_(Supervised!vars)
  <1> USE DEF IInv
  <1>t. fActiveRequestId \in Nat /\ fRequestRunning \in BOOLEAN
    BY DEF TypeOK, RequestTypes
  <1>1. CASE Posts \/ Ends \/ Rests
    <2>1. UNCHANGED <<fRequestRunning, fActiveRequestId, cancelled, fPendingDiff, written>>
      BY <1>1 DEF Posts, Ends, Rests, life, proposals
    <2>2. QED
      BY <2>1 DEF Supervised!vars
  <1>2. CASE Quiet
    <2>1. UNCHANGED <<fRequestRunning, fActiveRequestId, cancelled>>
      BY <1>2 DEF Quiet, life
    <2>2. fPendingDiff'.origin \in {fPendingDiff.origin, 0}
      BY <1>2 DEF Quiet, KeepsProposals
    <2>3. CASE UNCHANGED written
      BY <2>1, <2>2, <2>3 DEF Supervised!vars, Supervised!Next, Supervised!Discard
    <2>4. CASE HasPatch /\ written' = written \cup {Proposal}
      <3>1. {w[1] : w \in written'} = numbers \cup {fPendingDiff.origin}
        <4>1. Proposal[1] = fPendingDiff.origin
          BY DEF Proposal
        <4>2. QED
          BY <2>4, <4>1
      <3>2. Supervised!Write
        BY <2>1, <2>2, <2>4, <3>1 DEF HasPatch, Supervised!Write
      <3>3. QED
        BY <3>2 DEF Supervised!Next
    <2>5. QED
      BY <1>2, <2>3, <2>4 DEF Quiet, KeepsProposals
  <1>3. CASE Begins
    <2>1. /\ ~fRequestRunning /\ fRequestRunning'
          /\ fActiveRequestId' = fActiveRequestId + 1
          /\ UNCHANGED <<cancelled, written>>
          /\ fPendingDiff'.origin \in {fPendingDiff.origin, 0}
      BY <1>3 DEF Begins, BeginRequest, disk
    <2>2. Supervised!Start
      BY <1>t, <2>1 DEF Supervised!Start
    <2>3. QED
      BY <2>2 DEF Supervised!Next
  <1>4. CASE Accepts
    <2>1. fRequestRunning /\ fActiveRequestId # 0
      <3>1. 1 \in DOMAIN inbox /\ AnswerAt(1) /\ inbox[1].req = fActiveRequestId
        BY <1>4, TakeFacts DEF Accepts, IsCurrentRequest, AnswerAt
      <3>2. QED
        BY <1>t, <3>1 DEF IdleAcceptsNothing, UnderWay, OneAnswerEach, AnswerAt
    <2>2. /\ ~fRequestRunning' /\ UNCHANGED <<fActiveRequestId, cancelled, written>>
          /\ fPendingDiff'.origin \in {fPendingDiff.origin, fActiveRequestId}
      BY <1>4 DEF Accepts, FinishRequest, TakesProposal
    <2>3. Supervised!Answer
      BY <2>1, <2>2 DEF Supervised!Answer
    <2>4. QED
      BY <2>3 DEF Supervised!Next
  <1>5. CASE Cancels
    <2>1. /\ fRequestRunning /\ ~fRequestRunning'
          /\ fActiveRequestId > 0 /\ fActiveRequestId' = fActiveRequestId + 1
          /\ cancelled' = cancelled \cup {fActiveRequestId}
          /\ UNCHANGED <<fPendingDiff, written>>
      BY <1>5, <1>t DEF Cancels, CancelRunning, FinishRequest, TokenOfRunning, proposals
    <2>2. Supervised!Stop
      BY <1>t, <2>1 DEF Supervised!Stop
    <2>3. QED
      BY <2>2 DEF Supervised!Next
  <1>6. QED
    BY <1>1, <1>2, <1>3, <1>4, <1>5, StepKinds

(* One request at a time, nothing from stopped requests, and only the      *)
(* pending proposal written: for every behaviour of the panel.             *)
THEOREM Refines == SafeSpec => ImplementsPromise
  <1>1. Init => Supervised!Init
    BY DEF Init, NoDiff, Supervised!Init
  <1>2. IInv /\ [Next]_vars => [Supervised!Next]_(Supervised!vars)
    BY RefinementStep
  <1>3. QED
    BY <1>1, <1>2, Inductive, PTL DEF SafeSpec, Supervised!SafeSpec, ImplementsPromise

-----------------------------------------------------------------------------
(* ProcessCapture.                                                         *)

(* The child is not waited for while Run may still send it a signal.       *)
Unreaped == pc \in {"read", "wait", "look", "grace", "kill"} => child # "reaped"

Reaped == pc \in {"drain", "close", "returned"} => child = "reaped"

(* What the child wrote is in the output or in the pipe, or the output is  *)
(* full; the pipe is given up only by a run that was stopped.              *)
NothingDropped == output >= maxOutputBytes \/ output + pipe >= sent

Drained ==
    pc \in {"close", "returned"} /\ ~wasCancelled /\ ~timedOut =>
        output >= maxOutputBytes \/ output >= sent

Verdict == pc \in {"grace", "kill", "reap"} => wasCancelled \/ timedOut

CaptureInv ==
    CaptureTypeOK /\ Unreaped /\ Reaped /\ NothingDropped /\ Drained /\ Verdict

(* The smaller of two numbers is one of them, and not above the other.     *)
LEMMA SmallerFact ==
    ASSUME NEW m \in Nat, NEW n \in Nat
    PROVE  /\ Smaller(m, n) \in Nat
           /\ Smaller(m, n) <= m /\ Smaller(m, n) <= n
           /\ Smaller(m, n) = m \/ Smaller(m, n) = n
  BY DEF Smaller

(* One read takes some of the pipe, and drops nothing while there is room. *)
LEMMA AppendFact ==
    ASSUME CaptureTypeOK, NothingDropped, AppendOutput
    PROVE  /\ output' \in 0..maxOutputBytes
           /\ pipe' \in 0..PipeSize
           /\ output' >= maxOutputBytes \/ output' + pipe' >= sent
  <1> USE CaptureAssumption
  <1> DEFINE count == Smaller(pipe, BufferSize)
  <1>1. count \in Nat /\ count <= pipe /\ count > 0
    BY SmallerFact DEF AppendOutput, CaptureTypeOK
  <1>2. pipe' = pipe - count /\ output' = Smaller(output + count, maxOutputBytes)
    BY DEF AppendOutput
  <1> HIDE DEF count
  <1>3. /\ output' \in Nat /\ output' <= maxOutputBytes
        /\ output' = output + count \/ output' = maxOutputBytes
    BY <1>1, <1>2, SmallerFact DEF CaptureTypeOK
  <1>4. QED
    BY <1>1, <1>2, <1>3 DEF CaptureTypeOK, NothingDropped

LEMMA CaptureInitInv == CaptureInit => CaptureInv
  <1> SUFFICES ASSUME CaptureInit
               PROVE  CaptureInv
    OBVIOUS
  <1>1. /\ output \in 0..maxOutputBytes
        /\ pipe \in 0..PipeSize
        /\ sent \in 0..MaxSent /\ stray \in 0..MaxStray
    BY CaptureAssumption DEF CaptureInit
  <1>2. NothingDropped
    BY CaptureAssumption DEF CaptureInit, NothingDropped
  <1>3. CaptureTypeOK
    BY <1>1 DEF CaptureInit, CaptureTypeOK
  <1>4. Unreaped /\ Reaped /\ Drained /\ Verdict
    BY DEF CaptureInit, Unreaped, Reaped, Drained, Verdict
  <1>5. QED
    BY <1>2, <1>3, <1>4 DEF CaptureInv

LEMMA CaptureNextInv == CaptureInv /\ [CaptureNext]_captureVars => CaptureInv'
  <1> SUFFICES ASSUME CaptureInv, [CaptureNext]_captureVars
               PROVE  CaptureInv'
    OBVIOUS
  <1> USE CaptureAssumption DEF CaptureInv
  <1>1. CASE ChildWrites
    BY <1>1 DEF ChildWrites, CaptureTypeOK, Unreaped, Reaped, NothingDropped, Drained,
                Verdict, clock
  <1>2. CASE DescendantWrites
    BY <1>2 DEF DescendantWrites, CaptureTypeOK, Unreaped, Reaped, NothingDropped, Drained,
                Verdict, clock
  <1>3. ASSUME NEW how \in {"success", "failure"}, ChildExits(how)
        PROVE  CaptureInv'
    BY <1>3 DEF ChildExits, CaptureTypeOK, Unreaped, Reaped, NothingDropped, Drained,
                Verdict, clock
  <1>4. CASE ChildKilled
    BY <1>4 DEF ChildKilled, CaptureTypeOK, Unreaped, Reaped, NothingDropped, Drained,
                Verdict, clock
  <1>5. CASE Stop \/ Expire
    <2>1. /\ UNCHANGED <<pc, output, wasCancelled, timedOut, process, signals, pipe>>
          /\ stopped' \in BOOLEAN /\ expired' \in BOOLEAN
      BY <1>5 DEF Stop, Expire, CaptureTypeOK
    <2>2. CaptureTypeOK'
      BY <2>1 DEF CaptureTypeOK, process
    <2>3. (Unreaped /\ Reaped /\ NothingDropped /\ Drained /\ Verdict)'
      BY <2>1 DEF Unreaped, Reaped, NothingDropped, Drained, Verdict, process
    <2>4. QED
      BY <2>2, <2>3
  <1>6. CASE Read
    <2>1. CASE AppendOutput /\ UNCHANGED pc
      BY <1>6, <2>1, AppendFact
      DEF Read, CaptureTypeOK, Unreaped, Reaped, NothingDropped, Drained, Verdict, process, clock
    <2>2. CASE pipe = 0 /\ pc' = "wait" /\ UNCHANGED <<pipe, output>>
      BY <1>6, <2>2
      DEF Read, CaptureTypeOK, Unreaped, Reaped, NothingDropped, Drained, Verdict, process, clock
    <2>3. QED
      BY <1>6, <2>1, <2>2 DEF Read
  <1>7. CASE Wait
    BY <1>7 DEF Wait, Reap, CaptureTypeOK, Unreaped, Reaped, NothingDropped, Drained,
                Verdict, process, clock
  <1>8. CASE Drain
    <2>1. CASE AppendOutput /\ UNCHANGED pc
      BY <1>8, <2>1, AppendFact
      DEF Drain, CaptureTypeOK, Unreaped, Reaped, NothingDropped, Drained, Verdict, process, clock
    <2>2. CASE pipe = 0 /\ pc' = "close" /\ UNCHANGED <<pipe, output>>
      BY <1>8, <2>2
      DEF Drain, CaptureTypeOK, Unreaped, Reaped, NothingDropped, Drained, Verdict, process, clock
    <2>3. QED
      BY <1>8, <2>1, <2>2 DEF Drain
  <1>9. CASE Look
    BY <1>9 DEF Look, CaptureTypeOK, Unreaped, Reaped, NothingDropped, Drained, Verdict,
                process, clock
  <1>10. CASE Grace
    BY <1>10 DEF Grace, Reap, CaptureTypeOK, Unreaped, Reaped, NothingDropped, Drained,
                 Verdict, process, clock
  <1>11. CASE Kill
    BY <1>11 DEF Kill, CaptureTypeOK, Unreaped, Reaped, NothingDropped, Drained, Verdict,
                 process, clock
  <1>12. CASE FinalWait
    BY <1>12 DEF FinalWait, Reap, CaptureTypeOK, Unreaped, Reaped, NothingDropped, Drained,
                 Verdict, process, clock
  <1>13. CASE Close
    BY <1>13 DEF Close, CaptureTypeOK, Unreaped, Reaped, NothingDropped, Drained, Verdict,
                 process, clock
  <1>14. CASE UNCHANGED captureVars
    BY <1>14 DEF captureVars, CaptureTypeOK, Unreaped, Reaped, NothingDropped, Drained, Verdict,
                 process, clock
  <1>15. QED
    BY <1>1, <1>2, <1>3, <1>4, <1>5, <1>6, <1>7, <1>8, <1>9, <1>10, <1>11, <1>12,
       <1>13, <1>14 DEF CaptureNext, Run

LEMMA CaptureInductive == SafeCaptureSpec => []CaptureInv
  BY CaptureInitInv, CaptureNextInv, PTL DEF SafeCaptureSpec

(* Output, pipe and child stay within their bounds: AppendOutput never     *)
(* grows the output past its limit, whatever is read or drained.           *)
THEOREM CaptureTypeCorrect == SafeCaptureSpec => []CaptureTypeOK
  <1>1. CaptureInv => CaptureTypeOK
    BY DEF CaptureInv
  <1>2. QED
    BY CaptureInductive, <1>1, PTL

(* A run reported as exited has all of the child's output, up to the       *)
(* limit: what Drain reads after the exit closes the gap between the last  *)
(* read of the loop and the exit.                                          *)
THEOREM CompleteOutput == SafeCaptureSpec => []OutputComplete
  <1>1. CaptureInv => OutputComplete
    BY CaptureAssumption, SmallerFact DEF CaptureInv, CaptureTypeOK, Drained, OutputComplete
  <1>2. QED
    BY CaptureInductive, <1>1, PTL

(* However Run ends, the child is dead and waited for.                     *)
THEOREM NoZombies == SafeCaptureSpec => []NoChildLeft
  <1>1. CaptureInv => NoChildLeft
    BY DEF CaptureInv, Reaped, NoChildLeft
  <1>2. QED
    BY CaptureInductive, <1>1, PTL

(* SIGTERM and SIGKILL are sent only to a child not yet waited for, whose  *)
(* process id cannot have been given to another process.                   *)
THEOREM OwnChildOnly == SafeCaptureSpec => SignalsOnlyOwnChild
  <1>1. CaptureInv /\ [CaptureNext]_captureVars => [signals' # signals => child # "reaped"]_captureVars
    <2> SUFFICES ASSUME CaptureInv, CaptureNext, signals' # signals
                 PROVE  child # "reaped"
      OBVIOUS
    <2>1. pc \in {"look", "kill"}
      BY DEF CaptureNext, Run, ChildWrites, DescendantWrites, ChildExits, ChildKilled, Stop,
             Expire, Read, Wait, Drain, Look, Grace, Kill, FinalWait, Close
    <2>2. QED
      BY <2>1 DEF CaptureInv, Unreaped
  <1>2. QED
    BY CaptureInductive, <1>1, PTL DEF SafeCaptureSpec, SignalsOnlyOwnChild
=============================================================================

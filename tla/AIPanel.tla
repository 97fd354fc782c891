------------------------------ MODULE AIPanel ------------------------------
(***************************************************************************)
(* The request life cycle of the Haikode AI panel (ui/AIChatPanel.cpp).    *)
(*                                                                         *)
(* The panel is a BView: every handler runs to completion in the looper    *)
(* thread of the Genio window, which takes the messages of one FIFO queue. *)
(* Network and process work runs in detached std::threads that share       *)
(* nothing with the panel but a cancellation token and answer by posting   *)
(* one message that carries the id of the request they serve.  A click     *)
(* posts a message too, and only an enabled button can be clicked, but the *)
(* message is handled later, after everything queued before it: the state  *)
(* the user looked at may be gone by then.                                 *)
(*                                                                         *)
(* What a provider answers, whether the configured provider is ready, and  *)
(* whether a file operation succeeds are chosen by the environment.        *)
(* Message and field names are those of the source.                        *)
(***************************************************************************)
EXTENDS Integers, Sequences, FiniteSets

CONSTANTS
    Projects,       \* project roots that can be active
    NoProject,      \* the empty fProjectRoot / fSavedPendingPatchPath
    SaveOutcomes,   \* whether saving a patch file can succeed, and can fail
    MaxHunks,       \* bound: hunks of one proposed diff
    MaxCommands,    \* bound: pending commands when a Codex button is clicked
    MaxQueue,       \* bound: messages waiting when a click is posted
    MaxRequests     \* bound: request ids handed out

ASSUME ProjectsAssumption == NoProject \notin Projects
ASSUME BoundsAssumption ==
    /\ SaveOutcomes \subseteq BOOLEAN
    /\ MaxHunks \in Nat /\ MaxCommands \in Nat
    /\ MaxQueue \in Nat /\ MaxRequests \in Nat

VARIABLES
    fRequestRunning, fActiveRequestId, fActiveCancellation,
    cancelled,              \* requests whose CancellationToken was cancelled
    threads,                \* detached worker threads still at work
    inbox,                  \* message queue of the window's looper
    fPendingDiff, fSavedPendingPatchPath, fPendingCommands,
    fProjectRoot,
    requestControls,        \* the buttons that start requests (Stop is the reverse)
    commandControls,        \* Run command / Reject command
    patchControls,          \* Apply, Reject and Review of the pending patch
    audit,                  \* <<proposal, project>>: a file in .haikode/patches
    written                 \* <<proposal, project>>: hunks written into a project

request == <<fRequestRunning, fActiveRequestId, fActiveCancellation, cancelled,
             threads, requestControls>>
patch == <<fPendingDiff, fSavedPendingPatchPath, patchControls>>
commands == <<fPendingCommands, commandControls>>
disk == <<audit, written>>
vars == <<request, patch, commands, disk, inbox, fProjectRoot>>

-----------------------------------------------------------------------------

NoDiff == [origin |-> 0, left |-> 0]        \* an empty UnifiedDiff
HasPatch == fPendingDiff.origin # 0         \* !fPendingDiff.IsEmpty()

(* argv: runnable; codex: read-only Codex ask; shell: only to acknowledge. *)
CommandKinds == {"argv", "codex", "shell"}

(* What a worker thread posts when it is done: one per kind of request.    *)
Answers == {"kMsgAIResponse", "kMsgTestProviderResponse", "kMsgOAuthResponse",
            "kMsgCodexCaptureResponse", "kMsgCommandCaptureResponse"}

RequestClicks == {"kMsgAsk", "kMsgTestProvider", "kMsgExchangeOAuth",
                  "kMsgCodexAsk", "kMsgCodexStatus"}
CommandClicks == {"kMsgRunCommand", "kMsgRejectCommand"}
PatchClicks == {"kMsgReviewPatch", "kMsgApplyPatch", "kMsgApplyPart",
                "kMsgRejectPart", "kMsgRejectPatch"}
(* Posted by the setup window and by the OAuth listener, at any time.      *)
Outside == {"kMsgSetupSaved", "kMsgOAuthCallback"}

(* In a message, req is the request answered; in a click, the proposal     *)
(* that was pending when the user clicked.                                 *)
Messages == [what : Answers \cup RequestClicks \cup CommandClicks
                      \cup PatchClicks \cup Outside \cup {"kMsgCancelRequest"},
             req : Nat]

Init ==
    /\ fRequestRunning = FALSE
    /\ fActiveRequestId = 0
    /\ fActiveCancellation = 0
    /\ cancelled = {}
    /\ threads = {}
    /\ inbox = <<>>
    /\ fPendingDiff = NoDiff
    /\ fSavedPendingPatchPath = NoProject
    /\ fPendingCommands = <<>>
    /\ fProjectRoot = NoProject
    /\ requestControls = TRUE
    /\ commandControls = FALSE
    /\ patchControls = FALSE
    /\ audit = {}
    /\ written = {}

-----------------------------------------------------------------------------
(* The outside world.                                                      *)

Enabled(what) ==
    \/ what \in Outside
    \/ what \in RequestClicks /\ requestControls
    \/ what = "kMsgCancelRequest" /\ ~requestControls
    \/ what \in CommandClicks /\ commandControls
    \/ what \in PatchClicks /\ patchControls

(* An enabled button posts its message.                                    *)
Click(what) ==
    /\ Enabled(what)
    /\ Len(inbox) < MaxQueue
    /\ fActiveRequestId + Len(inbox) < MaxRequests
    /\ what \in {"kMsgCodexAsk", "kMsgCodexStatus"} =>
           Len(fPendingCommands) + Len(inbox) < MaxCommands
    /\ inbox' = Append(inbox, [what |-> what, req |-> fPendingDiff.origin])
    /\ UNCHANGED <<request, patch, commands, disk, fProjectRoot>>

(* A worker thread ends, cancelled or not, by posting its one answer.      *)
ThreadEnd(t) ==
    /\ t \in threads
    /\ threads' = threads \ {t}
    /\ inbox' = Append(inbox, [what |-> t.what, req |-> t.req])
    /\ UNCHANGED <<fRequestRunning, fActiveRequestId, fActiveCancellation, cancelled,
                   requestControls, patch, commands, disk, fProjectRoot>>

(* The window activates, opens or closes a project, within one of its own  *)
(* handlers.                                                               *)
SetActiveContext(p) ==
    /\ p # fProjectRoot
    /\ fProjectRoot' = p
    /\ UNCHANGED <<request, patch, commands, disk, inbox>>

-----------------------------------------------------------------------------
(* Pieces of handlers.                                                     *)

Take(what) ==
    /\ inbox # <<>>
    /\ Head(inbox).what \in what
    /\ inbox' = Tail(inbox)

BeginRequest(answer) ==
    /\ fRequestRunning' = TRUE
    /\ fActiveRequestId' = fActiveRequestId + 1
    /\ fActiveCancellation' = fActiveRequestId + 1
    /\ requestControls' = FALSE
    /\ commandControls' = FALSE
    /\ threads' = threads \cup {[what |-> answer, req |-> fActiveRequestId + 1]}
    /\ UNCHANGED cancelled

(* Faults for the runs: the flag is not reset; the command buttons are     *)
(* enabled without a command.                                              *)
FinishRequestKeepsFlag ==
    /\ fActiveCancellation' = 0
    /\ requestControls' = TRUE
    /\ commandControls' = (fPendingCommands' # <<>>)
    /\ UNCHANGED <<fRequestRunning, threads>>
FinishRequest ==
    /\ fRequestRunning' = FALSE
    /\ fActiveCancellation' = 0
    /\ requestControls' = TRUE
    /\ commandControls' = (fPendingCommands' # <<>>)
    /\ UNCHANGED threads

(* Faults: Stop leaves the id, or does not cancel the token.               *)
CancelKeepsId ==
    /\ UNCHANGED fActiveRequestId
    /\ cancelled' = cancelled \cup ({fActiveCancellation} \ {0})
    /\ FinishRequest
CancelSkipsToken ==
    /\ fActiveRequestId' = fActiveRequestId + 1
    /\ UNCHANGED cancelled
    /\ FinishRequest

(* Stop bumps the id as well, so that the answer still to come is stale.   *)
CancelRunning ==
    /\ fActiveRequestId' = fActiveRequestId + 1
    /\ cancelled' = cancelled \cup ({fActiveCancellation} \ {0})
    /\ FinishRequest

AnyRequest == TRUE      \* fault: answers are not compared with the active id
IsCurrentRequest == Head(inbox).req = fActiveRequestId

ClearPatch ==
    /\ fPendingDiff' = NoDiff
    /\ fSavedPendingPatchPath' = NoProject
    /\ patchControls' = FALSE

(* n hunks of the pending diff are dealt with: applied or rejected.        *)
RemoveHunks(n) ==
    \/ n = fPendingDiff.left /\ ClearPatch
    \/ /\ n < fPendingDiff.left
       /\ fPendingDiff' = [fPendingDiff EXCEPT !.left = @ - n]
       /\ patchControls' = TRUE
       /\ UNCHANGED fSavedPendingPatchPath

SetCommands(list) ==
    /\ fPendingCommands' = list
    /\ commandControls' = (list # <<>>)

Ignore == UNCHANGED <<request, patch, commands, disk, fProjectRoot>>

-----------------------------------------------------------------------------
(* Prompts.                                                                *)

(* Fault: the prompt does not check that no request runs.                  *)
SendPromptUnguarded(review) ==
    /\ BeginRequest("kMsgAIResponse")
    /\ patchControls' = FALSE
    /\ fPendingDiff' = (IF review THEN fPendingDiff ELSE NoDiff)
    /\ fSavedPendingPatchPath' = (IF review THEN fSavedPendingPatchPath ELSE NoProject)
    /\ fPendingCommands' = <<>>
    /\ UNCHANGED <<disk, fProjectRoot>>

(* _SendPrompt once the provider is ready: a review keeps the pending      *)
(* patch, any other prompt drops it; pending commands go either way.       *)
SendPrompt(review) ==
    /\ ~fRequestRunning
    /\ BeginRequest("kMsgAIResponse")
    /\ patchControls' = FALSE
    /\ \/ review /\ UNCHANGED <<fPendingDiff, fSavedPendingPatchPath>>
       \/ /\ ~review
          /\ fPendingDiff' = NoDiff
          /\ fSavedPendingPatchPath' = NoProject
    /\ fPendingCommands' = <<>>
    /\ UNCHANGED <<disk, fProjectRoot>>

Ask ==
    /\ Take({"kMsgAsk"})
    /\ SendPrompt(FALSE)

ReviewPatch ==
    /\ Take({"kMsgReviewPatch"})
    /\ HasPatch
    /\ SendPrompt(TRUE)

(* A request runs already, there is nothing to review, or the provider is  *)
(* not ready: the panel only prints a line.                                *)
PromptRefused ==
    /\ Take({"kMsgAsk", "kMsgReviewPatch"})
    /\ Ignore

(* Provider test and OAuth code exchange, from the panel or from the setup *)
(* window, which asks for either.                                          *)
StartPlainRequest ==
    /\ \/ Take({"kMsgTestProvider", "kMsgSetupSaved"})
          /\ BeginRequest("kMsgTestProviderResponse")
       \/ Take({"kMsgExchangeOAuth", "kMsgOAuthCallback", "kMsgSetupSaved"})
          /\ BeginRequest("kMsgOAuthResponse")
    /\ ~fRequestRunning
    /\ UNCHANGED <<patch, fPendingCommands, disk, fProjectRoot>>

PlainRequestRefused ==
    /\ Take({"kMsgTestProvider", "kMsgExchangeOAuth", "kMsgOAuthCallback",
             "kMsgSetupSaved"})
    /\ Ignore

-----------------------------------------------------------------------------
(* Answers.                                                                *)

StaleAnswer ==
    /\ Take(Answers)
    /\ ~IsCurrentRequest
    /\ Ignore

(* The failing ends of all five Finish handlers, and the whole of          *)
(* _FinishProviderTest, _FinishOAuthExchange and _FinishCommandCapture.    *)
AnswerWithoutProposal ==
    /\ Take(Answers)
    /\ IsCurrentRequest
    /\ UNCHANGED fPendingCommands
    /\ FinishRequest
    /\ UNCHANGED <<fActiveRequestId, cancelled, patch, disk, fProjectRoot>>

(* Fault: the patch is saved although no project is active.                *)
TakeProposalAnywhere(hunks, saved) ==
    /\ fPendingDiff' = [origin |-> Head(inbox).req, left |-> hunks]
    /\ patchControls' = TRUE
    /\ fSavedPendingPatchPath' = fProjectRoot
    /\ audit' = audit \cup {<<Head(inbox).req, fProjectRoot>>}

(* A diff was found in the answer: it replaces the pending one, and is     *)
(* saved in the project that is active now, if there is one.               *)
TakeProposal(hunks, saved) ==
    /\ fPendingDiff' = [origin |-> Head(inbox).req, left |-> hunks]
    /\ patchControls' = TRUE
    /\ \/ /\ saved /\ fProjectRoot # NoProject
          /\ fSavedPendingPatchPath' = fProjectRoot
          /\ audit' = audit \cup {<<Head(inbox).req, fProjectRoot>>}
       \/ /\ ~saved \/ fProjectRoot = NoProject
          /\ fSavedPendingPatchPath' = NoProject
          /\ UNCHANGED audit

KeepProposal ==
    /\ patchControls' = (patchControls \/ HasPatch)
    /\ UNCHANGED <<fPendingDiff, fSavedPendingPatchPath, audit>>

(* _FinishResponse on success, for a prompt or a Codex run.                *)
FinishResponse ==
    /\ Take({"kMsgAIResponse", "kMsgCodexCaptureResponse"})
    /\ IsCurrentRequest
    /\ \/ KeepProposal
       \/ \E hunks \in 1..MaxHunks, saved \in SaveOutcomes : TakeProposal(hunks, saved)
    /\ \/ UNCHANGED fPendingCommands
       \/ \E kind \in CommandKinds : fPendingCommands' = <<kind>>
    /\ FinishRequest
    /\ UNCHANGED <<fActiveRequestId, cancelled, written, fProjectRoot>>

CancelRequest ==
    /\ Take({"kMsgCancelRequest"})
    /\ fRequestRunning
    /\ UNCHANGED fPendingCommands
    /\ CancelRunning
    /\ UNCHANGED <<patch, disk, fProjectRoot>>

NothingToCancel ==
    /\ Take({"kMsgCancelRequest"})
    /\ ~fRequestRunning
    /\ Ignore

-----------------------------------------------------------------------------
(* Pending commands.                                                       *)

QueueCodexCommand ==
    /\ \/ Take({"kMsgCodexAsk"}) /\ fProjectRoot # NoProject
          /\ SetCommands(Append(fPendingCommands, "codex"))
       \/ Take({"kMsgCodexStatus"})
          /\ SetCommands(Append(fPendingCommands, "argv"))
    /\ UNCHANGED <<request, patch, disk, fProjectRoot>>

CodexUnavailable ==
    /\ Take({"kMsgCodexAsk", "kMsgCodexStatus"})
    /\ Ignore

(* _RunPendingCommand: the alert is modal, nothing else is dispatched      *)
(* between its question and what follows the user's consent.               *)
RunPendingCommand ==
    /\ Take({"kMsgRunCommand"})
    /\ fPendingCommands # <<>>
    /\ ~fRequestRunning
    /\ fProjectRoot # NoProject
    /\ \/ /\ Head(fPendingCommands) = "shell"
          /\ SetCommands(Tail(fPendingCommands))
          /\ UNCHANGED request
       \/ /\ Head(fPendingCommands) = "codex"
          /\ fPendingCommands' = Tail(fPendingCommands)
          /\ BeginRequest("kMsgCodexCaptureResponse")
       \/ /\ Head(fPendingCommands) = "argv"
          /\ fPendingCommands' = Tail(fPendingCommands)
          /\ BeginRequest("kMsgCommandCaptureResponse")
    /\ UNCHANGED <<patch, disk, fProjectRoot>>

(* Nothing pending, a request running, no project, or "Cancel" in the      *)
(* alert.                                                                  *)
RunRefused ==
    /\ Take({"kMsgRunCommand"})
    /\ Ignore

RejectPendingCommand ==
    /\ Take({"kMsgRejectCommand"})
    /\ \/ fPendingCommands = <<>> /\ UNCHANGED commands
       \/ fPendingCommands # <<>> /\ SetCommands(Tail(fPendingCommands))
    /\ UNCHANGED <<request, patch, disk, fProjectRoot>>

-----------------------------------------------------------------------------
(* The pending patch.                                                      *)

Proposal == <<fPendingDiff.origin, fProjectRoot>>

(* _ApplyPendingDiff: an unsaved patch is saved first.                     *)
ApplyPatch ==
    /\ Take({"kMsgApplyPatch"})
    /\ HasPatch
    /\ fProjectRoot # NoProject
    /\ audit' = IF fSavedPendingPatchPath = NoProject
                THEN audit \cup {Proposal} ELSE audit
    /\ written' = written \cup {Proposal}
    /\ ClearPatch
    /\ UNCHANGED <<request, commands, fProjectRoot>>

(* Apply failed at some file, and earlier files of the diff may have been  *)
(* written by then: the diff stays pending as it was.                      *)
ApplyPatchFailed ==
    /\ Take({"kMsgApplyPatch"})
    /\ HasPatch
    /\ fProjectRoot # NoProject
    /\ audit' = IF fSavedPendingPatchPath = NoProject
                THEN audit \cup {Proposal} ELSE audit
    /\ written' \in {written, written \cup {Proposal}}
    /\ UNCHANGED <<request, patch, commands, fProjectRoot>>

(* _ApplyFirstPendingFile and _ApplySelectedPendingHunk.  ApplyFile takes  *)
(* one entry of the diff and ApplyHunk one hunk: the write of that file is *)
(* the last thing that can fail, and it fails only before it has begun, so *)
(* that a call that returns false (PatchRefused) has written nothing.      *)
ApplyPart ==
    /\ Take({"kMsgApplyPart"})
    /\ HasPatch
    /\ fProjectRoot # NoProject
    /\ \E n \in 1..fPendingDiff.left : RemoveHunks(n)
    /\ written' = written \cup {Proposal}
    /\ UNCHANGED <<request, commands, audit, fProjectRoot>>

(* _RejectFirstPendingFile and _RejectSelectedPendingHunk.                 *)
RejectPart ==
    /\ Take({"kMsgRejectPart"})
    /\ HasPatch
    /\ \E n \in 1..fPendingDiff.left : RemoveHunks(n)
    /\ UNCHANGED <<request, commands, disk, fProjectRoot>>

RejectPatch ==
    /\ Take({"kMsgRejectPatch"})
    /\ ClearPatch
    /\ UNCHANGED <<request, commands, disk, fProjectRoot>>

(* Nothing pending, no project, the patch cannot be saved, or the selected *)
(* file or hunk does not apply.                                            *)
PatchRefused ==
    /\ Take({"kMsgApplyPatch", "kMsgApplyPart", "kMsgRejectPart"})
    /\ Ignore

-----------------------------------------------------------------------------

Dispatch ==
    \/ Ask \/ ReviewPatch \/ PromptRefused
    \/ StartPlainRequest \/ PlainRequestRefused
    \/ StaleAnswer \/ AnswerWithoutProposal \/ FinishResponse
    \/ CancelRequest \/ NothingToCancel
    \/ QueueCodexCommand \/ CodexUnavailable
    \/ RunPendingCommand \/ RunRefused \/ RejectPendingCommand
    \/ ApplyPatch \/ ApplyPatchFailed \/ ApplyPart
    \/ RejectPart \/ RejectPatch \/ PatchRefused

Next ==
    \/ Dispatch
    \/ \E t \in threads : ThreadEnd(t)
    \/ \E p \in Projects \cup {NoProject} : SetActiveContext(p)
    \/ \E what \in RequestClicks \cup CommandClicks \cup PatchClicks \cup Outside
                     \cup {"kMsgCancelRequest"} : Click(what)

SafeSpec == Init /\ [][Next]_vars

(* Workers that end by themselves: curl gives a prompt and a provider test *)
(* 120 seconds, and asks the token of any transfer whether it was          *)
(* cancelled.  A code exchange has no timeout, and a captured process is   *)
(* only timed out, or stopped, while it writes nothing (ProcessCapture).   *)
Timed == {"kMsgAIResponse", "kMsgTestProviderResponse"}
EndsByItself(t) ==
    t.what \in Timed \/ (t.what = "kMsgOAuthResponse" /\ t.req \in cancelled)

(* The looper dispatches what is queued.  Users owe nothing.               *)
Spec ==
    /\ SafeSpec
    /\ WF_vars(Dispatch)
    /\ WF_vars(\E t \in threads : EndsByItself(t) /\ ThreadEnd(t))

-----------------------------------------------------------------------------

RequestTypes ==
    /\ fRequestRunning \in BOOLEAN
    /\ fActiveRequestId \in Nat
    /\ fActiveCancellation \in Nat
    /\ cancelled \subseteq Nat
    /\ threads \subseteq [what : Answers, req : Nat]
    /\ requestControls \in BOOLEAN

PatchTypes ==
    /\ fPendingDiff \in [origin : Nat, left : Nat]
    /\ fSavedPendingPatchPath \in Projects \cup {NoProject}
    /\ patchControls \in BOOLEAN

CommandTypes ==
    /\ fPendingCommands \in Seq(CommandKinds)
    /\ commandControls \in BOOLEAN

DiskTypes ==
    /\ audit \subseteq Nat \X Projects
    /\ written \subseteq Nat \X Projects

TypeOK ==
    /\ RequestTypes
    /\ PatchTypes
    /\ CommandTypes
    /\ DiskTypes
    /\ inbox \in Seq(Messages)
    /\ fProjectRoot \in Projects \cup {NoProject}

(* The request an answer on its way belongs to: still computed or queued.  *)
UnderWay(r) ==
    \/ \E t \in threads : t.req = r
    \/ \E i \in DOMAIN inbox : inbox[i].what \in Answers /\ inbox[i].req = r

(* While the panel says a request runs, the answer that will end it is     *)
(* really on its way: the buttons it disabled cannot stay so for ever.     *)
RunningIsUnderWay == fRequestRunning => UnderWay(fActiveRequestId)

(* While it says that none runs, no answer on its way is accepted as       *)
(* current when it comes, whatever was stopped and restarted.              *)
IdleAcceptsNothing == ~fRequestRunning => ~UnderWay(fActiveRequestId)

(* Both: a request is shown as running exactly as long as its answer is on *)
(* its way, so that the panel neither stays disabled for ever nor takes a  *)
(* late answer, whatever was stopped and started in between.               *)
RunningIffUnderWay == RunningIsUnderWay /\ IdleAcceptsNothing

(* Of all worker threads, those of stopped requests included, at most one  *)
(* has not been told to stop: the one of the running request.              *)
OneLiveWorker ==
    \A t \in threads :
        t.req \in cancelled \/ (fRequestRunning /\ t.req = fActiveRequestId)

(* A diff that came from a request the user stopped is never pending,      *)
(* saved or written ("ignore any late provider responses").                *)
StoppedProposesNothing ==
    /\ fPendingDiff.origin \notin cancelled
    /\ \A w \in audit \cup written : w[1] \notin cancelled

(* A prompt or provider test comes to an end even if nobody stops it, and  *)
(* so does any request whose answer has been posted: the Stop button is    *)
(* not the only way to get the panel back.                                 *)
AnswerComes(r) ==
    \/ \E t \in threads : t.req = r /\ t.what \in Timed
    \/ \E i \in DOMAIN inbox : inbox[i].what \in Answers /\ inbox[i].req = r
PromptsEnd ==
    \A r \in 1..MaxRequests :
        fRequestRunning /\ fActiveRequestId = r /\ AnswerComes(r)
            ~> ~(fRequestRunning /\ fActiveRequestId = r)

(* The panel implements the promise: one request at a time, nothing from   *)
(* stopped requests, and only what is pending gets written.                *)
Supervised == INSTANCE SupervisedAI WITH
    issued <- fActiveRequestId,
    live <- IF fRequestRunning THEN fActiveRequestId ELSE 0,
    stopped <- cancelled,
    proposal <- fPendingDiff.origin,
    written <- {w[1] : w \in written}

ImplementsPromise == Supervised!SafeSpec

=============================================================================

-------------------------- MODULE PatchApplyProofs --------------------------
(* What a patch destroys is in a backup, and no hunk is dropped undecided, *)
(* for every disk, diff and number of calls.                               *)
EXTENDS PatchApply, TLAPS

(* Between calls nothing is in hand; during one there is its directory.    *)
CallsHaveADirectory ==
    IF pc = "idle" THEN op = {} ELSE Len(backups) > 0

(* What a call is done with was handed to a write, but for what stands in  *)
(* a second entry for a path.                                              *)
DoneIsGiven == Names(op \ work) \subseteq given \cup Names(Behind)

(* A destroyed content is in some directory; if that is the directory of   *)
(* the call at work, the call does not come to the path again.             *)
Copy(path) == backups[Len(backups)][path]
PassedBy(path) ==
    \A i \in Files(work) : PathOf(i) = path => i = inHand /\ pc = "write"

CopyIsSafe ==
    \A r \in replaced :
        r.again \/ \E n \in DOMAIN backups :
                      /\ backups[n][r.path] = r.was
                      /\ pc # "idle" /\ n = Len(backups) => PassedBy(r.path)

(* What is about to be truncated was copied.                               *)
InHandIsCopied ==
    pc = "truncate" => disk[PathOf(inHand)] \in {Absent, Copy(PathOf(inHand))}

IInv == TypeOK /\ CallsHaveADirectory

-----------------------------------------------------------------------------
(* Positions, their files and their hunks.                                 *)

LEMMA ElementFact ==
    ASSUME NEW R, NEW s \in Seq(R), NEW i \in DOMAIN s
    PROVE  s[i] \in R
  OBVIOUS

(* A position left is one of the diff.                                     *)
LEMMA PositionFact ==
    ASSUME TypeOK, NEW x \in fLeft
    PROVE  /\ x[1] \in DOMAIN fDiff /\ x[1] \in Nat /\ PathOf(x[1]) \in Paths
           /\ fDiff[x[1]].hunks[x[2]] \in Hunks
  <1>1. x[1] \in DOMAIN fDiff /\ x[2] \in DOMAIN fDiff[x[1]].hunks
    BY Zenon DEF TypeOK
  <1>2. fDiff \in Seq([path : Paths, new : BOOLEAN, hunks : Seq(Hunks)])
    <2>1. fDiff \in Diffs
      <3>1. fDiff \in Diffs \/ fDiff = <<>>
        BY DEF TypeOK
      <3>2. fDiff # <<>>
        BY <1>1
      <3>3. QED
        BY <3>1, <3>2
    <2>2. \A diff \in Diffs :
              diff \in Seq([path : Paths, new : BOOLEAN, hunks : Seq(Hunks)])
      BY PatchAssumption
    <2>3. QED
      BY <2>1, <2>2
  <1>3. fDiff[x[1]] \in [path : Paths, new : BOOLEAN, hunks : Seq(Hunks)]
    BY <1>1, <1>2, ElementFact
  <1>4. fDiff[x[1]].path \in Paths /\ fDiff[x[1]].hunks \in Seq(Hunks)
    BY <1>3
  <1>5. fDiff[x[1]].hunks[x[2]] \in Hunks
    BY <1>1, <1>4, ElementFact
  <1>6. x[1] \in Nat
    BY <1>1, <1>2
  <1>7. QED
    BY <1>1, <1>4, <1>5, <1>6 DEF PathOf

LEMMA NamesFact ==
    ASSUME TypeOK, NEW S \in SUBSET fLeft
    PROVE  Names(S) \subseteq Hunks
  BY PositionFact DEF Names

LEMMA FilesFact ==
    ASSUME TypeOK, NEW S \in SUBSET fLeft, NEW i \in Files(S)
    PROVE  i \in DOMAIN fDiff /\ PathOf(i) \in Paths
  BY PositionFact DEF Files

LEMMA OfFact == \A path : First(path) \subseteq Of(path) /\ Of(path) \subseteq fLeft
  BY DEF First, Of

LEMMA AllPositions ==
    ASSUME NEW diff, NEW x \in Positions(diff)
    PROVE  x[1] \in DOMAIN diff /\ x[2] \in DOMAIN diff[x[1]].hunks
  BY DEF Positions

(* What a call drops without working on it stands in a second entry.       *)
LEMMA RestIsBehind ==
    ASSUME TypeOK, NEW path
    PROVE  Of(path) \ First(path) \subseteq Behind
  <1>1. SUFFICES ASSUME NEW x \in Of(path), x \notin First(path)
                 PROVE  x \in Behind
    OBVIOUS
  <1>2. PICK y \in Of(path) : ~(x[1] <= y[1])
    BY <1>1 DEF First
  <1>3. x \in fLeft /\ y \in fLeft /\ PathOf(x[1]) = path /\ PathOf(y[1]) = path
    BY DEF Of
  <1>4. x[1] \in Nat /\ y[1] \in Nat
    BY <1>3, PositionFact
  <1>5. QED
    BY <1>2, <1>3, <1>4 DEF Behind

(* Every way to begin a call and every rejection is of positions left.     *)
LEMMA Calls ==
    ASSUME TypeOK, NEW path, ApplyFile(path) \/ ApplyHunk(path) \/ Apply
    PROVE  \E S \in SUBSET fLeft : \E d \in SUBSET fLeft :
               S \subseteq d /\ d \ S \subseteq Behind /\ Begin(S, d)
  <1>1. CASE ApplyFile(path)
    BY <1>1, OfFact, RestIsBehind DEF ApplyFile
  <1>2. CASE ApplyHunk(path)
    <2>1. PICK x \in First(path) : Begin({x}, {x})
      BY <1>2 DEF ApplyHunk
    <2>2. {x} \in SUBSET fLeft /\ {x} \ {x} \subseteq Behind
      BY OfFact
    <2>3. QED
      BY <2>1, <2>2
  <1>3. CASE Apply
    <2>1. fLeft \ fLeft \subseteq Behind
      OBVIOUS
    <2>2. QED
      BY <1>3, <2>1 DEF Apply
  <1>4. QED
    BY <1>1, <1>2, <1>3

LEMMA Rejections ==
    ASSUME NEW path, RejectFile(path) \/ RejectHunk(path) \/ RejectAll
    PROVE  \E S \in SUBSET fLeft : Reject(S)
  <1>1. CASE RejectFile(path)
    BY <1>1, OfFact DEF RejectFile
  <1>2. CASE RejectHunk(path)
    <2>1. PICK x \in First(path) : Reject({x})
      BY <1>2 DEF RejectHunk
    <2>2. QED
      BY <2>1, OfFact
  <1>3. CASE RejectAll
    BY <1>3 DEF RejectAll
  <1>4. QED
    BY <1>1, <1>2, <1>3

(* The kinds of steps.                                                     *)
LEMMA StepKinds ==
    ASSUME TypeOK, Next
    PROVE  \/ \E diff \in Diffs : Propose(diff)
           \/ \E path \in Paths : UserEdit(path)
           \/ \E S \in SUBSET fLeft : Reject(S)
           \/ \E S \in SUBSET fLeft : \E d \in SUBSET fLeft :
                  S \subseteq d /\ d \ S \subseteq Behind /\ Begin(S, d)
           \/ Check \/ Backup \/ Truncate \/ Write \/ Return \/ Fail \/ Crash
  BY Calls, Rejections DEF Next

-----------------------------------------------------------------------------
(* Types, and what a call is done with.                                    *)

(* The parts of TypeOK.                                                    *)
LeftFits ==
    \A x \in fLeft : x[1] \in DOMAIN fDiff /\ x[2] \in DOMAIN fDiff[x[1]].hunks

DiskFits ==
    /\ disk \in [Paths -> Contents \cup {Absent}]
    /\ backups \in Seq([Paths -> Contents \cup {Absent}])
    /\ replaced \subseteq [path : Paths, was : Contents, again : BOOLEAN]

CallFits ==
    /\ pc \in {"idle", "check", "backup", "truncate", "write"}
    /\ op \subseteq fLeft /\ work \subseteq op
    /\ pc \in {"backup", "truncate", "write"} => inHand \in Files(work)
    /\ patched \in Contents

HunksFit == given \subseteq Hunks /\ refused \subseteq Hunks

LEMMA TypeParts ==
    TypeOK <=> /\ fDiff \in Diffs \cup {<<>>} /\ LeftFits
               /\ DiskFits /\ CallFits /\ HunksFit
  BY Zenon DEF TypeOK, LeftFits, DiskFits, CallFits, HunksFit

LEMMA TypePartsAfter ==
    fDiff' \in Diffs \cup {<<>>} /\ LeftFits' /\ DiskFits' /\ CallFits' /\ HunksFit'
    => TypeOK'
  BY Zenon DEF TypeOK, LeftFits, DiskFits, CallFits, HunksFit

LEMMA EmptyIsContent == Empty \in Contents
  BY PatchAssumption DEF Empty, Contents

LEMMA NextIInv == IInv /\ [Next]_vars => IInv'
  <1> SUFFICES ASSUME IInv, [Next]_vars
               PROVE  TypeOK' /\ CallsHaveADirectory'
    BY DEF IInv
  <1>0. /\ fDiff \in Diffs \cup {<<>>} /\ LeftFits /\ DiskFits /\ CallFits /\ HunksFit
        /\ TypeOK /\ CallsHaveADirectory
    BY TypeParts DEF IInv
  <1> USE <1>0
  <1>1. ASSUME NEW diff \in Diffs, Propose(diff)
        PROVE  TypeOK' /\ CallsHaveADirectory'
    <2>1. LeftFits'
      BY <1>1, AllPositions DEF Propose, LeftFits
    <2>2. HunksFit'
      BY <1>1, NamesFact DEF Propose, HunksFit
    <2>3. op = {} /\ work = {} /\ op' = {} /\ work' = {}
      BY <1>1 DEF Propose, CallsHaveADirectory, CallFits, local
    <2>4. CallFits' /\ DiskFits'
      BY <1>1, <2>3 DEF Propose, CallFits, DiskFits, local
    <2>5. CallsHaveADirectory'
      BY <1>1, <2>3 DEF Propose, CallsHaveADirectory, local
    <2>6. QED
      BY <1>1, <2>1, <2>2, <2>4, <2>5, TypePartsAfter DEF Propose
  <1>2. ASSUME NEW path \in Paths, UserEdit(path)
        PROVE  TypeOK' /\ CallsHaveADirectory'
    <2>1. disk' \in [Paths -> Contents \cup {Absent}]
      <3>1. disk[path] \in Contents /\ disk[path].text + 1 \in 0 .. MaxEdits
        BY <1>2, PatchAssumption DEF UserEdit, DiskFits, Contents
      <3>2. [disk[path] EXCEPT !.text = @ + 1] \in Contents
        BY <3>1 DEF Contents
      <3>3. QED
        BY <1>2, <3>2 DEF UserEdit, DiskFits
    <2>2. DiskFits'
      BY <1>2, <2>1 DEF UserEdit, DiskFits
    <2>3. LeftFits' /\ CallFits' /\ HunksFit' /\ CallsHaveADirectory'
      BY <1>2 DEF UserEdit, LeftFits, CallFits, HunksFit, CallsHaveADirectory,
                  pending, local, Files
    <2>4. QED
      BY <1>2, <2>2, <2>3, TypePartsAfter DEF UserEdit, pending
  <1>3. ASSUME NEW S \in SUBSET fLeft, Reject(S)
        PROVE  TypeOK' /\ CallsHaveADirectory'
    <2>1. op = {} /\ work = {} /\ op' = {} /\ work' = {}
      BY <1>3 DEF Reject, CallsHaveADirectory, CallFits, local
    <2>2. LeftFits'
      BY <1>3 DEF Reject, LeftFits
    <2>3. HunksFit'
      BY <1>3, NamesFact DEF Reject, HunksFit
    <2>4. CallFits' /\ DiskFits' /\ CallsHaveADirectory'
      BY <1>3, <2>1 DEF Reject, CallFits, DiskFits, CallsHaveADirectory, local
    <2>5. QED
      BY <1>3, <2>2, <2>3, <2>4, TypePartsAfter DEF Reject
  <1>4. ASSUME NEW S \in SUBSET fLeft, NEW d \in SUBSET fLeft, S \subseteq d, Begin(S, d)
        PROVE  TypeOK' /\ CallsHaveADirectory'
    <2>1. backups' \in Seq([Paths -> Contents \cup {Absent}]) /\ Len(backups') > 0
      BY <1>4 DEF Begin, DiskFits
    <2>2. fDiff' = fDiff /\ fLeft' = fLeft
      BY <1>4 DEF Begin, pending
    <2>3. DiskFits' /\ CallFits' /\ HunksFit' /\ CallsHaveADirectory'
      BY <1>4, <2>1, <2>2 DEF Begin, DiskFits, CallFits, HunksFit, CallsHaveADirectory
    <2>4. LeftFits'
      BY <2>2 DEF LeftFits
    <2>5. QED
      BY <2>2, <2>3, <2>4, TypePartsAfter
  <1>5. CASE Check
    <2>1. PICK i \in Files(work) :
              /\ inHand' = i /\ pc' \in {"truncate", "backup"}
              /\ \/ patched' = [text |-> 0, hunks |-> Names({x \in work : x[1] = i})]
                 \/ /\ disk[PathOf(i)] # Absent
                    /\ patched' = [disk[PathOf(i)] EXCEPT
                                      !.hunks = @ \cup Names({x \in work : x[1] = i})]
      BY <1>5 DEF Check
    <2>2. Names({x \in work : x[1] = i}) \subseteq Hunks /\ PathOf(i) \in Paths
      BY NamesFact, FilesFact DEF CallFits
    <2>3. patched' \in Contents
      <3>1. disk[PathOf(i)] \in Contents \cup {Absent}
        BY <2>2 DEF DiskFits
      <3>2. CASE patched' = [text |-> 0, hunks |-> Names({x \in work : x[1] = i})]
        BY <2>2, <3>2, PatchAssumption DEF Contents
      <3>3. CASE /\ disk[PathOf(i)] \in Contents
                 /\ patched' = [disk[PathOf(i)] EXCEPT
                                   !.hunks = @ \cup Names({x \in work : x[1] = i})]
        BY <2>2, <3>3 DEF Contents
      <3>4. QED
        BY <2>1, <3>1, <3>2, <3>3
    <2>4. UNCHANGED <<disk, backups, pending, op, work, replaced, given, refused>> /\ pc # "idle"
      BY <1>5 DEF Check
    <2>5. LeftFits' /\ DiskFits' /\ HunksFit' /\ CallsHaveADirectory'
      BY <2>1, <2>4 DEF LeftFits, DiskFits, HunksFit, CallsHaveADirectory,
                        Names, pending
    <2>6. CallFits'
      BY <2>1, <2>3, <2>4 DEF CallFits, Files, pending
    <2>7. QED
      BY <2>4, <2>5, <2>6, TypePartsAfter DEF pending
  <1>6. CASE Backup
    <2>1. backups' \in Seq([Paths -> Contents \cup {Absent}]) /\ Len(backups') = Len(backups)
      <3>1. PathOf(inHand) \in Paths /\ Len(backups) \in DOMAIN backups
        BY <1>6, FilesFact DEF Backup, CallFits, CallsHaveADirectory, DiskFits
      <3>2. [backups[Len(backups)] EXCEPT ![PathOf(inHand)] = disk[PathOf(inHand)]]
                \in [Paths -> Contents \cup {Absent}]
        BY <3>1, ElementFact DEF DiskFits
      <3>3. QED
        BY <1>6, <3>1, <3>2 DEF Backup, DiskFits
    <2>2. /\ UNCHANGED <<disk, pending, op, work, inHand, patched, replaced, given, refused>>
          /\ pc = "backup" /\ pc' = "truncate"
      BY <1>6 DEF Backup
    <2>3. LeftFits' /\ DiskFits' /\ HunksFit' /\ CallsHaveADirectory' /\ CallFits'
      BY <2>1, <2>2 DEF LeftFits, DiskFits, HunksFit, CallsHaveADirectory,
                        CallFits, Names, Files, pending
    <2>4. QED
      BY <2>2, <2>3, TypePartsAfter DEF pending
  <1>7. CASE Truncate
    <2>1. PathOf(inHand) \in Paths
      BY <1>7, FilesFact DEF Truncate, CallFits
    <2>2. DiskFits'
      <3>1. disk' \in [Paths -> Contents \cup {Absent}] /\ backups' = backups
        BY <1>7, <2>1, EmptyIsContent DEF Truncate, DiskFits
      <3>2. ASSUME NEW content \in {disk[PathOf(inHand)]} \ {Absent}, NEW again \in BOOLEAN
            PROVE  Destroyed(PathOf(inHand), content, again)
                       \in [path : Paths, was : Contents, again : BOOLEAN]
        BY <2>1 DEF Destroyed, DiskFits
      <3>3. replaced' \subseteq [path : Paths, was : Contents, again : BOOLEAN]
        BY <1>7, <3>2 DEF Truncate, DiskFits
      <3>4. QED
        BY <3>1, <3>3 DEF DiskFits
    <2>3. /\ UNCHANGED <<pending, op, work, inHand, patched, given, refused, backups>>
          /\ pc = "truncate" /\ pc' = "write"
      BY <1>7 DEF Truncate
    <2>4. LeftFits' /\ HunksFit' /\ CallsHaveADirectory' /\ CallFits'
      BY <2>3 DEF LeftFits, HunksFit, CallsHaveADirectory,
                  CallFits, Names, Files, pending
    <2>5. QED
      BY <2>2, <2>3, <2>4, TypePartsAfter DEF pending
  <1>8. CASE Write
    <2>1. /\ PathOf(inHand) \in Paths
          /\ work' = {x \in work : x[1] # inHand}
          /\ given' = given \cup Names({x \in work : x[1] = inHand})
          /\ pc = "write" /\ pc' = "check"
          /\ UNCHANGED <<backups, pending, op, inHand, patched, replaced, refused>>
      BY <1>8, FilesFact DEF Write, CallFits
    <2>2. DiskFits'
      BY <1>8, <2>1 DEF Write, DiskFits, CallFits
    <2>3. HunksFit'
      BY <2>1, NamesFact DEF HunksFit, CallFits
    <2>4. LeftFits' /\ CallFits' /\ CallsHaveADirectory'
      BY <2>1 DEF LeftFits, CallFits, CallsHaveADirectory, pending
    <2>5. QED
      BY <2>1, <2>2, <2>3, <2>4, TypePartsAfter DEF pending
  <1>9. CASE Return \/ Fail \/ Crash
    <2>1. /\ pc' = "idle" /\ op' = {} /\ work' = {} /\ inHand' = 0 /\ patched' = Empty
          /\ fDiff' = fDiff /\ fLeft' \subseteq fLeft
          /\ UNCHANGED <<disk, backups, replaced, given>>
          /\ refused' \in {refused, refused \cup Names(fLeft)}
      BY <1>9 DEF Return, Fail, Crash, Leave, pending
    <2>2. HunksFit'
      BY <2>1, NamesFact DEF HunksFit
    <2>3. LeftFits' /\ DiskFits' /\ CallFits' /\ CallsHaveADirectory'
      BY <2>1, EmptyIsContent DEF LeftFits, DiskFits, CallFits, CallsHaveADirectory,
                                  Names
    <2>4. QED
      BY <2>1, <2>2, <2>3, TypePartsAfter
  <1>10. CASE UNCHANGED vars
    <2>1. LeftFits' /\ DiskFits' /\ HunksFit' /\ CallFits' /\ CallsHaveADirectory'
      BY <1>10 DEF vars, pending, local, LeftFits, DiskFits, HunksFit, CallFits,
                   CallsHaveADirectory, Names, Files
    <2>2. QED
      BY <1>10, <2>1, TypePartsAfter DEF vars, pending
  <1>11. QED
    BY <1>1, <1>2, <1>3, <1>4, <1>5, <1>6, <1>7, <1>8, <1>9, <1>10, StepKinds

LEMMA InitIInv == Init => IInv
  <1> SUFFICES ASSUME Init
               PROVE  IInv
    OBVIOUS
  <1>1. LeftFits /\ HunksFit /\ CallsHaveADirectory /\ fDiff \in Diffs \cup {<<>>}
    BY DEF Init, LeftFits, HunksFit, CallsHaveADirectory
  <1>2. CallFits
    BY EmptyIsContent DEF Init, CallFits
  <1>3. DiskFits
    <2>1. [text |-> 1, hunks |-> {}] \in Contents
      BY PatchAssumption DEF Contents
    <2>2. disk \in [Paths -> Contents \cup {Absent}]
      BY <2>1 DEF Init
    <2>3. QED
      BY <2>2 DEF Init, DiskFits
  <1>4. QED
    BY <1>1, <1>2, <1>3, TypeParts DEF IInv

LEMMA Inductive == Spec => []IInv
  BY InitIInv, NextIInv, PTL DEF Spec

-----------------------------------------------------------------------------
(* Copies and decisions.                                                   *)

Kept == DoneIsGiven /\ CopyIsSafe /\ InHandIsCopied

LEMMA InitKept == Init => Kept
  BY DEF Init, Kept, DoneIsGiven, CopyIsSafe, InHandIsCopied, Names

(* Copies are safe as long as none is made and the call comes no closer to *)
(* their paths.                                                            *)
LEMMA CopiesStay ==
    ASSUME CopyIsSafe, UNCHANGED <<backups, replaced>>,
           \/ pc' = "idle"
           \/ /\ pc # "idle" /\ UNCHANGED fDiff /\ Files(work)' \subseteq Files(work)
              /\ pc # "write" \/ inHand \notin Files(work)'
    PROVE  CopyIsSafe'
  <1>1. SUFFICES ASSUME NEW r \in replaced, ~r.again
                 PROVE  \E n \in DOMAIN backups :
                            /\ backups[n][r.path] = r.was
                            /\ pc' # "idle" /\ n = Len(backups) => PassedBy(r.path)'
    BY DEF CopyIsSafe
  <1>2. PICK n \in DOMAIN backups :
            /\ backups[n][r.path] = r.was
            /\ pc # "idle" /\ n = Len(backups) => PassedBy(r.path)
    BY <1>1 DEF CopyIsSafe
  <1>3. ASSUME pc' # "idle", PassedBy(r.path)
        PROVE  PassedBy(r.path)'
    BY <1>3 DEF PassedBy, PathOf
  <1>4. QED
    BY <1>2, <1>3

LEMMA NextKept ==
    ASSUME IInv, Kept, [Next]_vars
    PROVE  Kept'
  <1>0. /\ fDiff \in Diffs \cup {<<>>} /\ LeftFits /\ DiskFits /\ CallFits /\ HunksFit
        /\ TypeOK /\ CallsHaveADirectory
        /\ DoneIsGiven /\ CopyIsSafe /\ InHandIsCopied
    BY TypeParts DEF IInv, Kept
  <1> USE <1>0
  <1>1. ASSUME pc = "idle", pc' = "idle", UNCHANGED <<op, work, backups, replaced, given>>
        PROVE  Kept'
    <2>1. op' = {} /\ work' = {}
      BY <1>1 DEF CallsHaveADirectory, CallFits
    <2>2. DoneIsGiven' /\ InHandIsCopied'
      BY <1>1, <2>1 DEF DoneIsGiven, InHandIsCopied, Names
    <2>3. QED
      BY <1>1, <2>2, CopiesStay DEF Kept
  <1>2. ASSUME NEW S \in SUBSET fLeft, NEW d \in SUBSET fLeft, S \subseteq d,
               d \ S \subseteq Behind, Begin(S, d)
        PROVE  Kept'
    <2>1. /\ op' = d /\ work' = S /\ UNCHANGED <<replaced, given>> /\ pc' = "check"
          /\ UNCHANGED pending
          /\ backups' = Append(backups, [p \in Paths |-> Absent])
      BY <1>2 DEF Begin
    <2>2. DoneIsGiven'
      <3>1. Names(d \ S) \subseteq Names(Behind)
        BY <1>2 DEF Names
      <3>2. Names(op \ work)' = Names(d \ S) /\ Names(Behind)' = Names(Behind)
        BY <2>1 DEF Names, Behind, PathOf, pending
      <3>3. QED
        BY <3>1, <3>2 DEF DoneIsGiven
    <2>3. /\ Len(backups') = Len(backups) + 1 /\ Len(backups) \in Nat
          /\ \A n \in DOMAIN backups : n \in DOMAIN backups' /\ backups'[n] = backups[n]
                                      /\ n # Len(backups')
      BY <2>1 DEF DiskFits
    <2>4. CopyIsSafe'
      BY <2>1, <2>3 DEF CopyIsSafe
    <2>5. InHandIsCopied'
      BY <2>1 DEF InHandIsCopied
    <2>6. QED
      BY <2>2, <2>4, <2>5 DEF Kept
  <1>3. CASE Check
    <2>1. PICK i \in Files(work) :
              /\ inHand' = i
              /\ \/ pc' = "truncate" /\ disk[PathOf(i)] = Absent
                 \/ pc' = "backup"
      BY <1>3 DEF Check
    <2>2. UNCHANGED <<disk, backups, pending, op, work, replaced, given>> /\ pc = "check"
      BY <1>3 DEF Check
    <2>3. InHandIsCopied'
      BY <2>1, <2>2 DEF InHandIsCopied, PathOf, pending
    <2>4. DoneIsGiven'
      BY <2>2 DEF DoneIsGiven, Names, Behind, PathOf, pending
    <2>5. CopyIsSafe'
      BY <2>2, CopiesStay DEF Files, pending
    <2>6. QED
      BY <2>3, <2>4, <2>5 DEF Kept
  <1>4. CASE Backup
    <2>1. /\ pc = "backup" /\ pc' = "truncate"
          /\ UNCHANGED <<disk, pending, op, work, inHand, replaced, given>>
          /\ backups' = [backups EXCEPT ![Len(backups)][PathOf(inHand)] = disk[PathOf(inHand)]]
      BY <1>4 DEF Backup
    <2>2. inHand \in Files(work) /\ inHand \in DOMAIN fDiff /\ PathOf(inHand) \in Paths
      BY <2>1, FilesFact DEF CallFits
    <2>3. /\ Len(backups) \in DOMAIN backups /\ DOMAIN backups' = DOMAIN backups
          /\ Len(backups') = Len(backups)
          /\ \A n \in DOMAIN backups : DOMAIN backups[n] = Paths
      BY <2>1, ElementFact DEF DiskFits, CallsHaveADirectory
    <2>4. /\ backups'[Len(backups)][PathOf(inHand)] = disk[PathOf(inHand)]
          /\ \A n \in DOMAIN backups, path \in Paths :
                 n # Len(backups) \/ path # PathOf(inHand)
                 => backups'[n][path] = backups[n][path]
      BY <2>1, <2>2, <2>3
    <2>5. PathOf(inHand)' = PathOf(inHand)
      BY <2>1 DEF PathOf, pending
    <2>6. InHandIsCopied'
      BY <2>1, <2>3, <2>4, <2>5 DEF InHandIsCopied, Copy
    <2>7. CopyIsSafe'
      <3>1. SUFFICES ASSUME NEW r \in replaced, ~r.again
                     PROVE  \E n \in DOMAIN backups' :
                                /\ backups'[n][r.path] = r.was
                                /\ n = Len(backups') => PassedBy(r.path)'
        BY <2>1 DEF CopyIsSafe
      <3>2. PICK n \in DOMAIN backups :
                backups[n][r.path] = r.was /\ (n = Len(backups) => PassedBy(r.path))
        BY <2>1, <3>1 DEF CopyIsSafe
      <3>3. n # Len(backups) \/ r.path # PathOf(inHand)
        BY <2>1, <2>2, <3>2 DEF PassedBy
      <3>4. r.path \in Paths
        BY DEF DiskFits
      <3>5. PassedBy(r.path) => PassedBy(r.path)'
        BY <2>1 DEF PassedBy, Files, PathOf, pending
      <3>6. QED
        BY <2>3, <2>4, <3>2, <3>3, <3>4, <3>5
    <2>8. DoneIsGiven'
      BY <2>1 DEF DoneIsGiven, Names, Behind, PathOf, pending
    <2>9. QED
      BY <2>6, <2>7, <2>8 DEF Kept
  <1>5. CASE Truncate
    <2>1. /\ pc = "truncate" /\ pc' = "write"
          /\ UNCHANGED <<pending, op, work, inHand, given, backups>>
          /\ replaced' = replaced \cup
                 {Destroyed(PathOf(inHand), content,
                            \E j \in Files(work) \ {inHand} : PathOf(j) = PathOf(inHand)) :
                     content \in {disk[PathOf(inHand)]} \ {Absent}}
      BY <1>5 DEF Truncate
    <2>2. Len(backups) \in DOMAIN backups
      BY <2>1 DEF DiskFits, CallsHaveADirectory
    <2>3. Files(work)' = Files(work) /\ (\A i : PathOf(i)' = PathOf(i))
      BY <2>1 DEF Files, PathOf, pending
    <2>4. ASSUME NEW r \in replaced', ~r.again
          PROVE  \E n \in DOMAIN backups :
                     /\ backups[n][r.path] = r.was
                     /\ n = Len(backups) => PassedBy(r.path)'
      <3>1. CASE r \in replaced
        <4>1. PICK n \in DOMAIN backups :
                  backups[n][r.path] = r.was /\ (n = Len(backups) => PassedBy(r.path))
          BY <2>1, <2>4, <3>1 DEF CopyIsSafe
        <4>2. PassedBy(r.path) => PassedBy(r.path)'
          BY <2>1, <2>3 DEF PassedBy
        <4>3. QED
          BY <4>1, <4>2
      <3>2. CASE r \notin replaced
        <4>1. /\ r.path = PathOf(inHand) /\ r.was = disk[PathOf(inHand)] /\ r.was # Absent
              /\ r.again = \E j \in Files(work) \ {inHand} : PathOf(j) = PathOf(inHand)
          <5>1. PICK content \in {disk[PathOf(inHand)]} \ {Absent} :
                    r = Destroyed(PathOf(inHand), content,
                                  \E j \in Files(work) \ {inHand} : PathOf(j) = PathOf(inHand))
            BY <2>1, <3>2, <2>4
          <5>2. r.path = PathOf(inHand) /\ r.was = content
            BY <5>1 DEF Destroyed
          <5>3. r.again = \E j \in Files(work) \ {inHand} : PathOf(j) = PathOf(inHand)
            BY <5>1, Zenon DEF Destroyed
          <5>4. QED
            BY <5>1, <5>2, <5>3
        <4>2. backups[Len(backups)][r.path] = r.was
          BY <2>1, <4>1 DEF InHandIsCopied, Copy
        <4>3. PassedBy(r.path)'
          BY <2>1, <2>3, <2>4, <4>1 DEF PassedBy
        <4>4. QED
          BY <2>2, <4>2, <4>3
      <3>3. QED
        BY <3>1, <3>2
    <2>5. CopyIsSafe'
      BY <2>1, <2>4 DEF CopyIsSafe
    <2>6. DoneIsGiven'
      BY <2>1 DEF DoneIsGiven, Names, Behind, PathOf, pending
    <2>7. InHandIsCopied'
      BY <2>1 DEF InHandIsCopied
    <2>8. QED
      BY <2>5, <2>6, <2>7 DEF Kept
  <1>6. CASE Write
    <2>1. /\ work' = {x \in work : x[1] # inHand}
          /\ given' = given \cup Names({x \in work : x[1] = inHand})
          /\ pc = "write" /\ pc' = "check"
          /\ UNCHANGED <<backups, pending, op, inHand, replaced>>
      BY <1>6 DEF Write
    <2>2. DoneIsGiven'
      <3>1. op \ work' = (op \ work) \cup {x \in work : x[1] = inHand}
        BY <2>1 DEF CallFits
      <3>2. Names(op \ work') = Names(op \ work) \cup Names({x \in work : x[1] = inHand})
        BY <3>1 DEF Names
      <3>3. /\ Names(op \ work)' = Names(op \ work')
            /\ Names(Behind)' = Names(Behind)
        BY <2>1 DEF Names, Behind, PathOf, pending
      <3>4. QED
        BY <2>1, <3>2, <3>3 DEF DoneIsGiven
    <2>3. Files(work)' = Files(work) \ {inHand}
      BY <2>1 DEF Files
    <2>4. CopyIsSafe'
      BY <2>1, <2>3, CopiesStay DEF pending
    <2>5. InHandIsCopied'
      BY <2>1 DEF InHandIsCopied
    <2>6. QED
      BY <2>2, <2>4, <2>5 DEF Kept
  <1>7. CASE Return \/ Fail \/ Crash
    <2>1. /\ pc' = "idle" /\ op' = {} /\ work' = {}
          /\ UNCHANGED <<backups, replaced, given>>
      BY <1>7 DEF Return, Fail, Crash, Leave
    <2>2. DoneIsGiven' /\ InHandIsCopied'
      BY <2>1 DEF DoneIsGiven, InHandIsCopied, Names
    <2>3. QED
      BY <2>1, <2>2, CopiesStay DEF Kept
  <1>8. CASE UNCHANGED vars
    <2>1. DoneIsGiven' /\ InHandIsCopied'
      BY <1>8 DEF vars, pending, local, DoneIsGiven, InHandIsCopied, Copy,
                  Names, Behind, PathOf
    <2>2. CopyIsSafe'
      BY <1>8 DEF vars, pending, local, CopyIsSafe, PassedBy, Files, PathOf
    <2>3. QED
      BY <2>1, <2>2 DEF Kept
  <1>9. ASSUME NEW diff \in Diffs, Propose(diff)
        PROVE  Kept'
    BY <1>1, <1>9 DEF Propose, local
  <1>10. ASSUME NEW path \in Paths, UserEdit(path)
         PROVE  Kept'
    BY <1>1, <1>10 DEF UserEdit, local
  <1>11. ASSUME NEW S \in SUBSET fLeft, Reject(S)
         PROVE  Kept'
    BY <1>1, <1>11 DEF Reject, local
  <1>12. QED
    BY <1>2, <1>3, <1>4, <1>5, <1>6, <1>7, <1>8, <1>9, <1>10, <1>11, StepKinds

LEMMA InductiveKept == Spec => []Kept
  <1>1. IInv /\ Kept /\ [Next]_vars => Kept'
    BY NextKept
  <1>2. QED
    BY <1>1, InitKept, Inductive, PTL DEF Spec

-----------------------------------------------------------------------------
(* The theorems.                                                           *)

(* Disk, backups and the pending diff are well formed: what is left to     *)
(* decide is of the diff, and a call works on that only.                   *)
THEOREM TypeCorrect == Spec => []TypeOK
  <1>1. IInv => TypeOK
    BY DEF IInv
  <1>2. QED
    BY Inductive, <1>1, PTL

(* Whatever content a patch destroyed is in a backup, after any number of  *)
(* patches, failures and crashes, but for what the same call comes back to *)
(* for a later entry with that path.                                       *)
THEOREM BackupsKeepAll == Spec => []NothingLost
  <1>1. Kept => NothingLost
    BY DEF Kept, CopyIsSafe, NothingLost
  <1>2. QED
    BY InductiveKept, <1>1, PTL

LEMMA StepDecides ==
    ASSUME IInv, Kept, Next
    PROVE  Names(fLeft) \ Names(fLeft)' \subseteq given' \cup refused' \cup Names(Behind)
  <1>0. TypeOK
    BY DEF IInv
  <1>1. ASSUME NEW S \in SUBSET fLeft, fDiff' = fDiff, fLeft' = fLeft \ S
        PROVE  Names(fLeft) \ Names(fLeft)' \subseteq Names(S)
    BY <1>1 DEF Names
  <1>2. CASE UNCHANGED pending
    BY <1>2 DEF Names, pending
  <1>3. ASSUME NEW diff \in Diffs, Propose(diff)
        PROVE  Names(fLeft) \subseteq refused'
    BY <1>3 DEF Propose
  <1>4. ASSUME NEW S \in SUBSET fLeft, Reject(S)
        PROVE  Names(fLeft) \ Names(fLeft)' \subseteq refused'
    BY <1>1, <1>4 DEF Reject
  <1>5. CASE Return
    <2>1. op \in SUBSET fLeft
      BY TypeParts DEF IInv, CallFits
    <2>2. op \ work = op /\ fDiff' = fDiff /\ fLeft' = fLeft \ op /\ given' = given
      BY <1>5 DEF Return
    <2>3. Names(op) \subseteq given \cup Names(Behind)
      BY <2>2 DEF Kept, DoneIsGiven
    <2>4. QED
      BY <1>1, <2>1, <2>2, <2>3
  <1>6. CASE Crash
    BY <1>6 DEF Crash
  <1>7. ASSUME NEW path \in Paths, UserEdit(path)
        PROVE  UNCHANGED pending
    BY <1>7 DEF UserEdit
  <1>8. ASSUME NEW S, NEW d, Begin(S, d)
        PROVE  UNCHANGED pending
    BY <1>8 DEF Begin
  <1>9. CASE Check \/ Backup \/ Truncate \/ Write \/ Fail
    BY <1>2, <1>9 DEF Check, Backup, Truncate, Write, Fail
  <1>10. QED
    BY <1>0, <1>2, <1>3, <1>4, <1>5, <1>6, <1>7, <1>8, <1>9, StepKinds

(* No hunk leaves the pending diff unless it was rejected, lost with the   *)
(* program or handed to a write, or stood in a second entry for its path.  *)
THEOREM HunksAreDecided == Spec => ProposedHunksAreDecided
  <1>1. IInv /\ Kept /\ [Next]_vars =>
            [Names(fLeft) \ Names(fLeft)'
                 \subseteq given' \cup refused' \cup Names(Behind)]_vars
    BY StepDecides
  <1>2. QED
    BY <1>1, Inductive, InductiveKept, PTL DEF Spec, ProposedHunksAreDecided
=============================================================================

----------------------------- MODULE PatchApply -----------------------------
(***************************************************************************)
(* How a pending diff gets onto the disk (ai/UnifiedDiff.cpp): the file    *)
(* operations of Apply, ApplyFile and ApplyHunk one system call at a time, *)
(* each of which can throw, and a crash of the program between any two.    *)
(*                                                                         *)
(* A file's content is the user's text, in some version, plus the hunks    *)
(* put into it; <<>> as version is a file without user text (created by a  *)
(* patch, or truncated).  Where a hunk goes is the business of HunkApply.  *)
(***************************************************************************)
EXTENDS Integers, Sequences, Functions

CONSTANTS
    Paths,          \* project-relative paths
    Diffs,          \* diffs a model may propose: sequences of file patches
    Unsafe,         \* paths that ValidatePatchPath refuses
    Symlinks,       \* paths with a symbolic link among their components
    Absent,         \* content of a path without a file
    MaxApplies,     \* bound: backup directories made
    MaxEdits        \* bound: versions of the one file the user edits meanwhile

(* A file patch is its path, whether it creates the file, and its hunks.   *)
(* fFiles is the diff as parsed, without the <<file, hunk>> positions that *)
(* were decided; a file without hunks left is no longer part of it.        *)
Hunks == UNION {UNION {Range(diff[i].hunks) : i \in DOMAIN diff} : diff \in Diffs}
Contents == [text : 0..MaxEdits, hunks : SUBSET Hunks]
Empty == [text |-> 0, hunks |-> {}]         \* truncated; user text counts from 1

ASSUME PatchAssumption ==
    /\ Unsafe \subseteq Paths /\ Symlinks \subseteq Paths
    /\ Absent \notin Contents
    /\ MaxApplies \in Nat /\ MaxEdits \in Nat \ {0}
    /\ \A diff \in Diffs :
           diff \in Seq([path : Paths, new : BOOLEAN, hunks : Seq(Hunks)])

VARIABLES
    disk,           \* path -> content
    backups,        \* backup directory -> path -> content
    fDiff, fLeft,   \* the pending diff: as parsed, and the positions left
    pc,             \* "idle", "check", "backup", "truncate", "write"
    op,             \* the positions the panel drops when the call succeeds
    work,           \* positions still to apply by this call
    inHand,         \* the file being patched, an index of fDiff
    patched,        \* its new content
    replaced,       \* contents destroyed by truncations, see Destroyed
    given,          \* hunks ever handed to a write
    refused         \* hunks rejected by the user or lost with the program

pending == <<fDiff, fLeft>>
local == <<pc, op, work, inHand, patched>>
vars == <<disk, backups, pending, local, replaced, given, refused>>

Positions(diff) == UNION {{<<i, k>> : k \in DOMAIN diff[i].hunks} : i \in DOMAIN diff}
Names(positions) == {fDiff[x[1]].hunks[x[2]] : x \in positions}
Files(positions) == {x[1] : x \in positions}
PathOf(i) == fDiff[i].path
Of(path) == {x \in fLeft : PathOf(x[1]) = path}     \* what is left for a path

(* What is left of entries that have another for their path before them.   *)
Behind == {x \in fLeft : \E y \in fLeft : y[1] < x[1] /\ PathOf(y[1]) = PathOf(x[1])}

(* A content destroyed; again if the call comes back to the path, and      *)
(* copies it once more.                                                    *)
Destroyed(path, content, again) == [path |-> path, was |-> content, again |-> again]

Init ==
    /\ disk \in [Paths -> {Absent, [text |-> 1, hunks |-> {}]}]
    /\ backups = <<>>
    /\ fDiff = <<>> /\ fLeft = {}
    /\ pc = "idle" /\ op = {} /\ work = {} /\ inHand = 0 /\ patched = Empty
    /\ replaced = {} /\ given = {} /\ refused = {}

-----------------------------------------------------------------------------
(* Between two calls.                                                      *)

(* A new diff takes the place of whatever was pending.                     *)
Propose(diff) ==
    /\ pc = "idle"
    /\ \A i \in DOMAIN diff :
           Range(diff[i].hunks) \cap (given \cup refused \cup Names(fLeft)) = {}
    /\ fDiff' = diff
    /\ fLeft' = Positions(diff)
    /\ refused' = refused \cup Names(fLeft)
    /\ UNCHANGED <<disk, backups, local, replaced, given>>

UserEdit(path) ==
    /\ pc = "idle"
    /\ disk[path] # Absent
    /\ disk[path].text < MaxEdits
    /\ \A other \in Paths \ {path} : disk[other] # Absent => disk[other].text < 2
    /\ disk' = [disk EXCEPT ![path].text = @ + 1]
    /\ UNCHANGED <<backups, pending, local, replaced, given, refused>>

(* Fault: a rejection while a call is at work.                             *)
RejectAnytime(positions) ==
    /\ positions # {}
    /\ fLeft' = fLeft \ positions
    /\ refused' = refused \cup Names(positions)
    /\ UNCHANGED <<disk, backups, fDiff, local, replaced, given>>

Reject(positions) ==
    /\ pc = "idle"
    /\ positions # {}
    /\ fLeft' = fLeft \ positions
    /\ refused' = refused \cup Names(positions)
    /\ UNCHANGED <<disk, backups, fDiff, local, replaced, given>>

(* RemoveFile drops every entry for the path, RemoveHunk a hunk of the     *)
(* first one.                                                              *)
First(path) ==
    {x \in Of(path) : \A y \in Of(path) : x[1] <= y[1]}

RejectAll == Reject(fLeft)
RejectFile(path) == Reject(Of(path))
RejectHunk(path) == \E x \in First(path) : Reject({x})

-----------------------------------------------------------------------------
(* The three entry points: every path is validated before any file is      *)
(* touched, then a fresh backup directory is named.                        *)

Begin(positions, dropped) ==
    /\ pc = "idle"
    /\ positions # {}
    /\ Len(backups) < MaxApplies
    /\ \A i \in Files(positions) : PathOf(i) \notin Unsafe
    /\ pc' = "check"
    /\ work' = positions
    /\ op' = dropped
    /\ backups' = Append(backups, [p \in Paths |-> Absent])
    /\ UNCHANGED <<disk, pending, inHand, patched, replaced, given, refused>>

Apply == Begin(fLeft, fLeft)

ApplyFile(path) == Begin(First(path), Of(path))

(* A new file of several hunks cannot be created hunk by hunk.             *)
ApplyHunk(path) ==
    \E x \in First(path) :
        /\ fDiff[x[1]].new => First(path) = {x}
        /\ Begin({x}, {x})

-----------------------------------------------------------------------------
(* One file of the loop, in the order of the diff.                         *)

(* Checks that pass, and the new content.  Whether the old lines of a hunk *)
(* are there, and which, may come out either way: see Fail.                *)
Check ==
    /\ pc = "check"
    /\ \E i \in Files(work) :
           /\ \A j \in Files(work) : i <= j
           /\ inHand' = i
           /\ PathOf(i) \notin Symlinks
           /\ LET now == disk[PathOf(i)]
                  hunks == Names({x \in work : x[1] = i})
              IN  \/ /\ fDiff[i].new /\ now = Absent
                     /\ patched' = [text |-> 0, hunks |-> hunks]
                     /\ pc' = "truncate"
                  \/ /\ ~fDiff[i].new /\ now # Absent
                     /\ patched' = [now EXCEPT !.hunks = @ \cup hunks]
                     /\ pc' = "backup"
    /\ UNCHANGED <<disk, backups, pending, op, work, replaced, given, refused>>

(* Fault: all calls share the first backup directory.                      *)
BackupShared ==
    /\ pc = "backup"
    /\ backups' = [backups EXCEPT ![1][PathOf(inHand)] = disk[PathOf(inHand)]]
    /\ pc' = "truncate"
    /\ UNCHANGED <<disk, pending, op, work, inHand, patched, replaced, given, refused>>

(* copy_file, which overwrites a copy that is there already.               *)
Backup ==
    /\ pc = "backup"
    /\ backups' = [backups EXCEPT ![Len(backups)][PathOf(inHand)] = disk[PathOf(inHand)]]
    /\ pc' = "truncate"
    /\ UNCHANGED <<disk, pending, op, work, inHand, patched, replaced, given, refused>>

(* WriteTextFile opens the target with ios::trunc ...                      *)
Truncate ==
    /\ pc = "truncate"
    /\ disk' = [disk EXCEPT ![PathOf(inHand)] = Empty]
    /\ replaced' = replaced \cup
           {Destroyed(PathOf(inHand), content,
                      \E j \in Files(work) \ {inHand} : PathOf(j) = PathOf(inHand)) :
               content \in {disk[PathOf(inHand)]} \ {Absent}}
    /\ pc' = "write"
    /\ UNCHANGED <<backups, pending, op, work, inHand, patched, given, refused>>

(* ... and does not look whether the lines went out: on a full disk the    *)
(* file stays short and the call goes on.                                  *)
Write ==
    /\ pc = "write"
    /\ disk' \in {disk, [disk EXCEPT ![PathOf(inHand)] = patched]}
    /\ given' = given \cup Names({x \in work : x[1] = inHand})
    /\ work' = {x \in work : x[1] # inHand}
    /\ pc' = "check"
    /\ UNCHANGED <<backups, pending, op, inHand, patched, replaced, refused>>

Leave ==
    /\ pc' = "idle" /\ op' = {} /\ work' = {} /\ inHand' = 0 /\ patched' = Empty

(* All files written: the panel drops what was applied from the diff.      *)
Return ==
    /\ pc = "check" /\ work = {}
    /\ fLeft' = fLeft \ op
    /\ Leave
    /\ UNCHANGED <<disk, backups, fDiff, replaced, given, refused>>

(* Fault: the panel drops what it meant to apply after a failure too.      *)
FailDrops ==
    /\ \/ pc = "check" /\ work # {}
       \/ pc \in {"backup", "truncate"}
    /\ fLeft' = fLeft \ op
    /\ Leave
    /\ UNCHANGED <<disk, backups, fDiff, replaced, given, refused>>

(* A check fails, or a system call throws: false is returned, the diff     *)
(* stays pending, and files already written stay written.                  *)
Fail ==
    /\ \/ pc = "check" /\ work # {}
       \/ pc \in {"backup", "truncate"}
    /\ Leave
    /\ UNCHANGED <<disk, backups, pending, replaced, given, refused>>

Crash ==
    /\ pc # "idle"
    /\ Leave
    /\ fLeft' = {}
    /\ refused' = refused \cup Names(fLeft)
    /\ UNCHANGED <<disk, backups, fDiff, replaced, given>>

Next ==
    \/ \E diff \in Diffs : Propose(diff)
    \/ \E path \in Paths : UserEdit(path) \/ RejectFile(path) \/ RejectHunk(path)
    \/ \E path \in Paths : ApplyFile(path) \/ ApplyHunk(path)
    \/ RejectAll \/ Apply
    \/ Check \/ Backup \/ Truncate \/ Write \/ Return
    \/ Fail \/ Crash

Spec == Init /\ [][Next]_vars

-----------------------------------------------------------------------------

TypeOK ==
    /\ disk \in [Paths -> Contents \cup {Absent}]
    /\ backups \in Seq([Paths -> Contents \cup {Absent}])
    /\ fDiff \in Diffs \cup {<<>>}
    /\ \A x \in fLeft : x[1] \in DOMAIN fDiff /\ x[2] \in DOMAIN fDiff[x[1]].hunks
    /\ pc \in {"idle", "check", "backup", "truncate", "write"}
    /\ op \subseteq fLeft
    /\ work \subseteq op
    /\ pc \in {"backup", "truncate", "write"} => inHand \in Files(work)
    /\ patched \in Contents
    /\ replaced \subseteq [path : Paths, was : Contents, again : BOOLEAN]
    /\ given \subseteq Hunks /\ refused \subseteq Hunks

(* Whatever content a patch destroyed can be found in a backup directory,  *)
(* after any mixture of successes, failures and crashes ("unique           *)
(* .haikode/backups/ copies before writes"), but for what the same call    *)
(* was to overwrite again, for a later entry of the diff with that path:   *)
(* its copy takes the place of the first.                                  *)
NothingLost ==
    \A r \in replaced :
        r.again \/ \E n \in DOMAIN backups : backups[n][r.path] = r.was

(* No hunk leaves the pending diff without a decision: it was rejected (or *)
(* lost with the program), or its lines were handed to a write.  Only the  *)
(* hunks of a second entry for a path go with those of the first: RemoveFile*)
(* drops what ApplyFile left.                                              *)
ProposedHunksAreDecided ==
    [][ Names(fLeft) \ Names(fLeft)' \subseteq given' \cup refused' \cup Names(Behind) ]_vars

=============================================================================

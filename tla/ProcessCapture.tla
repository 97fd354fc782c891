--------------------------- MODULE ProcessCapture ---------------------------
(***************************************************************************)
(* ProcessCapture::Run (ai/ProcessCapture.cpp): a worker thread forks a    *)
(* child, reads its standard output and error from a non-blocking pipe,    *)
(* and waits until it exits, is cancelled or times out.                    *)
(*                                                                         *)
(* One action per system call: the child, its descendants, the user who    *)
(* presses Stop and the clock move between any two of them.  A byte stands *)
(* for a block of output.  ValidateOptions, a failing pipe or fork, and    *)
(* waitpid failing (nothing else in the program reaps this child) return   *)
(* before there is anything to model.                                      *)
(***************************************************************************)
EXTENDS Integers

CONSTANTS
    MaxSent,        \* bound: bytes the child writes
    MaxStray,       \* bound: bytes its descendants write after it has exited
    Endless,        \* whether they go on writing after that (not counted)
    PipeSize,       \* capacity of the pipe
    BufferSize,     \* the buffer of one read
    maxOutputBytes

ASSUME CaptureAssumption ==
    /\ MaxSent \in Nat /\ MaxStray \in Nat /\ Endless \in BOOLEAN
    /\ PipeSize \in Nat \ {0} /\ BufferSize \in Nat \ {0}
    /\ maxOutputBytes \in Nat

VARIABLES
    pc,             \* the next system call of Run
    output, wasCancelled, timedOut, \* the ProcessCaptureResult
    child,          \* "running", "zombie" (exited, not waited for), "reaped"
    status,         \* how it ended
    signals,        \* signals sent to its process id
    pipe,           \* bytes in the pipe
    sent, stray,    \* bytes written by the child, by its orphans
    stopped,        \* the CancellationToken
    expired         \* timeoutSeconds have passed

process == <<child, status, sent, stray>>
clock == <<stopped, expired>>
captureVars == <<pc, output, wasCancelled, timedOut, process, signals, pipe, clock>>

Smaller(m, n) == IF m <= n THEN m ELSE n

CaptureInit ==
    /\ pc = "read"
    /\ output = 0 /\ wasCancelled = FALSE /\ timedOut = FALSE
    /\ child = "running" /\ status = "none" /\ signals = {}
    /\ pipe = 0 /\ sent = 0 /\ stray = 0
    /\ stopped = FALSE /\ expired = FALSE

-----------------------------------------------------------------------------
(* The child and the outside world.                                        *)

(* A write blocks while the pipe is full.                                  *)
ChildWrites ==
    /\ child = "running"
    /\ pipe < PipeSize
    /\ \/ sent < MaxSent /\ sent' = sent + 1
       \/ sent = MaxSent /\ Endless /\ UNCHANGED sent
    /\ pipe' = pipe + 1
    /\ UNCHANGED <<pc, output, wasCancelled, timedOut, child, status, stray, signals, clock>>

(* A descendant inherits the pipe.  While the child runs, its output is    *)
(* counted as the child's.                                                 *)
DescendantWrites ==
    /\ child # "running"
    /\ pc # "returned"
    /\ pipe < PipeSize
    /\ \/ stray < MaxStray /\ stray' = stray + 1
       \/ stray = MaxStray /\ Endless /\ UNCHANGED stray
    /\ pipe' = pipe + 1
    /\ UNCHANGED <<pc, output, wasCancelled, timedOut, child, status, sent, signals, clock>>

(* The child exits by itself, or because of SIGTERM, which it may ignore.  *)
ChildExits(how) ==
    /\ child = "running"
    /\ how \in {"success", "failure"}
    /\ child' = "zombie"
    /\ status' = how
    /\ UNCHANGED <<pc, output, wasCancelled, timedOut, sent, stray, signals, pipe, clock>>

ChildKilled ==
    /\ child = "running"
    /\ "KILL" \in signals
    /\ child' = "zombie"
    /\ status' = "failure"
    /\ UNCHANGED <<pc, output, wasCancelled, timedOut, sent, stray, signals, pipe, clock>>

Stop ==
    /\ ~stopped
    /\ stopped' = TRUE
    /\ UNCHANGED <<pc, output, wasCancelled, timedOut, process, signals, pipe, expired>>

Expire ==
    /\ ~expired
    /\ expired' = TRUE
    /\ UNCHANGED <<pc, output, wasCancelled, timedOut, process, signals, pipe, stopped>>

-----------------------------------------------------------------------------
(* Run.                                                                    *)

(* Faults: the limit is not kept; reading stops when the output is full.   *)
AppendOutputUnlimited ==
    LET count == Smaller(pipe, BufferSize) IN
        /\ count > 0
        /\ pipe' = pipe - count
        /\ output' = output + count
(* One read takes what is there, up to the size of the buffer; what does   *)
(* not fit into the output is dropped.                                     *)
AppendOutput ==
    LET count == Smaller(pipe, BufferSize) IN
        /\ count > 0
        /\ pipe' = pipe - count
        /\ output' = Smaller(output + count, maxOutputBytes)

Read ==
    /\ pc = "read"
    /\ \/ AppendOutput /\ UNCHANGED pc
       \/ pipe = 0 /\ pc' = "wait" /\ UNCHANGED <<pipe, output>>
    /\ UNCHANGED <<wasCancelled, timedOut, process, signals, clock>>

Reap ==
    /\ child = "zombie"
    /\ child' = "reaped"
    /\ UNCHANGED <<status, sent, stray>>

(* waitpid with WNOHANG, each time the pipe was found empty.               *)
Wait ==
    /\ pc = "wait"
    /\ \/ Reap /\ pc' = "drain"
       \/ child = "running" /\ pc' = "look" /\ UNCHANGED process
    /\ UNCHANGED <<output, wasCancelled, timedOut, signals, pipe, clock>>

(* Fault: what was written between the last read and the exit is left.     *)
DrainNothing ==
    /\ pc = "drain"
    /\ pc' = "close"
    /\ UNCHANGED <<output, pipe, wasCancelled, timedOut, process, signals, clock>>

Drain ==
    /\ pc = "drain"
    /\ \/ AppendOutput /\ UNCHANGED pc
       \/ pipe = 0 /\ pc' = "close" /\ UNCHANGED <<pipe, output>>
    /\ UNCHANGED <<wasCancelled, timedOut, process, signals, clock>>

(* Cancelled, else timed out, else select for 100 ms and around again.     *)
Look ==
    /\ pc = "look"
    /\ wasCancelled' = stopped
    /\ timedOut' = (expired /\ ~stopped)
    /\ IF stopped \/ expired
       THEN pc' = "grace" /\ signals' = signals \cup {"TERM"}
       ELSE pc' = "read" /\ UNCHANGED signals
    /\ UNCHANGED <<output, process, pipe, clock>>

(* waitpid with WNOHANG again, 250 ms after SIGTERM.                       *)
Grace ==
    /\ pc = "grace"
    /\ \/ Reap /\ pc' = "reap"
       \/ child = "running" /\ pc' = "kill" /\ UNCHANGED process
    /\ UNCHANGED <<output, wasCancelled, timedOut, signals, pipe, clock>>

(* Fault: SIGTERM is sent a second time.                                   *)
KillSoftly ==
    /\ pc = "kill"
    /\ signals' = signals \cup {"TERM"}
    /\ pc' = "reap"
    /\ UNCHANGED <<output, wasCancelled, timedOut, process, pipe, clock>>

Kill ==
    /\ pc = "kill"
    /\ signals' = signals \cup {"KILL"}
    /\ pc' = "reap"
    /\ UNCHANGED <<output, wasCancelled, timedOut, process, pipe, clock>>

(* Fault: the last wait does not block.                                    *)
FinalWaitPolls ==
    /\ pc = "reap"
    /\ \/ Reap
       \/ child # "zombie" /\ UNCHANGED process
    /\ pc' = "close"
    /\ UNCHANGED <<output, wasCancelled, timedOut, signals, pipe, clock>>

(* The last waitpid blocks; it fails, unnoticed, if Grace has reaped.      *)
FinalWait ==
    /\ pc = "reap"
    /\ \/ Reap
       \/ child = "reaped" /\ UNCHANGED process
    /\ pc' = "close"
    /\ UNCHANGED <<output, wasCancelled, timedOut, signals, pipe, clock>>

(* The read end is closed and the result is returned.                      *)
Close ==
    /\ pc = "close"
    /\ pc' = "returned"
    /\ UNCHANGED <<output, wasCancelled, timedOut, process, signals, pipe, clock>>

Run == Read \/ Wait \/ Drain \/ Look \/ Grace \/ Kill \/ FinalWait \/ Close

CaptureNext ==
    \/ ChildWrites \/ DescendantWrites \/ ChildKilled
    \/ \E how \in {"success", "failure"} : ChildExits(how)
    \/ Stop \/ Expire
    \/ Run

(* The thread is scheduled and SIGKILL takes effect; nothing is assumed of *)
(* the child.                                                              *)
SafeCaptureSpec == CaptureInit /\ [][CaptureNext]_captureVars
CaptureSpec == SafeCaptureSpec /\ WF_captureVars(Run) /\ WF_captureVars(ChildKilled)

-----------------------------------------------------------------------------

CaptureTypeOK ==
    /\ pc \in {"read", "wait", "drain", "look", "grace", "kill", "reap", "close",
               "returned"}
    /\ output \in 0..maxOutputBytes
    /\ wasCancelled \in BOOLEAN /\ timedOut \in BOOLEAN
    /\ child \in {"running", "zombie", "reaped"}
    /\ status \in {"none", "success", "failure"}
    /\ signals \subseteq {"TERM", "KILL"}
    /\ pipe \in 0..PipeSize
    /\ sent \in 0..MaxSent /\ stray \in 0..MaxStray
    /\ stopped \in BOOLEAN /\ expired \in BOOLEAN

(* A run that is reported as exited has all that the child wrote, up to    *)
(* the limit: the output a child leaves between the last read and its exit *)
(* is in the result too.                                                   *)
OutputComplete ==
    pc = "returned" /\ ~wasCancelled /\ ~timedOut => output >= Smaller(sent, maxOutputBytes)

(* Run leaves no zombie and no running child behind, however it ends.      *)
NoChildLeft == pc = "returned" => child = "reaped"

(* No signal goes to a process id that was waited for and may belong to    *)
(* another process by now.                                                 *)
SignalsOnlyOwnChild == [][ signals' # signals => child # "reaped" ]_captureVars

(* A child, or its descendants, that write as fast as Run reads.           *)
OutputNeverEnds == <>[](pc \in {"read", "drain"})

(* Stop and the timeout end the run, even of a child that ignores SIGTERM  *)
(* and writes on and on, as long as some read finds the pipe empty: as     *)
(* long as output comes, the loop looks at neither token nor clock.        *)
StopAndTimeoutWork ==
    OutputNeverEnds \/ ((stopped \/ expired) ~> (pc = "returned"))
=============================================================================

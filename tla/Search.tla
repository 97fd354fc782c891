------------------------------- MODULE Search -------------------------------
(***************************************************************************)
(* Find in files and the list of its results (ui/SearchResultPanel.cpp,    *)
(* helpers/GrepThread.cpp, helpers/console_io).                            *)
(*                                                                         *)
(* A thread runs grep, reads its output through pipes that never block,    *)
(* and sends the matches of one file after the other to the panel, and a   *)
(* last message when it is done; then it waits to be killed.  Before that  *)
(* it empties the pipes of a grep that is running already: what grep wrote *)
(* until then is lost (_CleanPipes).  The panel                            *)
(* lives in the looper of the window, where the references found by a      *)
(* language server arrive too: they take the place of the results, and of  *)
(* the search.  No message names its search.                               *)
(***************************************************************************)
EXTENDS Integers, Sequences

CONSTANTS
    Files,          \* files with matches
    NoFile,
    Output,         \* the file of each line grep writes, in order
    MaxSearches,    \* bound: searches started
    MaxReferences,  \* bound: lists of references
    MaxFinds        \* bound: find messages that wait

ASSUME OutputAssumption == Output \in Seq(Files) /\ Output # <<>> /\ NoFile \notin Files
ASSUME SearchBounds == MaxSearches \in Nat /\ MaxReferences \in Nat /\ MaxFinds \in Nat

None == 0               \* no search: also the origin of references

VARIABLES
    fGrepThread,    \* the search whose thread the panel holds, or None
    searches,       \* searches so far: a search is its number
    findEnabled,    \* the action "Find in files"; Enter in the text field asks anyway
    rows,           \* what the list shows: a file's matches and their origin
    fCountResults,
    shown,          \* search the list was cleared for; None for references
    pc,             \* of the thread of fGrepThread
    alive, written, \* grep, and the lines it wrote
    read,           \* the lines the thread read
    fCurrentMessage,
    queue,          \* messages of the window's looper
    doing,          \* a handler that interrupts the thread: its message, or <<>>
    references,     \* lists so far
    dropped,        \* lines of the last search thrown away with the pipes
    finished,       \* the search whose last message was handled last
    leftovers,      \* messages of an earlier search may reach the list
    cut,            \* the last search was cut short, or could not start
    late,           \* lines written between the last read and grep's end
    raced           \* a thread was deleted at work by its own last message

panel == <<fGrepThread, searches, findEnabled, rows, fCountResults, shown>>
thread == <<pc, read, fCurrentMessage>>
grep == <<alive, written>>
ghosts == <<dropped, finished, leftovers, cut, late, raced>>
vars == <<panel, thread, grep, queue, doing, references, ghosts>>

Matches(origin, file, n) == [from |-> origin, file |-> file, lines |-> n]
Nothing == Matches(None, NoFile, 0)
Report(m) == [what |-> "report", matches |-> m]
Done(s) == [what |-> "done", from |-> s]
Find == [what |-> "find"]
References == [what |-> "references"]

Init ==
    /\ fGrepThread = None /\ searches = 0 /\ findEnabled = TRUE /\ rows = <<>>
    /\ fCountResults = 0 /\ shown = None /\ pc = "none" /\ alive = FALSE
    /\ written = 0 /\ read = 0 /\ fCurrentMessage = Nothing /\ queue = <<>>
    /\ doing = <<>> /\ references = 0 /\ dropped = 0 /\ finished = None
    /\ leftovers = FALSE /\ cut = FALSE /\ late = FALSE /\ raced = FALSE

-----------------------------------------------------------------------------
(* Messages of the user and of the language server.                        *)

(* The button while it is enabled, Enter in the text field at any time.    *)
AskFind ==
    /\ Len(SelectSeq(queue, LAMBDA m : m.what = "find")) < MaxFinds
    /\ queue' = Append(queue, Find)
    /\ UNCHANGED <<panel, thread, grep, doing, references, ghosts>>

ReferencesFound ==
    /\ references < MaxReferences /\ references' = references + 1
    /\ queue' = Append(queue, References)
    /\ UNCHANGED <<panel, thread, grep, doing, ghosts>>

-----------------------------------------------------------------------------
(* grep.                                                                   *)

GrepWrites ==
    /\ alive /\ written < Len(Output) /\ written' = written + 1
    /\ UNCHANGED <<panel, thread, alive, queue, doing, references, ghosts>>

(* It ends with all written, or by the signal of InterruptExternal.        *)
GrepEnds ==
    /\ alive /\ (written = Len(Output) \/ doing # <<>>)
    /\ alive' = FALSE
    /\ UNCHANGED <<panel, thread, written, queue, doing, references, ghosts>>

-----------------------------------------------------------------------------
(* The thread.                                                             *)

(* grep is loaded and resumed: it writes from now on.                      *)
ThreadStartup ==
    /\ pc = "starts"
    /\ pc' = "cleans" /\ alive' = TRUE /\ written' = 0
    /\ read' = 0 /\ fCurrentMessage' = Nothing
    /\ UNCHANGED <<panel, queue, doing, references, ghosts>>

(* _CleanPipes reads until nothing is there, and keeps nothing: meant for  *)
(* output inherited from the program, it takes grep's first lines as well. *)
(* (What is taken are bytes; here a line goes or stays as a whole.)        *)
CleanPipes ==
    /\ pc = "cleans" /\ pc' = "runs"
    /\ read' = written /\ dropped' = written
    /\ UNCHANGED <<panel, fCurrentMessage, grep, queue, doing, references, finished,
                   leftovers, cut, late, raced>>

(* The image is not loaded, a pipe not made, or not opened, when grep is   *)
(* killed: the thread returns and tells nobody.                            *)
StartupFails ==
    /\ pc \in {"starts", "cleans"} /\ pc' = "failed" /\ alive' = FALSE /\ cut' = TRUE
    /\ UNCHANGED <<panel, read, fCurrentMessage, written, queue, doing, references, dropped,
                   finished, leftovers, late, raced>>

(* Fault: the matches of the file before are dropped.                      *)
OnStdOutputLineDrops(file) ==
    \/ /\ file = fCurrentMessage.file
       /\ fCurrentMessage' = [fCurrentMessage EXCEPT !.lines = @ + 1]
       /\ UNCHANGED queue
    \/ /\ file # fCurrentMessage.file
       /\ fCurrentMessage' = Matches(fGrepThread, file, 1)
       /\ UNCHANGED queue

(* OnStdOutputLine: a line of another file sends what was collected.  (The *)
(* first sends an empty message, which the panel ignores.)                 *)
OnStdOutputLine(file) ==
    \/ /\ file = fCurrentMessage.file
       /\ fCurrentMessage' = [fCurrentMessage EXCEPT !.lines = @ + 1]
       /\ UNCHANGED queue
    \/ /\ file # fCurrentMessage.file
       /\ fCurrentMessage' = Matches(fGrepThread, file, 1)
       /\ queue' = IF fCurrentMessage = Nothing THEN queue
                   ELSE Append(queue, Report(fCurrentMessage))

ReadLine ==
    /\ pc = "runs" /\ read < written
    /\ read' = read + 1
    /\ OnStdOutputLine(Output[read'])
    /\ UNCHANGED <<panel, pc, grep, doing, references, ghosts>>

(* Nothing to read now: whether grep lives is asked next.                  *)
ReadNothing ==
    /\ pc = "runs" /\ read = written
    /\ pc' = "asks"
    /\ UNCHANGED <<panel, read, fCurrentMessage, grep, queue, doing, references, ghosts>>

(* The unit ends; a grep that is gone is the end of the work, whatever it  *)
(* wrote since the read.                                                   *)
AskAlive ==
    /\ pc = "asks"
    /\ pc' = IF alive THEN "runs" ELSE "quits"
    /\ late' = (late \/ (~alive /\ read < written))
    /\ UNCHANGED <<panel, read, fCurrentMessage, grep, queue, doing, references, dropped,
                   finished, leftovers, cut, raced>>

(* Fault: the thread tells it is done before it is.                        *)
ThreadShutdownTells ==
    /\ pc = "quits" /\ pc' = "sent"
    /\ queue' = Append(IF fCurrentMessage = Nothing THEN queue
                       ELSE Append(queue, Report(fCurrentMessage)), Done(fGrepThread))
    /\ fCurrentMessage' = Nothing
    /\ UNCHANGED <<panel, read, grep, doing, references, ghosts>>

(* ThreadShutdown closes the pipes and sends what was collected last.      *)
ThreadShutdown ==
    /\ pc = "quits" /\ pc' = "sent"
    /\ queue' = IF fCurrentMessage = Nothing THEN queue
                ELSE Append(queue, Report(fCurrentMessage))
    /\ fCurrentMessage' = Nothing
    /\ UNCHANGED <<panel, read, grep, doing, references, ghosts>>

(* Its last message, and the wait to be killed.                            *)
SendDone ==
    /\ pc = "sent" /\ pc' = "idle"
    /\ queue' = Append(queue, Done(fGrepThread))
    /\ UNCHANGED <<panel, read, fCurrentMessage, grep, doing, references, ghosts>>

ThreadStep ==
    \/ ThreadStartup \/ CleanPipes
    \/ ReadLine \/ ReadNothing \/ AskAlive \/ ThreadShutdown \/ SendDone

-----------------------------------------------------------------------------
(* The handlers of the panel.                                              *)

Takes(what) == doing = <<>> /\ queue # <<>> /\ Head(queue).what = what

(* Messages of a thread that the panel does not hold any more.             *)
Stale(messages) == \E i \in DOMAIN messages : messages[i].what \in {"report", "done"}

StartSearch ==
    /\ Takes("find") /\ queue' = Tail(queue)
    /\ fGrepThread = None /\ searches < MaxSearches
    /\ searches' = searches + 1 /\ fGrepThread' = searches' /\ shown' = searches'
    /\ rows' = <<>> /\ fCountResults' = 0 /\ findEnabled' = FALSE /\ pc' = "starts"
    /\ leftovers' = Stale(queue') /\ cut' = FALSE /\ late' = FALSE /\ dropped' = 0
    /\ UNCHANGED <<read, fCurrentMessage, grep, doing, references, finished, raced>>

(* There is a search already, or nothing to look for.                      *)
FindIgnored ==
    /\ Takes("find") /\ queue' = Tail(queue)
    /\ UNCHANGED <<panel, thread, grep, doing, references, ghosts>>

UpdateSearch ==
    /\ Takes("report") /\ queue' = Tail(queue)
    /\ rows' = Append(rows, Head(queue).matches)
    /\ fCountResults' = fCountResults + Head(queue).matches.lines
    /\ UNCHANGED <<fGrepThread, searches, findEnabled, shown, thread, grep, doing,
                   references, ghosts>>

(* The end of a handler that has no thread to end, or has ended it.        *)
ShowReferences(rest) ==
    /\ rows' = <<Matches(None, Output[1], 1)>> /\ shown' = None
    /\ fCountResults' = fCountResults + 1
    /\ leftovers' = Stale(rest)
    /\ UNCHANGED <<searches, findEnabled, dropped, finished, late>>

(* Fault: the button is left as it is.                                     *)
SearchDoneKeepsButton(s) ==
    /\ finished' = s
    /\ UNCHANGED <<searches, findEnabled, rows, fCountResults, shown, dropped, leftovers, late>>

SearchDone(s) ==
    /\ findEnabled' = TRUE /\ finished' = s
    /\ UNCHANGED <<searches, rows, fCountResults, shown, dropped, leftovers, late>>

Finish(m, rest) ==
    \/ m.what = "references" /\ ShowReferences(rest)
    \/ m.what = "done" /\ SearchDone(m.from)

(* MSG_GREP_DONE or references without a thread.                           *)
HandleAtOnce ==
    /\ Takes("references") \/ Takes("done")
    /\ fGrepThread = None /\ queue' = Tail(queue)
    /\ Finish(Head(queue), queue')
    /\ UNCHANGED <<fGrepThread, thread, grep, doing, references, cut, raced>>

(* InterruptExternal: a grep that lives is signalled and waited for, while *)
(* the thread goes on.                                                     *)
Interrupt ==
    /\ Takes("references") \/ Takes("done")
    /\ fGrepThread # None /\ queue' = Tail(queue)
    /\ doing' = <<Head(queue)>>
    /\ UNCHANGED <<panel, thread, grep, references, ghosts>>

(* Fault: the panel keeps the pointer.                                     *)
DeleteThreadKeepsPointer ==
    /\ doing # <<>> /\ doing' = <<>>
    /\ UNCHANGED fGrepThread /\ pc' = "none" /\ alive' = FALSE
    /\ written' = 0 /\ read' = 0 /\ fCurrentMessage' = Nothing
    /\ Finish(doing[1], queue)
    /\ cut' = (cut \/ doing[1] # Done(fGrepThread))
    /\ raced' = (raced \/ (doing[1] = Done(fGrepThread) /\ pc # "idle"))
    /\ UNCHANGED <<queue, references>>

(* grep has ended, or two seconds are over and the thread is killed: the   *)
(* thread is deleted wherever it is, and the handler goes on.              *)
DeleteThread ==
    /\ doing # <<>> /\ doing' = <<>>
    /\ fGrepThread' = None /\ pc' = "none" /\ alive' = FALSE
    /\ written' = 0 /\ read' = 0 /\ fCurrentMessage' = Nothing
    /\ Finish(doing[1], queue)
    /\ cut' = (cut \/ doing[1] # Done(fGrepThread))
    /\ raced' = (raced \/ (doing[1] = Done(fGrepThread) /\ pc # "idle"))
    /\ UNCHANGED <<queue, references>>

HandlerStep ==
    \/ StartSearch \/ FindIgnored \/ UpdateSearch \/ HandleAtOnce \/ Interrupt
    \/ DeleteThread

Next ==
    \/ AskFind \/ ReferencesFound \/ GrepWrites \/ GrepEnds \/ StartupFails
    \/ ThreadStep \/ HandlerStep

(* grep gets on and ends, the thread is scheduled, the looper handles what *)
(* it is sent.                                                             *)
SafeSpec == Init /\ [][Next]_vars

Spec ==
    /\ SafeSpec
    /\ WF_vars(GrepWrites) /\ WF_vars(GrepEnds)
    /\ WF_vars(ThreadStep) /\ WF_vars(HandlerStep)

-----------------------------------------------------------------------------
(* Properties.                                                             *)

Reports == [from : 0 .. MaxSearches, file : Files \cup {NoFile}, lines : 0 .. Len(Output)]

Posted ==
    {Find, References} \cup [what : {"report"}, matches : Reports]
        \cup [what : {"done"}, from : 1 .. MaxSearches]

TypeOK ==
    /\ searches \in 0 .. MaxSearches /\ fGrepThread \in {None, searches}
    /\ shown \in {None, searches} /\ findEnabled \in BOOLEAN
    /\ rows \in Seq(Reports) /\ fCountResults \in Nat
    /\ pc \in {"none", "starts", "cleans", "runs", "asks", "quits", "sent", "idle", "failed"}
    /\ (pc = "none") = (fGrepThread = None)
    /\ alive \in BOOLEAN /\ read \in 0 .. written /\ written \in 0 .. Len(Output)
    /\ fCurrentMessage \in Reports
    /\ queue \in Seq(Posted) /\ doing \in {<<>>} \cup {<<m>> : m \in Posted}
    /\ references \in 0 .. MaxReferences /\ finished \in 0 .. MaxSearches
    /\ dropped \in 0 .. Len(Output)
    /\ leftovers \in BOOLEAN /\ cut \in BOOLEAN /\ late \in BOOLEAN /\ raced \in BOOLEAN

(* The matches r of search s are the lines after lo, up to hi, of grep's   *)
(* output: a run of lines of one file that goes on for no other line.      *)
IsRun(r, s, lo, hi) ==
    /\ lo < hi /\ r = Matches(s, Output[hi], hi - lo)
    /\ \A k \in lo + 1 .. hi : Output[k] = Output[hi]
    /\ hi < Len(Output) => Output[hi + 1] # Output[hi]

(* One after the other, rs are all the runs of the lines after a, up to n. *)
RunsOf(rs, s, a, n) ==
    \E last \in [0 .. Len(rs) -> 0 .. Len(Output)] :
        /\ last[0] = a /\ last[Len(rs)] = n
        /\ \A i \in 1 .. Len(rs) : IsRun(rs[i], s, last[i - 1], last[i])

(* No row of the list is of another search than the one it is shown for.   *)
RowsAreOfTheSearch == \A i \in 1 .. Len(rows) : rows[i].from = shown

(* The list shows rows of the present search only, unless messages of a    *)
(* thread that was deleted waited when the search began; and once the      *)
(* search is done it shows every match but those thrown away with the      *)
(* pipes when it started: a row for each run of lines of one file, all in  *)
(* order, and it counts them, unless grep wrote its last lines between     *)
(* the thread's last read and its question whether grep lives.             *)
ListIsOfTheSearch ==
    ~leftovers =>
        /\ RowsAreOfTheSearch
        /\ shown # None /\ finished = shown /\ ~late /\ ~cut
               => /\ RunsOf(rows, shown, dropped, Len(Output))
                  /\ dropped + fCountResults = Len(Output)

(* A thread that is deleted because it told it is done has nothing left to *)
(* do: only references, or the last message of another, end one at work.   *)
DoneIsTheLastAct == ~raced

(* The button comes back after every search that is not cut short by       *)
(* references and whose grep could be started.                             *)
FindComesBack == ~findEnabled ~> (findEnabled \/ cut)
=============================================================================

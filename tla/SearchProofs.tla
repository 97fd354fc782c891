---------------------------- MODULE SearchProofs ----------------------------
(***************************************************************************)
(* Proofs about Search for every output of grep and any number of          *)
(* searches, lists of references and waiting messages: its types, that a   *)
(* thread that told it is done has nothing left to do, that the list mixes *)
(* no two searches unless messages of before were left (IInv), and that    *)
(* the list of a finished search shows all it should (LInv).               *)
(***************************************************************************)
EXTENDS Search, TLAPS

(* What a message says fits the thread the panel holds and the list: it is *)
(* the last of a search that was started, and if of the one held, then its *)
(* thread waits to be killed; matches are of the search that is shown.     *)
Fits(m, held, state, left, listed, last) ==
    /\ m.what = "done" => m.from \in 1 .. last /\ (m.from = held => state = "idle")
    /\ m.what = "report" /\ ~left => m.matches.from = listed

Fitting(m) == Fits(m, fGrepThread, pc, leftovers, shown, searches)

MessagesFit ==
    /\ \A i \in 1 .. Len(queue) : Fitting(queue[i])
    /\ doing # <<>> => Fitting(doing[1]) /\ doing[1].what \in {"done", "references"}

(* The list belongs to the thread while there is one, what it collects too,*)
(* and it has not collected more lines than it read.                       *)
ThreadFits ==
    /\ fGrepThread # None => shown = fGrepThread
    /\ fCurrentMessage.from \in {None, fGrepThread}
    /\ fCurrentMessage = Nothing \/ fCurrentMessage.from = fGrepThread
    /\ fCurrentMessage.lines <= read
    /\ pc \in {"none", "starts", "cleans"} => fCurrentMessage = Nothing

RowsFit == ~leftovers => RowsAreOfTheSearch

IInv == TypeOK /\ MessagesFit /\ ThreadFits /\ RowsFit /\ ~raced

-----------------------------------------------------------------------------
(* Messages.                                                               *)

LEMMA Carries ==
    ASSUME NEW m \in Posted
    PROVE  /\ m.what \in {"find", "references", "report", "done"}
           /\ m.what = "report" => m.matches \in Reports
           /\ m.what = "done" => m.from \in 1 .. MaxSearches
  BY DEF Posted, Find, References

LEMMA ArePosted ==
    /\ Find \in Posted /\ References \in Posted
    /\ \A r \in Reports : Report(r) \in Posted /\ Report(r).what = "report"
                          /\ Report(r).matches = r
    /\ \A s \in 1 .. MaxSearches : Done(s) \in Posted
    /\ \A s : Done(s).what = "done" /\ Done(s).from = s
    /\ Find.what = "find" /\ References.what = "references"
  BY DEF Posted, Find, References, Report, Done

LEMMA NothingIsReport == Nothing \in Reports /\ Nothing.lines = 0 /\ Nothing.from = None
  BY OutputAssumption, SearchBounds DEF Nothing, Matches, Reports, None

(* A message at the end of the queue.                                      *)
LEMMA Longer ==
    ASSUME NEW q \in Seq(Posted), NEW m \in Posted
    PROVE  /\ Append(q, m) \in Seq(Posted)
           /\ \A i \in 1 .. Len(Append(q, m)) :
                  \/ i \in 1 .. Len(q) /\ Append(q, m)[i] = q[i]
                  \/ Append(q, m)[i] = m
  OBVIOUS

(* The first message of the queue, and the others.                         *)
LEMMA Shorter ==
    ASSUME NEW q \in Seq(Posted), q # <<>>
    PROVE  /\ Head(q) \in Posted /\ 1 \in 1 .. Len(q) /\ Head(q) = q[1]
           /\ Tail(q) \in Seq(Posted)
           /\ \A i \in 1 .. Len(Tail(q)) : i + 1 \in 1 .. Len(q) /\ Tail(q)[i] = q[i + 1]
  OBVIOUS

(* A queue that lost its first message, or got a last one that fits, fits. *)
LEMMA Taking ==
    ASSUME IInv, queue # <<>>
    PROVE  /\ Head(queue) \in Posted /\ Fitting(Head(queue))
           /\ Tail(queue) \in Seq(Posted)
           /\ \A i \in 1 .. Len(Tail(queue)) : Fitting(Tail(queue)[i])
  <1>1. queue \in Seq(Posted)
    BY DEF IInv, TypeOK
  <1>2. QED
    BY <1>1, Shorter DEF IInv, MessagesFit

LEMMA Sending ==
    ASSUME IInv, NEW m \in Posted, Fitting(m)
    PROVE  /\ Append(queue, m) \in Seq(Posted)
           /\ \A i \in 1 .. Len(Append(queue, m)) : Fitting(Append(queue, m)[i])
  <1>1. queue \in Seq(Posted)
    BY DEF IInv, TypeOK
  <1>2. QED
    BY <1>1, Longer DEF IInv, MessagesFit

-----------------------------------------------------------------------------

LEMMA Initially == Init => IInv
  <1> SUFFICES ASSUME Init PROVE IInv
    OBVIOUS
  <1>1. TypeOK
    <2>1. Len(Output) \in Nat /\ 0 \in 0 .. Len(Output) /\ 0 \in 0 .. 0
      BY OutputAssumption
    <2>2. 0 \in 0 .. MaxSearches /\ 0 \in 0 .. MaxReferences
      BY SearchBounds
    <2>3. <<>> \in Seq(Reports) /\ <<>> \in Seq(Posted)
      OBVIOUS
    <2>4. QED
      BY <2>1, <2>2, <2>3, NothingIsReport DEF Init, TypeOK, None
  <1>2. MessagesFit /\ ThreadFits /\ RowsFit
    BY NothingIsReport
       DEF Init, MessagesFit, ThreadFits, RowsFit, RowsAreOfTheSearch, None
  <1>3. QED
    BY <1>1, <1>2 DEF IInv, Init

(* The user and the server.                                                *)
LEMMA Asking ==
    ASSUME IInv, AskFind \/ ReferencesFound
    PROVE  IInv'
  <1>1. PICK m \in {Find, References} : queue' = Append(queue, m)
    BY DEF AskFind, ReferencesFound
  <1>2. m \in Posted /\ Fitting(m)
    BY ArePosted DEF Fitting, Fits
  <1>3. queue' \in Seq(Posted) /\ \A i \in 1 .. Len(queue') : Fitting(queue'[i])
    BY <1>1, <1>2, Sending
  <1>4. UNCHANGED <<panel, thread, grep, doing, ghosts>> /\ references' \in 0 .. MaxReferences
    BY SearchBounds DEF AskFind, ReferencesFound, IInv, TypeOK
  <1>5. QED
    BY <1>3, <1>4 DEF IInv, TypeOK, MessagesFit, ThreadFits, RowsFit, RowsAreOfTheSearch,
                      Fitting, Fits, panel, thread, grep, ghosts

(* Steps that leave the messages, the list and the panel alone.            *)
LEMMA Working ==
    ASSUME IInv, \/ GrepWrites \/ GrepEnds \/ StartupFails
                 \/ ThreadStartup \/ CleanPipes \/ ReadNothing \/ AskAlive
    PROVE  IInv'
  <1>1. UNCHANGED <<panel, queue, doing, references, finished, leftovers, raced>>
    BY DEF GrepWrites, GrepEnds, StartupFails, ThreadStartup, CleanPipes, ReadNothing,
           AskAlive, ghosts
  <1>2. /\ \/ pc' = pc
           \/ /\ pc \notin {"idle", "none"}
              /\ pc' \in {"cleans", "runs", "failed", "asks", "quits"}
        /\ alive' \in BOOLEAN /\ cut' \in BOOLEAN /\ late' \in BOOLEAN
    BY Zenon
       DEF GrepWrites, GrepEnds, StartupFails, ThreadStartup, CleanPipes, ReadNothing,
           AskAlive,
           IInv, TypeOK, thread, grep, ghosts
  <1>3. read' \in 0 .. written' /\ written' \in 0 .. Len(Output)
    <2>1. Len(Output) \in Nat /\ read \in 0 .. written /\ written \in 0 .. Len(Output)
      BY OutputAssumption DEF IInv, TypeOK
    <2>2. \/ read' = read /\ written' = written
          \/ read' = read /\ written' = written + 1 /\ written < Len(Output)
          \/ read' = 0 /\ written' = 0
          \/ read' = written /\ written' = written
      BY DEF GrepWrites, GrepEnds, StartupFails, ThreadStartup, CleanPipes, ReadNothing,
           AskAlive,
             thread, grep
    <2>3. QED
      BY <2>1, <2>2
  <1>4. \/ fCurrentMessage' = fCurrentMessage /\ read' = read
        \/ fCurrentMessage' = Nothing /\ read' = 0
        \/ fCurrentMessage' = fCurrentMessage /\ read' = written /\ pc = "cleans"
    BY DEF GrepWrites, GrepEnds, StartupFails, ThreadStartup, CleanPipes, ReadNothing,
           AskAlive, thread
  <1>5. TypeOK'
    <2>1. dropped' = dropped \/ dropped' = written
      BY DEF GrepWrites, GrepEnds, StartupFails, ThreadStartup, CleanPipes, ReadNothing,
             AskAlive, ghosts
    <2>2. dropped' \in 0 .. Len(Output)
      BY <2>1 DEF IInv, TypeOK
    <2>3. fCurrentMessage' \in Reports
      BY <1>4, NothingIsReport DEF IInv, TypeOK
    <2>4. QED
      BY <1>1, <1>2, <1>3, <2>2, <2>3 DEF IInv, TypeOK, panel
  <1>6. MessagesFit'
    BY <1>1, <1>2 DEF IInv, MessagesFit, Fitting, Fits, panel
  <1>7. ThreadFits'
    <2>1. \/ fCurrentMessage' = fCurrentMessage /\ read' = read
          \/ fCurrentMessage' = Nothing /\ read' \in Nat
      BY <1>3, <1>4 DEF IInv, TypeOK, ThreadFits
    <2>2. fCurrentMessage'.lines <= read'
      BY <2>1, NothingIsReport DEF IInv, ThreadFits
    <2>3. pc' \in {"none", "starts", "cleans"} => fCurrentMessage' = Nothing
      BY <1>2, <2>1 DEF GrepWrites, GrepEnds, StartupFails, ThreadStartup, CleanPipes,
             ReadNothing, AskAlive, IInv, ThreadFits, thread
    <2>4. QED
      BY <1>1, <2>1, <2>2, <2>3, NothingIsReport DEF IInv, ThreadFits, panel
  <1>8. QED
    BY <1>1, <1>5, <1>6, <1>7 DEF IInv, RowsFit, RowsAreOfTheSearch, panel

-----------------------------------------------------------------------------
(* The thread's messages.                                                  *)

(* A thread that is at work is the one held, and the list is shown for it. *)
LEMMA AtWork ==
    ASSUME IInv, pc # "none"
    PROVE  /\ fGrepThread = searches /\ fGrepThread \in 1 .. MaxSearches
           /\ shown = fGrepThread
  BY SearchBounds DEF IInv, TypeOK, ThreadFits, None

(* What was collected can be reported.                                     *)
LEMMA Collected ==
    ASSUME IInv, pc # "none", fCurrentMessage # Nothing
    PROVE  /\ Report(fCurrentMessage) \in Posted
           /\ Fitting(Report(fCurrentMessage))
  <1>1. fCurrentMessage \in Reports /\ fCurrentMessage.from = shown
    BY AtWork DEF IInv, TypeOK, ThreadFits
  <1>2. QED
    BY <1>1, ArePosted DEF Fitting, Fits

LEMMA Reading ==
    ASSUME IInv, ReadLine
    PROVE  IInv'
  <1> DEFINE file == Output[read + 1]
  <1>1. /\ pc = "runs" /\ read < written /\ read' = read + 1 /\ OnStdOutputLine(file)
        /\ UNCHANGED <<panel, pc, grep, doing, references, ghosts>>
    BY DEF ReadLine
  <1>2. /\ read \in Nat /\ written \in Nat /\ Len(Output) \in Nat
        /\ written <= Len(Output) /\ read + 1 \in 1 .. Len(Output)
    BY <1>1, OutputAssumption DEF IInv, TypeOK
  <1>3. file \in Files /\ file # NoFile
    BY <1>2, OutputAssumption
  <1>4. /\ fCurrentMessage \in Reports /\ fCurrentMessage.lines <= read
        /\ fCurrentMessage.lines \in Nat
    BY DEF IInv, TypeOK, ThreadFits, Reports
  <1>5. /\ fCurrentMessage' \in Reports /\ fCurrentMessage'.from = fGrepThread
        /\ fCurrentMessage'.lines <= read + 1
    <2>1. CASE file = fCurrentMessage.file
      <3>1. fCurrentMessage # Nothing
        BY <1>3, <2>1 DEF Nothing, Matches
      <3>2. fCurrentMessage' = [fCurrentMessage EXCEPT !.lines = @ + 1]
        BY <1>1, <2>1 DEF OnStdOutputLine
      <3>3. fCurrentMessage.lines + 1 \in 0 .. Len(Output)
        BY <1>2, <1>4
      <3>4. fCurrentMessage.from = fGrepThread
        BY <3>1 DEF IInv, ThreadFits
      <3>5. QED
        BY <1>2, <1>4, <3>2, <3>3, <3>4 DEF Reports
    <2>2. CASE file # fCurrentMessage.file
      <3>1. fCurrentMessage' = Matches(fGrepThread, file, 1)
        BY <1>1, <2>2 DEF OnStdOutputLine
      <3>2. fGrepThread \in 0 .. MaxSearches /\ 1 \in 0 .. Len(Output)
        BY <1>1, <1>2, AtWork, SearchBounds
      <3>3. QED
        BY <1>2, <1>3, <3>1, <3>2 DEF Matches, Reports
    <2>3. QED
      BY <2>1, <2>2
  <1>6. queue' \in Seq(Posted) /\ \A i \in 1 .. Len(queue') : Fitting(queue'[i])
    <2>1. CASE queue' = queue
      BY <2>1 DEF IInv, TypeOK, MessagesFit
    <2>2. CASE fCurrentMessage # Nothing /\ queue' = Append(queue, Report(fCurrentMessage))
      BY <1>1, <2>2, Collected, Sending
    <2>3. QED
      BY <1>1, <2>1, <2>2 DEF OnStdOutputLine
  <1>7. TypeOK'
    BY <1>1, <1>2, <1>5, <1>6 DEF IInv, TypeOK, panel, grep, ghosts
  <1>8. MessagesFit'
    BY <1>1, <1>6 DEF IInv, MessagesFit, Fitting, Fits, panel, ghosts
  <1>9. ThreadFits'
    BY <1>1, <1>5 DEF IInv, ThreadFits, panel
  <1>10. QED
    BY <1>1, <1>7, <1>8, <1>9 DEF IInv, RowsFit, RowsAreOfTheSearch, panel, ghosts

(* ThreadShutdown sends what was collected last.                           *)
LEMMA ShuttingDown ==
    ASSUME IInv, ThreadShutdown
    PROVE  IInv'
  <1>1. /\ pc = "quits" /\ pc' = "sent" /\ fCurrentMessage' = Nothing
        /\ UNCHANGED <<panel, read, grep, doing, references, ghosts>>
    BY DEF ThreadShutdown
  <1>2. queue' \in Seq(Posted) /\ \A i \in 1 .. Len(queue') : Fitting(queue'[i])
    <2>1. CASE fCurrentMessage = Nothing
      BY <2>1 DEF ThreadShutdown, IInv, TypeOK, MessagesFit
    <2>2. CASE fCurrentMessage # Nothing
      BY <1>1, <2>2, Collected, Sending DEF ThreadShutdown
    <2>3. QED
      BY <2>1, <2>2
  <1>3. TypeOK'
    BY <1>1, <1>2, NothingIsReport DEF IInv, TypeOK, panel, grep, ghosts
  <1>4. MessagesFit'
    BY <1>1, <1>2 DEF IInv, MessagesFit, Fitting, Fits, panel, ghosts
  <1>5. ThreadFits'
    BY <1>1, NothingIsReport DEF IInv, TypeOK, ThreadFits, panel
  <1>6. QED
    BY <1>1, <1>3, <1>4, <1>5 DEF IInv, RowsFit, RowsAreOfTheSearch, panel, ghosts

(* The last message is sent when nothing is left to do but to be killed.   *)
LEMMA Telling ==
    ASSUME IInv, SendDone
    PROVE  IInv'
  <1> DEFINE last == Done(fGrepThread)
  <1>1. /\ pc = "sent" /\ pc' = "idle" /\ queue' = Append(queue, last)
        /\ UNCHANGED <<panel, read, fCurrentMessage, grep, doing, references, ghosts>>
    BY DEF SendDone
  <1>2. last \in Posted /\ last.what = "done" /\ last.from = fGrepThread
    BY <1>1, AtWork, ArePosted
  <1>3. queue \in Seq(Posted)
    BY DEF IInv, TypeOK
  <1>4. queue' \in Seq(Posted)
    BY <1>1, <1>2, <1>3, Longer
  <1>5. ASSUME NEW m, m = last \/ Fitting(m)
        PROVE  Fits(m, fGrepThread', pc', leftovers', shown', searches')
    BY <1>1, <1>2, <1>5, AtWork DEF Fitting, Fits, panel, ghosts
  <1>6. ASSUME NEW i \in 1 .. Len(queue')
        PROVE  Fits(queue'[i], fGrepThread', pc', leftovers', shown', searches')
    <2>1. \/ i \in 1 .. Len(queue) /\ queue'[i] = queue[i]
          \/ queue'[i] = last
      BY <1>1, <1>2, <1>3, Longer
    <2>2. queue'[i] = last \/ Fitting(queue'[i])
      BY <2>1 DEF IInv, MessagesFit
    <2>3. QED
      BY <1>5, <2>2
  <1>7. doing' # <<>> =>
            /\ Fits(doing'[1], fGrepThread', pc', leftovers', shown', searches')
            /\ doing'[1].what \in {"done", "references"}
    BY <1>1, <1>5 DEF IInv, MessagesFit
  <1>8. MessagesFit'
    BY <1>6, <1>7 DEF MessagesFit, Fitting
  <1>9. TypeOK'
    BY <1>1, <1>4, AtWork DEF IInv, TypeOK, panel, grep, ghosts
  <1>10. ThreadFits'
    BY <1>1 DEF IInv, ThreadFits, panel
  <1>11. QED
    BY <1>1, <1>8, <1>9, <1>10 DEF IInv, RowsFit, RowsAreOfTheSearch, panel, ghosts

-----------------------------------------------------------------------------
(* The handlers.                                                           *)

LEMMA Starting ==
    ASSUME IInv, StartSearch
    PROVE  IInv'
  <1>1. /\ queue # <<>> /\ doing = <<>> /\ queue' = Tail(queue)
        /\ fGrepThread = None /\ searches < MaxSearches
        /\ searches' = searches + 1 /\ fGrepThread' = searches' /\ shown' = searches'
        /\ rows' = <<>> /\ pc' = "starts" /\ leftovers' = Stale(queue')
    BY DEF StartSearch, Takes
  <1>2. /\ findEnabled' = FALSE /\ fCountResults' = 0 /\ cut' = FALSE /\ late' = FALSE
        /\ dropped' = 0
        /\ UNCHANGED <<read, fCurrentMessage, grep, doing, references, finished, raced>>
    BY DEF StartSearch
  <1>3. /\ queue' \in Seq(Posted)
        /\ \A j \in 1 .. Len(queue') : Fitting(queue'[j])
    BY <1>1, Taking
  <1>4. /\ searches \in Nat /\ searches' \in 1 .. MaxSearches /\ pc = "none"
        /\ fCurrentMessage = Nothing
    BY <1>1, SearchBounds DEF IInv, TypeOK, ThreadFits
  <1>5. leftovers' \in BOOLEAN
    BY <1>1 DEF Stale
  <1>6. TypeOK'
    <2>1. /\ <<>> \in Seq(Reports) /\ searches' \in 0 .. MaxSearches /\ searches' # None
          /\ 0 \in 0 .. Len(Output)
      BY <1>4, OutputAssumption DEF None
    <2>2. QED
      BY <1>1, <1>2, <1>3, <1>5, <2>1 DEF IInv, TypeOK, grep
  <1>7. ASSUME NEW j \in 1 .. Len(queue')
        PROVE  Fits(queue'[j], fGrepThread', pc', leftovers', shown', searches')
    <2>1. Fitting(queue'[j]) /\ j \in DOMAIN queue'
      BY <1>3
    <2>2. queue'[j].what = "report" => leftovers'
      BY <1>1, <2>1 DEF Stale
    <2>3. QED
      BY <1>1, <1>4, <2>1, <2>2 DEF Fitting, Fits
  <1>8. MessagesFit'
    BY <1>1, <1>2, <1>7 DEF MessagesFit, Fitting
  <1>9. ThreadFits'
    BY <1>1, <1>2, <1>4, NothingIsReport DEF IInv, TypeOK, ThreadFits
  <1>10. QED
    BY <1>1, <1>2, <1>6, <1>8, <1>9 DEF IInv, RowsFit, RowsAreOfTheSearch

(* A search that is not started; the matches of a report are added.        *)
LEMMA Handling ==
    ASSUME IInv, FindIgnored \/ UpdateSearch
    PROVE  IInv'
  <1>1. /\ queue # <<>> /\ queue' = Tail(queue)
        /\ UNCHANGED <<fGrepThread, searches, findEnabled, shown, thread, grep, doing,
                       references, ghosts>>
    BY DEF FindIgnored, UpdateSearch, Takes, panel
  <1>2. /\ Head(queue) \in Posted /\ Fitting(Head(queue)) /\ queue' \in Seq(Posted)
        /\ \A j \in 1 .. Len(queue') : Fitting(queue'[j])
    BY <1>1, Taking
  <1>3. MessagesFit' /\ ThreadFits'
    BY <1>1, <1>2 DEF IInv, MessagesFit, ThreadFits, Fitting, Fits, thread, ghosts
  <1>4. /\ rows' \in Seq(Reports) /\ fCountResults' \in Nat
        /\ RowsFit'
    <2>1. CASE FindIgnored
      BY <2>1 DEF FindIgnored, IInv, TypeOK, RowsFit, RowsAreOfTheSearch, panel, ghosts
    <2>2. CASE UpdateSearch
      <3>1. /\ Head(queue).what = "report"
            /\ rows' = Append(rows, Head(queue).matches)
            /\ fCountResults' = fCountResults + Head(queue).matches.lines
        BY <2>2 DEF UpdateSearch, Takes
      <3>2. Head(queue).matches \in Reports /\ Head(queue).matches.lines \in Nat
        BY <1>2, <3>1, Carries DEF Reports
      <3>3. rows \in Seq(Reports) /\ fCountResults \in Nat
        BY DEF IInv, TypeOK
      <3>4. ~leftovers => Head(queue).matches.from = shown
        BY <1>2, <3>1 DEF Fitting, Fits
      <3>5. \A j \in 1 .. Len(rows') :
                \/ j \in 1 .. Len(rows) /\ rows'[j] = rows[j]
                \/ rows'[j] = Head(queue).matches
        BY <3>1, <3>2, <3>3
      <3>6. RowsFit'
        BY <1>1, <3>4, <3>5 DEF IInv, RowsFit, RowsAreOfTheSearch, ghosts
      <3>7. QED
        BY <3>1, <3>2, <3>3, <3>6
    <2>3. QED
      BY <2>1, <2>2
  <1>5. TypeOK'
    BY <1>1, <1>2, <1>4 DEF IInv, TypeOK, thread, grep, ghosts
  <1>6. QED
    BY <1>1, <1>3, <1>4, <1>5 DEF IInv, ghosts

(* The end of the handlers of references and of MSG_GREP_DONE, when there  *)
(* is no thread any more.                                                  *)
LEMMA Finishing ==
    ASSUME IInv, NEW m \in Posted, Fitting(m), NEW rest \in Seq(Posted),
           \A j \in 1 .. Len(rest) : Fitting(rest[j]),
           Finish(m, rest), queue' = rest, doing' = <<>>, UNCHANGED references,
           fGrepThread' = None, pc' = "none", fCurrentMessage' = Nothing,
           alive' \in BOOLEAN, read' \in 0 .. written', written' \in 0 .. Len(Output),
           cut' \in BOOLEAN, raced' = FALSE
    PROVE  TypeOK' /\ MessagesFit' /\ ThreadFits' /\ RowsFit'
  <1> DEFINE row == Matches(None, Output[1], 1)
  <1>1. row \in Reports /\ row.from = None
    <2>1. Output[1] \in Files /\ 1 \in 0 .. Len(Output) /\ 0 \in 0 .. MaxSearches
      BY OutputAssumption, SearchBounds
    <2>2. QED
      BY <2>1 DEF Matches, Reports, None
  <1>2. \/ /\ rows' = <<row>> /\ shown' = None /\ fCountResults' = fCountResults + 1
           /\ leftovers' = Stale(rest)
           /\ UNCHANGED <<searches, findEnabled, dropped, finished, late>>
        \/ /\ m.what = "done" /\ findEnabled' = TRUE /\ finished' = m.from
           /\ UNCHANGED <<searches, rows, fCountResults, shown, dropped, leftovers, late>>
    BY DEF Finish, ShowReferences, SearchDone
  <1>3. m.what = "done" => m.from \in 0 .. MaxSearches
    BY Carries
  <1>4. leftovers' \in BOOLEAN
    BY <1>2 DEF Stale, IInv, TypeOK
  <1>5. rows' \in Seq(Reports) /\ fCountResults' \in Nat /\ finished' \in 0 .. MaxSearches
    <2>1. <<row>> \in Seq(Reports)
      BY <1>1
    <2>2. rows \in Seq(Reports) /\ fCountResults \in Nat /\ finished \in 0 .. MaxSearches
      BY DEF IInv, TypeOK
    <2>3. /\ rows' \in {rows, <<row>>} /\ fCountResults' \in {fCountResults, fCountResults + 1}
          /\ \/ finished' = finished
             \/ m.what = "done" /\ finished' = m.from
      BY <1>2
    <2> HIDE DEF row
    <2>4. rows' \in Seq(Reports)
      BY <2>1, <2>2, <2>3
    <2>5. fCountResults' \in Nat
      BY <2>2, <2>3
    <2>6. finished' \in 0 .. MaxSearches
      BY <1>3, <2>2, <2>3
    <2>7. QED
      BY <2>4, <2>5, <2>6
  <1>6. /\ searches' = searches /\ shown' \in {None, searches} /\ late' = late
        /\ dropped' = dropped
        /\ findEnabled' \in BOOLEAN
    BY <1>2 DEF IInv, TypeOK
  <1>7. TypeOK'
    BY <1>4, <1>5, <1>6, NothingIsReport DEF IInv, TypeOK, None
  <1>8. ASSUME NEW j \in 1 .. Len(rest)
        PROVE  Fits(rest[j], fGrepThread', pc', leftovers', shown', searches')
    <2>1. Fitting(rest[j]) /\ j \in DOMAIN rest
      OBVIOUS
    <2>2. rest[j].what = "report" /\ ~leftovers' => shown' = shown /\ leftovers' = leftovers
      BY <1>2, <2>1 DEF Stale
    <2>3. QED
      BY <1>6, <2>1, <2>2 DEF Fitting, Fits, None, IInv, TypeOK
  <1>9. MessagesFit'
    BY <1>8 DEF MessagesFit, Fitting
  <1>10. ThreadFits'
    BY NothingIsReport DEF ThreadFits, None
  <1>11. RowsFit'
    BY <1>1, <1>2 DEF IInv, RowsFit, RowsAreOfTheSearch
  <1>12. QED
    BY <1>7, <1>9, <1>10, <1>11

(* A handler of references or MSG_GREP_DONE that finds no thread.          *)
LEMMA AtOnce ==
    ASSUME IInv, HandleAtOnce
    PROVE  IInv'
  <1>1. /\ queue # <<>> /\ doing = <<>> /\ queue' = Tail(queue) /\ fGrepThread = None
        /\ Finish(Head(queue), queue')
        /\ UNCHANGED <<fGrepThread, thread, grep, doing, references, cut, raced>>
    BY DEF HandleAtOnce, Takes
  <1>2. /\ pc = "none" /\ fCurrentMessage = Nothing /\ raced = FALSE
        /\ alive \in BOOLEAN /\ read \in 0 .. written /\ written \in 0 .. Len(Output)
        /\ cut \in BOOLEAN
    BY <1>1 DEF IInv, TypeOK, ThreadFits
  <1>3. /\ fGrepThread' = None /\ pc' = "none" /\ fCurrentMessage' = Nothing
        /\ raced' = FALSE /\ alive' \in BOOLEAN /\ read' \in 0 .. written'
        /\ written' \in 0 .. Len(Output) /\ cut' \in BOOLEAN /\ doing' = <<>>
        /\ UNCHANGED references
    BY <1>1, <1>2 DEF thread, grep
  <1>4. /\ Head(queue) \in Posted /\ Fitting(Head(queue)) /\ queue' \in Seq(Posted)
        /\ \A j \in 1 .. Len(queue') : Fitting(queue'[j])
    BY <1>1, Taking
  <1>5. TypeOK' /\ MessagesFit' /\ ThreadFits' /\ RowsFit'
    BY <1>1, <1>3, <1>4, Finishing
  <1>6. QED
    BY <1>3, <1>5 DEF IInv

(* One that finds a thread waits for grep first.                           *)
LEMMA Interrupting ==
    ASSUME IInv, Interrupt
    PROVE  IInv'
  <1>1. /\ queue # <<>> /\ queue' = Tail(queue) /\ doing' = <<Head(queue)>>
        /\ Head(queue).what \in {"done", "references"}
        /\ UNCHANGED <<panel, thread, grep, references, ghosts>>
    BY DEF Interrupt, Takes
  <1>2. /\ Head(queue) \in Posted /\ Fitting(Head(queue)) /\ queue' \in Seq(Posted)
        /\ \A j \in 1 .. Len(queue') : Fitting(queue'[j])
    BY <1>1, Taking
  <1>3. TypeOK'
    BY <1>1, <1>2 DEF IInv, TypeOK, panel, thread, grep, ghosts
  <1>4. MessagesFit'
    BY <1>1, <1>2 DEF MessagesFit, Fitting, Fits, panel, thread, ghosts
  <1>5. ThreadFits' /\ RowsFit'
    BY <1>1 DEF IInv, ThreadFits, RowsFit, RowsAreOfTheSearch, panel, thread, ghosts
  <1>6. QED
    BY <1>1, <1>3, <1>4, <1>5 DEF IInv, ghosts

(* The thread is deleted: when by its own last message, it was idle.       *)
LEMMA Deleting ==
    ASSUME IInv, DeleteThread
    PROVE  IInv'
  <1>1. /\ doing # <<>> /\ doing' = <<>> /\ Finish(doing[1], queue)
        /\ fGrepThread' = None /\ pc' = "none" /\ fCurrentMessage' = Nothing
        /\ alive' = FALSE /\ written' = 0 /\ read' = 0
        /\ UNCHANGED <<queue, references>>
    BY DEF DeleteThread
  <1>2. doing[1] \in Posted /\ Fitting(doing[1])
    BY <1>1 DEF IInv, TypeOK, MessagesFit
  <1>3. raced' = FALSE
    <2>1. doing[1] = Done(fGrepThread) => pc = "idle"
      BY <1>2, ArePosted DEF Fitting, Fits
    <2>2. QED
      BY <2>1 DEF DeleteThread, IInv
  <1>4. cut' \in BOOLEAN
    BY DEF DeleteThread
  <1>5. /\ queue \in Seq(Posted) /\ \A j \in 1 .. Len(queue) : Fitting(queue[j])
        /\ read' \in 0 .. written' /\ written' \in 0 .. Len(Output)
    BY <1>1, OutputAssumption DEF IInv, TypeOK, MessagesFit
  <1>6. TypeOK' /\ MessagesFit' /\ ThreadFits' /\ RowsFit'
    BY <1>1, <1>2, <1>3, <1>4, <1>5, Finishing
  <1>7. QED
    BY <1>3, <1>6 DEF IInv

-----------------------------------------------------------------------------

LEMMA Inductive ==
    ASSUME IInv, [Next]_vars
    PROVE  IInv'
  <1>1. CASE UNCHANGED vars
    BY <1>1 DEF vars, panel, thread, grep, ghosts, IInv, TypeOK, MessagesFit, ThreadFits,
                RowsFit, RowsAreOfTheSearch, Fitting, Fits
  <1>2. CASE AskFind \/ ReferencesFound
    BY <1>2, Asking
  <1>3. CASE GrepWrites \/ GrepEnds \/ StartupFails
    BY <1>3, Working
  <1>4. CASE ThreadStep
    BY <1>4, Working, Reading, ShuttingDown, Telling DEF ThreadStep
  <1>5. CASE HandlerStep
    BY <1>5, Starting, Handling, AtOnce, Interrupting, Deleting DEF HandlerStep
  <1>6. QED
    BY <1>1, <1>2, <1>3, <1>4, <1>5 DEF Next

LEMMA Invariance == SafeSpec => []IInv
  BY Initially, Inductive, PTL DEF SafeSpec

(* The panel, its thread and the messages keep their types; among them:    *)
(* there is a thread exactly when the panel holds one.                     *)
THEOREM TypeCorrect == SafeSpec => []TypeOK
  <1>1. IInv => TypeOK
    BY DEF IInv
  <1>2. QED
    BY <1>1, Invariance, PTL

(* MSG_GREP_DONE names no search; still a thread that is deleted because   *)
(* of its own has sent everything, however many threads were deleted, at   *)
(* work, before, and whatever they left in the queue.                      *)
THEOREM NothingIsCutByDone == SafeSpec => []DoneIsTheLastAct
  <1>1. IInv => DoneIsTheLastAct
    BY DEF IInv, DoneIsTheLastAct
  <1>2. QED
    BY <1>1, Invariance, PTL

(* The list mixes no two searches, and no references with matches, unless  *)
(* messages of a deleted thread waited when it was cleared: the first half *)
(* of ListIsOfTheSearch.                                                   *)
THEOREM NoMixedList == SafeSpec => [](~leftovers => RowsAreOfTheSearch)
  <1>1. IInv => (~leftovers => RowsAreOfTheSearch)
    BY DEF IInv, RowsFit
  <1>2. QED
    BY <1>1, Invariance, PTL

-----------------------------------------------------------------------------
(* All matches, in order: rows of the list, reports that wait and what the *)
(* thread collects are one after the other the lines it has read.          *)

(* The search under way will be cut short.                                 *)
Doomed == doing # <<>> /\ doing[1] # Done(fGrepThread)

(* The list is of a search that nothing has cut short.                     *)
Live == shown # None /\ ~leftovers /\ ~cut /\ ~late /\ ~Doomed

IsReport(m) == m.what = "report"
Silent(q) == \A i \in 1 .. Len(q) : ~IsReport(q[i])

(* A message takes the list of search s from the first lo lines to the     *)
(* first hi.                                                               *)
Adds(m, s, lo, hi) ==
    IF IsReport(m) THEN IsRun(m.matches, s, lo, hi) ELSE hi = lo

(* The messages of q, one after the other, take it from a lines to b; the  *)
(* ones behind the last report take it nowhere.                            *)
Leads(q, s, a, b) ==
    \E at \in [0 .. Len(q) -> 0 .. Len(Output)] :
        /\ at[0] = a /\ at[Len(q)] = b
        /\ \A i \in 1 .. Len(q) : Adds(q[i], s, at[i - 1], at[i])
        /\ \A i \in 0 .. Len(q) :
              (\A j \in i + 1 .. Len(q) : ~IsReport(q[j])) => at[i] = b

(* What the thread collects is the last of the lines it read.              *)
Collects(m, s, lo, hi) ==
    IF m = Nothing THEN lo = hi
    ELSE /\ lo < hi /\ m = Matches(s, Output[hi], hi - lo)
         /\ \A k \in lo + 1 .. hi : Output[k] = Output[hi]

(* The line up to which the list shows the output.                         *)
Upto == dropped + fCountResults

Shown ==
    /\ RunsOf(rows, shown, dropped, Upto) /\ Upto \in 0 .. Len(Output)
    /\ fGrepThread # None =>
          \E b \in 0 .. Len(Output) :
              /\ Leads(queue, shown, Upto, b)
              /\ Collects(fCurrentMessage, shown, b, read)
    /\ fGrepThread = None => Upto = Len(Output)

(* Before the thread reads, nothing is shown nor on its way.               *)
Unread ==
    pc \in {"starts", "cleans"} => rows = <<>> /\ fCountResults = 0 /\ Silent(queue)

(* Nothing is collected before and after the work, and then all is read.   *)
Worked ==
    /\ pc \in {"sent", "idle"} => fCurrentMessage = Nothing
    /\ pc \in {"cleans", "runs", "asks"} /\ ~alive => written = Len(Output)
    /\ pc \in {"quits", "sent", "idle"} => read = Len(Output)

(* No report is behind the last message of its search.                     *)
DoneIsBehind ==
    /\ \A i, j \in 1 .. Len(queue) :
          i < j /\ queue[i] = Done(shown) => ~IsReport(queue[j])
    /\ fGrepThread = None \/ doing # <<>> => Silent(queue)

LInv ==
    /\ pc \in {"none", "starts", "cleans"} => read = 0
    /\ finished <= searches
    /\ IF fGrepThread = None THEN doing = <<>> ELSE finished # shown
    /\ Live => Shown /\ Unread /\ Worked /\ DoneIsBehind

-----------------------------------------------------------------------------
(* Lines and sequences of messages.                                        *)

(* The matches of the next run become the next row.                        *)
LEMMA OneRowMore ==
    ASSUME NEW rs \in Seq(Reports), NEW r \in Reports, NEW s, NEW a, NEW lo,
           NEW hi \in 0 .. Len(Output), RunsOf(rs, s, a, lo), IsRun(r, s, lo, hi)
    PROVE  RunsOf(Append(rs, r), s, a, hi)
  <1> DEFINE n == Len(rs)
             more == Append(rs, r)
  <1>1. PICK last \in [0 .. n -> 0 .. Len(Output)] :
            /\ last[0] = a /\ last[n] = lo
            /\ \A i \in 1 .. n : IsRun(rs[i], s, last[i - 1], last[i])
    BY DEF RunsOf
  <1>2. n \in Nat /\ Len(more) = n + 1 /\ more[n + 1] = r /\ \A i \in 1 .. n : more[i] = rs[i]
    OBVIOUS
  <1> DEFINE after == [i \in 0 .. n + 1 |-> IF i = n + 1 THEN hi ELSE last[i]]
  <1>3. after \in [0 .. Len(more) -> 0 .. Len(Output)]
    BY <1>2
  <1>4. after[0] = a /\ after[n + 1] = hi /\ \A i \in 0 .. n : after[i] = last[i]
    BY <1>1, <1>2
  <1> HIDE DEF after
  <1>5. ASSUME NEW i \in 1 .. Len(more)
        PROVE  IsRun(more[i], s, after[i - 1], after[i])
    <2>1. CASE i \in 1 .. n
      <3>1. i - 1 \in 0 .. n /\ i \in 0 .. n
        BY <1>2, <2>1
      <3>2. QED
        BY <1>1, <1>2, <1>4, <2>1, <3>1
    <2>2. CASE i = n + 1
      <3>1. i - 1 = n /\ n \in 0 .. n
        BY <1>2, <2>2
      <3>2. QED
        BY <1>1, <1>2, <1>4, <2>2, <3>1
    <2>3. QED
      BY <1>2, <2>1, <2>2
  <1>6. QED
    BY <1>2, <1>3, <1>4, <1>5 DEF RunsOf

(* A message more at the end of the queue.                                 *)
LEMMA LeadsOn ==
    ASSUME NEW q \in Seq(Posted), NEW m \in Posted, NEW s, NEW a, NEW b,
           NEW c \in 0 .. Len(Output), Leads(q, s, a, b), Adds(m, s, b, c)
    PROVE  Leads(Append(q, m), s, a, c)
  <1> DEFINE n == Len(q)
             more == Append(q, m)
  <1>1. PICK at \in [0 .. n -> 0 .. Len(Output)] :
            /\ at[0] = a /\ at[n] = b
            /\ \A i \in 1 .. n : Adds(q[i], s, at[i - 1], at[i])
            /\ \A i \in 0 .. n : (\A j \in i + 1 .. n : ~IsReport(q[j])) => at[i] = b
    BY DEF Leads
  <1>2. n \in Nat /\ Len(more) = n + 1 /\ more[n + 1] = m /\ \A i \in 1 .. n : more[i] = q[i]
    OBVIOUS
  <1> DEFINE after == [i \in 0 .. n + 1 |-> IF i = n + 1 THEN c ELSE at[i]]
  <1>3. after \in [0 .. Len(more) -> 0 .. Len(Output)]
    BY <1>2
  <1>4. after[0] = a /\ after[n + 1] = c /\ \A i \in 0 .. n : after[i] = at[i]
    BY <1>1, <1>2
  <1> HIDE DEF after
  <1>5. ASSUME NEW i \in 1 .. Len(more)
        PROVE  Adds(more[i], s, after[i - 1], after[i])
    <2>1. CASE i \in 1 .. n
      <3>1. i - 1 \in 0 .. n /\ i \in 0 .. n
        BY <1>2, <2>1
      <3>2. QED
        BY <1>1, <1>2, <1>4, <2>1, <3>1
    <2>2. CASE i = n + 1
      <3>1. i - 1 = n /\ n \in 0 .. n
        BY <1>2, <2>2
      <3>2. QED
        BY <1>1, <1>2, <1>4, <2>2, <3>1
    <2>3. QED
      BY <1>2, <2>1, <2>2
  <1>6. ASSUME NEW i \in 0 .. Len(more), \A j \in i + 1 .. Len(more) : ~IsReport(more[j])
        PROVE  after[i] = c
    <2>1. CASE i = n + 1
      BY <1>4, <2>1
    <2>2. CASE i \in 0 .. n
      <3>1. n + 1 \in i + 1 .. Len(more)
        BY <1>2, <2>2
      <3>2. ~IsReport(m)
        BY <1>2, <1>6, <3>1
      <3>3. \A j \in i + 1 .. n : j \in i + 1 .. Len(more) /\ more[j] = q[j]
        BY <1>2, <2>2
      <3>4. at[i] = b
        BY <1>1, <1>6, <2>2, <3>3
      <3>5. QED
        BY <1>4, <2>2, <3>2, <3>4 DEF Adds
    <2>3. QED
      BY <1>2, <2>1, <2>2
  <1>7. QED
    BY <1>2, <1>3, <1>4, <1>5, <1>6 DEF Leads

(* The first message is taken, and the others go on from there.            *)
LEMMA LeadsBy ==
    ASSUME NEW q \in Seq(Posted), q # <<>>, NEW s, NEW a, NEW b, Leads(q, s, a, b)
    PROVE  \E c \in 0 .. Len(Output) : Adds(Head(q), s, a, c) /\ Leads(Tail(q), s, c, b)
  <1> DEFINE n == Len(q)
             rest == Tail(q)
  <1>1. PICK at \in [0 .. n -> 0 .. Len(Output)] :
            /\ at[0] = a /\ at[n] = b
            /\ \A i \in 1 .. n : Adds(q[i], s, at[i - 1], at[i])
            /\ \A i \in 0 .. n : (\A j \in i + 1 .. n : ~IsReport(q[j])) => at[i] = b
    BY DEF Leads
  <1>2. n \in Nat /\ n >= 1 /\ Len(rest) = n - 1 /\ Head(q) = q[1]
        /\ \A i \in 1 .. n - 1 : rest[i] = q[i + 1]
    OBVIOUS
  <1> DEFINE after == [i \in 0 .. n - 1 |-> at[i + 1]]
  <1>3. after \in [0 .. Len(rest) -> 0 .. Len(Output)] /\ at[1] \in 0 .. Len(Output)
    BY <1>2
  <1>4. after[0] = at[1] /\ after[n - 1] = b /\ \A i \in 0 .. n - 1 : after[i] = at[i + 1]
    BY <1>1, <1>2
  <1> HIDE DEF after
  <1>5. Adds(Head(q), s, a, at[1])
    <2>1. 1 \in 1 .. n /\ 1 - 1 = 0
      BY <1>2
    <2>2. Adds(q[1], s, at[1 - 1], at[1])
      BY <1>1, <2>1
    <2>3. QED
      BY <1>1, <1>2, <2>1, <2>2
  <1>6. ASSUME NEW i \in 1 .. Len(rest)
        PROVE  Adds(rest[i], s, after[i - 1], after[i])
    <2>1. i + 1 \in 1 .. n /\ (i + 1) - 1 = i /\ (i - 1) + 1 = i /\ i - 1 \in 0 .. n - 1
          /\ i \in 0 .. n - 1 /\ i \in 1 .. n - 1
      BY <1>2
    <2>2. Adds(q[i + 1], s, at[(i + 1) - 1], at[i + 1])
      BY <1>1, <2>1
    <2>3. after[i - 1] = at[i] /\ after[i] = at[i + 1] /\ rest[i] = q[i + 1]
      BY <1>2, <1>4, <2>1
    <2>4. QED
      BY <2>1, <2>2, <2>3
  <1>7. ASSUME NEW i \in 0 .. Len(rest), \A j \in i + 1 .. Len(rest) : ~IsReport(rest[j])
        PROVE  after[i] = b
    <2>1. i + 1 \in 0 .. n /\ i \in 0 .. n - 1
      BY <1>2
    <2>2. ASSUME NEW j \in (i + 1) + 1 .. n
          PROVE  ~IsReport(q[j])
      <3>1. j - 1 \in i + 1 .. Len(rest) /\ j - 1 \in 1 .. n - 1 /\ (j - 1) + 1 = j
        BY <1>2, <2>1
      <3>2. ~IsReport(rest[j - 1])
        BY <1>7, <3>1
      <3>3. rest[j - 1] = q[(j - 1) + 1]
        BY <1>2, <3>1
      <3>4. QED
        BY <3>1, <3>2, <3>3
    <2>3. at[i + 1] = b
      BY <1>1, <2>1, <2>2
    <2>4. QED
      BY <1>4, <2>1, <2>3
  <1>8. Leads(rest, s, at[1], b)
    BY <1>2, <1>3, <1>4, <1>6, <1>7 DEF Leads
  <1>9. QED
    BY <1>3, <1>5, <1>8

(* Messages without a report lead nowhere.                                 *)
LEMMA LeadsNowhere ==
    ASSUME NEW q \in Seq(Posted), Silent(q), NEW s, NEW a \in 0 .. Len(Output)
    PROVE  /\ Leads(q, s, a, a)
           /\ \A b : Leads(q, s, a, b) => b = a
  <1> DEFINE at == [i \in 0 .. Len(q) |-> a]
  <1>1. Len(q) \in Nat /\ 0 \in 0 .. Len(q) /\ Len(q) \in 0 .. Len(q)
    OBVIOUS
  <1>2. at \in [0 .. Len(q) -> 0 .. Len(Output)] /\ \A i \in 0 .. Len(q) : at[i] = a
    OBVIOUS
  <1> HIDE DEF at
  <1>3. ASSUME NEW i \in 1 .. Len(q)
        PROVE  Adds(q[i], s, at[i - 1], at[i])
    <2>1. i \in 0 .. Len(q) /\ i - 1 \in 0 .. Len(q)
      BY <1>1
    <2>2. QED
      BY <1>2, <2>1 DEF Silent, Adds
  <1>4. Leads(q, s, a, a)
    BY <1>1, <1>2, <1>3 DEF Leads
  <1>5. ASSUME NEW b, Leads(q, s, a, b)
        PROVE  b = a
    <2>1. PICK f \in [0 .. Len(q) -> 0 .. Len(Output)] :
              /\ f[0] = a /\ f[Len(q)] = b
              /\ \A i \in 0 .. Len(q) : (\A j \in i + 1 .. Len(q) : ~IsReport(q[j])) => f[i] = b
      BY <1>5 DEF Leads
    <2>2. \A j \in 0 + 1 .. Len(q) : ~IsReport(q[j])
      BY DEF Silent
    <2>3. QED
      BY <1>1, <2>1, <2>2
  <1>6. QED
    BY <1>4, <1>5

(* The queue and its rest.                                                 *)
LEMMA Behind ==
    ASSUME NEW q \in Seq(Posted), q # <<>>
    PROVE  /\ Silent(q) => Silent(Tail(q)) /\ ~IsReport(Head(q))
           /\ \A s : (\A i, j \in 1 .. Len(q) : i < j /\ q[i] = Done(s) => ~IsReport(q[j]))
                 => /\ \A i, j \in 1 .. Len(Tail(q)) :
                          i < j /\ Tail(q)[i] = Done(s) => ~IsReport(Tail(q)[j])
                    /\ Head(q) = Done(s) => Silent(Tail(q))
  <1>1. Len(q) \in Nat /\ Head(q) = q[1] /\ 1 \in 1 .. Len(q)
        /\ \A i \in 1 .. Len(Tail(q)) : i \in Nat /\ i + 1 \in 1 .. Len(q) /\ 1 < i + 1
                                        /\ Tail(q)[i] = q[i + 1]
    OBVIOUS
  <1>2. Silent(q) => Silent(Tail(q)) /\ ~IsReport(Head(q))
    BY <1>1 DEF Silent
  <1>3. ASSUME NEW s, \A i, j \in 1 .. Len(q) : i < j /\ q[i] = Done(s) => ~IsReport(q[j])
        PROVE  /\ \A i, j \in 1 .. Len(Tail(q)) :
                     i < j /\ Tail(q)[i] = Done(s) => ~IsReport(Tail(q)[j])
               /\ Head(q) = Done(s) => Silent(Tail(q))
    <2>1. ASSUME NEW i \in 1 .. Len(Tail(q)), NEW j \in 1 .. Len(Tail(q)),
                 i < j, Tail(q)[i] = Done(s)
          PROVE  ~IsReport(Tail(q)[j])
      <3>1. i + 1 < j + 1
        BY <1>1, <2>1
      <3>2. QED
        BY <1>1, <1>3, <2>1, <3>1
    <2>2. Head(q) = Done(s) => Silent(Tail(q))
      BY <1>1, <1>3 DEF Silent
    <2>3. QED
      BY <2>1, <2>2
  <1>4. QED
    BY <1>2, <1>3

-----------------------------------------------------------------------------
(* Steps.                                                                  *)

(* While a thread is at work, its last message is nowhere.                 *)
LEMMA NotDone ==
    ASSUME IInv, Live, fGrepThread # None, pc # "idle"
    PROVE  doing = <<>> /\ \A i \in 1 .. Len(queue) : queue[i] # Done(shown)
  <1>1. shown = fGrepThread
    BY DEF IInv, ThreadFits
  <1>2. \A m : Fitting(m) => m # Done(fGrepThread)
    BY ArePosted DEF Fitting, Fits
  <1>3. QED
    BY <1>1, <1>2 DEF IInv, MessagesFit, Live, Doomed

LEMMA BehindGrows ==
    ASSUME IInv, DoneIsBehind, NEW m \in Posted, queue' = Append(queue, m),
           UNCHANGED <<shown, fGrepThread, doing>>,
           \/ ~IsReport(m)
           \/ /\ fGrepThread # None /\ doing = <<>>
              /\ \A i \in 1 .. Len(queue) : queue[i] # Done(shown)
    PROVE  DoneIsBehind'
  <1>1. queue \in Seq(Posted)
    BY DEF IInv, TypeOK
  <1>2. /\ Len(queue) \in Nat /\ Len(queue') = Len(queue) + 1 /\ queue'[Len(queue) + 1] = m
        /\ \A i \in 1 .. Len(queue) : queue'[i] = queue[i]
    BY <1>1
  <1>3. ASSUME NEW i \in 1 .. Len(queue'), NEW j \in 1 .. Len(queue'),
               i < j, queue'[i] = Done(shown')
        PROVE  ~IsReport(queue'[j])
    <2>1. i \in 1 .. Len(queue) /\ queue[i] = Done(shown)
      BY <1>2, <1>3
    <2>2. CASE j \in 1 .. Len(queue)
      BY <1>2, <1>3, <2>1, <2>2 DEF DoneIsBehind
    <2>3. CASE j = Len(queue) + 1
      BY <1>2, <2>1, <2>3
    <2>4. QED
      BY <1>2, <2>2, <2>3
  <1>4. fGrepThread' = None \/ doing' # <<>> => Silent(queue')
    <2>1. ASSUME fGrepThread = None \/ doing # <<>>, NEW i \in 1 .. Len(queue')
          PROVE  ~IsReport(queue'[i])
      BY <1>2, <2>1 DEF DoneIsBehind, Silent
    <2>2. QED
      BY <2>1 DEF Silent
  <1>5. QED
    BY <1>3, <1>4 DEF DoneIsBehind

LEMMA BehindShrinks ==
    ASSUME IInv, DoneIsBehind, queue # <<>>, queue' = Tail(queue),
           UNCHANGED <<shown, fGrepThread>>,
           doing' = doing \/ Head(queue) = Done(shown)
    PROVE  DoneIsBehind'
  <1>1. queue \in Seq(Posted)
    BY DEF IInv, TypeOK
  <1>2. QED
    BY <1>1, Behind DEF DoneIsBehind

(* A message that is no report may come, any may be taken.                 *)
LEMMA UnreadStays ==
    ASSUME IInv, Unread, UNCHANGED <<pc, rows, fCountResults>>,
           \/ queue # <<>> /\ queue' = Tail(queue)
           \/ \E m \in Posted : ~IsReport(m) /\ queue' = Append(queue, m)
    PROVE  Unread'
  <1>1. queue \in Seq(Posted)
    BY DEF IInv, TypeOK
  <1>2. ASSUME Silent(queue)
        PROVE  Silent(queue')
    <2>1. CASE queue # <<>> /\ queue' = Tail(queue)
      BY <1>1, <1>2, <2>1, Behind
    <2>2. CASE \E m \in Posted : ~IsReport(m) /\ queue' = Append(queue, m)
      <3>1. PICK m \in Posted : ~IsReport(m) /\ queue' = Append(queue, m)
        BY <2>2
      <3>2. \A i \in 1 .. Len(queue') :
               \/ i \in 1 .. Len(queue) /\ queue'[i] = queue[i]
               \/ queue'[i] = m
        BY <1>1, <3>1, Longer
      <3>3. QED
        BY <1>2, <3>1, <3>2 DEF Silent
    <2>3. QED
      BY <2>1, <2>2
  <1>3. QED
    BY <1>2 DEF Unread

(* The user and the server.                                                *)
LEMMA AskingAdds ==
    ASSUME IInv, LInv, AskFind \/ ReferencesFound
    PROVE  LInv'
  <1>1. PICK m \in {Find, References} : queue' = Append(queue, m)
    BY DEF AskFind, ReferencesFound
  <1>2. m \in Posted /\ ~IsReport(m)
    BY ArePosted DEF IsReport
  <1>3. UNCHANGED <<panel, thread, grep, doing, ghosts>>
    BY DEF AskFind, ReferencesFound
  <1>4. queue \in Seq(Posted)
    BY DEF IInv, TypeOK
  <1>5. Live' = Live
    BY <1>3 DEF Live, Doomed, panel, ghosts
  <1>6. ASSUME Live
        PROVE  Shown' /\ Unread' /\ Worked' /\ DoneIsBehind'
    <2>1. Shown /\ Unread /\ Worked /\ DoneIsBehind
      BY <1>6 DEF LInv
    <2>2. DoneIsBehind'
      BY <1>1, <1>2, <1>3, <2>1, BehindGrows DEF panel
    <2>3. ASSUME NEW b \in 0 .. Len(Output), Leads(queue, shown, Upto, b)
          PROVE  Leads(queue', shown, Upto, b)
      BY <1>1, <1>2, <1>4, <2>3, LeadsOn DEF Adds
    <2>4. Shown'
      BY <1>3, <2>1, <2>3 DEF Shown, Upto, panel, thread, ghosts
    <2>5. Unread'
      BY <1>1, <1>2, <1>3, <2>1, UnreadStays DEF panel, thread
    <2>6. QED
      BY <1>3, <2>1, <2>2, <2>4, <2>5 DEF Worked, thread, grep
  <1>7. QED
    BY <1>3, <1>5, <1>6 DEF LInv, panel, thread, ghosts

(* grep and the thread, while nothing is collected nor sent.               *)
LEMMA WorkingAdds ==
    ASSUME IInv, LInv, \/ GrepWrites \/ GrepEnds \/ StartupFails
                       \/ ThreadStartup \/ ReadNothing \/ AskAlive
    PROVE  LInv'
  <1>1. UNCHANGED <<panel, queue, doing, references, dropped, finished, leftovers, raced>>
    BY DEF GrepWrites, GrepEnds, StartupFails, ThreadStartup, ReadNothing,
           AskAlive, ghosts
  <1>2. read \in Nat /\ written \in Nat /\ read <= written /\ Len(Output) \in Nat
        /\ written <= Len(Output)
    BY OutputAssumption DEF IInv, TypeOK
  <1>3. \/ fCurrentMessage' = fCurrentMessage /\ read' = read
        \/ fCurrentMessage' = fCurrentMessage /\ read = 0 /\ read' = 0
    BY DEF GrepWrites, GrepEnds, StartupFails, ThreadStartup, ReadNothing,
           AskAlive, thread,
           IInv, ThreadFits, LInv
  <1>4. pc' \in {"none", "starts", "cleans"} =>
            pc' = pc \/ (pc = "starts" /\ pc' = "cleans" /\ read' = 0)
    BY DEF GrepWrites, GrepEnds, StartupFails, ThreadStartup, ReadNothing, AskAlive, thread
  <1>5. Live' => Live
    BY <1>1 DEF Live, Doomed, panel, GrepWrites, GrepEnds, StartupFails, ThreadStartup,
                ReadNothing, AskAlive, ghosts
  <1>6. ASSUME Live'
        PROVE  Shown' /\ Unread' /\ Worked' /\ DoneIsBehind'
    <2>1. Shown /\ Unread /\ Worked /\ DoneIsBehind
      BY <1>5, <1>6 DEF LInv
    <2>2. DoneIsBehind'
      BY <1>1, <2>1 DEF DoneIsBehind, panel
    <2>3. Shown'
      BY <1>1, <1>3, <2>1 DEF Shown, Upto, panel
    <2>4. Worked'
      <3>1. CASE GrepWrites
        BY <2>1, <3>1 DEF GrepWrites, Worked, thread
      <3>2. CASE GrepEnds
        <4>1. pc \in {"cleans", "runs", "asks"} => doing = <<>>
          BY <1>5, <1>6, NotDone DEF IInv, TypeOK
        <4>2. QED
          BY <2>1, <3>2, <4>1 DEF GrepEnds, Worked, thread
      <3>3. CASE StartupFails
        BY <3>3, <1>6 DEF StartupFails, Live
      <3>4. CASE ThreadStartup
        BY <3>4 DEF ThreadStartup, Worked
      <3>5. CASE ReadNothing
        BY <2>1, <3>5 DEF ReadNothing, Worked, grep
      <3>6. CASE AskAlive
        <4>1. CASE alive
          BY <2>1, <3>6, <4>1 DEF AskAlive, Worked, grep
        <4>2. CASE ~alive
          <5>1. late' = (late \/ read < written) /\ pc' = "quits" /\ read' = read
                /\ written = Len(Output)
            BY <2>1, <3>6, <4>2 DEF AskAlive, Worked
          <5>2. read = Len(Output)
            <6>1. ~late'
              BY <1>6 DEF Live
            <6>2. ~(read < written)
              BY <5>1, <6>1
            <6>3. QED
              BY <1>2, <5>1, <6>2
          <5>3. QED
            BY <5>1, <5>2 DEF Worked
        <4>3. QED
          BY <4>1, <4>2
      <3>7. QED
        BY <3>1, <3>2, <3>3, <3>4, <3>5, <3>6
    <2>5. Unread'
      BY <1>1, <1>4, <2>1 DEF Unread, panel
    <2>6. QED
      BY <2>2, <2>3, <2>4, <2>5
  <1>7. QED
    BY <1>1, <1>3, <1>4, <1>6 DEF LInv, panel

(* What is thrown away comes before everything that is shown, because       *)
(* nothing is shown yet.                                                   *)
LEMMA CleaningAdds ==
    ASSUME IInv, LInv, CleanPipes
    PROVE  LInv'
  <1>1. /\ pc = "cleans" /\ pc' = "runs" /\ read' = written /\ dropped' = written
        /\ UNCHANGED <<panel, fCurrentMessage, grep, queue, doing, references, finished,
                       leftovers, cut, late, raced>>
    BY DEF CleanPipes
  <1>2. written \in 0 .. Len(Output) /\ Len(Output) \in Nat /\ fCurrentMessage = Nothing
    BY <1>1, OutputAssumption DEF IInv, TypeOK, ThreadFits
  <1>3. Live' = Live
    BY <1>1 DEF Live, Doomed, panel
  <1>4. ASSUME Live
        PROVE  Shown' /\ Unread' /\ Worked' /\ DoneIsBehind'
    <2>1. Shown /\ Unread /\ Worked /\ DoneIsBehind
      BY <1>4 DEF LInv
    <2>2. rows = <<>> /\ fCountResults = 0 /\ Silent(queue) /\ fGrepThread # None
      BY <1>1, <2>1 DEF Unread, IInv, TypeOK
    <2>3. RunsOf(<<>>, shown, written, written)
      <3> DEFINE last == [i \in 0 .. 0 |-> written]
      <3>1. last \in [0 .. 0 -> 0 .. Len(Output)] /\ last[0] = written
        BY <1>2
      <3> HIDE DEF last
      <3>2. Len(<<>>) = 0
        OBVIOUS
      <3>3. QED
        BY <3>1, <3>2 DEF RunsOf
    <2>4. Upto' = written
      BY <1>1, <1>2, <2>2 DEF Upto, panel
    <2>5. Leads(queue, shown, written, written)
      BY <1>2, <2>2, LeadsNowhere DEF IInv, TypeOK
    <2>6. Collects(fCurrentMessage', shown, written, written)
      BY <1>1, <1>2 DEF Collects
    <2>7. Shown'
      BY <1>1, <1>2, <2>2, <2>3, <2>4, <2>5, <2>6 DEF Shown, panel
    <2>8. Unread' /\ Worked' /\ DoneIsBehind'
      BY <1>1, <2>1 DEF Unread, Worked, DoneIsBehind, panel, grep
    <2>9. QED
      BY <2>7, <2>8
  <1>5. QED
    BY <1>1, <1>3, <1>4 DEF LInv, panel

(* A line more is collected, or the run before it reported: it is whole.   *)
LEMMA ReadingAdds ==
    ASSUME IInv, LInv, ReadLine
    PROVE  LInv'
  <1> DEFINE file == Output[read + 1]
  <1>1. /\ pc = "runs" /\ read < written /\ read' = read + 1 /\ OnStdOutputLine(file)
        /\ UNCHANGED <<panel, pc, grep, doing, references, ghosts>>
    BY DEF ReadLine
  <1>2. /\ read \in Nat /\ written \in Nat /\ Len(Output) \in Nat
        /\ written <= Len(Output) /\ read + 1 \in 1 .. Len(Output)
    BY <1>1, OutputAssumption DEF IInv, TypeOK
  <1>3. file \in Files /\ file # NoFile
    BY <1>2, OutputAssumption
  <1>4. Live' = Live
    BY <1>1 DEF Live, Doomed, panel, ghosts
  <1>5. ASSUME Live
        PROVE  Shown' /\ Unread' /\ Worked' /\ DoneIsBehind'
    <2>1. Shown /\ Unread /\ Worked /\ DoneIsBehind
      BY <1>5 DEF LInv
    <2>2. fGrepThread # None /\ shown = fGrepThread
      BY <1>1, AtWork DEF IInv, TypeOK
    <2>3. Worked' /\ Unread'
      BY <1>1, <2>1 DEF Worked, Unread, grep
    <2>4. PICK b \in 0 .. Len(Output) :
              /\ Leads(queue, shown, Upto, b)
              /\ Collects(fCurrentMessage, shown, b, read)
      BY <2>1, <2>2 DEF Shown
    <2>5. CASE file = fCurrentMessage.file
      <3>1. fCurrentMessage # Nothing
        BY <1>3, <2>5 DEF Nothing, Matches
      <3>2. /\ b < read /\ fCurrentMessage = Matches(shown, Output[read], read - b)
            /\ \A k \in b + 1 .. read : Output[k] = Output[read]
        BY <2>4, <3>1 DEF Collects
      <3>3. fCurrentMessage' = [fCurrentMessage EXCEPT !.lines = @ + 1] /\ queue' = queue
        BY <1>1, <2>5 DEF OnStdOutputLine
      <3>4. file = Output[read]
        BY <2>5, <3>2 DEF Matches
      <3>5. fCurrentMessage' = Matches(shown, Output[read + 1], (read + 1) - b)
        <4>1. fCurrentMessage' = Matches(shown, Output[read], (read - b) + 1)
          BY <3>2, <3>3 DEF Matches
        <4>2. (read - b) + 1 = (read + 1) - b
          BY <1>2
        <4>3. QED
          BY <3>4, <4>1, <4>2
      <3>6. \A k \in b + 1 .. read + 1 : Output[k] = Output[read + 1]
        BY <1>2, <3>2, <3>4
      <3>7. Collects(fCurrentMessage', shown, b, read + 1)
        <4>1. fCurrentMessage' # Nothing
          BY <1>3, <3>5 DEF Nothing, Matches
        <4>2. b < read + 1
          BY <1>2, <3>2
        <4>3. QED
          BY <3>5, <3>6, <4>1, <4>2 DEF Collects
      <3>8. Shown'
        BY <1>1, <2>1, <2>2, <2>4, <3>3, <3>7 DEF Shown, Upto, panel, ghosts
      <3>9. DoneIsBehind'
        BY <1>1, <2>1, <3>3 DEF DoneIsBehind, panel
      <3>10. QED
        BY <2>3, <3>8, <3>9
    <2>6. CASE file # fCurrentMessage.file
      <3>1. fCurrentMessage' = Matches(shown, file, 1)
        BY <1>1, <2>2, <2>6 DEF OnStdOutputLine
      <3>2. Collects(fCurrentMessage', shown, read, read + 1)
        <4>1. fCurrentMessage' # Nothing
          BY <1>3, <3>1 DEF Nothing, Matches
        <4>2. /\ read < read + 1 /\ (read + 1) - read = 1
              /\ \A k \in read + 1 .. read + 1 : k = read + 1
          BY <1>2
        <4>3. QED
          BY <3>1, <4>1, <4>2 DEF Collects
      <3>3. Leads(queue', shown, Upto, read) /\ DoneIsBehind'
        <4>1. CASE fCurrentMessage = Nothing
          <5>1. queue' = queue /\ b = read
            BY <1>1, <2>4, <2>6, <4>1 DEF OnStdOutputLine, Collects
          <5>2. QED
            BY <1>1, <2>1, <2>4, <5>1 DEF DoneIsBehind, panel
        <4>2. CASE fCurrentMessage # Nothing
          <5>1. queue' = Append(queue, Report(fCurrentMessage))
            BY <1>1, <2>6, <4>2 DEF OnStdOutputLine
          <5>2. Report(fCurrentMessage) \in Posted
            BY <1>1, <4>2, Collected
          <5>3. IsReport(Report(fCurrentMessage)) /\ Report(fCurrentMessage).matches = fCurrentMessage
            BY DEF IsReport, Report
          <5>4. IsRun(fCurrentMessage, shown, b, read)
            <6>1. /\ b < read /\ fCurrentMessage = Matches(shown, Output[read], read - b)
                  /\ \A k \in b + 1 .. read : Output[k] = Output[read]
              BY <2>4, <4>2 DEF Collects
            <6>2. Output[read + 1] # Output[read]
              BY <2>6, <6>1 DEF Matches
            <6>3. QED
              BY <6>1, <6>2 DEF IsRun
          <5>5. queue \in Seq(Posted) /\ read \in 0 .. Len(Output)
            BY <1>2 DEF IInv, TypeOK
          <5>6. Leads(queue', shown, Upto, read)
            BY <2>4, <5>1, <5>2, <5>3, <5>4, <5>5, LeadsOn DEF Adds
          <5>7. doing = <<>> /\ \A i \in 1 .. Len(queue) : queue[i] # Done(shown)
            BY <1>1, <1>5, <2>2, NotDone
          <5>8. DoneIsBehind'
            BY <1>1, <2>1, <2>2, <5>1, <5>2, <5>7, BehindGrows DEF panel
          <5>9. QED
            BY <5>6, <5>8
        <4>3. QED
          BY <4>1, <4>2
      <3>4. read \in 0 .. Len(Output)
        BY <1>2
      <3>5. Shown'
        BY <1>1, <2>1, <2>2, <3>2, <3>3, <3>4 DEF Shown, Upto, panel, ghosts
      <3>6. QED
        BY <2>3, <3>3, <3>5
    <2>7. QED
      BY <2>5, <2>6
  <1>6. QED
    BY <1>1, <1>4, <1>5 DEF LInv, panel, ghosts

(* The last run is whole, because all is read.                             *)
LEMMA ShuttingDownAdds ==
    ASSUME IInv, LInv, ThreadShutdown
    PROVE  LInv'
  <1>1. /\ pc = "quits" /\ pc' = "sent" /\ fCurrentMessage' = Nothing
        /\ queue' = (IF fCurrentMessage = Nothing THEN queue
                     ELSE Append(queue, Report(fCurrentMessage)))
        /\ UNCHANGED <<panel, read, grep, doing, references, ghosts>>
    BY DEF ThreadShutdown
  <1>2. Live' = Live
    BY <1>1 DEF Live, Doomed, panel, ghosts
  <1>3. ASSUME Live
        PROVE  Shown' /\ Unread' /\ Worked' /\ DoneIsBehind'
    <2>1. Shown /\ Unread /\ Worked /\ DoneIsBehind
      BY <1>3 DEF LInv
    <2>2. fGrepThread # None /\ shown = fGrepThread
      BY <1>1, AtWork DEF IInv, TypeOK
    <2>3. read = Len(Output) /\ Worked'
      BY <1>1, <2>1 DEF Worked, grep
    <2>4. PICK b \in 0 .. Len(Output) :
              /\ Leads(queue, shown, Upto, b)
              /\ Collects(fCurrentMessage, shown, b, read)
      BY <2>1, <2>2 DEF Shown
    <2>5. Len(Output) \in Nat /\ read \in 0 .. Len(Output)
      BY <2>3, OutputAssumption
    <2>6. Leads(queue', shown, Upto, read) /\ DoneIsBehind'
      <3>1. CASE fCurrentMessage = Nothing
        BY <1>1, <2>1, <2>4, <3>1 DEF Collects, DoneIsBehind, panel
      <3>2. CASE fCurrentMessage # Nothing
        <4>1. queue' = Append(queue, Report(fCurrentMessage))
          BY <1>1, <3>2
        <4>2. Report(fCurrentMessage) \in Posted
          BY <1>1, <3>2, Collected
        <4>3. IsReport(Report(fCurrentMessage)) /\ Report(fCurrentMessage).matches = fCurrentMessage
          BY DEF IsReport, Report
        <4>4. IsRun(fCurrentMessage, shown, b, read)
          BY <2>3, <2>4, <2>5, <3>2 DEF Collects, IsRun
        <4>5. queue \in Seq(Posted)
          BY DEF IInv, TypeOK
        <4>6. Leads(queue', shown, Upto, read)
          BY <2>4, <2>5, <4>1, <4>2, <4>3, <4>4, <4>5, LeadsOn DEF Adds
        <4>7. doing = <<>> /\ \A i \in 1 .. Len(queue) : queue[i] # Done(shown)
          BY <1>1, <1>3, <2>2, NotDone
        <4>8. DoneIsBehind'
          BY <1>1, <2>1, <2>2, <4>1, <4>2, <4>7, BehindGrows DEF panel
        <4>9. QED
          BY <4>6, <4>8
      <3>3. QED
        BY <3>1, <3>2
    <2>7. Collects(fCurrentMessage', shown, read, read)
      BY <1>1 DEF Collects
    <2>8. Shown'
      BY <1>1, <2>1, <2>2, <2>5, <2>6, <2>7 DEF Shown, Upto, panel, ghosts
    <2>9. Unread'
      BY <1>1 DEF Unread
    <2>10. QED
      BY <2>3, <2>6, <2>8, <2>9
  <1>4. QED
    BY <1>1, <1>2, <1>3 DEF LInv, panel, ghosts

LEMMA TellingAdds ==
    ASSUME IInv, LInv, SendDone
    PROVE  LInv'
  <1> DEFINE last == Done(fGrepThread)
  <1>1. /\ pc = "sent" /\ pc' = "idle" /\ queue' = Append(queue, last)
        /\ UNCHANGED <<panel, read, fCurrentMessage, grep, doing, references, ghosts>>
    BY DEF SendDone
  <1>2. last \in Posted /\ ~IsReport(last)
    BY <1>1, AtWork, ArePosted DEF IsReport
  <1>3. queue \in Seq(Posted)
    BY DEF IInv, TypeOK
  <1>4. Live' = Live
    BY <1>1 DEF Live, Doomed, panel, ghosts
  <1>5. ASSUME Live
        PROVE  Shown' /\ Unread' /\ Worked' /\ DoneIsBehind'
    <2>1. Shown /\ Unread /\ Worked /\ DoneIsBehind
      BY <1>5 DEF LInv
    <2>2. DoneIsBehind'
      BY <1>1, <1>2, <2>1, BehindGrows DEF panel
    <2>3. ASSUME NEW b \in 0 .. Len(Output), Leads(queue, shown, Upto, b)
          PROVE  Leads(queue', shown, Upto, b)
      BY <1>1, <1>2, <1>3, <2>3, LeadsOn DEF Adds
    <2>4. Shown'
      BY <1>1, <2>1, <2>3 DEF Shown, Upto, panel, ghosts
    <2>5. Unread'
      BY <1>1 DEF Unread
    <2>6. QED
      BY <1>1, <2>1, <2>2, <2>4, <2>5 DEF Worked, grep
  <1>6. QED
    BY <1>1, <1>4, <1>5 DEF LInv, panel, ghosts

(* The search begins with an empty list and nothing read.                  *)
LEMMA StartingAdds ==
    ASSUME IInv, LInv, StartSearch
    PROVE  LInv'
  <1>1. /\ queue # <<>> /\ doing = <<>> /\ queue' = Tail(queue)
        /\ fGrepThread = None /\ searches < MaxSearches
        /\ searches' = searches + 1 /\ fGrepThread' = searches' /\ shown' = searches'
        /\ rows' = <<>> /\ fCountResults' = 0 /\ pc' = "starts" /\ leftovers' = Stale(queue')
        /\ dropped' = 0
        /\ UNCHANGED <<read, fCurrentMessage, grep, doing, references, finished, raced>>
    BY DEF StartSearch, Takes
  <1>2. pc = "none" /\ fCurrentMessage = Nothing /\ read = 0
    BY <1>1 DEF IInv, TypeOK, ThreadFits, LInv
  <1>3. searches \in Nat /\ finished \in Nat /\ finished <= searches /\ searches' # None
    BY <1>1, SearchBounds DEF IInv, TypeOK, LInv, None
  <1>4. finished' <= searches' /\ finished' # shown'
    BY <1>1, <1>3
  <1>5. ASSUME Live'
        PROVE  Shown' /\ Unread' /\ Worked' /\ DoneIsBehind'
    <2>1. queue' \in Seq(Posted)
      BY <1>1, Taking
    <2>2. \A i \in DOMAIN queue' : queue'[i].what \notin {"report", "done"}
      BY <1>1, <1>5 DEF Live, Stale
    <2>3. Silent(queue') /\ \A i \in 1 .. Len(queue') : queue'[i] # Done(shown')
      BY <2>1, <2>2, ArePosted DEF Silent, IsReport
    <2>4. 0 \in 0 .. Len(Output)
      BY OutputAssumption
    <2>5. RunsOf(rows', shown', 0, 0)
      <3> DEFINE last == [i \in 0 .. 0 |-> 0]
      <3>1. last \in [0 .. 0 -> 0 .. Len(Output)] /\ last[0] = 0
        BY <2>4
      <3> HIDE DEF last
      <3>2. Len(rows') = 0
        BY <1>1
      <3>3. QED
        BY <3>1, <3>2 DEF RunsOf
    <2>6. Leads(queue', shown', 0, 0)
      BY <2>1, <2>3, <2>4, LeadsNowhere
    <2>7. Collects(fCurrentMessage', shown', 0, read')
      BY <1>1, <1>2 DEF Collects
    <2>8. Shown'
      BY <1>1, <1>3, <2>4, <2>5, <2>6, <2>7 DEF Shown, Upto
    <2>9. Worked' /\ Unread'
      BY <1>1, <2>3 DEF Worked, Unread
    <2>10. DoneIsBehind'
      BY <2>3 DEF DoneIsBehind
    <2>11. QED
      BY <2>8, <2>9, <2>10
  <1>6. QED
    BY <1>1, <1>2, <1>4, <1>5 DEF LInv

(* Matches of a report are the next row.                                   *)
LEMMA HandlingAdds ==
    ASSUME IInv, LInv, FindIgnored \/ UpdateSearch
    PROVE  LInv'
  <1>1. /\ queue # <<>> /\ doing = <<>> /\ queue' = Tail(queue)
        /\ UNCHANGED <<fGrepThread, searches, findEnabled, shown, thread, grep, doing,
                       references, ghosts>>
    BY DEF FindIgnored, UpdateSearch, Takes, panel
  <1>2. queue \in Seq(Posted) /\ Head(queue) \in Posted
    BY <1>1, Taking DEF IInv, TypeOK
  <1>3. Live' = Live
    BY <1>1 DEF Live, Doomed, ghosts
  <1>4. ASSUME Live
        PROVE  Shown' /\ Unread' /\ Worked' /\ DoneIsBehind'
    <2>1. Shown /\ Unread /\ Worked /\ DoneIsBehind
      BY <1>4 DEF LInv
    <2>2. DoneIsBehind'
      BY <1>1, <2>1, BehindShrinks
    <2>3. Worked'
      BY <1>1, <2>1 DEF Worked, thread, grep
    <2>4. CASE FindIgnored
      <3>1. ~IsReport(Head(queue)) /\ rows' = rows /\ fCountResults' = fCountResults
        BY <2>4 DEF FindIgnored, Takes, IsReport, panel
      <3>2. ASSUME NEW b \in 0 .. Len(Output), Leads(queue, shown, Upto, b)
            PROVE  Leads(queue', shown, Upto, b)
        BY <1>1, <1>2, <3>1, <3>2, LeadsBy DEF Adds
      <3>3. Shown'
        BY <1>1, <2>1, <3>1, <3>2 DEF Shown, Upto, thread, ghosts
      <3>4. Unread'
        BY <1>1, <2>1, <3>1, UnreadStays DEF thread
      <3>5. QED
        BY <2>2, <2>3, <3>3, <3>4
    <2>5. CASE UpdateSearch
      <3> DEFINE m == Head(queue).matches
      <3>1. /\ Head(queue).what = "report" /\ rows' = Append(rows, m)
            /\ fCountResults' = fCountResults + m.lines
        BY <2>5 DEF UpdateSearch, Takes
      <3>2. m \in Reports
        BY <1>2, <3>1, Carries
      <3>3. fGrepThread # None
        BY <1>1, <1>2, <2>1, <3>1, Behind DEF DoneIsBehind, IsReport
      <3>4. PICK b \in 0 .. Len(Output) :
                /\ Leads(queue, shown, Upto, b)
                /\ Collects(fCurrentMessage, shown, b, read)
        BY <2>1, <3>3 DEF Shown
      <3>5. PICK c \in 0 .. Len(Output) :
                Adds(Head(queue), shown, Upto, c) /\ Leads(queue', shown, c, b)
        BY <1>1, <1>2, <3>4, LeadsBy
      <3>6. IsRun(m, shown, Upto, c)
        BY <3>1, <3>5 DEF Adds, IsReport
      <3>7. Upto' = c
        <4>1. m.lines = c - Upto
          BY <3>6 DEF IsRun, Matches
        <4>2. c \in Int /\ fCountResults \in Int /\ dropped \in Int /\ dropped' = dropped
          BY <1>1, OutputAssumption DEF IInv, TypeOK, ghosts
        <4>3. QED
          BY <3>1, <4>1, <4>2 DEF Upto
      <3>8. rows \in Seq(Reports) /\ RunsOf(rows, shown, dropped, Upto)
        BY <2>1 DEF IInv, TypeOK, Shown
      <3>9. RunsOf(rows', shown, dropped, c)
        BY <3>1, <3>2, <3>6, <3>8, OneRowMore
      <3>10. Shown'
        BY <1>1, <3>3, <3>4, <3>5, <3>7, <3>9 DEF Shown, thread, ghosts
      <3>11. Unread'
        <4>1. ~Silent(queue)
          BY <1>1, <1>2, <3>1, Behind DEF IsReport
        <4>2. QED
          BY <1>1, <2>1, <4>1 DEF Unread, thread
      <3>12. QED
        BY <2>2, <2>3, <3>10, <3>11
    <2>6. QED
      BY <2>4, <2>5
  <1>5. QED
    BY <1>1, <1>3, <1>4 DEF LInv, thread, ghosts

(* The last message of a search whose thread is gone changes nothing.      *)
LEMMA AtOnceAdds ==
    ASSUME IInv, LInv, HandleAtOnce
    PROVE  LInv'
  <1>1. /\ queue # <<>> /\ doing = <<>> /\ queue' = Tail(queue) /\ fGrepThread = None
        /\ Finish(Head(queue), queue')
        /\ UNCHANGED <<fGrepThread, thread, grep, doing, references, cut, raced>>
    BY DEF HandleAtOnce, Takes
  <1>2. Head(queue) \in Posted /\ Fitting(Head(queue))
    BY <1>1, Taking
  <1>3. \/ shown' = None /\ finished' = finished /\ searches' = searches
        \/ /\ Head(queue).what = "done" /\ finished' = Head(queue).from
           /\ UNCHANGED <<searches, rows, fCountResults, shown, dropped, leftovers, late>>
    BY <1>1 DEF Finish, ShowReferences, SearchDone
  <1>4. Head(queue).what = "done" => Head(queue).from <= searches
    BY <1>2 DEF Fitting, Fits
  <1>5. ASSUME Live'
        PROVE  Shown' /\ Unread' /\ Worked' /\ DoneIsBehind'
    <2>1. UNCHANGED <<searches, rows, fCountResults, shown, dropped, leftovers, late>>
      BY <1>3, <1>5 DEF Live
    <2>2. Live
      BY <1>1, <1>5, <2>1 DEF Live, Doomed
    <2>3. Shown /\ Unread /\ Worked /\ DoneIsBehind
      BY <2>2 DEF LInv
    <2>4. DoneIsBehind'
      BY <1>1, <2>1, <2>3, BehindShrinks
    <2>5. Shown' /\ Worked'
      BY <1>1, <2>1, <2>3 DEF Shown, Upto, Worked, thread, grep
    <2>6. Unread'
      BY <1>1, <2>1, <2>3, UnreadStays DEF thread
    <2>7. QED
      BY <2>4, <2>5, <2>6
  <1>6. QED
    BY <1>1, <1>3, <1>4, <1>5 DEF LInv, thread

(* The search goes on while the panel waits: for its own last message, all *)
(* reports are in front of it.                                             *)
LEMMA InterruptingAdds ==
    ASSUME IInv, LInv, Interrupt
    PROVE  LInv'
  <1>1. /\ queue # <<>> /\ doing = <<>> /\ queue' = Tail(queue) /\ doing' = <<Head(queue)>>
        /\ Head(queue).what \in {"done", "references"} /\ fGrepThread # None
        /\ UNCHANGED <<panel, thread, grep, references, ghosts>>
    BY DEF Interrupt, Takes
  <1>2. queue \in Seq(Posted) /\ ~IsReport(Head(queue))
    BY <1>1 DEF IInv, TypeOK, IsReport
  <1>3. ASSUME Live'
        PROVE  Shown' /\ Unread' /\ Worked' /\ DoneIsBehind'
    <2>1. Live
      BY <1>1, <1>3 DEF Live, Doomed, panel, ghosts
    <2>2. Shown /\ Unread /\ Worked /\ DoneIsBehind
      BY <2>1 DEF LInv
    <2>3. Head(queue) = Done(shown)
      <3>1. doing' # <<>> /\ doing'[1] = Head(queue)
        BY <1>1
      <3>2. Head(queue) = Done(fGrepThread)
        BY <1>1, <1>3, <3>1 DEF Live, Doomed, panel
      <3>3. QED
        BY <1>1, <3>2 DEF IInv, ThreadFits
    <2>4. DoneIsBehind'
      BY <1>1, <2>2, <2>3, BehindShrinks DEF panel
    <2>5. ASSUME NEW b \in 0 .. Len(Output), Leads(queue, shown, Upto, b)
          PROVE  Leads(queue', shown, Upto, b)
      BY <1>1, <1>2, <2>5, LeadsBy DEF Adds
    <2>6. Shown'
      BY <1>1, <2>2, <2>5 DEF Shown, Upto, panel, thread, ghosts
    <2>7. Unread'
      BY <1>1, <2>2, UnreadStays DEF panel, thread
    <2>8. QED
      BY <1>1, <2>2, <2>4, <2>6, <2>7 DEF Worked, thread, grep
  <1>4. QED
    BY <1>1, <1>3 DEF LInv, panel, thread, ghosts

(* The thread that told it is done is deleted: all is in the list.         *)
LEMMA DeletingAdds ==
    ASSUME IInv, LInv, DeleteThread
    PROVE  LInv'
  <1>1. /\ doing # <<>> /\ doing' = <<>> /\ Finish(doing[1], queue)
        /\ fGrepThread' = None /\ pc' = "none" /\ read' = 0
        /\ cut' = (cut \/ doing[1] # Done(fGrepThread))
        /\ UNCHANGED <<queue, references>>
    BY DEF DeleteThread
  <1>2. doing[1] \in Posted /\ Fitting(doing[1])
    BY <1>1 DEF IInv, TypeOK, MessagesFit
  <1>3. \/ shown' = None /\ finished' = finished /\ searches' = searches
        \/ /\ doing[1].what = "done" /\ finished' = doing[1].from
           /\ UNCHANGED <<searches, rows, fCountResults, shown, dropped, leftovers, late>>
    BY <1>1 DEF Finish, ShowReferences, SearchDone
  <1>4. doing[1].what = "done" => doing[1].from <= searches
    BY <1>2 DEF Fitting, Fits
  <1>5. ASSUME Live'
        PROVE  Shown' /\ Unread' /\ Worked' /\ DoneIsBehind'
    <2>1. UNCHANGED <<searches, rows, fCountResults, shown, dropped, leftovers, late>>
      BY <1>3, <1>5 DEF Live
    <2>2. ~cut /\ doing[1] = Done(fGrepThread)
      BY <1>1, <1>5 DEF Live
    <2>3. Live
      BY <1>5, <2>1, <2>2 DEF Live, Doomed
    <2>4. Shown /\ Unread /\ Worked /\ DoneIsBehind
      BY <2>3 DEF LInv
    <2>5. pc = "idle"
      BY <1>2, <2>2, ArePosted DEF Fitting, Fits
    <2>6. fGrepThread # None
      BY <2>5 DEF IInv, TypeOK
    <2>7. PICK b \in 0 .. Len(Output) :
              /\ Leads(queue, shown, Upto, b)
              /\ Collects(fCurrentMessage, shown, b, read)
      BY <2>4, <2>6 DEF Shown
    <2>8. b = read /\ read = Len(Output)
      BY <2>4, <2>5, <2>7 DEF Worked, Collects
    <2>9. Silent(queue) /\ queue \in Seq(Posted)
      BY <1>1, <2>4 DEF DoneIsBehind, IInv, TypeOK
    <2>10. Upto = Len(Output)
      BY <2>4, <2>7, <2>8, <2>9, LeadsNowhere DEF Shown
    <2>11. Shown'
      BY <1>1, <2>1, <2>4, <2>10 DEF Shown, Upto
    <2>12. Worked' /\ Unread'
      BY <1>1 DEF Worked, Unread
    <2>13. DoneIsBehind'
      BY <1>1, <2>1, <2>4, <2>9 DEF DoneIsBehind
    <2>14. QED
      BY <2>11, <2>12, <2>13
  <1>6. QED
    BY <1>1, <1>3, <1>4, <1>5 DEF LInv

LEMMA ListInitially == Init => LInv
  BY DEF Init, LInv, Live, None

LEMMA ListInductive ==
    ASSUME IInv, LInv, [Next]_vars
    PROVE  LInv'
  <1>1. CASE UNCHANGED vars
    BY <1>1 DEF vars, panel, thread, grep, ghosts, LInv, Live, Doomed, Shown,
                Upto, Unread, Worked, DoneIsBehind
  <1>2. CASE AskFind \/ ReferencesFound
    BY <1>2, AskingAdds
  <1>3. CASE GrepWrites \/ GrepEnds \/ StartupFails
    BY <1>3, WorkingAdds
  <1>4. CASE ThreadStep
    BY <1>4, WorkingAdds, CleaningAdds, ReadingAdds, ShuttingDownAdds, TellingAdds
       DEF ThreadStep
  <1>5. CASE HandlerStep
    BY <1>5, StartingAdds, HandlingAdds, AtOnceAdds, InterruptingAdds, DeletingAdds
       DEF HandlerStep
  <1>6. QED
    BY <1>1, <1>2, <1>3, <1>4, <1>5 DEF Next

(* For every output of grep and any number of searches, the list of a      *)
(* search that came to its end shows a row for each run of lines of one    *)
(* file, all of them and in order, from the first line that _CleanPipes    *)
(* left, and counts the lines; nothing of another search or of references  *)
(* is between them, unless messages of a deleted thread were waiting       *)
(* (ConsoleIOThread, GrepThread, MSG_GREP_DONE, StartSearch).              *)
THEOREM ListIsComplete == SafeSpec => []ListIsOfTheSearch
  <1>1. Init => IInv /\ LInv
    BY Initially, ListInitially
  <1>2. IInv /\ LInv /\ [Next]_vars => (IInv /\ LInv)'
    BY Inductive, ListInductive
  <1>3. IInv /\ LInv => ListIsOfTheSearch
    <2> SUFFICES ASSUME IInv, LInv, ~leftovers
                 PROVE  /\ RowsAreOfTheSearch
                        /\ shown # None /\ finished = shown /\ ~late /\ ~cut
                               => /\ RunsOf(rows, shown, dropped, Len(Output))
                                  /\ dropped + fCountResults = Len(Output)
      BY DEF ListIsOfTheSearch
    <2>1. RowsAreOfTheSearch
      BY DEF IInv, RowsFit
    <2>2. ASSUME shown # None, finished = shown, ~late, ~cut
          PROVE  RunsOf(rows, shown, dropped, Len(Output)) /\ dropped + fCountResults = Len(Output)
      <3>1. fGrepThread = None
        BY <2>2 DEF LInv
      <3>2. doing = <<>> => Live
        BY <2>2 DEF Live, Doomed
      <3>3. doing = <<>>
        BY <3>1 DEF LInv
      <3>4. QED
        BY <3>1, <3>2, <3>3 DEF LInv, Shown, Upto
    <2>3. QED
      BY <2>1, <2>2
  <1>4. QED
    BY <1>1, <1>2, <1>3, PTL DEF SafeSpec
=============================================================================

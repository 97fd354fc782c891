--------------------------- MODULE BuildRunProofs ---------------------------
(***************************************************************************)
(* Proofs about BuildRun: the state is well typed, the window offers       *)
(* again what it took away, and a command that was started alone is        *)
(* followed to its end, for any projects and numbers of commands.          *)
(***************************************************************************)
EXTENDS BuildRun, FiniteSetTheorems, SequenceTheorems, TLAPS

Messages ==
    [what : Kinds] \cup [what : {"stop", "quit", "notify"}, console : Consoles]
    \cup [what : {"activate", "close"}, project : Projects]
    \cup [what : {"execute", "exit"}, console : Consoles, command : Commands]
    \cup [what : {"windowExit"}, command : Commands]
    \cup [what : {"notice"}, project : Projects, building : BOOLEAN]

QuitOf(c) == [what |-> "quit", console |-> c]

Queued == {queue[i] : i \in 1 .. Len(queue)}

(* The commands asked for.                                                 *)
Asks(q) == {i \in 1 .. Len(q) : q[i].what \in Kinds}

(* A message that makes another project the active one, perhaps.           *)
IsMove(m) == m.what \in {"activate", "close"}

(* What is asked for fits under the bound; only one message closes or      *)
(* activates, and its project is open.                                     *)
QueueFits ==
    /\ started + Cardinality(Asks(queue)) <= MaxCommands
    /\ \A m \in Queued : IsMove(m) => m.project \in open
    /\ \A i, j \in 1 .. Len(queue) : IsMove(queue[i]) /\ IsMove(queue[j]) => i = j

Typed == TypeOK /\ queue \in Seq(Messages) /\ QueueFits

(* A command that was started.                                             *)
Proper(command) ==
    /\ command.kind \in Kinds /\ command.id \in 1 .. started
    /\ command.kind # "program" => command.project \in Projects

CommandsFit ==
    /\ \A c \in Consoles : fContextMessage[c] # NoCommand =>
          Proper(fContextMessage[c]) /\ ConsoleOf(fContextMessage[c].kind) = c
    /\ \A c \in Consoles : shell[c].command # NoCommand => Proper(shell[c].command)
    /\ \A m \in Queued :
          /\ m.what = "execute" /\ m.command # NoCommand => Proper(m.command)
          /\ m.what \in {"exit", "windowExit"} => Proper(m.command)

(* Messages of the end of a command, to the view and to the window.        *)
IsExit(m) == m.what \in {"exit", "windowExit"}

(* A command whose end is told to the browser.                             *)
IsBuild(command) == command.kind \in {"build", "catkeys", "target"}

(* A command whose end is awaited runs, or a message on the way of its end *)
(* waits.                                                                  *)
EndIsNear(c) ==
    \E m \in Queued : m.what \in {"execute", "quit", "notify"} /\ m.console = c

ContextsEnd ==
    \A c \in Consoles : fContextMessage[c] # NoCommand => shell[c].running \/ EndIsNear(c)

(* What was taken away will come back.                                     *)
ButtonsReturn ==
    /\ \A c \in Consoles : fStopButton[c] =>
          \/ fContextMessage[c] # NoCommand
          \/ \E m \in Queued : m.what = "exit" /\ m.console = c
    /\ \/ buildMenu = (fActiveProject # NoProject)
       \/ \E c \in Consoles : fContextMessage[c] # NoCommand
       \/ \E m \in Queued : IsExit(m)
    /\ \/ setActiveMenu
       \/ fContextMessage["fBuildLogView"] # NoCommand
       \/ \E m \in Queued : IsExit(m) /\ IsBuild(m.command)

(* The last that p will be told is that it is not building.                *)
Settled(p) == \E i \in 1 .. Len(queue) :
    /\ queue[i] = Notice(p, FALSE)
    /\ \A j \in 1 .. Len(queue) : j > i => queue[j] # Notice(p, TRUE)

Told(p) ==
    \/ fContextMessage["fBuildLogView"].project = p
    \/ \E m \in Queued : IsExit(m) /\ IsBuild(m.command) /\ m.command.project = p
    \/ Settled(p)

Spinning(p) == fIsBuilding[p] \/ Notice(p, TRUE) \in Queued

Follows(p) ==
    /\ fIsBuilding[p] => p \in open
    /\ Spinning(p) => p \in abandoned \/ Told(p)

BuildsFollow == \A p \in Projects : Follows(p)

-----------------------------------------------------------------------------
(* The last command, if it was started alone.                              *)

Current(command) == command # NoCommand /\ command.id = started

(* Nothing but the command is awaited.                                     *)
Sole(command) ==
    LET c == ConsoleOf(command.kind) IN
    /\ fContextMessage[c] = command /\ fStopButton[c]
    /\ \A d \in Consoles \ {c} : fContextMessage[d] = NoCommand
    /\ \A m \in Queued :
          /\ ~IsExit(m)
          /\ m.what = "notice" => m.building
          /\ m.what \in {"quit", "notify"} => m.console # c

(* Its project is building, or is told so before the message at n.         *)
Spins(command, n) ==
    command.kind = "build" =>
        \/ command.project \in abandoned
        \/ /\ command.project \in open
           /\ \/ fIsBuilding[command.project]
              \/ \E j \in 1 .. Len(queue) : j < n /\ queue[j] = Notice(command.project, TRUE)

(* No message before the one at n runs something in c, or the last command *)
(* elsewhere.                                                              *)
First(n, c) ==
    \A j \in 1 .. Len(queue) :
        queue[j].what = "execute" /\ (queue[j].console = c \/ Current(queue[j].command)) => j >= n

(* m, the message at n, will run the command ...                           *)
WillRun(n, m) ==
    LET c == m.console IN
    /\ c = ConsoleOf(m.command.kind) /\ Sole(m.command) /\ Spins(m.command, n)
    /\ ~shell[c].running
    /\ \A d \in Consoles : shell[d].running => ~Current(shell[d].command)
    /\ First(n, c)

(* ... or it runs in c.                                                    *)
Runs(c, command) ==
    /\ c = ConsoleOf(command.kind) /\ Sole(command) /\ Spins(command, 1)
    /\ \A m \in Queued : m.what = "execute" => ~Current(m.command)

Alone ==
    ~mixed =>
        /\ \A m \in Queued, n \in 1 .. Len(queue) :
              m = queue[n] /\ m.what = "execute" /\ Current(m.command) => WillRun(n, m)
        /\ \A c \in Consoles, command \in Commands :
              shell[c] = [command |-> command, running |-> TRUE] /\ Current(command) =>
                  Runs(c, command)

IInv == Typed /\ CommandsFit /\ ContextsEnd /\ ButtonsReturn /\ BuildsFollow /\ Alone

-----------------------------------------------------------------------------
(* The queue.                                                              *)

LEMMA Fields ==
    ASSUME NEW m \in Messages
    PROVE  /\ m.what \in {"stop", "quit", "notify", "execute", "exit"} => m.console \in Consoles
           /\ m.what \in {"execute", "exit", "windowExit"} => m.command \in Commands
           /\ m.what \in {"activate", "close", "notice"} => m.project \in Projects
           /\ m.what = "notice" => m.building \in BOOLEAN /\ m = Notice(m.project, m.building)
           /\ m.what \in Kinds \cup {"stop", "activate", "close", "execute", "quit",
                                     "notify", "exit", "windowExit", "notice"}
  BY DEF Messages, Kinds, Notice

(* The first d messages go and those of ms come.                           *)
Moved(d, ms) ==
    /\ queue' \in Seq(Messages) /\ (d = 1 => Reply(ms))
    /\ \A i \in 1 .. Len(queue) :
          i > d => i - d \in 1 .. Len(queue') /\ queue'[i - d] = queue[i]
    /\ \A j \in 1 .. Len(queue') :
          \/ j + d \in 1 .. Len(queue) /\ queue'[j] = queue[j + d]
          \/ j + d - Len(queue) \in 1 .. Len(ms) /\ queue'[j] = ms[j + d - Len(queue)]
    /\ \A k \in 1 .. Len(ms) :
          Len(queue) - d + k \in 1 .. Len(queue') /\ queue'[Len(queue) - d + k] = ms[k]

LEMMA HeadIsFirst ==
    ASSUME queue \in Seq(Messages), queue # <<>>
    PROVE  /\ Len(queue) \in Nat \ {0} /\ 1 \in 1 .. Len(queue)
           /\ Msg = queue[1] /\ Msg \in Queued /\ Msg \in Messages
  BY DEF Msg, Queued

LEMMA ReplyMoves ==
    ASSUME queue \in Seq(Messages), queue # <<>>, NEW ms \in Seq(Messages), Reply(ms)
    PROVE  Moved(1, ms)
  <1> DEFINE rest == Tail(queue)
  <1>1. Len(queue) \in Nat \ {0}
    BY HeadIsFirst
  <1>2. /\ rest \in Seq(Messages) /\ Len(rest) = Len(queue) - 1
        /\ \A i \in 1 .. Len(rest) : rest[i] = queue[i + 1]
    BY <1>1
  <1>3. queue' = rest \o ms
    BY DEF Reply
  <1> HIDE DEF rest
  <1>4. /\ queue' \in Seq(Messages) /\ Len(queue') = Len(rest) + Len(ms)
        /\ \A i \in 1 .. Len(rest) : queue'[i] = rest[i]
        /\ \A k \in 1 .. Len(ms) : queue'[Len(rest) + k] = ms[k]
    <2>1. /\ rest \o ms \in Seq(Messages) /\ Len(rest \o ms) = Len(rest) + Len(ms)
          /\ \A i \in 1 .. Len(rest) + Len(ms) :
                (rest \o ms)[i] = IF i <= Len(rest) THEN rest[i] ELSE ms[i - Len(rest)]
      BY <1>2, ConcatProperties
    <2>2. Len(ms) \in Nat /\ Len(rest) \in Nat
      BY <1>2
    <2>3. ASSUME NEW k \in 1 .. Len(ms)
          PROVE  (rest \o ms)[Len(rest) + k] = ms[k]
      <3>1. /\ Len(rest) + k \in 1 .. Len(rest) + Len(ms) /\ ~(Len(rest) + k <= Len(rest))
            /\ (Len(rest) + k) - Len(rest) = k
        BY <2>2
      <3>2. QED
        BY <2>1, <3>1
    <2>4. \A i \in 1 .. Len(rest) : (rest \o ms)[i] = rest[i]
      BY <2>1, <2>2
    <2>5. QED
      BY <1>3, <2>1, <2>3, <2>4
  <1>5. Len(ms) \in Nat /\ Len(rest) \in Nat
    BY <1>2
  <1>6. ASSUME NEW i \in 1 .. Len(queue), i > 1
        PROVE  i - 1 \in 1 .. Len(queue') /\ queue'[i - 1] = queue[i]
    <2>1. i - 1 \in 1 .. Len(rest) /\ (i - 1) + 1 = i
      BY <1>1, <1>2, <1>6
    <2>2. queue'[i - 1] = queue[i]
      BY <1>2, <1>4, <2>1
    <2>3. QED
      BY <1>4, <1>5, <2>1, <2>2
  <1>7. ASSUME NEW j \in 1 .. Len(queue')
        PROVE  \/ j + 1 \in 1 .. Len(queue) /\ queue'[j] = queue[j + 1]
               \/ j + 1 - Len(queue) \in 1 .. Len(ms) /\ queue'[j] = ms[j + 1 - Len(queue)]
    <2>1. CASE j \in 1 .. Len(rest)
      BY <1>1, <1>2, <1>4, <2>1
    <2>2. CASE j > Len(rest)
      <3>1. j - Len(rest) \in 1 .. Len(ms) /\ Len(rest) + (j - Len(rest)) = j
        BY <1>4, <1>5, <2>2
      <3>2. queue'[j] = ms[j - Len(rest)]
        BY <1>4, <3>1
      <3>3. j + 1 - Len(queue) = j - Len(rest)
        BY <1>1, <1>2
      <3>4. QED
        BY <3>1, <3>2, <3>3
    <2>3. QED
      BY <1>4, <1>5, <2>1, <2>2
  <1>8. ASSUME NEW k \in 1 .. Len(ms)
        PROVE  Len(queue) - 1 + k \in 1 .. Len(queue') /\ queue'[Len(queue) - 1 + k] = ms[k]
    BY <1>1, <1>2, <1>4, <1>5
  <1>9. QED
    BY <1>4, <1>6, <1>7, <1>8 DEF Moved

LEMMA AppendMoves ==
    ASSUME queue \in Seq(Messages), NEW m \in Messages, queue' = Append(queue, m)
    PROVE  Moved(0, <<m>>)
  <1>1. /\ Len(queue) \in Nat /\ Len(queue') = Len(queue) + 1 /\ queue' \in Seq(Messages)
        /\ queue'[Len(queue) + 1] = m
        /\ \A i \in 1 .. Len(queue) : queue'[i] = queue[i]
    OBVIOUS
  <1>2. Len(<<m>>) = 1 /\ <<m>>[1] = m
    OBVIOUS
  <1>3. QED
    BY <1>1, <1>2 DEF Moved

LEMMA NothingMoves ==
    ASSUME queue \in Seq(Messages), queue' = queue
    PROVE  Moved(0, <<>>)
  <1>1. Len(queue) \in Nat /\ queue' \in Seq(Messages) /\ Len(<<>>) = 0
    OBVIOUS
  <1>2. QED
    BY <1>1 DEF Moved

(* What waits then: what waited, but for the head, and what has come.      *)
LEMMA QueuedThen ==
    ASSUME queue \in Seq(Messages), NEW d \in {0, 1}, NEW ms, Len(ms) \in Nat, Moved(d, ms)
    PROVE  /\ \A m \in Queued' : m \in Queued \/ \E k \in 1 .. Len(ms) : m = ms[k]
           /\ \A k \in 1 .. Len(ms) : ms[k] \in Queued'
           /\ \A m \in Queued : m \in Queued' \/ (d = 1 /\ m = Msg)
  <1>1. Len(queue) \in Nat /\ Len(queue') \in Nat
    BY DEF Moved
  <1>2. ASSUME NEW m \in Queued'
        PROVE  m \in Queued \/ \E k \in 1 .. Len(ms) : m = ms[k]
    <2>1. PICK j \in 1 .. Len(queue') : m = queue'[j]
      BY DEF Queued
    <2>2. \/ j + d \in 1 .. Len(queue) /\ queue'[j] = queue[j + d]
          \/ j + d - Len(queue) \in 1 .. Len(ms) /\ queue'[j] = ms[j + d - Len(queue)]
      BY DEF Moved
    <2>3. QED
      BY <2>1, <2>2 DEF Queued
  <1>3. ASSUME NEW k \in 1 .. Len(ms)
        PROVE  ms[k] \in Queued'
    BY <1>1 DEF Queued, Moved
  <1>4. ASSUME NEW m \in Queued
        PROVE  m \in Queued' \/ (d = 1 /\ m = Msg)
    <2>1. PICK i \in 1 .. Len(queue) : m = queue[i]
      BY DEF Queued
    <2>2. CASE i > d
      BY <1>1, <2>1, <2>2 DEF Queued, Moved
    <2>3. CASE ~(i > d)
      <3>1. d = 1 /\ i = 1
        BY <1>1, <2>3
      <3>2. queue # <<>>
        BY <1>1, <3>1
      <3>3. QED
        BY <2>1, <3>1, <3>2, HeadIsFirst
    <2>4. QED
      BY <2>2, <2>3
  <1>5. QED
    BY <1>2, <1>3, <1>4

LEMMA OneReplyMoves ==
    ASSUME queue \in Seq(Messages), queue # <<>>, NEW m \in Messages, Reply(<<m>>)
    PROVE  Moved(1, <<m>>)
  <1>1. <<m>> \in Seq(Messages)
    OBVIOUS
  <1>2. QED
    BY <1>1, ReplyMoves

LEMMA OneMessage ==
    ASSUME NEW ms, NEW m, Len(ms) = 1, ms[1] = m
    PROVE  /\ Len(ms) \in Nat /\ 1 \in 1 .. Len(ms)
           /\ \A k \in 1 .. Len(ms) : ms[k] = m
  <1>1. Len(ms) \in Nat /\ 1 \in 1 .. Len(ms) /\ \A k \in 1 .. Len(ms) : k = 1
    OBVIOUS
  <1>2. QED
    BY <1>1, Zenon

LEMMA NothingComes ==
    ASSUME queue \in Seq(Messages), NEW d \in {0, 1}, Moved(d, <<>>)
    PROVE  /\ \A j \in 1 .. Len(queue') : j + d \in 1 .. Len(queue) /\ queue'[j] = queue[j + d]
           /\ \A m \in Queued' : m \in Queued
           /\ \A m \in Queued : m \in Queued' \/ (d = 1 /\ m = Msg)
  <1>1. Len(<<>>) \in Nat /\ \A k : k \notin 1 .. Len(<<>>)
    OBVIOUS
  <1>2. \A j \in 1 .. Len(queue') : j + d \in 1 .. Len(queue) /\ queue'[j] = queue[j + d]
    BY <1>1 DEF Moved
  <1>3. QED
    BY <1>1, <1>2, QueuedThen

LEMMA Tuples ==
    ASSUME NEW a \in Messages, NEW b \in Messages, NEW c \in Messages
    PROVE  /\ <<>> \in Seq(Messages) /\ Len(<<>>) = 0
           /\ <<a>> \in Seq(Messages) /\ Len(<<a>>) = 1 /\ <<a>>[1] = a
           /\ <<a, b>> \in Seq(Messages) /\ Len(<<a, b>>) = 2
           /\ <<a, b>>[1] = a /\ <<a, b>>[2] = b
           /\ <<a, b, c>> \in Seq(Messages) /\ Len(<<a, b, c>>) = 3
           /\ <<a, b, c>>[1] = a /\ <<a, b, c>>[2] = b /\ <<a, b, c>>[3] = c
  OBVIOUS

LEMMA Longer ==
    ASSUME NEW a \in Messages, NEW b \in Messages, NEW c \in Messages
    PROVE  <<a>> \o <<b>> = <<a, b>> /\ <<a, b>> \o <<c>> = <<a, b, c>>
  <1> DEFINE two == <<a>> \o <<b>>
             three == <<a, b>> \o <<c>>
  <1>1. /\ two \in Seq(Messages) /\ Len(two) = 2
        /\ \A i \in 1 .. 2 : two[i] = IF i <= 1 THEN <<a>>[i] ELSE <<b>>[i - 1]
    BY ConcatProperties, Tuples
  <1>2. /\ three \in Seq(Messages) /\ Len(three) = 3
        /\ \A i \in 1 .. 3 : three[i] = IF i <= 2 THEN <<a, b>>[i] ELSE <<c>>[i - 2]
    BY ConcatProperties, Tuples
  <1> HIDE DEF two, three
  <1>3. two[1] = a /\ two[2] = b
    BY <1>1
  <1>4. three[1] = a /\ three[2] = b /\ three[3] = c
    BY <1>2
  <1>5. \A i \in 1 .. 2 : two[i] = <<a, b>>[i]
    BY <1>3, Tuples
  <1>6. \A i \in 1 .. 3 : three[i] = <<a, b, c>>[i]
    BY <1>4, Tuples
  <1>7. two = <<a, b>>
    BY <1>1, <1>5, SeqEqual, Tuples
  <1>8. three = <<a, b, c>>
    BY <1>2, <1>6, SeqEqual, Tuples
  <1>9. QED
    BY <1>7, <1>8 DEF two, three

LEMMA AsksAreCounted ==
    ASSUME NEW q \in Seq(Messages)
    PROVE  IsFiniteSet(Asks(q)) /\ Cardinality(Asks(q)) \in Nat
  <1>1. IsFiniteSet(1 .. Len(q)) /\ Asks(q) \subseteq 1 .. Len(q)
    BY FS_Interval DEF Asks
  <1>2. IsFiniteSet(Asks(q))
    BY <1>1, FS_Subset
  <1>3. QED
    BY <1>2, FS_CardinalityType

LEMMA AskedAtTheBack ==
    ASSUME NEW q \in Seq(Messages), NEW m \in Messages
    PROVE  Cardinality(Asks(Append(q, m)))
               = Cardinality(Asks(q)) + (IF m.what \in Kinds THEN 1 ELSE 0)
  <1> DEFINE more == Append(q, m)
  <1>1. /\ Len(q) \in Nat /\ Len(more) = Len(q) + 1 /\ more[Len(q) + 1] = m
        /\ \A i \in 1 .. Len(q) : more[i] = q[i]
    BY AppendProperties
  <1> HIDE DEF more
  <1>2. CASE m.what \in Kinds
    <2>1. Asks(more) = Asks(q) \cup {Len(q) + 1}
      BY <1>1, <1>2 DEF Asks
    <2>2. Len(q) + 1 \notin Asks(q)
      BY <1>1 DEF Asks
    <2>3. QED
      BY <1>2, <2>1, <2>2, AsksAreCounted, FS_AddElement DEF more
  <1>3. CASE m.what \notin Kinds
    <2>1. Asks(more) = Asks(q)
      BY <1>1, <1>3 DEF Asks
    <2>2. QED
      BY <1>3, <2>1, AsksAreCounted DEF more
  <1>4. QED
    BY <1>2, <1>3

LEMMA AskedAtTheFront ==
    ASSUME NEW q \in Seq(Messages), q # <<>>
    PROVE  Cardinality(Asks(Tail(q)))
               = Cardinality(Asks(q)) - (IF q[1].what \in Kinds THEN 1 ELSE 0)
  <1> DEFINE rest == Tail(q)
             f == [i \in Asks(q) \ {1} |-> i - 1]
  <1>1. /\ Len(q) \in Nat \ {0} /\ Len(rest) = Len(q) - 1 /\ rest \in Seq(Messages)
        /\ \A i \in 1 .. Len(rest) : rest[i] = q[i + 1]
    BY HeadTailProperties
  <1> HIDE DEF rest
  <1>2. f \in Bijection(Asks(q) \ {1}, Asks(rest))
    <2>1. ASSUME NEW i \in Asks(q) \ {1}
          PROVE  f[i] \in Asks(rest)
      <3>1. i \in 1 .. Len(q) /\ i # 1 /\ q[i].what \in Kinds
        BY DEF Asks
      <3>2. i - 1 \in 1 .. Len(rest) /\ (i - 1) + 1 = i
        BY <1>1, <3>1
      <3>3. QED
        BY <1>1, <3>1, <3>2 DEF Asks
    <2>2. ASSUME NEW i \in Asks(q) \ {1}, NEW j \in Asks(q) \ {1}, f[i] = f[j]
          PROVE  i = j
      <3>1. i \in Nat /\ j \in Nat
        BY <1>1 DEF Asks
      <3>2. QED
        BY <2>2, <3>1
    <2>3. ASSUME NEW k \in Asks(rest)
          PROVE  \E i \in Asks(q) \ {1} : f[i] = k
      <3>1. k \in 1 .. Len(rest) /\ rest[k].what \in Kinds
        BY DEF Asks
      <3>2. k + 1 \in 1 .. Len(q) /\ k + 1 # 1 /\ (k + 1) - 1 = k
        BY <1>1, <3>1
      <3>3. k + 1 \in Asks(q) \ {1}
        BY <1>1, <3>1, <3>2 DEF Asks
      <3>4. f[k + 1] = k
        BY <3>2, <3>3
      <3>5. QED
        BY <3>3, <3>4
    <2>4. f \in [Asks(q) \ {1} -> Asks(rest)]
      BY <2>1
    <2> HIDE DEF f
    <2>5. QED
      BY <2>2, <2>3, <2>4 DEF Bijection, Injection, Surjection, IsInjective
  <1> HIDE DEF f
  <1>3. IsFiniteSet(Asks(q)) /\ IsFiniteSet(Asks(q) \ {1})
    BY AsksAreCounted, FS_RemoveElement
  <1>4. Cardinality(Asks(rest)) = Cardinality(Asks(q) \ {1})
    BY <1>2, <1>3, FS_Bijection DEF ExistsBijection
  <1>5. 1 \in Asks(q) <=> q[1].what \in Kinds
    BY <1>1 DEF Asks
  <1>6. CASE q[1].what \in Kinds
    BY <1>3, <1>4, <1>5, <1>6, FS_RemoveElement DEF rest
  <1>7. CASE q[1].what \notin Kinds
    <2>1. Asks(q) \ {1} = Asks(q)
      BY <1>5, <1>7
    <2>2. Cardinality(Asks(q)) \in Nat
      BY AsksAreCounted
    <2>3. Cardinality(Asks(q)) = Cardinality(Asks(q)) - 0
      BY <2>2
    <2>4. QED
      BY <1>4, <1>7, <2>1, <2>3 DEF rest
  <1>8. QED
    BY <1>6, <1>7

Asked(m) == IF m.what \in Kinds THEN 1 ELSE 0

(* What is asked for after a reply of up to three messages.                *)
LEMMA AsksThen ==
    ASSUME queue \in Seq(Messages), queue # <<>>,
           NEW a \in Messages, NEW b \in Messages, NEW c \in Messages
    PROVE  /\ Cardinality(Asks(queue)) \in Nat
           /\ Reply(<<>>) =>
                Cardinality(Asks(queue')) = Cardinality(Asks(queue)) - Asked(Msg)
           /\ Reply(<<a>>) =>
                Cardinality(Asks(queue')) = Cardinality(Asks(queue)) - Asked(Msg) + Asked(a)
           /\ Reply(<<a, b>>) =>
                Cardinality(Asks(queue')) =
                    Cardinality(Asks(queue)) - Asked(Msg) + Asked(a) + Asked(b)
           /\ Reply(<<a, b, c>>) =>
                Cardinality(Asks(queue')) =
                    Cardinality(Asks(queue)) - Asked(Msg) + Asked(a) + Asked(b) + Asked(c)
  <1> DEFINE rest == Tail(queue)
             one == Append(rest, a)
             two == Append(one, b)
             three == Append(two, c)
  <1>1. rest \in Seq(Messages) /\ Msg = queue[1]
    BY HeadTailProperties, HeadIsFirst
  <1>2. Cardinality(Asks(rest)) = Cardinality(Asks(queue)) - Asked(Msg)
    BY <1>1, AskedAtTheFront DEF Asked
  <1> HIDE DEF rest
  <1>3. one \in Seq(Messages)
        /\ Cardinality(Asks(one)) = Cardinality(Asks(rest)) + Asked(a)
    BY <1>1, AskedAtTheBack, AppendProperties DEF Asked
  <1>4. one = rest \o <<a>>
    BY <1>1, AppendIsConcat
  <1> HIDE DEF one
  <1>5. two \in Seq(Messages)
        /\ Cardinality(Asks(two)) = Cardinality(Asks(one)) + Asked(b)
    BY <1>3, AskedAtTheBack, AppendProperties DEF Asked
  <1>6. two = rest \o <<a, b>>
    <2>1. two = one \o <<b>>
      BY <1>3, AppendIsConcat
    <2>2. (rest \o <<a>>) \o <<b>> = rest \o (<<a>> \o <<b>>)
      BY <1>1, ConcatAssociative, Tuples
    <2>3. <<a>> \o <<b>> = <<a, b>>
      BY Longer
    <2>4. QED
      BY <1>4, <2>1, <2>2, <2>3
  <1> HIDE DEF two
  <1>7. Cardinality(Asks(three)) = Cardinality(Asks(two)) + Asked(c)
    BY <1>5, AskedAtTheBack DEF Asked
  <1>8. three = rest \o <<a, b, c>>
    <2>1. three = two \o <<c>>
      BY <1>5, AppendIsConcat
    <2>2. (rest \o <<a, b>>) \o <<c>> = rest \o (<<a, b>> \o <<c>>)
      BY <1>1, ConcatAssociative, Tuples
    <2>3. <<a, b>> \o <<c>> = <<a, b, c>>
      BY Longer
    <2>4. QED
      BY <1>6, <2>1, <2>2, <2>3
  <1> HIDE DEF three
  <1>9. rest \o <<>> = rest
    BY <1>1, ConcatEmptySeq
  <1>10. Cardinality(Asks(queue)) \in Nat
    BY AsksAreCounted
  <1>11. \A ms : Reply(ms) => queue' = rest \o ms
    BY DEF Reply, rest
  <1>12. QED
    BY <1>2, <1>3, <1>4, <1>5, <1>6, <1>7, <1>8, <1>9, <1>10, <1>11

(* Messages that close or activate, after others came.                     *)
LEMMA MovesThen ==
    ASSUME Typed, NEW d \in {0, 1}, NEW ms, Len(ms) \in Nat, Moved(d, ms),
           \A k \in 1 .. Len(ms) : ~IsMove(ms[k])
    PROVE  /\ \A m \in Queued' : IsMove(m) => m.project \in open
           /\ \A i, j \in 1 .. Len(queue') : IsMove(queue'[i]) /\ IsMove(queue'[j]) => i = j
  <1>1. queue \in Seq(Messages) /\ Len(queue) \in Nat /\ Len(queue') \in Nat
    BY DEF Typed, Moved
  <1>2. \A m \in Queued' : IsMove(m) => m.project \in open
    BY <1>1, QueuedThen DEF Typed, QueueFits
  <1>3. ASSUME NEW i \in 1 .. Len(queue'), NEW j \in 1 .. Len(queue'),
               IsMove(queue'[i]), IsMove(queue'[j])
        PROVE  i = j
    <2>1. /\ i + d \in 1 .. Len(queue) /\ queue'[i] = queue[i + d]
          /\ j + d \in 1 .. Len(queue) /\ queue'[j] = queue[j + d]
      BY <1>3 DEF Moved
    <2>2. i + d = j + d
      BY <1>3, <2>1 DEF Typed, QueueFits
    <2>3. QED
      BY <1>1, <2>2
  <1>4. QED
    BY <1>2, <1>3

-----------------------------------------------------------------------------
(* Kinds of steps.                                                         *)

(* A command is started; buildMenu and setActiveMenu are left open.        *)
Starts(kind, before) ==
    /\ kind \in Kinds /\ queue # <<>> /\ Msg.what \in Kinds
    /\ kind # "program" => fActiveProject # NoProject
    /\ \/ kind # "build" /\ before = <<>>
       \/ kind = "build" /\ before = <<Notice(fActiveProject, TRUE)>>
       \/ /\ kind = "build" /\ MayStart
          /\ before = <<[what |-> "build"], Notice(fActiveProject, TRUE)>>
    /\ RunCommand(kind, before)
    /\ buildMenu' \in BOOLEAN /\ setActiveMenu' \in BOOLEAN
    /\ kind \in {"build", "catkeys"} \/ UNCHANGED setActiveMenu

(* Messages come and go that nothing but the queue depends on: what quits  *)
(* is passed on as what notifies, and Stop gives an idle shell.            *)
Passes(d, ms) ==
    /\ d \in {0, 1} /\ Len(ms) \in Nat /\ Moved(d, ms) /\ QueueFits'
    /\ UNCHANGED <<projects, fIsBuilding, menus, console, abandoned>>
    /\ d = 1 => queue # <<>> /\ Msg.what \in Kinds \cup {"stop", "quit"}
    /\ \A k \in 1 .. Len(ms) :
          \/ ms[k].what \in Kinds \cup {"stop", "activate", "close"}
          \/ ms[k].what = "execute" /\ ms[k].command = NoCommand
          \/ /\ ms[k].what = "notify" /\ d = 1
             /\ Msg.what = "quit" /\ ms[k].console = Msg.console
    /\ d = 1 /\ Msg.what = "quit" =>
          \E k \in 1 .. Len(ms) : ms[k].what = "notify" /\ ms[k].console = Msg.console

(* Another project becomes active, or one more is open.                    *)
Rearranges(d) ==
    /\ d \in {0, 1} /\ Moved(d, <<>>)
    /\ IF d = 1 THEN queue # <<>> /\ IsMove(Msg) ELSE queue' = queue
    /\ open \subseteq open' /\ open' \subseteq Projects /\ moves' \in Nat
    /\ fActiveProject' \in open' \cup {NoProject} /\ buildMenu' \in BOOLEAN
    /\ UNCHANGED <<fIsBuilding, setActiveMenu, console, abandoned>>
    /\ buildMenu' = (fActiveProject' # NoProject) \/ UNCHANGED <<buildMenu, fActiveProject>>

LEMMA StartsStep ==
    ASSUME TypeOK, DoBuild \/ DoCatkeys \/ DoTarget \/ DoProgram
    PROVE  \E kind, before : Starts(kind, before)
  <1>1. CASE DoBuild
    <2>1. PICK saved \in Saved :
              RunCommand("build", saved \o <<Notice(fActiveProject, TRUE)>>)
      BY <1>1 DEF DoBuild
    <2>2. \/ saved = <<>>
          \/ saved = <<[what |-> "build"]>> /\ MayStart
      BY DEF Saved
    <2>3. <<>> \o <<Notice(fActiveProject, TRUE)>> = <<Notice(fActiveProject, TRUE)>>
      OBVIOUS
    <2>4. <<[what |-> "build"]>> \o <<Notice(fActiveProject, TRUE)>>
              = <<[what |-> "build"], Notice(fActiveProject, TRUE)>>
      <3>1. [what |-> "build"] \in Messages
        BY DEF Messages, Kinds
      <3>2. Notice(fActiveProject, TRUE) \in Messages
        BY <1>1 DEF DoBuild, TypeOK, Notice, Messages
      <3>3. QED
        BY <3>1, <3>2, Longer
    <2>5. PICK before : before = saved \o <<Notice(fActiveProject, TRUE)>>
      OBVIOUS
    <2>6. Starts("build", before)
      BY <1>1, <2>1, <2>2, <2>3, <2>4, <2>5 DEF DoBuild, Starts, Kinds, Arrives, Msg
    <2>7. QED
      BY <2>6
  <1>2. CASE DoCatkeys
    <2>1. Starts("catkeys", <<>>)
      BY <1>2 DEF DoCatkeys, Starts, Kinds, Arrives, Msg, menus, TypeOK
    <2>2. QED
      BY <2>1
  <1>3. CASE DoTarget
    <2>1. PICK kind \in {"target", "git"} : kind = Msg.what
      BY <1>3 DEF DoTarget, Arrives, Msg
    <2>2. Starts(kind, <<>>)
      BY <1>3, <2>1 DEF DoTarget, Starts, Kinds, Arrives, Msg, TypeOK
    <2>3. QED
      BY <2>2
  <1>4. CASE DoProgram
    <2>1. Starts("program", <<>>)
      BY <1>4 DEF DoProgram, Starts, Kinds, Arrives, Msg, menus, TypeOK
    <2>2. QED
      BY <2>1
  <1>5. QED
    BY <1>1, <1>2, <1>3, <1>4

(* The other handlers, each with the messages it sends.                    *)
Ends(c) == c \in Consoles /\ CommandEnds(c) /\ Moved(0, <<QuitOf(c)>>)

Executes(c, ms) ==
    /\ queue # <<>> /\ Msg.what = "execute" /\ Msg.console = c /\ c \in Consoles
    /\ Execute /\ Moved(1, ms)
    /\ ms = <<>> \/ (shell[c].running /\ ms = <<QuitOf(c)>>)

Notifies(c, ms) ==
    /\ queue # <<>> /\ Msg.what = "notify" /\ Msg.console = c /\ c \in Consoles
    /\ Notify /\ Moved(1, ms)
    /\ ms = IF fContextMessage[c] = NoCommand THEN <<>>
            ELSE <<[what |-> "exit", console |-> c, command |-> fContextMessage[c]]>>

ViewExits(c) ==
    /\ queue # <<>> /\ Msg.what = "exit" /\ Msg.console = c /\ c \in Consoles
    /\ ViewExit /\ Moved(1, <<[what |-> "windowExit", command |-> Msg.command]>>)

WindowExits(ms) ==
    /\ queue # <<>> /\ Msg.what = "windowExit" /\ WindowExit /\ Moved(1, ms)
    /\ \/ /\ IsBuild(Msg.command) /\ Msg.command.project \in Projects /\ setActiveMenu' = TRUE
          /\ ms = <<Notice(Msg.command.project, FALSE)>>
       \/ ~IsBuild(Msg.command) /\ ms = <<>> /\ UNCHANGED setActiveMenu
    /\ buildMenu' = (fActiveProject # NoProject)

TellsPhase ==
    queue # <<>> /\ Msg.what = "notice" /\ BuildingPhase /\ Moved(1, <<>>)

Closes == queue # <<>> /\ Msg.what = "close" /\ Close /\ Moved(1, <<>>)

(* The user sends m: a second message that closes or activates waits for   *)
(* the first.                                                              *)
UserSends(m) ==
    /\ m \in Messages /\ Click(m)
    /\ m.what \in Kinds \cup {"stop", "activate", "close"}
    /\ IsMove(m) =>
          m.project \in open /\ \A i \in 1 .. Len(queue) : ~IsMove(queue[i])

LEMMA MayStartMeans ==
    ASSUME queue \in Seq(Messages)
    PROVE  MayStart <=> started + Cardinality(Asks(queue)) < MaxCommands
  <1>1. UNION {InQueue(k) : k \in Kinds} = Asks(queue)
    BY DEF InQueue, Asks
  <1>2. QED
    BY <1>1 DEF MayStart

LEMMA UserFits ==
    ASSUME Typed, NEW m, UserSends(m)
    PROVE  QueueFits'
  <1>1. /\ queue \in Seq(Messages) /\ queue' = Append(queue, m) /\ m \in Messages
        /\ started' = started /\ open' = open
    BY DEF Typed, UserSends, Click, console, projects
  <1>2. Cardinality(Asks(queue)) \in Nat /\ started \in Nat
    BY <1>1, AsksAreCounted, BoundsAssumption DEF Typed, TypeOK
  <1>3. Cardinality(Asks(queue')) = Cardinality(Asks(queue)) + (IF m.what \in Kinds THEN 1 ELSE 0)
    BY <1>1, AskedAtTheBack
  <1>4. m.what \in Kinds => started + Cardinality(Asks(queue)) < MaxCommands
    BY <1>1, MayStartMeans DEF UserSends, Click
  <1>5. started' + Cardinality(Asks(queue')) <= MaxCommands
    BY <1>1, <1>2, <1>3, <1>4, BoundsAssumption DEF Typed, QueueFits
  <1>6. CASE ~IsMove(m)
    <2>1. Moved(0, <<m>>) /\ Len(<<m>>) = 1 /\ <<m>>[1] = m
      BY <1>1, AppendMoves, Tuples
    <2>2. /\ \A x \in Queued' : IsMove(x) => x.project \in open
          /\ \A i, j \in 1 .. Len(queue') : IsMove(queue'[i]) /\ IsMove(queue'[j]) => i = j
      <3>1. \A k \in 1 .. Len(<<m>>) : ~IsMove(<<m>>[k])
        BY <1>6, <2>1
      <3>2. QED
        BY <2>1, <3>1, MovesThen
    <2>3. QED
      BY <1>1, <1>5, <2>2 DEF QueueFits
  <1>7. CASE IsMove(m)
    <2>1. /\ m.project \in open /\ Len(queue) \in Nat
          /\ \A i \in 1 .. Len(queue) : ~IsMove(queue[i])
      BY <1>1, <1>7 DEF UserSends
    <2>2. /\ Len(queue') = Len(queue) + 1 /\ queue'[Len(queue) + 1] = m
          /\ \A i \in 1 .. Len(queue) : queue'[i] = queue[i]
      BY <1>1, AppendProperties
    <2>3. \A i \in 1 .. Len(queue') : IsMove(queue'[i]) => i = Len(queue) + 1
      BY <2>1, <2>2
    <2>4. \A x \in Queued' : IsMove(x) => x = m
      BY <2>2, <2>3 DEF Queued
    <2>5. QED
      BY <1>1, <1>5, <2>1, <2>3, <2>4 DEF QueueFits
  <1>8. QED
    BY <1>6, <1>7

(* A reply that asks for nothing.                                          *)
Unasked(ms) ==
    \/ ms = <<>>
    \/ \E a \in Messages : ms = <<a>> /\ a.what \notin Kinds \cup {"activate", "close"}

LEMMA UnaskedReplies ==
    /\ Unasked(<<>>)
    /\ \A a \in Messages : a.what \notin Kinds \cup {"activate", "close"} => Unasked(<<a>>)
  BY DEF Unasked

LEMMA RepliesFit ==
    ASSUME Typed, queue # <<>>, NEW ms, Unasked(ms), Moved(1, ms),
           started' = started, open \subseteq open' \/ IsMove(Msg)
    PROVE  QueueFits'
  <1>0. PICK a \in Messages :
            ms = <<>> \/ (ms = <<a>> /\ a.what \notin Kinds \cup {"activate", "close"})
    <2>1. QuitOf("fMTermView") \in Messages
      BY DEF QuitOf, Messages, Consoles
    <2>2. QED
      BY <2>1 DEF Unasked
  <1>1. queue \in Seq(Messages) /\ Reply(ms) /\ Msg \in Messages /\ Len(queue) \in Nat
    BY HeadIsFirst DEF Typed, Moved
  <1>2. Cardinality(Asks(queue)) \in Nat /\ started \in Nat
    BY <1>1, AsksAreCounted, BoundsAssumption DEF Typed, TypeOK
  <1>3. Cardinality(Asks(queue')) <= Cardinality(Asks(queue))
    <2>1. CASE ms = <<>>
      <3>1. Cardinality(Asks(queue')) = Cardinality(Asks(queue)) - Asked(Msg)
        BY <1>0, <1>1, <2>1, AsksThen
      <3>2. QED
        BY <1>2, <3>1 DEF Asked
    <2>2. CASE ms = <<a>> /\ a.what \notin Kinds
      <3>1. Cardinality(Asks(queue')) = Cardinality(Asks(queue)) - Asked(Msg) + Asked(a)
        BY <1>0, <1>1, <2>2, AsksThen
      <3>2. QED
        BY <1>2, <2>2, <3>1 DEF Asked
    <2>3. QED
      BY <1>0, <2>1, <2>2
  <1>4. Cardinality(Asks(queue')) \in Nat
    BY AsksAreCounted DEF Moved
  <1>5. started' + Cardinality(Asks(queue')) <= MaxCommands
    BY <1>2, <1>3, <1>4, BoundsAssumption DEF Typed, QueueFits
  <1>6. Len(ms) \in Nat /\ \A k \in 1 .. Len(ms) : ~IsMove(ms[k])
    BY <1>0, Tuples DEF IsMove
  <1>7. /\ \A m \in Queued' : IsMove(m) => m.project \in open
        /\ \A i, j \in 1 .. Len(queue') : IsMove(queue'[i]) /\ IsMove(queue'[j]) => i = j
    BY <1>6, MovesThen
  <1>8. CASE open \subseteq open'
    BY <1>5, <1>7, <1>8 DEF QueueFits
  <1>9. CASE IsMove(Msg)
    <2>1. ASSUME NEW j \in 1 .. Len(queue'), IsMove(queue'[j])
          PROVE  FALSE
      <3>1. j + 1 \in 1 .. Len(queue) /\ queue'[j] = queue[j + 1]
        BY <1>6, <2>1 DEF Moved
      <3>2. Msg = queue[1] /\ 1 \in 1 .. Len(queue)
        BY <1>1, HeadIsFirst
      <3>3. j + 1 = 1
        BY <1>9, <2>1, <3>1, <3>2 DEF Typed, QueueFits
      <3>4. QED
        BY <3>3
    <2>2. QED
      BY <1>5, <2>1 DEF QueueFits, Queued
  <1>10. QED
    BY <1>8, <1>9

LEMMA UserPasses ==
    ASSUME Typed, User
    PROVE  \E d, ms : Passes(d, ms)
  <1>1. PICK m : UserSends(m)
    <2>1. ASSUME NEW kind \in Kinds, Choose(kind)
          PROVE  \E m : UserSends(m)
      <3>1. [what |-> kind] \in Messages /\ Click([what |-> kind])
        BY <2>1 DEF Choose, Messages
      <3>2. QED
        BY <3>1 DEF UserSends, Kinds, IsMove
    <2>2. ASSUME NEW c \in Consoles, PressStop(c)
          PROVE  \E m : UserSends(m)
      <3> DEFINE m == [what |-> "stop", console |-> c]
      <3>1. m \in Messages /\ m.what = "stop" /\ Click(m)
        BY <2>2 DEF PressStop, Messages
      <3>2. QED
        BY <3>1 DEF UserSends, IsMove
    <2>3. ASSUME NEW p \in Projects, NEW x \in {"activate", "close"}, p \in open,
                 Click([what |-> x, project |-> p]), InQueue("activate") \cup InQueue("close") = {}
          PROVE  \E m : UserSends(m)
      <3> DEFINE m == [what |-> x, project |-> p]
      <3>1. m \in Messages /\ m.what = x /\ m.project = p /\ Click(m)
        BY <2>3 DEF Messages
      <3>2. ASSUME NEW i \in 1 .. Len(queue), IsMove(queue[i])
            PROVE  FALSE
        <4>1. i \in InQueue("activate") \cup InQueue("close")
          BY <3>2 DEF InQueue, IsMove, Typed
        <4>2. QED
          BY <2>3, <4>1
      <3>3. QED
        BY <2>3, <3>1, <3>2 DEF UserSends
    <2>4. ASSUME Save
          PROVE  \E m : UserSends(m)
      <3>1. [what |-> "build"] \in Messages /\ Click([what |-> "build"]) /\ "build" \in Kinds
        BY <2>4 DEF Save, Messages, Kinds
      <3>2. QED
        BY <3>1 DEF UserSends, IsMove
    <2>5. QED
      BY <2>1, <2>2, <2>3, <2>4 DEF User, ChooseActive, ChooseClose
  <1>2. Moved(0, <<m>>)
    BY <1>1, AppendMoves DEF Click, Typed, UserSends
  <1>3. Passes(0, <<m>>)
    BY <1>1, <1>2, Tuples, UserFits DEF Passes, Click, UserSends
  <1>4. QED
    BY <1>3

(* A build that was asked for starts nothing and asks again.               *)
LEMMA AsksAgain ==
    ASSUME Typed, queue # <<>>, Msg.what \in Kinds, Moved(1, <<[what |-> "build"]>>),
           started' = started, open' = open
    PROVE  QueueFits'
  <1> DEFINE m == [what |-> "build"]
  <1>1. queue \in Seq(Messages) /\ Reply(<<m>>) /\ m \in Messages
    BY DEF Typed, Moved, Messages, Kinds
  <1>2. Cardinality(Asks(queue')) = Cardinality(Asks(queue)) - Asked(Msg) + Asked(m)
    BY <1>1, AsksThen
  <1>3. Asked(Msg) = 1 /\ Asked(m) = 1 /\ Cardinality(Asks(queue)) \in Nat
    BY <1>1, AsksAreCounted DEF Asked, Kinds
  <1>4. \A k \in 1 .. Len(<<m>>) : ~IsMove(<<m>>[k])
    BY DEF IsMove
  <1>5. /\ \A x \in Queued' : IsMove(x) => x.project \in open
        /\ \A i, j \in 1 .. Len(queue') : IsMove(queue'[i]) /\ IsMove(queue'[j]) => i = j
    BY <1>1, <1>4, Tuples, MovesThen
  <1>6. QED
    BY <1>2, <1>3, <1>5 DEF QueueFits, Typed

LEMMA HandlePasses ==
    ASSUME Typed, NothingToRun \/ DoStop \/ Quit
    PROVE  \E d, ms : Passes(d, ms)
  <1>1. queue \in Seq(Messages) /\ queue # <<>>
    BY DEF Typed, NothingToRun, DoStop, Quit, Arrives
  <1>2. Msg \in Messages
    BY <1>1, HeadIsFirst
  <1>3. CASE NothingToRun
    <2>1. [what |-> "build"] \in Messages /\ <<>> \in Seq(Messages)
      BY DEF Messages, Kinds
    <2>2. Msg.what \in Kinds /\ UNCHANGED <<projects, fIsBuilding, menus, console, abandoned>>
      BY <1>3 DEF NothingToRun, Kinds
    <2>3. CASE Reply(<<>>)
      <3>1. Moved(1, <<>>)
        BY <1>1, <2>1, <2>3, ReplyMoves
      <3>2. Passes(1, <<>>)
        <4>1. QueueFits'
          BY <1>1, <2>2, <3>1, UnaskedReplies, RepliesFit DEF console, projects
        <4>2. QED
          BY <1>1, <2>2, <3>1, <4>1 DEF Passes, Kinds
      <3>3. QED
        BY <3>2
    <2>4. CASE Reply(<<[what |-> "build"]>>)
      <3>1. Moved(1, <<[what |-> "build"]>>)
        BY <1>1, <2>1, <2>4, ReplyMoves, Tuples
      <3>2. Passes(1, <<[what |-> "build"]>>)
        <4>1. QueueFits'
          BY <1>1, <2>1, <2>2, <2>4, <3>1, AsksAgain DEF console, projects
        <4>2. QED
          BY <1>1, <2>2, <3>1, <4>1 DEF Passes, Kinds
      <3>3. QED
        BY <3>2
    <2>5. QED
      BY <1>3, <2>3, <2>4 DEF NothingToRun, Saved
  <1>4. CASE DoStop
    <2> DEFINE m == [what |-> "execute", console |-> Msg.console, command |-> NoCommand]
    <2>1. Msg.what = "stop" /\ Reply(<<m>>)
          /\ UNCHANGED <<projects, fIsBuilding, menus, console, abandoned>>
      BY <1>4 DEF DoStop, Arrives, Msg, Stop
    <2>2. NoCommand \in Commands
      BY BoundsAssumption DEF NoCommand, Commands
    <2>3. m \in Messages
      BY <1>2, <2>1, <2>2, Fields DEF Messages
    <2>4. Moved(1, <<m>>)
      BY <1>1, <2>1, <2>3, OneReplyMoves
    <2>5. QueueFits'
      BY <1>1, <2>1, <2>3, <2>4, UnaskedReplies, RepliesFit DEF console, projects, Kinds
    <2>6. Passes(1, <<m>>)
      BY <1>1, <2>1, <2>4, <2>5 DEF Passes
    <2>7. QED
      BY <2>6
  <1>5. CASE Quit
    <2> DEFINE m == [what |-> "notify", console |-> Msg.console]
    <2>1. Msg.what = "quit" /\ Reply(<<m>>)
          /\ UNCHANGED <<projects, fIsBuilding, menus, console, abandoned>>
      BY <1>5 DEF Quit, Arrives, Msg
    <2>2. m \in Messages
      BY <1>2, <2>1, Fields DEF Messages
    <2>3. Moved(1, <<m>>)
      BY <1>1, <2>1, <2>2, OneReplyMoves
    <2>4. QueueFits'
      BY <1>1, <2>1, <2>2, <2>3, UnaskedReplies, RepliesFit DEF console, projects, Kinds
    <2>5. Passes(1, <<m>>)
      BY <1>1, <2>1, <2>3, <2>4 DEF Passes
    <2>6. QED
      BY <2>5
  <1>6. QED
    BY <1>3, <1>4, <1>5

RunOf(command) ==
    [what |-> "execute", console |-> ConsoleOf(command.kind), command |-> command]

Begins(command, ms) ==
    LET c == ConsoleOf(command.kind) IN
    /\ queue # <<>> /\ Msg.what \in Kinds
    /\ command = [id |-> started + 1, kind |-> command.kind, project |-> fActiveProject]
    /\ command.kind \in Kinds /\ command.id \in 1 .. MaxCommands
    /\ command.kind # "program" => fActiveProject \in Projects
    /\ Moved(1, ms) /\ QueueFits'
    /\ \/ command.kind # "build" /\ ms = <<RunOf(command)>>
       \/ command.kind = "build" /\ ms = <<Notice(fActiveProject, TRUE), RunOf(command)>>
       \/ /\ command.kind = "build"
          /\ ms = <<[what |-> "build"], Notice(fActiveProject, TRUE), RunOf(command)>>
    /\ started' = started + 1 /\ mixed' = UnderWay
    /\ fStopButton' = [fStopButton EXCEPT ![c] = TRUE]
    /\ fContextMessage' = [fContextMessage EXCEPT ![c] = command]
    /\ abandoned' = abandoned \cup
           {p \in {fContextMessage[c].project} \ {fActiveProject} :
                fContextMessage[c].kind \in {"build", "catkeys"} /\ Building(p)}
    /\ UNCHANGED <<projects, fIsBuilding, shell>>
    /\ buildMenu' \in BOOLEAN /\ setActiveMenu' \in BOOLEAN
    /\ command.kind \in {"build", "catkeys"} \/ UNCHANGED setActiveMenu

LEMMA StartsBegins ==
    ASSUME Typed, NEW kind, NEW before, Starts(kind, before)
    PROVE  \E command, ms : Begins(command, ms)
  <1>1. PICK command : command = [id |-> started + 1, kind |-> kind, project |-> fActiveProject]
    OBVIOUS
  <1>2. /\ command.kind = kind /\ command.id = started + 1 /\ command.project = fActiveProject
        /\ command = [id |-> started + 1, kind |-> command.kind, project |-> fActiveProject]
    BY <1>1
  <1>3. PICK run : run = RunOf(command)
    OBVIOUS
  <1>4. PICK note : note = Notice(fActiveProject, TRUE)
    OBVIOUS
  <1>5. PICK again : again = [what |-> "build"]
    OBVIOUS
  <1>6. /\ queue \in Seq(Messages) /\ queue # <<>> /\ Msg.what \in Kinds /\ kind \in Kinds
        /\ started \in Nat /\ started + Cardinality(Asks(queue)) <= MaxCommands
        /\ fActiveProject \in Projects \cup {NoProject}
        /\ kind # "program" => fActiveProject \in Projects
    BY BoundsAssumption DEF Starts, Typed, TypeOK, QueueFits
  <1>7. Msg \in Messages /\ Cardinality(Asks(queue)) \in Nat \ {0}
    <2>1. 1 \in Asks(queue)
      BY <1>6, HeadIsFirst DEF Asks
    <2>2. IsFiniteSet(Asks(queue)) /\ Cardinality(Asks(queue)) \in Nat
      BY <1>6, AsksAreCounted
    <2>3. Cardinality(Asks(queue)) # 0
      BY <2>1, <2>2, FS_EmptySet
    <2>4. QED
      BY <1>6, <2>2, <2>3, HeadIsFirst
  <1>8. command.id \in 1 .. MaxCommands /\ command \in Commands
    BY <1>1, <1>2, <1>6, <1>7, BoundsAssumption DEF Commands
  <1>9. /\ run \in Messages /\ run.what = "execute"
    BY <1>2, <1>3, <1>6, <1>8 DEF Messages, RunOf, ConsoleOf, Consoles
  <1>10. again \in Messages /\ again.what = "build"
    BY <1>5 DEF Messages, Kinds
  <1>11. kind # "program" => note \in Messages /\ note.what = "notice"
    BY <1>4, <1>6 DEF Messages, Notice
  <1>12. PICK ms : ms = before \o <<run>>
    OBVIOUS
  <1>13. \/ kind # "build" /\ ms = <<run>>
         \/ kind = "build" /\ ms = <<note, run>>
         \/ kind = "build" /\ MayStart /\ ms = <<again, note, run>>
    <2>1. CASE kind # "build" /\ before = <<>>
      <3>1. <<>> \o <<run>> = <<run>>
        BY <1>9, ConcatEmptySeq, Tuples
      <3>2. QED
        BY <1>12, <2>1, <3>1
    <2>2. CASE kind = "build" /\ before = <<note>>
      BY <1>9, <1>10, <1>11, <1>12, <2>2, Longer
    <2>3. CASE kind = "build" /\ MayStart /\ before = <<again, note>>
      BY <1>9, <1>10, <1>11, <1>12, <2>3, Longer
    <2>4. QED
      BY <1>4, <1>5, <2>1, <2>2, <2>3 DEF Starts
  <1>14. Reply(ms)
    BY <1>1, <1>2, <1>3, <1>12 DEF Starts, RunCommand, RunOf
  <1>15. /\ ms \in Seq(Messages) /\ Len(ms) \in Nat
         /\ \A k \in 1 .. Len(ms) : ~IsMove(ms[k])
    <2>1. CASE kind # "build" /\ ms = <<run>>
      BY <1>9, <2>1, Tuples DEF IsMove
    <2>2. CASE kind = "build" /\ ms = <<note, run>>
      BY <1>9, <1>11, <2>2, Tuples DEF IsMove
    <2>3. CASE kind = "build" /\ MayStart /\ ms = <<again, note, run>>
      BY <1>9, <1>10, <1>11, <2>3, Tuples DEF IsMove
    <2>4. QED
      BY <1>13, <2>1, <2>2, <2>3
  <1>16. Moved(1, ms)
    BY <1>6, <1>14, <1>15, ReplyMoves
  <1>17. started' = started + 1 /\ open' = open
    BY DEF Starts, RunCommand, projects
  <1>18. started' + Cardinality(Asks(queue')) <= MaxCommands
    <2>1. CASE kind # "build" /\ ms = <<run>>
      <3>1. Cardinality(Asks(queue')) = Cardinality(Asks(queue)) - 1 + 0
        BY <1>6, <1>7, <1>9, <1>14, <2>1, AsksThen DEF Asked, Kinds
      <3>2. QED
        BY <1>6, <1>7, <1>17, <3>1, BoundsAssumption
    <2>2. CASE kind = "build" /\ ms = <<note, run>>
      <3>1. Cardinality(Asks(queue')) = Cardinality(Asks(queue)) - 1 + 0 + 0
        BY <1>6, <1>7, <1>9, <1>11, <1>14, <2>2, AsksThen DEF Asked, Kinds
      <3>2. QED
        BY <1>6, <1>7, <1>17, <3>1, BoundsAssumption
    <2>3. CASE kind = "build" /\ MayStart /\ ms = <<again, note, run>>
      <3>1. Cardinality(Asks(queue')) = Cardinality(Asks(queue)) - 1 + 1 + 0 + 0
        BY <1>6, <1>7, <1>9, <1>10, <1>11, <1>14, <2>3, AsksThen DEF Asked, Kinds
      <3>2. started + Cardinality(Asks(queue)) < MaxCommands
        BY <1>6, <2>3, MayStartMeans
      <3>3. QED
        BY <1>6, <1>7, <1>17, <3>1, <3>2, BoundsAssumption
    <2>4. QED
      BY <1>13, <2>1, <2>2, <2>3
  <1>19. QueueFits'
    <2>1. /\ \A m \in Queued' : IsMove(m) => m.project \in open
          /\ \A i, j \in 1 .. Len(queue') : IsMove(queue'[i]) /\ IsMove(queue'[j]) => i = j
      BY <1>15, <1>16, MovesThen
    <2>2. QED
      BY <1>17, <1>18, <2>1 DEF QueueFits
  <1>20. /\ mixed' = UnderWay
         /\ fStopButton' = [fStopButton EXCEPT ![ConsoleOf(command.kind)] = TRUE]
         /\ fContextMessage' = [fContextMessage EXCEPT ![ConsoleOf(command.kind)] = command]
         /\ abandoned' = abandoned \cup
                {p \in {fContextMessage[ConsoleOf(command.kind)].project} \ {fActiveProject} :
                     /\ fContextMessage[ConsoleOf(command.kind)].kind \in {"build", "catkeys"}
                     /\ Building(p)}
         /\ UNCHANGED <<projects, fIsBuilding, shell>>
    BY <1>1, <1>2 DEF Starts, RunCommand
  <1>21. /\ buildMenu' \in BOOLEAN /\ setActiveMenu' \in BOOLEAN
         /\ command.kind \in {"build", "catkeys"} \/ UNCHANGED setActiveMenu
    BY <1>2 DEF Starts
  <1>22. Begins(command, ms)
    BY <1>2, <1>3, <1>4, <1>5, <1>6, <1>8, <1>13, <1>16, <1>17, <1>19, <1>20, <1>21 DEF Begins
  <1>23. QED
    BY <1>22

LEMMA StepKinds ==
    ASSUME Typed, CommandsFit, [Next]_vars
    PROVE  \/ \E d, ms : Passes(d, ms)
           \/ \E command, ms : Begins(command, ms)
           \/ \E c : Ends(c)
           \/ \E c, ms : Executes(c, ms)
           \/ \E c, ms : Notifies(c, ms)
           \/ \E c : ViewExits(c)
           \/ \E ms : WindowExits(ms)
           \/ TellsPhase \/ Closes
           \/ \E d : Rearranges(d)
  <1>1. queue \in Seq(Messages) /\ <<>> \in Seq(Messages)
    BY DEF Typed
  <1>2. ASSUME NEW what, Arrives(what)
        PROVE  queue # <<>> /\ Msg.what = what /\ Msg \in Messages /\ Msg \in Queued
    BY <1>1, <1>2, HeadIsFirst DEF Arrives, Msg
  <1>3. ASSUME NEW c \in Consoles
        PROVE  QuitOf(c) \in Messages
    BY DEF QuitOf, Messages
  <1>4. ASSUME NEW c \in Consoles, CommandEnds(c)
        PROVE  Ends(c)
    BY <1>1, <1>3, <1>4, AppendMoves DEF Ends, CommandEnds, QuitOf
  <1>5. CASE Execute
    <2>1. queue # <<>> /\ Msg.what = "execute" /\ Msg.console \in Consoles
      BY <1>2, <1>5, Fields DEF Execute
    <2>2. CASE Reply(<<>>)
      <3>1. Executes(Msg.console, <<>>)
        BY <1>1, <1>5, <2>1, <2>2, ReplyMoves DEF Executes
      <3>2. QED
        BY <3>1
    <2>3. CASE shell[Msg.console].running /\ Reply(<<QuitOf(Msg.console)>>)
      <3>1. <<QuitOf(Msg.console)>> \in Seq(Messages)
        BY <1>3, <2>1, Tuples
      <3>2. Executes(Msg.console, <<QuitOf(Msg.console)>>)
        BY <1>1, <1>5, <2>1, <2>3, <3>1, ReplyMoves DEF Executes
      <3>3. QED
        BY <3>2
    <2>4. QED
      BY <1>5, <2>2, <2>3 DEF Execute, QuitOf
  <1>6. CASE Notify
    <2> DEFINE c == Msg.console
               m == [what |-> "exit", console |-> c, command |-> fContextMessage[c]]
    <2>1. queue # <<>> /\ Msg.what = "notify" /\ c \in Consoles
      BY <1>2, <1>6, Fields DEF Notify
    <2>2. m \in Messages
      BY <2>1 DEF Messages, Typed, TypeOK
    <2>3. CASE fContextMessage[c] = NoCommand
      <3>1. Reply(<<>>)
        BY <1>6, <2>3 DEF Notify, NotifyCommandQuit
      <3>2. Moved(1, <<>>)
        BY <1>1, <2>1, <3>1, ReplyMoves
      <3>3. Notifies(c, <<>>)
        BY <1>6, <2>1, <2>3, <3>2 DEF Notifies
      <3>4. QED
        BY <3>3
    <2>4. CASE fContextMessage[c] # NoCommand
      <3>1. Reply(<<m>>)
        BY <1>6, <2>4 DEF Notify, NotifyCommandQuit
      <3>2. Moved(1, <<m>>)
        BY <1>1, <2>1, <2>2, <3>1, OneReplyMoves
      <3>3. Notifies(c, <<m>>)
        BY <1>6, <2>1, <2>4, <3>2 DEF Notifies
      <3>4. QED
        BY <3>3
    <2>5. QED
      BY <2>3, <2>4
  <1>7. CASE ViewExit
    <2> DEFINE m == [what |-> "windowExit", command |-> Msg.command]
    <2>1. queue # <<>> /\ Msg.what = "exit" /\ Msg.console \in Consoles /\ Msg.command \in Commands
      BY <1>2, <1>7, Fields DEF ViewExit
    <2>2. m \in Messages /\ Reply(<<m>>)
      BY <1>7, <2>1 DEF Messages, ViewExit
    <2>3. Moved(1, <<m>>)
      <3>1. <<m>> \in Seq(Messages)
        BY <2>2, Tuples
      <3>2. QED
        BY <1>1, <2>1, <2>2, <3>1, ReplyMoves
    <2>4. ViewExits(Msg.console)
      BY <1>7, <2>1, <2>3 DEF ViewExits
    <2>5. QED
      BY <2>4
  <1>8. CASE WindowExit
    <2> DEFINE command == Msg.command
               m == Notice(command.project, FALSE)
    <2>1. queue # <<>> /\ Msg.what = "windowExit" /\ Proper(command)
      BY <1>2, <1>8 DEF WindowExit, CommandsFit
    <2>2. CASE IsBuild(command)
      <3>1. command.project \in Projects
        BY <2>1, <2>2 DEF Proper, IsBuild
      <3>2. m \in Messages
        BY <3>1 DEF Messages, Notice
      <3>3. Reply(<<m>>) /\ setActiveMenu' = TRUE /\ buildMenu' = (fActiveProject # NoProject)
        BY <1>8, <2>2 DEF WindowExit, Announce, IsBuild
      <3>4. Moved(1, <<m>>)
        BY <1>1, <2>1, <3>2, <3>3, OneReplyMoves
      <3>5. WindowExits(<<m>>)
        BY <1>8, <2>1, <2>2, <3>1, <3>3, <3>4 DEF WindowExits
      <3>6. QED
        BY <3>5
    <2>3. CASE ~IsBuild(command)
      <3>1. Reply(<<>>) /\ UNCHANGED setActiveMenu /\ buildMenu' = (fActiveProject # NoProject)
        BY <1>8, <2>1, <2>3 DEF WindowExit, Announce, IsBuild, Proper, Kinds
      <3>2. Moved(1, <<>>)
        BY <1>1, <2>1, <3>1, ReplyMoves
      <3>3. WindowExits(<<>>)
        BY <1>8, <2>1, <2>3, <3>1, <3>2 DEF WindowExits
      <3>4. QED
        BY <3>3
    <2>4. QED
      BY <2>2, <2>3
  <1>9. CASE BuildingPhase
    BY <1>1, <1>2, <1>9, ReplyMoves DEF TellsPhase, BuildingPhase
  <1>10. CASE Close
    BY <1>1, <1>2, <1>10, ReplyMoves DEF Closes, Close
  <1>11. CASE Activate
    <2>1. queue # <<>> /\ Msg.what = "activate" /\ Reply(<<>>)
      BY <1>2, <1>11 DEF Activate
    <2>2. Moved(1, <<>>)
      BY <1>1, <2>1, ReplyMoves
    <2>3. Msg.project \in open
      BY <1>2, <1>11, <2>1 DEF Activate, Typed, QueueFits, IsMove
    <2>4. Rearranges(1)
      BY <1>11, <2>1, <2>2, <2>3 DEF Rearranges, Activate, SetActiveProject, IsMove, Typed, TypeOK
    <2>5. QED
      BY <2>4
  <1>12. CASE ConfigurationChanged \/ UNCHANGED vars \/ \E p \in Projects : Open(p)
    <2>1. queue' = queue /\ Moved(0, <<>>)
      BY <1>1, <1>12, NothingMoves DEF ConfigurationChanged, Open, vars
    <2>2. /\ open \subseteq Projects /\ fActiveProject \in open \cup {NoProject}
          /\ moves \in Nat /\ buildMenu \in BOOLEAN
      BY DEF Typed, TypeOK
    <2>3. CASE ConfigurationChanged
      <3>1. /\ UNCHANGED <<open, fActiveProject, moves, fIsBuilding, setActiveMenu, console,
                            abandoned>>
            /\ buildMenu' = TRUE /\ fActiveProject # NoProject
        BY <2>3 DEF ConfigurationChanged, projects
      <3>2. buildMenu' = (fActiveProject' # NoProject)
        BY <3>1
      <3>3. QED
        BY <2>1, <2>2, <3>1, <3>2 DEF Rearranges
    <2>4. CASE UNCHANGED vars
      <3>1. /\ UNCHANGED <<open, fActiveProject, moves, fIsBuilding, setActiveMenu, console,
                            abandoned, buildMenu>>
        BY <2>4 DEF vars, projects, menus
      <3>2. QED
        BY <2>1, <2>2, <3>1 DEF Rearranges
    <2>5. ASSUME NEW p \in Projects, Open(p)
          PROVE  Rearranges(0)
      <3>1. /\ open' = open \cup {p} /\ moves' \in Nat
            /\ UNCHANGED <<fIsBuilding, setActiveMenu, console, abandoned>>
        BY <2>2, <2>5 DEF Open, SetActiveProject, menus
      <3>2. CASE SetActiveProject(p)
        <4>1. fActiveProject' = p /\ buildMenu' = (fActiveProject' # NoProject)
          BY <3>2 DEF SetActiveProject
        <4>2. QED
          BY <2>1, <2>2, <3>1, <4>1 DEF Rearranges
      <3>3. CASE UNCHANGED <<fActiveProject, menus>>
        <4>1. UNCHANGED <<fActiveProject, buildMenu>>
          BY <3>3 DEF menus
        <4>2. QED
          BY <2>1, <2>2, <3>1, <4>1 DEF Rearranges
      <3>4. QED
        BY <2>5, <3>2, <3>3 DEF Open
    <2>6. QED
      BY <1>12, <2>3, <2>4, <2>5
  <1>13. QED
    BY <1>4, <1>5, <1>6, <1>7, <1>8, <1>9, <1>10, <1>11, <1>12, StartsStep, StartsBegins,
       UserPasses, HandlePasses DEF Typed, Next, Handle

-----------------------------------------------------------------------------
(* Types.                                                                  *)

LEMMA EndFits ==
    ASSUME Typed, NEW c, Ends(c)
    PROVE  QueueFits'
  <1>1. /\ queue \in Seq(Messages) /\ queue' = Append(queue, QuitOf(c)) /\ Moved(0, <<QuitOf(c)>>)
        /\ started' = started /\ open' = open
    BY DEF Typed, Ends, CommandEnds, QuitOf, projects
  <1>2. QuitOf(c) \in Messages /\ QuitOf(c).what = "quit"
    BY DEF Ends, QuitOf, Messages
  <1>3. Cardinality(Asks(queue')) = Cardinality(Asks(queue)) + 0
    BY <1>1, <1>2, AskedAtTheBack DEF Kinds
  <1>4. Cardinality(Asks(queue)) \in Nat
    BY <1>1, AsksAreCounted
  <1>5. Len(<<QuitOf(c)>>) = 1 /\ \A k \in 1 .. Len(<<QuitOf(c)>>) : ~IsMove(<<QuitOf(c)>>[k])
    BY <1>2, Tuples DEF IsMove
  <1>6. /\ \A m \in Queued' : IsMove(m) => m.project \in open
        /\ \A i, j \in 1 .. Len(queue') : IsMove(queue'[i]) /\ IsMove(queue'[j]) => i = j
    BY <1>1, <1>5, MovesThen
  <1>7. QED
    BY <1>1, <1>3, <1>4, <1>6 DEF QueueFits, Typed

LEMMA TypedStep ==
    ASSUME Typed, CommandsFit, [Next]_vars
    PROVE  Typed'
  <1> DEFINE Whats == \A i \in DOMAIN queue' :
                 queue'[i].what \in Kinds \cup {"stop", "activate", "close", "execute", "quit",
                                                "notify", "exit", "windowExit", "notice"}
  <1>1. /\ TypeOK /\ queue \in Seq(Messages) /\ NoCommand \in Commands
        /\ \A m \in Queued : IsMove(m) => m.project \in open
    BY BoundsAssumption DEF Typed, QueueFits, NoCommand, Commands
  <1>2. ASSUME queue' \in Seq(Messages)
        PROVE  Whats
    BY <1>2, Fields
  <1> HIDE DEF Whats
  <1>3. ASSUME queue # <<>>
        PROVE  Msg \in Messages /\ Msg \in Queued
    BY <1>1, <1>3, HeadIsFirst
  <1>4. ASSUME NEW d, NEW ms, Passes(d, ms)
        PROVE  Typed'
    <2>1. queue' \in Seq(Messages) /\ QueueFits'
      BY <1>4 DEF Passes, Moved
    <2>2. UNCHANGED <<projects, fIsBuilding, menus, console, abandoned>>
      BY <1>4 DEF Passes
    <2>3. QED
      BY <1>1, <1>2, <2>1, <2>2 DEF Typed, TypeOK, Whats, projects, menus, console
  <1>5. ASSUME NEW command, NEW ms, Begins(command, ms)
        PROVE  Typed'
    <2> DEFINE c == ConsoleOf(command.kind)
    <2>1. queue' \in Seq(Messages) /\ QueueFits'
      BY <1>5 DEF Begins, Moved
    <2>2. command \in Commands /\ c \in Consoles
      BY <1>1, <1>5 DEF Begins, Commands, ConsoleOf, Consoles, TypeOK
    <2>3. UnderWay \in BOOLEAN
      BY DEF UnderWay
    <2>4. fContextMessage' \in [Consoles -> Commands] /\ fStopButton' \in [Consoles -> BOOLEAN]
      BY <1>1, <1>5, <2>2 DEF Begins, TypeOK
    <2>5. abandoned' \subseteq Projects
      <3>1. fContextMessage[c] \in Commands
        BY <1>1, <2>2 DEF TypeOK
      <3>2. fContextMessage[c].kind \in {"build", "catkeys"} => fContextMessage[c].project \in Projects
        <4>1. fContextMessage[c].kind \in {"build", "catkeys"} => Proper(fContextMessage[c])
          BY <2>2 DEF CommandsFit, NoCommand
        <4>2. QED
          BY <4>1 DEF Proper
      <3>3. QED
        BY <1>1, <1>5, <3>2 DEF Begins, TypeOK
    <2>6. started' \in 0 .. MaxCommands /\ mixed' \in BOOLEAN
      BY <1>1, <1>5, <2>3, BoundsAssumption DEF Begins
    <2>7. QED
      BY <1>1, <1>2, <1>5, <2>1, <2>4, <2>5, <2>6 DEF Typed, TypeOK, Begins, Whats, projects
  <1>6. ASSUME NEW c, Ends(c)
        PROVE  Typed'
    <2>1. queue' \in Seq(Messages) /\ QueueFits'
      BY <1>6, EndFits DEF Ends, Moved
    <2>2. shell' \in [Consoles -> [command : Commands, running : BOOLEAN]]
      BY <1>1, <1>6 DEF Ends, CommandEnds, TypeOK
    <2>3. QED
      BY <1>1, <1>2, <1>6, <2>1, <2>2 DEF Typed, TypeOK, Ends, CommandEnds, Whats, projects, menus
  <1>7. ASSUME NEW c, NEW ms, Executes(c, ms)
        PROVE  Typed'
    <2>1. queue' \in Seq(Messages) /\ Msg.command \in Commands
      BY <1>3, <1>7, Fields DEF Executes, Moved
    <2>2. Unasked(ms)
      <3>1. c \in Consoles /\ (ms = <<>> \/ ms = <<QuitOf(c)>>)
        BY <1>7 DEF Executes
      <3>2. QuitOf(c) \in Messages /\ QuitOf(c).what = "quit"
        BY <3>1 DEF QuitOf, Messages
      <3>3. QED
        BY <3>1, <3>2, UnaskedReplies DEF Kinds
    <2>3. QueueFits'
      BY <1>7, <2>2, RepliesFit DEF Executes, Execute, projects
    <2>4. shell' \in [Consoles -> [command : Commands, running : BOOLEAN]]
      BY <1>1, <1>7, <2>1 DEF Executes, Execute, TypeOK
    <2>5. QED
      BY <1>1, <1>2, <1>7, <2>1, <2>3, <2>4
         DEF Typed, TypeOK, Executes, Execute, Whats, projects, menus
  <1>8. ASSUME NEW c, NEW ms, Notifies(c, ms)
        PROVE  Typed'
    <2> DEFINE m == [what |-> "exit", console |-> c, command |-> fContextMessage[c]]
    <2>1. queue' \in Seq(Messages) /\ c \in Consoles /\ (ms = <<>> \/ ms = <<m>>)
      BY <1>8 DEF Notifies, Moved
    <2>2. Unasked(ms)
      <3>1. m \in Messages /\ m.what = "exit"
        BY <1>1, <2>1 DEF Messages, TypeOK
      <3>2. QED
        BY <2>1, <3>1, UnaskedReplies DEF Kinds
    <2>3. QueueFits'
      BY <1>8, <2>2, RepliesFit DEF Notifies, Notify, projects
    <2>4. fContextMessage' \in [Consoles -> Commands]
      BY <1>1, <1>8 DEF Notifies, Notify, NotifyCommandQuit, TypeOK
    <2>5. QED
      BY <1>1, <1>2, <1>8, <2>1, <2>3, <2>4
         DEF Typed, TypeOK, Notifies, Notify, Whats, projects, menus
  <1>9. ASSUME NEW c, ViewExits(c)
        PROVE  Typed'
    <2> DEFINE m == [what |-> "windowExit", command |-> Msg.command]
    <2>1. queue' \in Seq(Messages) /\ c \in Consoles /\ Moved(1, <<m>>)
      BY <1>9 DEF ViewExits, Moved
    <2>2. Unasked(<<m>>)
      <3>1. m \in Messages /\ m.what = "windowExit"
        BY <1>3, <1>9, Fields DEF Messages, ViewExits
      <3>2. QED
        BY <3>1, UnaskedReplies DEF Kinds
    <2>3. QueueFits'
      BY <1>9, <2>1, <2>2, RepliesFit DEF ViewExits, ViewExit, projects
    <2>4. fStopButton' \in [Consoles -> BOOLEAN]
      BY <1>1, <1>9 DEF ViewExits, ViewExit, TypeOK
    <2>5. QED
      BY <1>1, <1>2, <1>9, <2>1, <2>3, <2>4
         DEF Typed, TypeOK, ViewExits, ViewExit, Whats, projects, menus
  <1>10. ASSUME NEW ms, WindowExits(ms)
         PROVE  Typed'
    <2>1. queue' \in Seq(Messages)
      BY <1>10 DEF WindowExits, Moved
    <2>2. Unasked(ms)
      <3>1. ms = <<>> \/ (IsBuild(Msg.command) /\ Msg.command.project \in Projects
                          /\ ms = <<Notice(Msg.command.project, FALSE)>>)
        BY <1>10 DEF WindowExits
      <3>2. ASSUME NEW p \in Projects
            PROVE  Notice(p, FALSE) \in Messages /\ Notice(p, FALSE).what = "notice"
        BY DEF Notice, Messages
      <3>3. QED
        BY <3>1, <3>2, UnaskedReplies DEF Kinds
    <2>3. QueueFits'
      BY <1>10, <2>2, RepliesFit DEF WindowExits, WindowExit, projects, console
    <2>4. buildMenu' \in BOOLEAN /\ setActiveMenu' \in BOOLEAN
      BY <1>1, <1>10 DEF WindowExits, TypeOK
    <2>5. QED
      BY <1>1, <1>2, <1>10, <2>1, <2>3, <2>4
         DEF Typed, TypeOK, WindowExits, WindowExit, Whats, projects, console
  <1>11. ASSUME TellsPhase
         PROVE  Typed'
    <2>1. queue' \in Seq(Messages) /\ Msg.building \in BOOLEAN
      BY <1>3, <1>11, Fields DEF TellsPhase, Moved
    <2>2. QueueFits'
      BY <1>11, UnaskedReplies, RepliesFit DEF TellsPhase, BuildingPhase, projects, console
    <2>3. fIsBuilding' \in [Projects -> BOOLEAN] /\ abandoned' \subseteq Projects
      BY <1>1, <1>11, <2>1 DEF TellsPhase, BuildingPhase, TypeOK
    <2>4. QED
      BY <1>1, <1>2, <1>11, <2>1, <2>2, <2>3
         DEF Typed, TypeOK, TellsPhase, BuildingPhase, Whats, projects, menus, console
  <1>12. ASSUME Closes
         PROVE  Typed'
    <2>1. queue' \in Seq(Messages) /\ Msg.project \in open /\ IsMove(Msg)
      BY <1>1, <1>3, <1>12 DEF Closes, Moved, IsMove
    <2>2. QueueFits'
      BY <1>12, <2>1, UnaskedReplies, RepliesFit DEF Closes, Close, console
    <2>3. /\ open' \subseteq Projects /\ fActiveProject' \in open' \cup {NoProject}
          /\ buildMenu' \in BOOLEAN /\ setActiveMenu' \in BOOLEAN
      BY <1>1, <1>12, <2>1 DEF Closes, Close, SetActiveProject, TypeOK, menus
    <2>4. fIsBuilding' \in [Projects -> BOOLEAN] /\ abandoned' \subseteq Projects /\ moves' \in Nat
      BY <1>1, <1>12, <2>1 DEF Closes, Close, TypeOK
    <2>5. QED
      BY <1>1, <1>2, <1>12, <2>1, <2>2, <2>3, <2>4
         DEF Typed, TypeOK, Closes, Close, Whats, console
  <1>13. ASSUME NEW d, Rearranges(d)
         PROVE  Typed'
    <2>1. queue' \in Seq(Messages)
      BY <1>13 DEF Rearranges, Moved
    <2>2. started' = started /\ UNCHANGED <<fContextMessage, fStopButton, shell, mixed>>
      BY <1>13 DEF Rearranges, console
    <2>3. QueueFits'
      <3>1. CASE d = 0
        <4>1. Queued' = Queued /\ Asks(queue') = Asks(queue)
          BY <1>13, <3>1 DEF Rearranges, Queued
        <4>2. QED
          BY <1>13, <2>2, <3>1, <4>1 DEF Rearranges, Typed, QueueFits
      <3>2. CASE d = 1
        BY <1>13, <2>2, <3>2, UnaskedReplies, RepliesFit DEF Rearranges
      <3>3. QED
        BY <1>13, <3>1, <3>2 DEF Rearranges
    <2>4. QED
      BY <1>1, <1>2, <1>13, <2>1, <2>2, <2>3 DEF Typed, TypeOK, Rearranges, Whats
  <1>14. QED
    BY <1>4, <1>5, <1>6, <1>7, <1>8, <1>9, <1>10, <1>11, <1>12, <1>13, StepKinds

-----------------------------------------------------------------------------
(* Commands.                                                               *)

ProperMessage(m) ==
    /\ m.what = "execute" /\ m.command # NoCommand => Proper(m.command)
    /\ m.what \in {"exit", "windowExit"} => Proper(m.command)

(* No new command comes in by a reply of proper messages.                  *)
LEMMA CommandsStay ==
    ASSUME Typed, CommandsFit, NEW d \in {0, 1}, NEW ms, Len(ms) \in Nat, Moved(d, ms),
           \A k \in 1 .. Len(ms) : ProperMessage(ms[k]), started' = started,
           \A c \in Consoles :
              /\ fContextMessage'[c] \in {NoCommand, fContextMessage[c]}
              /\ \/ shell'[c].command \in {NoCommand, shell[c].command}
                 \/ shell'[c].command # NoCommand => Proper(shell'[c].command)
    PROVE  CommandsFit'
  <1>1. \A command : Proper(command) => Proper(command)'
    BY DEF Proper
  <1>2. ASSUME NEW c \in Consoles, fContextMessage'[c] # NoCommand
        PROVE  Proper(fContextMessage[c])' /\ ConsoleOf(fContextMessage'[c].kind) = c
    <2>1. PICK k : k = fContextMessage'[c]
      OBVIOUS
    <2>2. Proper(k) /\ ConsoleOf(k.kind) = c
      BY <1>2, <2>1 DEF CommandsFit
    <2>3. Proper(k)'
      BY <1>1, <2>2
    <2>4. QED
      BY <2>1, <2>2, <2>3 DEF Proper
  <1>3. ASSUME NEW c \in Consoles, shell'[c].command # NoCommand
        PROVE  Proper(shell[c].command)'
    <2>1. PICK k : k = shell'[c].command
      OBVIOUS
    <2>2. Proper(k)
      BY <1>3, <2>1 DEF CommandsFit
    <2>3. Proper(k)'
      BY <1>1, <2>2
    <2>4. QED
      BY <2>1, <2>3 DEF Proper
  <1>4. ASSUME NEW m \in Queued'
        PROVE  /\ m.what = "execute" /\ m.command # NoCommand => Proper(m.command)'
               /\ m.what \in {"exit", "windowExit"} => Proper(m.command)'
    <2>1. m \in Queued \/ \E k \in 1 .. Len(ms) : m = ms[k]
      BY QueuedThen DEF Typed
    <2>2. ProperMessage(m)
      BY <2>1 DEF CommandsFit, ProperMessage
    <2>3. QED
      BY <1>1, <2>2 DEF ProperMessage
  <1>5. QED
    BY <1>2, <1>3, <1>4 DEF CommandsFit

LEMMA CommandsStep ==
    ASSUME Typed, CommandsFit, [Next]_vars
    PROVE  CommandsFit'
  <1>1. /\ TypeOK /\ queue \in Seq(Messages) /\ started \in Nat
    BY BoundsAssumption DEF Typed, TypeOK
  <1>2. ASSUME queue # <<>>
        PROVE  Msg \in Messages /\ Msg \in Queued
    BY <1>1, <1>2, HeadIsFirst
  <1>3. ASSUME NEW d, NEW ms, Passes(d, ms)
        PROVE  CommandsFit'
    <2>1. \A k \in 1 .. Len(ms) : ProperMessage(ms[k])
      BY <1>3 DEF Passes, ProperMessage, Kinds
    <2>2. started' = started /\ fContextMessage' = fContextMessage /\ shell' = shell
      BY <1>3 DEF Passes, console
    <2>3. QED
      BY <1>3, <2>1, <2>2, CommandsStay DEF Passes
  <1>4. ASSUME NEW command, NEW ms, Begins(command, ms)
        PROVE  CommandsFit'
    <2> DEFINE b == ConsoleOf(command.kind)
    <2>1. /\ Moved(1, ms) /\ started' = started + 1 /\ shell' = shell /\ b \in Consoles
          /\ fContextMessage' = [fContextMessage EXCEPT ![b] = command]
      BY <1>4 DEF Begins, ConsoleOf, Consoles
    <2>2. \A k : Proper(k) => Proper(k)'
      BY <1>1, <2>1 DEF Proper
    <2>3. Proper(command)'
      BY <1>1, <1>4, <2>1 DEF Begins, Proper
    <2>4. ASSUME NEW c \in Consoles, fContextMessage'[c] # NoCommand
          PROVE  Proper(fContextMessage[c])' /\ ConsoleOf(fContextMessage'[c].kind) = c
      <3>1. CASE c = b
        BY <1>1, <2>1, <2>3, <3>1 DEF TypeOK, Proper
      <3>2. CASE c # b
        <4>1. PICK k : k = fContextMessage[c] /\ k = fContextMessage'[c]
          BY <1>1, <2>1, <3>2 DEF TypeOK
        <4>2. Proper(k) /\ ConsoleOf(k.kind) = c
          BY <2>4, <4>1 DEF CommandsFit
        <4>3. Proper(k)'
          BY <2>2, <4>2
        <4>4. QED
          BY <4>1, <4>2, <4>3 DEF Proper
      <3>3. QED
        BY <3>1, <3>2
    <2>5. ASSUME NEW c \in Consoles, shell'[c].command # NoCommand
          PROVE  Proper(shell[c].command)'
      BY <1>1, <2>1, <2>5 DEF CommandsFit, Proper
    <2>6. /\ Len(ms) \in Nat
          /\ \A k \in 1 .. Len(ms) :
                /\ ms[k].what = "execute" => ms[k].command = command
                /\ ms[k].what \notin {"exit", "windowExit"}
      BY <1>4 DEF Begins, RunOf, Notice
    <2>7. ASSUME NEW m \in Queued'
          PROVE  /\ m.what = "execute" /\ m.command # NoCommand => Proper(m.command)'
                 /\ m.what \in {"exit", "windowExit"} => Proper(m.command)'
      <3>1. CASE m \in Queued
        BY <2>2, <3>1 DEF CommandsFit
      <3>2. CASE \E k \in 1 .. Len(ms) : m = ms[k]
        BY <2>3, <2>6, <3>2
      <3>3. QED
        BY <1>1, <2>1, <2>6, <3>1, <3>2, QueuedThen
    <2>8. QED
      BY <2>4, <2>5, <2>7 DEF CommandsFit
  <1>5. ASSUME NEW c, Ends(c)
        PROVE  CommandsFit'
    <2>1. \A k \in 1 .. Len(<<QuitOf(c)>>) : ProperMessage(<<QuitOf(c)>>[k])
      BY DEF ProperMessage, QuitOf
    <2>2. /\ started' = started /\ fContextMessage' = fContextMessage
          /\ \A x \in Consoles : shell'[x].command = shell[x].command
      BY <1>1, <1>5 DEF Ends, CommandEnds, TypeOK
    <2>3. QED
      BY <1>5, <2>1, <2>2, CommandsStay DEF Ends
  <1>6. ASSUME NEW c, NEW ms, Executes(c, ms)
        PROVE  CommandsFit'
    <2>1. Len(ms) \in Nat /\ \A k \in 1 .. Len(ms) : ProperMessage(ms[k])
      BY <1>6 DEF Executes, ProperMessage, QuitOf
    <2>2. Msg.command # NoCommand => Proper(Msg.command)
      BY <1>2, <1>6 DEF Executes, CommandsFit
    <2>3. /\ started' = started /\ fContextMessage' = fContextMessage
          /\ \A x \in Consoles : shell'[x].command = IF x = c THEN Msg.command
                                                              ELSE shell[x].command
      BY <1>1, <1>6 DEF Executes, Execute, TypeOK
    <2>4. QED
      BY <1>6, <2>1, <2>2, <2>3, CommandsStay DEF Executes
  <1>7. ASSUME NEW c, NEW ms, Notifies(c, ms)
        PROVE  CommandsFit'
    <2>1. Len(ms) \in Nat /\ \A k \in 1 .. Len(ms) : ProperMessage(ms[k])
      <3>1. fContextMessage[c] # NoCommand => Proper(fContextMessage[c])
        BY <1>7 DEF Notifies, CommandsFit
      <3>2. QED
        BY <1>7, <3>1 DEF Notifies, ProperMessage
    <2>2. /\ started' = started /\ shell' = shell
          /\ \A x \in Consoles : fContextMessage'[x] \in {NoCommand, fContextMessage[x]}
      BY <1>1, <1>7 DEF Notifies, Notify, NotifyCommandQuit, TypeOK
    <2>3. QED
      BY <1>7, <2>1, <2>2, CommandsStay DEF Notifies
  <1>8. ASSUME NEW c, ViewExits(c)
        PROVE  CommandsFit'
    <2> DEFINE m == [what |-> "windowExit", command |-> Msg.command]
    <2>1. Proper(Msg.command)
      BY <1>2, <1>8 DEF ViewExits, CommandsFit
    <2>2. \A k \in 1 .. Len(<<m>>) : ProperMessage(<<m>>[k])
      BY <2>1 DEF ProperMessage
    <2>3. started' = started /\ shell' = shell /\ fContextMessage' = fContextMessage
      BY <1>8 DEF ViewExits, ViewExit
    <2>4. QED
      BY <1>8, <2>2, <2>3, CommandsStay DEF ViewExits
  <1>9. ASSUME NEW ms, WindowExits(ms)
        PROVE  CommandsFit'
    <2>1. Len(ms) \in Nat /\ \A k \in 1 .. Len(ms) : ProperMessage(ms[k])
      BY <1>9 DEF WindowExits, ProperMessage, Notice
    <2>2. started' = started /\ shell' = shell /\ fContextMessage' = fContextMessage
      BY <1>9 DEF WindowExits, WindowExit, console
    <2>3. QED
      BY <1>9, <2>1, <2>2, CommandsStay DEF WindowExits
  <1>10. ASSUME NEW d, \/ d = 1 /\ (TellsPhase \/ Closes)
                       \/ Rearranges(d)
         PROVE  CommandsFit'
    <2>1. /\ d \in {0, 1} /\ Moved(d, <<>>)
          /\ started' = started /\ shell' = shell /\ fContextMessage' = fContextMessage
      BY <1>10 DEF TellsPhase, BuildingPhase, Closes, Close, Rearranges, console
    <2>2. Len(<<>>) \in Nat /\ \A k \in 1 .. Len(<<>>) : ProperMessage(<<>>[k])
      OBVIOUS
    <2>3. QED
      BY <2>1, <2>2, CommandsStay
  <1>11. QED
    BY <1>3, <1>4, <1>5, <1>6, <1>7, <1>8, <1>9, <1>10, StepKinds

-----------------------------------------------------------------------------
(* Ends of commands.                                                       *)

LEMMA StaysNear ==
    ASSUME queue \in Seq(Messages), NEW d \in {0, 1}, NEW ms, Len(ms) \in Nat, Moved(d, ms),
           NEW c, EndIsNear(c),
           ~(d = 1 /\ Msg.what \in {"execute", "quit", "notify"} /\ Msg.console = c)
    PROVE  EndIsNear(c)'
  BY QueuedThen DEF EndIsNear

(* Before the run, a command of a build asks for another one perhaps, and  *)
(* tells that its project is building.                                     *)
BeforeTheRun(command, ms) ==
    \A k \in 1 .. Len(ms) : k # Len(ms) =>
        \/ ms[k].what = "build"
        \/ command.kind = "build" /\ ms[k] = Notice(fActiveProject, TRUE)

NoticeBefore(ms) == Len(ms) > 1 /\ ms[Len(ms) - 1] = Notice(fActiveProject, TRUE)

(* What a new command sends: its run is the last, and behind the notice.   *)
LEMMA BeginSends ==
    ASSUME NEW command, NEW ms, Begins(command, ms)
    PROVE  /\ BeforeTheRun(command, ms)
           /\ Len(ms) \in Nat \ {0} /\ ms[Len(ms)] = RunOf(command)
           /\ RunOf(command).what = "execute" /\ RunOf(command).command = command
           /\ RunOf(command).console = ConsoleOf(command.kind)
           /\ command.kind = "build" => NoticeBefore(ms)
  <1>1. /\ RunOf(command).what = "execute" /\ RunOf(command).command = command
        /\ RunOf(command).console = ConsoleOf(command.kind)
    BY DEF RunOf
  <1>2. CASE command.kind # "build" /\ ms = <<RunOf(command)>>
    <2>1. command.kind # "build" /\ Len(ms) = 1 /\ ms[1] = RunOf(command)
      BY <1>2
    <2>2. /\ Len(ms) \in Nat \ {0} /\ ms[Len(ms)] = RunOf(command)
          /\ \A k \in 1 .. Len(ms) : k = Len(ms)
      BY <2>1
    <2>3. QED
      BY <1>1, <2>1, <2>2, Zenon DEF BeforeTheRun
  <1>3. CASE command.kind = "build" /\ ms = <<Notice(fActiveProject, TRUE), RunOf(command)>>
    <2>1. /\ command.kind = "build" /\ Len(ms) = 2
          /\ ms[1] = Notice(fActiveProject, TRUE) /\ ms[2] = RunOf(command)
      BY <1>3
    <2>2. ms[Len(ms)] = RunOf(command)
      BY <2>1, Zenon
    <2>3. /\ Len(ms) - 1 = 1 /\ Len(ms) > 1 /\ Len(ms) \in Nat \ {0}
          /\ \A k \in 1 .. Len(ms) : k # Len(ms) => k = 1
      BY <2>1
    <2>4. ms[Len(ms) - 1] = Notice(fActiveProject, TRUE)
      BY <2>1, <2>3, Zenon
    <2>5. \A k \in 1 .. Len(ms) : k # Len(ms) => ms[k] = Notice(fActiveProject, TRUE)
      BY <2>1, <2>3, Zenon
    <2>6. QED
      BY <1>1, <2>1, <2>2, <2>3, <2>4, <2>5, Zenon DEF BeforeTheRun, NoticeBefore
  <1>4. CASE /\ command.kind = "build"
             /\ ms = <<[what |-> "build"], Notice(fActiveProject, TRUE), RunOf(command)>>
    <2>1. /\ command.kind = "build" /\ Len(ms) = 3 /\ ms[1] = [what |-> "build"]
          /\ ms[2] = Notice(fActiveProject, TRUE) /\ ms[3] = RunOf(command)
      BY <1>4
    <2>2. ms[Len(ms)] = RunOf(command)
      BY <2>1, Zenon
    <2>3. /\ Len(ms) - 1 = 2 /\ Len(ms) > 1 /\ Len(ms) \in Nat \ {0}
          /\ \A k \in 1 .. Len(ms) : k # Len(ms) => k = 1 \/ k = 2
      BY <2>1
    <2>4. ms[Len(ms) - 1] = Notice(fActiveProject, TRUE)
      BY <2>1, <2>3, Zenon
    <2>5. \A k \in 1 .. Len(ms) : k # Len(ms) =>
              ms[k].what = "build" \/ ms[k] = Notice(fActiveProject, TRUE)
      <3>1. ms[1].what = "build"
        BY <2>1
      <3>2. QED
        BY <2>1, <2>3, <3>1, Zenon
    <2>6. QED
      BY <1>1, <2>1, <2>2, <2>3, <2>4, <2>5, Zenon DEF BeforeTheRun, NoticeBefore
  <1>5. QED
    BY <1>2, <1>3, <1>4 DEF Begins

LEMMA ContextsStep ==
    ASSUME Typed, CommandsFit, ContextsEnd, [Next]_vars
    PROVE  ContextsEnd'
  <1>1. TypeOK /\ queue \in Seq(Messages) /\ Len(<<>>) = 0
    BY DEF Typed
  <1> SUFFICES ASSUME NEW c \in Consoles, fContextMessage'[c] # NoCommand
               PROVE  shell'[c].running \/ EndIsNear(c)'
    BY DEF ContextsEnd
  <1>2. fContextMessage[c] # NoCommand => shell[c].running \/ EndIsNear(c)
    BY DEF ContextsEnd
  <1>3. ASSUME NEW d, NEW ms, Passes(d, ms)
        PROVE  shell'[c].running \/ EndIsNear(c)'
    <2>1. /\ fContextMessage' = fContextMessage /\ shell' = shell
          /\ d \in {0, 1} /\ Len(ms) \in Nat /\ Moved(d, ms)
      BY <1>3 DEF Passes, console
    <2>2. CASE d = 1 /\ Msg.what = "quit" /\ Msg.console = c
      <3>1. PICK k \in 1 .. Len(ms) : ms[k].what = "notify" /\ ms[k].console = c
        BY <1>3, <2>2 DEF Passes
      <3>2. ms[k] \in Queued'
        BY <1>1, <2>1, QueuedThen
      <3>3. QED
        BY <3>1, <3>2 DEF EndIsNear
    <2>3. CASE ~(d = 1 /\ Msg.what = "quit" /\ Msg.console = c)
      <3>1. ~(d = 1 /\ Msg.what \in {"execute", "quit", "notify"} /\ Msg.console = c)
        BY <1>3, <2>3 DEF Passes, Kinds
      <3>2. QED
        BY <1>1, <1>2, <2>1, <3>1, StaysNear
    <2>4. QED
      BY <2>2, <2>3
  <1>4. ASSUME NEW command, NEW ms, Begins(command, ms)
        PROVE  shell'[c].running \/ EndIsNear(c)'
    <2>1. shell' = shell /\ Moved(1, ms) /\ Msg.what \in Kinds
      BY <1>4 DEF Begins
    <2>2. Len(ms) \in Nat \ {0} /\ ms[Len(ms)] = RunOf(command)
      BY <1>4, BeginSends, Zenon
    <2>3. CASE c = ConsoleOf(command.kind)
      <3>1. Len(ms) \in 1 .. Len(ms) /\ Len(ms) \in Nat
        BY <2>2
      <3>2. RunOf(command) \in Queued'
        <4>1. ms[Len(ms)] \in Queued'
          BY <1>1, <2>1, <3>1, QueuedThen
        <4>2. QED
          BY <2>2, <4>1, Zenon
      <3>3. RunOf(command).what = "execute" /\ RunOf(command).console = c
        BY <2>3 DEF RunOf
      <3>4. QED
        BY <3>2, <3>3 DEF EndIsNear
    <2>4. CASE c # ConsoleOf(command.kind)
      <3>1. fContextMessage'[c] = fContextMessage[c]
        BY <1>1, <1>4, <2>4 DEF Begins, TypeOK
      <3>2. QED
        BY <1>1, <1>2, <2>1, <2>2, <3>1, StaysNear DEF Kinds
    <2>5. QED
      BY <2>3, <2>4
  <1>5. ASSUME NEW x, Ends(x)
        PROVE  shell'[c].running \/ EndIsNear(c)'
    <2>1. /\ Moved(0, <<QuitOf(x)>>) /\ Len(<<QuitOf(x)>>) = 1 /\ <<QuitOf(x)>>[1] = QuitOf(x)
          /\ fContextMessage' = fContextMessage
      BY <1>5 DEF Ends, CommandEnds
    <2>2. CASE c = x
      <3>1. QuitOf(x) \in Queued'
        BY <1>1, <2>1, QueuedThen
      <3>2. QED
        BY <2>2, <3>1 DEF EndIsNear, QuitOf
    <2>3. CASE c # x
      <3>1. shell'[c] = shell[c]
        BY <1>1, <1>5, <2>3 DEF Ends, CommandEnds, TypeOK
      <3>2. QED
        BY <1>1, <1>2, <2>1, <3>1, StaysNear
    <2>4. QED
      BY <2>2, <2>3
  <1>6. ASSUME NEW x, NEW ms, Executes(x, ms)
        PROVE  shell'[c].running \/ EndIsNear(c)'
    <2>1. /\ Moved(1, ms) /\ Len(ms) \in Nat /\ fContextMessage' = fContextMessage
          /\ shell'[c] = IF c = x THEN [command |-> Msg.command, running |-> TRUE] ELSE shell[c]
      BY <1>1, <1>6 DEF Executes, Execute, TypeOK
    <2>2. QED
      BY <1>1, <1>2, <1>6, <2>1, StaysNear DEF Executes
  <1>7. ASSUME NEW x, NEW ms, Notifies(x, ms)
        PROVE  shell'[c].running \/ EndIsNear(c)'
    <2>1. /\ Moved(1, ms) /\ Len(ms) \in Nat /\ shell' = shell /\ Msg.console = x
          /\ fContextMessage'[c] = IF c = x THEN NoCommand ELSE fContextMessage[c]
      BY <1>1, <1>7 DEF Notifies, Notify, NotifyCommandQuit, TypeOK
    <2>2. QED
      BY <1>1, <1>2, <2>1, StaysNear
  <1>8. ASSUME NEW d \in {0, 1}, NEW ms, Len(ms) \in Nat, Moved(d, ms),
               d = 1 => Msg.what \in {"exit", "windowExit", "notice", "close", "activate"},
               fContextMessage' = fContextMessage, shell' = shell
        PROVE  shell'[c].running \/ EndIsNear(c)'
    BY <1>1, <1>2, <1>8, StaysNear
  <1>9. ASSUME NEW x, ViewExits(x)
        PROVE  shell'[c].running \/ EndIsNear(c)'
    BY <1>8, <1>9 DEF ViewExits, ViewExit
  <1>10. ASSUME NEW ms, WindowExits(ms)
         PROVE  shell'[c].running \/ EndIsNear(c)'
    <2>1. Len(ms) \in Nat
      BY <1>10 DEF WindowExits
    <2>2. QED
      BY <1>8, <1>10, <2>1 DEF WindowExits, WindowExit, console
  <1>11. ASSUME TellsPhase
         PROVE  shell'[c].running \/ EndIsNear(c)'
    BY <1>1, <1>8, <1>11 DEF TellsPhase, BuildingPhase, console
  <1>12. ASSUME Closes
         PROVE  shell'[c].running \/ EndIsNear(c)'
    BY <1>1, <1>8, <1>12 DEF Closes, Close, console
  <1>13. ASSUME NEW d, Rearranges(d)
         PROVE  shell'[c].running \/ EndIsNear(c)'
    BY <1>1, <1>8, <1>13 DEF Rearranges, IsMove, console
  <1>14. QED
    BY <1>3, <1>4, <1>5, <1>6, <1>7, <1>9, <1>10, <1>11, <1>12, <1>13, StepKinds

(* What it takes for the buttons and menus to come back waits on.          *)
LEMMA ButtonsWait ==
    ASSUME Typed, ButtonsReturn, NEW d \in {0, 1}, NEW ms, Len(ms) \in Nat, Moved(d, ms),
           d = 1 => ~IsExit(Msg),
           UNCHANGED <<setActiveMenu, fContextMessage, fStopButton>>,
           \/ buildMenu' = (fActiveProject' # NoProject)
           \/ UNCHANGED <<buildMenu, fActiveProject>>
    PROVE  ButtonsReturn'
  <1>1. \A m \in Queued : IsExit(m) => m \in Queued'
    BY QueuedThen DEF Typed
  <1>2. ASSUME NEW c \in Consoles, fStopButton'[c]
        PROVE  \/ fContextMessage'[c] # NoCommand
               \/ \E m \in Queued' : m.what = "exit" /\ m.console = c
    BY <1>1, <1>2 DEF ButtonsReturn, IsExit
  <1>3. \/ buildMenu' = (fActiveProject' # NoProject)
        \/ \E c \in Consoles : fContextMessage'[c] # NoCommand
        \/ \E m \in Queued' : IsExit(m)
    BY <1>1 DEF ButtonsReturn
  <1>4. \/ setActiveMenu'
        \/ fContextMessage'["fBuildLogView"] # NoCommand
        \/ \E m \in Queued' : IsExit(m) /\ IsBuild(m.command)
    BY <1>1 DEF ButtonsReturn
  <1>5. QED
    BY <1>2, <1>3, <1>4 DEF ButtonsReturn

LEMMA ButtonsStep ==
    ASSUME Typed, CommandsFit, ButtonsReturn, [Next]_vars
    PROVE  ButtonsReturn'
  <1>1. TypeOK /\ queue \in Seq(Messages) /\ Len(<<>>) = 0 /\ "fBuildLogView" \in Consoles
    BY DEF Typed, Consoles
  <1>2. ASSUME NEW d, NEW ms, Passes(d, ms)
        PROVE  ButtonsReturn'
    <2>1. d = 1 => ~IsExit(Msg)
      BY <1>2 DEF Passes, IsExit, Kinds
    <2>2. QED
      BY <1>2, <2>1, ButtonsWait DEF Passes, projects, menus, console
  <1>3. ASSUME NEW command, NEW ms, Begins(command, ms)
        PROVE  ButtonsReturn'
    <2> DEFINE b == ConsoleOf(command.kind)
    <2>1. /\ command # NoCommand /\ b \in Consoles
          /\ b = "fBuildLogView" \/ (b = "fMTermView" /\ UNCHANGED setActiveMenu)
      BY <1>1, <1>3, BoundsAssumption DEF Begins, NoCommand, ConsoleOf, Consoles
    <2>2. \A c \in Consoles : /\ fContextMessage'[c] = IF c = b THEN command ELSE fContextMessage[c]
                              /\ fStopButton'[c] = IF c = b THEN TRUE ELSE fStopButton[c]
      BY <1>1, <1>3 DEF Begins, TypeOK
    <2>3. \A m \in Queued : IsExit(m) => m \in Queued'
      <3>1. Len(ms) \in Nat /\ Moved(1, ms) /\ ~IsExit(Msg)
        BY <1>3, BeginSends DEF Begins, IsExit, Kinds
      <3>2. QED
        BY <1>1, <3>1, QueuedThen
    <2>4. ASSUME NEW c \in Consoles, fStopButton'[c]
          PROVE  \/ fContextMessage'[c] # NoCommand
                 \/ \E m \in Queued' : m.what = "exit" /\ m.console = c
      BY <2>1, <2>2, <2>3, <2>4 DEF ButtonsReturn, IsExit
    <2>5. fContextMessage'[b] # NoCommand
      BY <2>1, <2>2
    <2>6. \/ setActiveMenu'
          \/ fContextMessage'["fBuildLogView"] # NoCommand
          \/ \E m \in Queued' : IsExit(m) /\ IsBuild(m.command)
      <3>1. CASE b = "fBuildLogView"
        BY <2>5, <3>1
      <3>2. CASE b = "fMTermView" /\ UNCHANGED setActiveMenu
        <4>1. fContextMessage'["fBuildLogView"] = fContextMessage["fBuildLogView"]
          BY <1>1, <2>2, <3>2
        <4>2. QED
          BY <2>3, <3>2, <4>1 DEF ButtonsReturn
      <3>3. QED
        BY <2>1, <3>1, <3>2
    <2>7. QED
      BY <2>1, <2>4, <2>5, <2>6 DEF ButtonsReturn
  <1>4. ASSUME NEW c, Ends(c)
        PROVE  ButtonsReturn'
    <2>1. Len(<<QuitOf(c)>>) = 1
      OBVIOUS
    <2>2. QED
      BY <1>4, <2>1, ButtonsWait DEF Ends, CommandEnds, projects, menus
  <1>5. ASSUME NEW c, NEW ms, Executes(c, ms)
        PROVE  ButtonsReturn'
    <2>1. Len(ms) \in Nat /\ ~IsExit(Msg)
      BY <1>5 DEF Executes, IsExit
    <2>2. QED
      BY <1>5, <2>1, ButtonsWait DEF Executes, Execute, projects, menus
  <1>6. ASSUME NEW x, NEW ms, Notifies(x, ms)
        PROVE  ButtonsReturn'
    <2>1. CASE fContextMessage[x] = NoCommand
      <3>1. fContextMessage' = fContextMessage
        BY <1>1, <1>6, <2>1 DEF Notifies, Notify, NotifyCommandQuit, TypeOK
      <3>2. Len(ms) \in Nat /\ ~IsExit(Msg)
        BY <1>6, <2>1 DEF Notifies, IsExit
      <3>3. QED
        BY <1>6, <3>1, <3>2, ButtonsWait DEF Notifies, Notify, projects, menus
    <2>2. CASE fContextMessage[x] # NoCommand
      <3> DEFINE m == [what |-> "exit", console |-> x, command |-> fContextMessage[x]]
      <3>1. /\ Moved(1, <<m>>) /\ Len(<<m>>) = 1 /\ <<m>>[1] = m /\ ~IsExit(Msg)
            /\ x \in Consoles /\ UNCHANGED <<projects, menus, fStopButton>>
        BY <1>6, <2>2 DEF Notifies, Notify, IsExit
      <3>2. m \in Queued' /\ \A n \in Queued : IsExit(n) => n \in Queued'
        BY <1>1, <3>1, QueuedThen
      <3>3. \A c \in Consoles : c # x => fContextMessage'[c] = fContextMessage[c]
        BY <1>1, <1>6 DEF Notifies, Notify, NotifyCommandQuit, TypeOK
      <3>4. x = "fBuildLogView" => IsBuild(m.command)
        BY <2>2, <3>1 DEF CommandsFit, Proper, ConsoleOf, IsBuild
      <3>5. IsExit(m) /\ m.what = "exit" /\ m.console = x
        BY DEF IsExit
      <3> HIDE DEF m
      <3>6. ASSUME NEW c \in Consoles, fStopButton'[c]
            PROVE  \/ fContextMessage'[c] # NoCommand
                   \/ \E n \in Queued' : n.what = "exit" /\ n.console = c
        <4>1. CASE c = x
          BY <3>2, <3>5, <4>1
        <4>2. CASE c # x
          BY <3>1, <3>2, <3>3, <3>6, <4>2 DEF ButtonsReturn, IsExit
        <4>3. QED
          BY <4>1, <4>2
      <3>7. \/ setActiveMenu'
            \/ fContextMessage'["fBuildLogView"] # NoCommand
            \/ \E n \in Queued' : IsExit(n) /\ IsBuild(n.command)
        <4>1. CASE x = "fBuildLogView"
          BY <3>2, <3>4, <3>5, <4>1
        <4>2. CASE x # "fBuildLogView"
          <5>1. fContextMessage'["fBuildLogView"] = fContextMessage["fBuildLogView"]
            BY <1>1, <3>3, <4>2
          <5>2. setActiveMenu' = setActiveMenu
            BY <3>1 DEF menus
          <5>3. QED
            BY <3>2, <5>1, <5>2 DEF ButtonsReturn
        <4>3. QED
          BY <4>1, <4>2
      <3>8. QED
        BY <3>2, <3>5, <3>6, <3>7 DEF ButtonsReturn
    <2>3. QED
      BY <2>1, <2>2
  <1>7. ASSUME NEW x, ViewExits(x)
        PROVE  ButtonsReturn'
    <2> DEFINE m == [what |-> "windowExit", command |-> Msg.command]
    <2>1. /\ Moved(1, <<m>>) /\ Len(<<m>>) = 1 /\ <<m>>[1] = m /\ Msg.console = x
          /\ IsExit(m) /\ m.command = Msg.command /\ x \in Consoles
          /\ UNCHANGED <<projects, menus, fContextMessage>>
      BY <1>7 DEF ViewExits, ViewExit, IsExit
    <2> HIDE DEF m
    <2>2. m \in Queued' /\ \A n \in Queued : n \in Queued' \/ n = Msg
      <3>1. PICK ms : ms = <<m>>
        OBVIOUS
      <3>2. Moved(1, ms) /\ Len(ms) = 1 /\ ms[1] = m
        BY <2>1, <3>1
      <3>3. ms[1] \in Queued' /\ \A n \in Queued : n \in Queued' \/ n = Msg
        <4>1. 1 \in {0, 1} /\ Len(ms) \in Nat /\ 1 \in 1 .. Len(ms)
          BY <3>2
        <4>2. QED
          BY <1>1, <3>2, <4>1, QueuedThen
      <3>4. QED
        BY <3>2, <3>3, Zenon
    <2>3. \A c \in Consoles : fStopButton'[c] = IF c = x THEN FALSE ELSE fStopButton[c]
      BY <1>1, <1>7 DEF ViewExits, ViewExit, TypeOK
    <2>4. ASSUME NEW c \in Consoles, fStopButton'[c]
          PROVE  \/ fContextMessage'[c] # NoCommand
                 \/ \E n \in Queued' : n.what = "exit" /\ n.console = c
      BY <2>1, <2>2, <2>3, <2>4 DEF ButtonsReturn
    <2>5. \/ setActiveMenu'
          \/ fContextMessage'["fBuildLogView"] # NoCommand
          \/ \E n \in Queued' : IsExit(n) /\ IsBuild(n.command)
      BY <2>1, <2>2 DEF ButtonsReturn, menus
    <2>6. QED
      BY <2>1, <2>2, <2>4, <2>5 DEF ButtonsReturn
  <1>8. ASSUME NEW ms, WindowExits(ms)
        PROVE  ButtonsReturn'
    <2>1. /\ Moved(1, ms) /\ Len(ms) \in Nat /\ Msg.what = "windowExit"
          /\ setActiveMenu' \/ (UNCHANGED setActiveMenu /\ ~IsBuild(Msg.command))
          /\ UNCHANGED <<fContextMessage, fStopButton, fActiveProject>>
          /\ buildMenu' = (fActiveProject # NoProject)
      BY <1>8 DEF WindowExits, WindowExit, projects, console
    <2>2. \A n \in Queued : n \in Queued' \/ n = Msg
      BY <1>1, <2>1, QueuedThen
    <2>3. ASSUME NEW c \in Consoles, fStopButton'[c]
          PROVE  \/ fContextMessage'[c] # NoCommand
                 \/ \E n \in Queued' : n.what = "exit" /\ n.console = c
      BY <2>1, <2>2, <2>3 DEF ButtonsReturn
    <2>4. \/ setActiveMenu'
          \/ fContextMessage'["fBuildLogView"] # NoCommand
          \/ \E n \in Queued' : IsExit(n) /\ IsBuild(n.command)
      BY <2>1, <2>2 DEF ButtonsReturn
    <2>5. QED
      BY <2>1, <2>3, <2>4 DEF ButtonsReturn
  <1>9. ASSUME TellsPhase
        PROVE  ButtonsReturn'
    BY <1>1, <1>9, ButtonsWait DEF TellsPhase, BuildingPhase, IsExit, projects, menus, console
  <1>10. ASSUME Closes
         PROVE  ButtonsReturn'
    <2>1. /\ UNCHANGED <<setActiveMenu, fContextMessage, fStopButton>>
          /\ \/ buildMenu' = (fActiveProject' # NoProject)
             \/ UNCHANGED <<buildMenu, fActiveProject>>
      BY <1>10 DEF Closes, Close, SetActiveProject, menus, console
    <2>2. QED
      BY <1>1, <1>10, <2>1, ButtonsWait DEF Closes, IsExit
  <1>11. ASSUME NEW d, Rearranges(d)
         PROVE  ButtonsReturn'
    BY <1>1, <1>11, ButtonsWait DEF Rearranges, IsExit, IsMove, console
  <1>12. QED
    BY <1>2, <1>3, <1>4, <1>5, <1>6, <1>7, <1>8, <1>9, <1>10, <1>11, StepKinds

-----------------------------------------------------------------------------
(* What the browser is told.                                               *)

LEMMA AnnouncedBuilds ==
    ASSUME queue \in Seq(Messages), NEW p, Spinning(p)
    PROVE  Building(p)
  <1>1. CASE Notice(p, TRUE) \in Queued
    <2>1. PICK i \in 1 .. Len(queue) : queue[i] = Notice(p, TRUE)
      BY <1>1 DEF Queued
    <2>2. queue[i].what = "notice" /\ i \in DOMAIN queue
      BY <2>1 DEF Notice
    <2>3. QED
      BY <2>1, <2>2 DEF Building, InQueue
  <1>2. QED
    BY <1>1 DEF Spinning, Building

LEMMA SettledStill ==
    ASSUME Typed, NEW d \in {0, 1}, NEW ms, Len(ms) \in Nat, Moved(d, ms),
           NEW p, Settled(p),
           d = 1 /\ Msg = Notice(p, FALSE) => Notice(p, TRUE) \in Queued',
           \A k \in 1 .. Len(ms) : ms[k] # Notice(p, TRUE)
    PROVE  Settled(p)'
  <1>1. /\ queue \in Seq(Messages) /\ Len(queue) \in Nat /\ Len(queue') \in Nat
        /\ \A i \in 1 .. Len(queue) : i > d => i - d \in 1 .. Len(queue') /\ queue'[i - d] = queue[i]
    BY DEF Typed, Moved
  <1>2. PICK i \in 1 .. Len(queue) :
            /\ queue[i] = Notice(p, FALSE)
            /\ \A j \in 1 .. Len(queue) : j > i => queue[j] # Notice(p, TRUE)
    BY DEF Settled
  <1>3. ASSUME NEW j \in 1 .. Len(queue'), j + d > i
        PROVE  queue'[j] # Notice(p, TRUE)
    <2>1. \/ j + d \in 1 .. Len(queue) /\ queue'[j] = queue[j + d]
          \/ j + d - Len(queue) \in 1 .. Len(ms) /\ queue'[j] = ms[j + d - Len(queue)]
      BY DEF Moved
    <2>2. CASE j + d \in 1 .. Len(queue) /\ queue'[j] = queue[j + d]
      BY <1>2, <1>3, <2>2
    <2>3. CASE j + d - Len(queue) \in 1 .. Len(ms) /\ queue'[j] = ms[j + d - Len(queue)]
      BY <2>3
    <2>4. QED
      BY <2>1, <2>2, <2>3
  <1>4. i > d
    <2>1. SUFFICES ASSUME ~(i > d)
                   PROVE  FALSE
      OBVIOUS
    <2>2. d = 1 /\ i = 1 /\ queue # <<>>
      BY <1>1, <2>1
    <2>3. Msg = Notice(p, FALSE)
      BY <1>1, <1>2, <2>2, HeadIsFirst
    <2>4. PICK j \in 1 .. Len(queue') : queue'[j] = Notice(p, TRUE)
      BY <2>2, <2>3 DEF Queued
    <2>5. j + d > i
      BY <1>1, <2>2
    <2>6. QED
      BY <1>3, <2>4, <2>5
  <1>5. i - d \in 1 .. Len(queue') /\ queue'[i - d] = Notice(p, FALSE)
    BY <1>1, <1>2, <1>4
  <1>6. ASSUME NEW j \in 1 .. Len(queue'), j > i - d
        PROVE  queue'[j] # Notice(p, TRUE)
    <2>1. j + d > i
      BY <1>1, <1>6
    <2>2. QED
      BY <1>3, <2>1
  <1>7. QED
    BY <1>5, <1>6 DEF Settled

(* p goes on to be told, or not to be building.                            *)
LEMMA FollowsStill ==
    ASSUME Typed, NEW d \in {0, 1}, NEW ms, Len(ms) \in Nat, Moved(d, ms),
           NEW p \in Projects, Follows(p),
           fIsBuilding'[p] => p \in open' /\ Spinning(p),
           Spinning(p)' /\ p \in abandoned => p \in abandoned',
           fContextMessage["fBuildLogView"].project = p /\ Spinning(p)' =>
                p \in abandoned' \/ Told(p)',
           d = 1 /\ IsExit(Msg) /\ IsBuild(Msg.command) /\ Msg.command.project = p => Told(p)',
           d = 1 /\ Msg = Notice(p, FALSE) => ~fIsBuilding'[p],
           \A k \in 1 .. Len(ms) : ms[k] # Notice(p, TRUE)
    PROVE  Follows(p)'
  <1>1. SUFFICES ASSUME Spinning(p)', p \notin abandoned'
                 PROVE  Told(p)'
    BY DEF Follows
  <1>2. queue \in Seq(Messages)
    BY DEF Typed
  <1>3. Notice(p, TRUE) \in Queued' => Notice(p, TRUE) \in Queued
    BY <1>2, QueuedThen
  <1>4. Told(p)
    BY <1>1, <1>3 DEF Follows, Spinning
  <1>5. CASE Settled(p)
    <2>1. d = 1 /\ Msg = Notice(p, FALSE) => Notice(p, TRUE) \in Queued'
      BY <1>1 DEF Spinning
    <2>2. Settled(p)'
      BY <1>5, <2>1, SettledStill
    <2>3. QED
      BY <2>2 DEF Told
  <1>6. CASE \E m \in Queued : IsExit(m) /\ IsBuild(m.command) /\ m.command.project = p
    <2>1. PICK m \in Queued : IsExit(m) /\ IsBuild(m.command) /\ m.command.project = p
      BY <1>6
    <2>2. m \in Queued' \/ (d = 1 /\ m = Msg)
      BY <1>2, QueuedThen
    <2>3. QED
      BY <2>1, <2>2 DEF Told
  <1>7. QED
    BY <1>1, <1>4, <1>5, <1>6 DEF Told

LEMMA BuildsStep ==
    ASSUME Typed, CommandsFit, BuildsFollow, [Next]_vars
    PROVE  BuildsFollow'
  <1>1. /\ TypeOK /\ queue \in Seq(Messages) /\ Len(<<>>) = 0 /\ "fBuildLogView" \in Consoles
        /\ NoProject \notin Projects
    BY BuildAssumption DEF Typed, Consoles
  <1> SUFFICES ASSUME NEW p \in Projects
               PROVE  Follows(p)'
    BY DEF BuildsFollow
  <1>2. Follows(p)
    BY DEF BuildsFollow
  <1>3. \A c \in Consoles : fContextMessage[c].project = p =>
            /\ fContextMessage[c] # NoCommand /\ fContextMessage[c].kind \in Kinds
            /\ ConsoleOf(fContextMessage[c].kind) = c
    BY <1>1 DEF CommandsFit, Proper, NoCommand
  (* Nothing is told.                                                      *)
  <1>4. ASSUME NEW d \in {0, 1}, NEW ms, Len(ms) \in Nat, Moved(d, ms),
               d = 1 => ~IsExit(Msg) /\ Msg.what # "notice",
               \A k \in 1 .. Len(ms) : ms[k].what # "notice",
               fIsBuilding' = fIsBuilding, p \in open => p \in open', abandoned' = abandoned,
               fContextMessage' = fContextMessage
        PROVE  Follows(p)'
    <2>1. Notice(p, TRUE).what = "notice" /\ Notice(p, FALSE).what = "notice"
      BY DEF Notice
    <2>2. /\ d = 1 => Msg # Notice(p, FALSE)
          /\ \A k \in 1 .. Len(ms) : ms[k] # Notice(p, TRUE)
      BY <1>4, <2>1
    <2>3. fIsBuilding'[p] => p \in open' /\ Spinning(p)
      BY <1>2, <1>4 DEF Follows, Spinning
    <2>4. fContextMessage["fBuildLogView"].project = p => Told(p)'
      BY <1>4 DEF Told
    <2>5. QED
      BY <1>2, <1>4, <2>2, <2>3, <2>4, FollowsStill
  <1>5. ASSUME NEW d, NEW ms, Passes(d, ms)
        PROVE  Follows(p)'
    BY <1>4, <1>5 DEF Passes, IsExit, Kinds, projects, console
  <1>6. ASSUME NEW c, Ends(c)
        PROVE  Follows(p)'
    <2>1. PICK ms : ms = <<QuitOf(c)>>
      OBVIOUS
    <2>2. Len(ms) = 1 /\ ms[1] = QuitOf(c) /\ QuitOf(c).what = "quit" /\ Moved(0, ms)
      BY <1>6, <2>1 DEF Ends, QuitOf
    <2>3. \A k \in 1 .. Len(ms) : ms[k].what # "notice"
      BY <2>2
    <2>4. QED
      BY <1>4, <1>6, <2>2, <2>3 DEF Ends, CommandEnds, projects
  <1>7. ASSUME NEW c, NEW ms, Executes(c, ms)
        PROVE  Follows(p)'
    <2>1. Len(ms) \in Nat /\ \A k \in 1 .. Len(ms) : ms[k].what # "notice"
      <3>1. ms = <<>> \/ (Len(ms) = 1 /\ ms[1] = QuitOf(c))
        BY <1>7 DEF Executes
      <3>2. QuitOf(c).what = "quit"
        BY DEF QuitOf
      <3>3. CASE ms = <<>>
        BY <3>3
      <3>4. CASE Len(ms) = 1 /\ ms[1] = QuitOf(c)
        BY <3>2, <3>4
      <3>5. QED
        BY <3>1, <3>3, <3>4
    <2>2. QED
      BY <1>4, <1>7, <2>1 DEF Executes, Execute, IsExit, projects
  <1>8. ASSUME NEW d, Rearranges(d)
        PROVE  Follows(p)'
    BY <1>1, <1>4, <1>8 DEF Rearranges, IsExit, IsMove, console
  <1>9. ASSUME NEW command, NEW ms, Begins(command, ms)
        PROVE  Follows(p)'
    <2> DEFINE b == ConsoleOf(command.kind)
    <2>1. /\ Moved(1, ms) /\ Len(ms) \in Nat /\ Msg.what \in Kinds /\ b \in Consoles
          /\ fIsBuilding' = fIsBuilding /\ open' = open /\ abandoned \subseteq abandoned'
          /\ command.project = fActiveProject
          /\ \A c \in Consoles : fContextMessage'[c] = IF c = b THEN command ELSE fContextMessage[c]
      BY <1>1, <1>9, BeginSends DEF Begins, TypeOK, projects, ConsoleOf, Consoles
    <2>2. ~IsExit(Msg) /\ Msg # Notice(p, FALSE)
      BY <2>1 DEF IsExit, Notice, Kinds
    <2>3. \A k \in 1 .. Len(ms) : ms[k] # Notice(p, TRUE) \/ (command.kind = "build" /\ p = fActiveProject)
      <3>1. ASSUME NEW k \in 1 .. Len(ms)
            PROVE  \/ ms[k] = RunOf(command) \/ ms[k].what = "build"
                   \/ command.kind = "build" /\ ms[k] = Notice(fActiveProject, TRUE)
        <4>1. ms[Len(ms)] = RunOf(command)
          BY <1>9, BeginSends, Zenon
        <4>2. k # Len(ms) => \/ ms[k].what = "build"
                             \/ command.kind = "build" /\ ms[k] = Notice(fActiveProject, TRUE)
          <5>1. BeforeTheRun(command, ms)
            BY <1>9, BeginSends, Zenon
          <5>2. QED
            BY <5>1, Zenon DEF BeforeTheRun
        <4>3. QED
          BY <4>1, <4>2, Zenon
      <3>2. /\ RunOf(command) # Notice(p, TRUE) /\ Notice(p, TRUE).what # "build"
            /\ Notice(fActiveProject, TRUE) = Notice(p, TRUE) => p = fActiveProject
        BY DEF RunOf, Notice
      <3>3. QED
        BY <3>1, <3>2
    <2>4. fIsBuilding'[p] => p \in open' /\ Spinning(p)
      BY <1>2, <2>1 DEF Follows, Spinning
    <2>5. CASE b = "fBuildLogView" /\ p = fActiveProject
      BY <1>1, <2>1, <2>4, <2>5 DEF Follows, Told
    <2>6. CASE b # "fBuildLogView"
      <3>1. fContextMessage'["fBuildLogView"] = fContextMessage["fBuildLogView"]
        BY <1>1, <2>1, <2>6
      <3>2. command.kind # "build"
        BY <2>6 DEF ConsoleOf
      <3>3. fContextMessage["fBuildLogView"].project = p => Told(p)'
        BY <3>1 DEF Told
      <3>4. QED
        BY <1>2, <2>1, <2>2, <2>3, <2>4, <3>2, <3>3, FollowsStill
    <2>7. CASE b = "fBuildLogView" /\ p # fActiveProject
      <3>1. Spinning(p)' => Building(p)
        <4>1. Spinning(p)' => Spinning(p)
          <5>1. \A m \in Queued' : m \in Queued \/ \E k \in 1 .. Len(ms) : m = ms[k]
            BY <1>1, <2>1, QueuedThen
          <5>2. QED
            BY <2>1, <2>3, <2>7, <5>1 DEF Spinning
        <4>2. QED
          BY <1>1, <4>1, AnnouncedBuilds DEF Spinning
      <3>2. fContextMessage["fBuildLogView"].project = p /\ Building(p) => p \in abandoned'
        <4>1. SUFFICES ASSUME fContextMessage[b].project = p, Building(p)
                       PROVE  p \in abandoned'
          BY <2>7
        <4>2. fContextMessage[b].kind \in {"build", "catkeys"}
          BY <1>1, <1>3, <2>7, <4>1 DEF ConsoleOf
        <4>3. QED
          BY <1>9, <2>7, <4>1, <4>2 DEF Begins
      <3>3. QED
        BY <1>2, <2>1, <2>2, <2>3, <2>4, <2>7, <3>1, <3>2, FollowsStill
    <2>8. QED
      BY <2>5, <2>6, <2>7
  <1>10. ASSUME NEW x, NEW ms, Notifies(x, ms)
         PROVE  Follows(p)'
    <2> DEFINE m == [what |-> "exit", console |-> x, command |-> fContextMessage[x]]
    <2>1. /\ Moved(1, ms) /\ Msg.what = "notify" /\ x \in Consoles
          /\ fIsBuilding' = fIsBuilding /\ open' = open /\ abandoned' = abandoned
          /\ \A c \in Consoles : c # x => fContextMessage'[c] = fContextMessage[c]
          /\ IF fContextMessage[x] = NoCommand THEN ms = <<>> ELSE ms = <<m>>
      BY <1>1, <1>10 DEF Notifies, Notify, NotifyCommandQuit, TypeOK, projects
    <2>2. ~IsExit(Msg) /\ Msg # Notice(p, FALSE)
      BY <2>1 DEF IsExit, Notice
    <2>3. /\ ms = <<>> \/ (Len(ms) = 1 /\ ms[1] = m)
          /\ fContextMessage[x] # NoCommand => Len(ms) = 1 /\ ms[1] = m
      BY <2>1
    <2>4. /\ m # Notice(p, TRUE) /\ IsExit(m) /\ m.command = fContextMessage[x]
      BY DEF IsExit, Notice
    <2> HIDE DEF m
    <2>5. Len(ms) \in Nat /\ \A k \in 1 .. Len(ms) : ms[k] # Notice(p, TRUE)
      <3>1. CASE ms = <<>>
        BY <3>1
      <3>2. CASE Len(ms) = 1 /\ ms[1] = m
        BY <2>4, <3>2, OneMessage
      <3>3. QED
        BY <2>3, <3>1, <3>2
    <2>6. fContextMessage["fBuildLogView"].project = p => Told(p)'
      <3>1. SUFFICES ASSUME fContextMessage["fBuildLogView"].project = p
                     PROVE  Told(p)'
        OBVIOUS
      <3>2. CASE x = "fBuildLogView"
        <4>1. Len(ms) = 1 /\ ms[1] = m /\ 1 \in 1 .. Len(ms)
          BY <1>1, <1>3, <2>3, <3>1, <3>2
        <4>2. m \in Queued'
          <5>1. ms[1] \in Queued'
            BY <1>1, <2>1, <2>5, <4>1, QueuedThen
          <5>2. QED
            BY <4>1, <5>1, Zenon
        <4>3. IsBuild(m.command) /\ m.command.project = p
          BY <1>1, <1>3, <2>4, <3>1, <3>2 DEF IsBuild, ConsoleOf
        <4>4. QED
          BY <2>4, <4>2, <4>3 DEF Told
      <3>3. CASE x # "fBuildLogView"
        BY <1>1, <2>1, <3>1, <3>3 DEF Told
      <3>4. QED
        BY <3>2, <3>3
    <2>7. fIsBuilding'[p] => p \in open' /\ Spinning(p)
      BY <1>2, <2>1 DEF Follows, Spinning
    <2>8. QED
      BY <1>2, <2>1, <2>2, <2>5, <2>6, <2>7, FollowsStill
  <1>11. ASSUME NEW x, ViewExits(x)
         PROVE  Follows(p)'
    <2> DEFINE m == [what |-> "windowExit", command |-> Msg.command]
    <2>1. PICK ms : ms = <<m>>
      OBVIOUS
    <2>2. /\ Moved(1, ms) /\ Len(ms) = 1 /\ ms[1] = m /\ Msg.what = "exit"
          /\ fIsBuilding' = fIsBuilding /\ open' = open /\ abandoned' = abandoned
          /\ fContextMessage' = fContextMessage
      BY <1>11, <2>1 DEF ViewExits, ViewExit, projects
    <2>3. m # Notice(p, TRUE) /\ IsExit(m) /\ m.command = Msg.command /\ Msg # Notice(p, FALSE)
      BY <2>2 DEF IsExit, Notice
    <2> HIDE DEF m
    <2>4. m \in Queued'
      <3>1. Len(ms) \in Nat /\ 1 \in 1 .. Len(ms)
        BY <2>2
      <3>2. ms[1] \in Queued'
        BY <1>1, <2>2, <3>1, QueuedThen
      <3>3. QED
        BY <2>2, <3>2, Zenon
    <2>5. IsBuild(Msg.command) /\ Msg.command.project = p => Told(p)'
      BY <2>3, <2>4 DEF Told
    <2>6. fContextMessage["fBuildLogView"].project = p => Told(p)'
      BY <2>2 DEF Told
    <2>7. fIsBuilding'[p] => p \in open' /\ Spinning(p)
      BY <1>2, <2>2 DEF Follows, Spinning
    <2>8. Len(ms) \in Nat /\ \A k \in 1 .. Len(ms) : ms[k] # Notice(p, TRUE)
      BY <2>2, <2>3, OneMessage
    <2>9. QED
      BY <1>2, <2>2, <2>3, <2>5, <2>6, <2>7, <2>8, FollowsStill
  <1>12. ASSUME NEW ms, WindowExits(ms)
         PROVE  Follows(p)'
    <2>0. PICK q : q = Msg.command.project
      OBVIOUS
    <2>1. /\ Moved(1, ms) /\ Msg.what = "windowExit"
          /\ fIsBuilding' = fIsBuilding /\ open' = open /\ abandoned' = abandoned
          /\ fContextMessage' = fContextMessage
      BY <1>12 DEF WindowExits, WindowExit, projects, console
    <2>2. \/ ~IsBuild(Msg.command) /\ ms = <<>>
          \/ IsBuild(Msg.command) /\ Len(ms) = 1 /\ ms[1] = Notice(q, FALSE)
      <3>1. \/ ~IsBuild(Msg.command) /\ ms = <<>>
            \/ IsBuild(Msg.command) /\ ms = <<Notice(q, FALSE)>>
        BY <1>12, <2>0 DEF WindowExits
      <3>2. ms = <<Notice(q, FALSE)>> => Len(ms) = 1 /\ ms[1] = Notice(q, FALSE)
        OBVIOUS
      <3>3. QED
        BY <3>1, <3>2
    <2>3. Len(ms) \in Nat /\ \A k \in 1 .. Len(ms) : ms[k] = Notice(q, FALSE)
      <3>1. CASE ms = <<>>
        BY <3>1
      <3>2. CASE Len(ms) = 1 /\ ms[1] = Notice(q, FALSE)
        BY <3>2, OneMessage
      <3>3. QED
        BY <2>2, <3>1, <3>2
    <2>4. Notice(q, FALSE) # Notice(p, TRUE) /\ Msg # Notice(p, FALSE)
      BY <2>1 DEF Notice
    <2>5. IsBuild(Msg.command) /\ q = p => Told(p)'
      <3>1. SUFFICES ASSUME IsBuild(Msg.command), q = p
                     PROVE  Settled(p)'
        BY DEF Told
      <3>2. Len(ms) = 1 /\ ms[1] = Notice(p, FALSE) /\ 1 \in 1 .. Len(ms) /\ Len(queue) \in Nat
        <4>1. Len(ms) = 1 /\ ms[1] = Notice(q, FALSE)
          BY <2>2, <3>1
        <4>2. ms[1] = Notice(p, FALSE)
          BY <3>1, <4>1, Zenon
        <4>3. 1 \in 1 .. Len(ms) /\ Len(queue) \in Nat
          BY <1>1, <4>1
        <4>4. QED
          BY <4>1, <4>2, <4>3, Zenon
      <3>3. /\ Len(queue) - 1 + 1 \in 1 .. Len(queue')
            /\ queue'[Len(queue) - 1 + 1] = Notice(p, FALSE)
        BY <2>1, <3>2 DEF Moved
      <3>4. \A j \in 1 .. Len(queue') : ~(j > Len(queue))
        BY <2>1, <3>2 DEF Moved
      <3>5. Len(queue) - 1 + 1 = Len(queue)
        BY <3>2
      <3>6. Len(queue) \in 1 .. Len(queue') /\ queue'[Len(queue)] = Notice(p, FALSE)
        BY <3>3, <3>5, Zenon
      <3>7. QED
        BY <3>4, <3>6, Zenon DEF Settled
    <2>6. fContextMessage["fBuildLogView"].project = p => Told(p)'
      BY <2>1 DEF Told
    <2>7. fIsBuilding'[p] => p \in open' /\ Spinning(p)
      BY <1>2, <2>1 DEF Follows, Spinning
    <2>8. Len(ms) \in Nat /\ \A k \in 1 .. Len(ms) : ms[k] # Notice(p, TRUE)
      BY <2>3, <2>4
    <2>9. QED
      BY <1>2, <2>0, <2>1, <2>4, <2>5, <2>6, <2>7, <2>8, FollowsStill
  <1>13. ASSUME TellsPhase
         PROVE  Follows(p)'
    <2>1. /\ Moved(1, <<>>) /\ Msg.what = "notice" /\ Msg \in Queued /\ ~IsExit(Msg)
          /\ Msg = Notice(Msg.project, Msg.building) /\ Msg.building \in BOOLEAN
          /\ Msg.project \in Projects
          /\ open' = open /\ fContextMessage' = fContextMessage
      BY <1>1, <1>13, HeadIsFirst, Fields
         DEF TellsPhase, BuildingPhase, IsExit, projects, console
    <2>2. \/ /\ Msg.project \in open
             /\ \A x \in Projects :
                   fIsBuilding'[x] = IF x = Msg.project THEN Msg.building ELSE fIsBuilding[x]
             /\ abandoned' = abandoned \ {x \in {Msg.project} : ~Msg.building /\ ~AwaitsBuild(x)}
          \/ Msg.project \notin open /\ UNCHANGED <<fIsBuilding, abandoned>>
      BY <1>1, <1>13 DEF TellsPhase, BuildingPhase, TypeOK
    <2>3. fContextMessage["fBuildLogView"].project = p => Told(p)'
      BY <2>1 DEF Told
    <2>4. fIsBuilding'[p] => p \in open' /\ Spinning(p)
      <3>1. Msg.building /\ p = Msg.project => Notice(p, TRUE) \in Queued
        BY <2>1
      <3>2. QED
        BY <1>2, <2>1, <2>2, <3>1 DEF Follows, Spinning
    <2>5. Msg = Notice(p, FALSE) => ~fIsBuilding'[p] /\ p = Msg.project
      <3>1. SUFFICES ASSUME Msg = Notice(p, FALSE)
                     PROVE  ~fIsBuilding'[p] /\ p = Msg.project
        OBVIOUS
      <3>2. p = Msg.project /\ Msg.building = FALSE
        BY <3>1 DEF Notice
      <3>3. QED
        BY <1>2, <2>2, <3>2 DEF Follows
    <2>6. Spinning(p)' /\ p \in abandoned => p \in abandoned'
      <3>1. SUFFICES ASSUME p = Msg.project, Msg.project \in open, ~Msg.building, Spinning(p)'
                     PROVE  AwaitsBuild(p)
        BY <2>2
      <3>2. Notice(p, TRUE) \in Queued'
        BY <2>2, <3>1 DEF Spinning
      <3>3. PICK j \in 1 .. Len(queue') : queue'[j] = Notice(p, TRUE)
        BY <3>2 DEF Queued
      <3>4. j + 1 \in 1 .. Len(queue) /\ queue[j + 1] = Notice(p, TRUE)
        BY <1>1, <2>1, <3>3, NothingComes
      <3>5. j + 1 \in InQueue("notice") /\ j + 1 > 1
        BY <1>1, <3>3, <3>4 DEF InQueue, Notice
      <3>6. QED
        BY <3>4, <3>5 DEF AwaitsBuild
    <2>7. \A k \in 1 .. Len(<<>>) : <<>>[k] # Notice(p, TRUE)
      OBVIOUS
    <2>8. QED
      BY <1>1, <1>2, <2>1, <2>3, <2>4, <2>5, <2>6, <2>7, FollowsStill
  <1>14. ASSUME Closes
         PROVE  Follows(p)'
    <2>1. /\ Moved(1, <<>>) /\ Msg.what = "close" /\ open' = open \ {Msg.project}
          /\ fContextMessage' = fContextMessage /\ Msg \in Messages
          /\ abandoned' = abandoned \cup {x \in {Msg.project} : Building(x)}
          /\ Msg # Notice(p, FALSE) /\ ~IsExit(Msg)
      BY <1>1, <1>14, HeadIsFirst DEF Closes, Close, console, Notice, IsExit
    <2>2. fIsBuilding'[p] = IF p = Msg.project THEN FALSE ELSE fIsBuilding[p]
      BY <1>1, <1>14 DEF Closes, Close, TypeOK
    <2>3. CASE p = Msg.project
      <3>1. ~fIsBuilding'[p]
        BY <2>2, <2>3
      <3>2. Notice(p, TRUE) \in Queued' => Building(p)
        <4>1. Notice(p, TRUE) \in Queued' => Notice(p, TRUE) \in Queued
          BY <1>1, <2>1, NothingComes
        <4>2. QED
          BY <1>1, <4>1, AnnouncedBuilds DEF Spinning
      <3>3. QED
        BY <2>1, <2>3, <3>1, <3>2 DEF Follows, Spinning
    <2>4. CASE p # Msg.project
      <3>1. fContextMessage["fBuildLogView"].project = p => Told(p)'
        BY <2>1 DEF Told
      <3>2. fIsBuilding'[p] => p \in open' /\ Spinning(p)
        BY <1>2, <2>1, <2>2, <2>4 DEF Follows, Spinning
      <3>3. \A k \in 1 .. Len(<<>>) : <<>>[k] # Notice(p, TRUE)
        OBVIOUS
      <3>4. QED
        BY <1>1, <1>2, <2>1, <2>2, <3>1, <3>2, <3>3, FollowsStill
    <2>5. QED
      BY <2>3, <2>4
  <1>15. QED
    BY <1>5, <1>6, <1>7, <1>8, <1>9, <1>10, <1>11, <1>12, <1>13, <1>14, StepKinds

-----------------------------------------------------------------------------
(* A command started alone.                                                *)

(* A project goes on to be building, or is abandoned.                      *)
SpinsOn(d) ==
    \A p :
        /\ p \in abandoned => p \in abandoned'
        /\ Spinning(p) /\ p \in open =>
               p \in abandoned' \/ (p \in open' /\ (fIsBuilding[p] => fIsBuilding'[p]))
        /\ d = 1 /\ Msg = Notice(p, TRUE) /\ p \in open => fIsBuilding'[p]

LEMMA SpinsStill ==
    ASSUME queue \in Seq(Messages), NEW d \in {0, 1}, NEW ms, Moved(d, ms), SpinsOn(d),
           NEW command, NEW n \in Nat, Spins(command, n), NEW k \in Nat, k + d >= n
    PROVE  Spins(command, k)'
  <1> DEFINE p == command.project
  <1>1. SUFFICES ASSUME command.kind = "build", p \notin abandoned'
                 PROVE  /\ p \in open'
                        /\ \/ fIsBuilding'[p]
                           \/ \E j \in 1 .. Len(queue') : j < k /\ queue'[j] = Notice(p, TRUE)
    BY DEF Spins
  <1>2. p \in open /\ p \notin abandoned
    BY <1>1 DEF Spins, SpinsOn
  <1>3. CASE fIsBuilding[p]
    <2>1. Spinning(p)
      BY <1>3 DEF Spinning
    <2>2. QED
      BY <1>1, <1>2, <1>3, <2>1 DEF SpinsOn
  <1>4. CASE \E j \in 1 .. Len(queue) : j < n /\ queue[j] = Notice(p, TRUE)
    <2>1. PICK j \in 1 .. Len(queue) : j < n /\ queue[j] = Notice(p, TRUE)
      BY <1>4
    <2>2. Spinning(p)
      BY <2>1 DEF Spinning, Queued
    <2>3. p \in open'
      BY <1>1, <1>2, <2>2 DEF SpinsOn
    <2>4. Len(queue) \in Nat /\ j \in Nat
      BY <2>1
    <2>5. CASE j > d
      <3>1. j - d \in 1 .. Len(queue') /\ queue'[j - d] = queue[j]
        BY <2>1, <2>5 DEF Moved
      <3>2. j - d < k
        BY <2>1, <2>4
      <3>3. QED
        BY <2>1, <2>3, <3>1, <3>2
    <2>6. CASE ~(j > d)
      <3>1. d = 1 /\ j = 1
        BY <2>1, <2>4, <2>6
      <3>2. Msg = queue[1]
        BY <2>1, <2>4, <3>1, HeadIsFirst
      <3>3. Msg = Notice(p, TRUE)
        BY <2>1, <3>1, <3>2
      <3>4. QED
        BY <1>2, <2>3, <3>1, <3>3 DEF SpinsOn
    <2>7. QED
      BY <2>5, <2>6
  <1>5. QED
    BY <1>1, <1>2, <1>3, <1>4 DEF Spins

(* Nobody else comes in between.                                           *)
LEMMA AloneStill ==
    ASSUME Typed, Alone, NEW d \in {0, 1}, NEW ms, Len(ms) \in Nat, Moved(d, ms),
           started' = started, mixed' = mixed, (\E command : Sole(command)) => SpinsOn(d),
           \A k \in 1 .. Len(ms) : ms[k].what = "execute" => ms[k].command = NoCommand,
           \A c \in Consoles : shell'[c].running /\ Current(shell'[c].command) => shell'[c] = shell[c],
           \A m \in Queued, n \in 1 .. Len(queue) :
              n > d /\ m = queue[n] /\ WillRun(n, m) => Sole(m.command)' /\ ~shell'[m.console].running,
           \A c \in Consoles, command \in Commands :
              shell'[c] = [command |-> command, running |-> TRUE] /\ Current(command)
              /\ Runs(c, command) => Sole(command)'
    PROVE  Alone'
  <1>1. /\ queue \in Seq(Messages) /\ Len(queue) \in Nat
        /\ \A command : Current(command)' <=> Current(command)
    BY DEF Typed, Current
  <1>2. SUFFICES ASSUME ~mixed
                 PROVE  /\ \A m \in Queued', n \in 1 .. Len(queue') :
                              m = queue'[n] /\ m.what = "execute" /\ Current(m.command) =>
                                  WillRun(n, m)'
                        /\ \A c \in Consoles, command \in Commands :
                              shell'[c] = [command |-> command, running |-> TRUE]
                              /\ Current(command) => Runs(c, command)'
    BY <1>1 DEF Alone
  (* What comes runs no command.                                           *)
  <1>3. ASSUME NEW j \in 1 .. Len(queue'), queue'[j].what = "execute", Current(queue'[j].command)
        PROVE  j + d \in 1 .. Len(queue) /\ queue'[j] = queue[j + d]
    <2>1. SUFFICES ASSUME j + d - Len(queue) \in 1 .. Len(ms), queue'[j] = ms[j + d - Len(queue)]
                   PROVE  FALSE
      BY DEF Moved
    <2>2. queue'[j].command = NoCommand
      BY <1>3, <2>1
    <2>3. QED
      BY <1>3, <2>2 DEF Current
  <1>4. ASSUME NEW m \in Queued', NEW n \in 1 .. Len(queue'),
               m = queue'[n], m.what = "execute", Current(m.command)
        PROVE  WillRun(n, m)'
    <2>1. n + d \in 1 .. Len(queue) /\ queue[n + d] = m /\ n + d > d /\ n \in Nat /\ m \in Queued
      <3>1. n + d \in 1 .. Len(queue) /\ queue[n + d] = m
        BY <1>3, <1>4
      <3>2. QED
        BY <1>1, <3>1 DEF Queued
    <2>2. WillRun(n + d, m)
      BY <1>2, <1>4, <2>1 DEF Alone
    <2>3. Sole(m.command)' /\ ~shell'[m.console].running
      BY <2>1, <2>2
    <2>4. Spins(m.command, n)'
      BY <1>1, <2>1, <2>2, SpinsStill DEF WillRun
    <2>5. ASSUME NEW e \in Consoles, shell'[e].running
          PROVE  ~Current(shell'[e].command)
      BY <2>2, <2>5 DEF WillRun
    <2>6. ASSUME NEW j \in 1 .. Len(queue'), queue'[j].what = "execute",
                 queue'[j].console = m.console \/ Current(queue'[j].command)
          PROVE  j >= n
      <3>1. CASE j + d \in 1 .. Len(queue) /\ queue'[j] = queue[j + d]
        <4>1. j + d >= n + d
          BY <2>2, <2>6, <3>1 DEF WillRun, First
        <4>2. QED
          BY <1>1, <2>1, <4>1
      <3>2. CASE j + d - Len(queue) \in 1 .. Len(ms)
        BY <1>1, <2>1, <3>2
      <3>3. QED
        BY <3>1, <3>2 DEF Moved
    <2>7. First(n, m.console)'
      BY <1>1, <2>6 DEF First
    <2>8. QED
      BY <1>1, <2>2, <2>3, <2>4, <2>5, <2>7 DEF WillRun
  <1>5. ASSUME NEW c \in Consoles, NEW command \in Commands,
               shell'[c] = [command |-> command, running |-> TRUE], Current(command)
        PROVE  Runs(c, command)'
    <2>1. shell[c] = [command |-> command, running |-> TRUE]
      BY <1>5
    <2>2. Runs(c, command)
      BY <1>2, <1>5, <2>1 DEF Alone
    <2>3. Sole(command)'
      BY <1>5, <2>2
    <2>4. Spins(command, 1)'
      BY <1>1, <2>2, SpinsStill DEF Runs
    <2>5. ASSUME NEW m \in Queued', m.what = "execute", Current(m.command)
          PROVE  FALSE
      <3>1. PICK j \in 1 .. Len(queue') : m = queue'[j]
        BY DEF Queued
      <3>2. j + d \in 1 .. Len(queue) /\ m = queue[j + d]
        BY <1>3, <2>5, <3>1
      <3>3. m \in Queued
        BY <3>2 DEF Queued
      <3>4. QED
        BY <2>2, <2>5, <3>3 DEF Runs
    <2>6. QED
      BY <1>1, <2>2, <2>3, <2>4, <2>5 DEF Runs
  <1>6. QED
    BY <1>4, <1>5

LEMMA AloneWaits ==
    ASSUME Typed, Alone, NEW d \in {0, 1}, NEW ms, Len(ms) \in Nat, Moved(d, ms),
           UNCHANGED <<shell, started, mixed>>, (\E command : Sole(command)) => SpinsOn(d),
           \A k \in 1 .. Len(ms) : ms[k].what = "execute" => ms[k].command = NoCommand,
           \A command : Sole(command) => Sole(command)'
    PROVE  Alone'
  BY AloneStill DEF WillRun, Runs

LEMMA SoleStill ==
    ASSUME queue \in Seq(Messages), NEW d \in {0, 1}, NEW ms, Len(ms) \in Nat, Moved(d, ms),
           UNCHANGED <<fContextMessage, fStopButton>>, NEW command, Sole(command),
           \A k \in 1 .. Len(ms) :
              /\ ~IsExit(ms[k]) /\ ms[k].what # "notice"
              /\ ms[k].what \in {"quit", "notify"} => ms[k].console # ConsoleOf(command.kind)
    PROVE  Sole(command)'
  <1>1. ASSUME NEW m \in Queued'
        PROVE  /\ ~IsExit(m)
               /\ m.what = "notice" => m.building
               /\ m.what \in {"quit", "notify"} => m.console # ConsoleOf(command.kind)
    <2>1. m \in Queued \/ \E k \in 1 .. Len(ms) : m = ms[k]
      BY QueuedThen
    <2>2. QED
      BY <2>1 DEF Sole
  <1>2. QED
    BY <1>1 DEF Sole

(* The head is no exit while one command is all that is awaited.           *)
LEMMA SoleHead ==
    ASSUME queue \in Seq(Messages), queue # <<>>, NEW command, Sole(command)
    PROVE  /\ ~IsExit(Msg)
           /\ Msg.what = "notice" => Msg.building
           /\ Msg.what \in {"quit", "notify"} => Msg.console # ConsoleOf(command.kind)
  BY HeadIsFirst DEF Sole

LEMMA SpinsUnchanged ==
    ASSUME NEW d, d = 1 => Msg.what # "notice",
           open \subseteq open', UNCHANGED <<fIsBuilding, abandoned>>
    PROVE  SpinsOn(d)
  BY DEF SpinsOn, Notice

(* It is a new one that was started alone.                                 *)
LEMMA AloneBegins ==
    ASSUME Typed, NEW command, NEW ms, Begins(command, ms)
    PROVE  Alone'
  <1>1. /\ TypeOK /\ queue \in Seq(Messages) /\ Len(queue) \in Nat \ {0} /\ Moved(1, ms)
        /\ Len(ms) \in Nat \ {0} /\ RunOf(command) = ms[Len(ms)] /\ BeforeTheRun(command, ms)
    BY BeginSends, HeadIsFirst, Zenon DEF Begins, Typed
  <1> DEFINE b == ConsoleOf(command.kind)
  <1>0. PICK last : last = Len(queue) - 1 + Len(ms)
    OBVIOUS
  <1>2. SUFFICES ASSUME ~UnderWay
                 PROVE  Alone'
    BY DEF Begins, Alone
  <1>3. /\ \A c \in Consoles : fContextMessage[c] = NoCommand /\ ~shell[c].running
        /\ \A i \in 1 .. Len(queue) :
              queue[i].what \notin {"execute", "quit", "notify", "exit", "windowExit", "notice"}
    BY <1>1, <1>2 DEF UnderWay
  <1>4. /\ started' = started + 1 /\ started \in Nat /\ shell' = shell
        /\ command.id = started + 1 /\ command.kind \in Kinds /\ b \in Consoles
        /\ open' = open
    BY <1>1, BoundsAssumption DEF Begins, TypeOK, Kinds, ConsoleOf, Consoles, projects
  <1>5. \A c \in Consoles : /\ fContextMessage'[c] = IF c = b THEN command ELSE NoCommand
                            /\ fStopButton'[c] = IF c = b THEN TRUE ELSE fStopButton[c]
    BY <1>1, <1>3, <1>4 DEF Begins, TypeOK
  <1>6. RunOf(command).what = "execute" /\ RunOf(command).console = b /\ RunOf(command).command = command
    BY DEF RunOf
  <1>7. last \in 1 .. Len(queue') /\ queue'[last] = RunOf(command)
    <2>1. Len(ms) \in 1 .. Len(ms)
      BY <1>1
    <2>2. last \in 1 .. Len(queue') /\ queue'[last] = ms[Len(ms)]
      BY <1>0, <1>1, <2>1, Zenon DEF Moved
    <2>3. QED
      BY <1>1, <2>2, Zenon
  <1>8. ASSUME NEW j \in 1 .. Len(queue')
        PROVE  \/ j = last
               \/ queue'[j].what \in Kinds \cup {"stop", "activate", "close"}
               \/ queue'[j] = Notice(fActiveProject, TRUE)
    <2>1. CASE j + 1 \in 1 .. Len(queue) /\ queue'[j] = queue[j + 1]
      <3>1. queue[j + 1] \in Messages
        BY <1>1, <2>1
      <3>2. QED
        BY <1>3, <2>1, <3>1, Fields
    <2>2. CASE j + 1 - Len(queue) \in 1 .. Len(ms) /\ queue'[j] = ms[j + 1 - Len(queue)]
      <3>1. j + 1 - Len(queue) = Len(ms) => j = last
        BY <1>0, <1>1
      <3>2. QED
        BY <1>1, <2>2, <3>1 DEF BeforeTheRun, Kinds
    <2>3. QED
      BY <1>1, <2>1, <2>2 DEF Moved
  <1>9. Sole(command)'
    <2>1. ASSUME NEW m \in Queued'
          PROVE  /\ ~IsExit(m)
                 /\ m.what = "notice" => m.building
                 /\ m.what \in {"quit", "notify"} => m.console # b
      <3>1. PICK j \in 1 .. Len(queue') : m = queue'[j]
        BY DEF Queued
      <3>2. CASE j = last
        BY <1>6, <1>7, <3>1, <3>2 DEF IsExit
      <3>3. CASE m.what \in Kinds \cup {"stop", "activate", "close"}
        BY <3>3 DEF Kinds, IsExit
      <3>4. CASE m = Notice(fActiveProject, TRUE)
        BY <3>4 DEF Notice, IsExit
      <3>5. QED
        BY <1>8, <3>1, <3>2, <3>3, <3>4
    <2>2. QED
      BY <1>4, <1>5, <2>1 DEF Sole
  <1>10. Spins(command, last)'
    <2>1. SUFFICES ASSUME command.kind = "build"
                   PROVE  /\ command.project \in open'
                          /\ \E j \in 1 .. Len(queue') :
                                j < last /\ queue'[j] = Notice(command.project, TRUE)
      BY DEF Spins
    <2>2. command.project = fActiveProject /\ fActiveProject \in open
      BY <1>1, <2>1, BuildAssumption DEF Begins, TypeOK
    <2>3. ms[Len(ms) - 1] = Notice(fActiveProject, TRUE)
      <3>1. NoticeBefore(ms)
        BY <2>1, BeginSends, Zenon
      <3>2. QED
        BY <3>1, Zenon DEF NoticeBefore
    <2>4. Len(ms) - 1 \in 1 .. Len(ms)
      <3>1. Len(ms) > 1
        BY <2>1, BeginSends, Zenon DEF NoticeBefore
      <3>2. QED
        BY <1>1, <3>1
    <2>5. PICK j : j = Len(queue) - 1 + (Len(ms) - 1)
      OBVIOUS
    <2>6. j \in 1 .. Len(queue') /\ queue'[j] = ms[Len(ms) - 1]
      BY <1>1, <2>4, <2>5, Zenon DEF Moved
    <2>7. j < last
      BY <1>0, <1>1, <2>5
    <2>8. QED
      BY <1>4, <2>2, <2>3, <2>6, <2>7, Zenon
  <1>11. ASSUME NEW j \in 1 .. Len(queue'), queue'[j].what = "execute"
         PROVE  j = last
    BY <1>8, <1>11 DEF Notice, Kinds
  <1>12. ASSUME NEW m \in Queued', NEW n \in 1 .. Len(queue'), m = queue'[n], m.what = "execute"
         PROVE  WillRun(n, m)'
    <2>1. n = last /\ m = RunOf(command) /\ m.console = b /\ m.command = command
      BY <1>6, <1>7, <1>11, <1>12
    <2>2. \A j \in 1 .. Len(queue') : queue'[j].what = "execute" => j >= n
      BY <1>1, <1>11, <2>1 DEF Moved
    <2>3. First(n, m.console)'
      BY <2>2 DEF First
    <2>4. Sole(m.command)' /\ Spins(m.command, n)' /\ m.console = ConsoleOf(m.command.kind)
      BY <1>9, <1>10, <2>1, Zenon
    <2>5. ~shell'[m.console].running /\ \A d \in Consoles : ~shell'[d].running
      BY <1>3, <1>4, <2>1
    <2>6. QED
      BY <2>3, <2>4, <2>5 DEF WillRun
  <1>13. QED
    BY <1>3, <1>4, <1>12 DEF Alone

LEMMA AloneEnds ==
    ASSUME Typed, Alone, NEW c, Ends(c)
    PROVE  Alone'
  <1>1. /\ TypeOK /\ queue \in Seq(Messages) /\ c \in Consoles /\ shell[c].running
        /\ UNCHANGED <<started, mixed, fContextMessage, fStopButton, fIsBuilding, abandoned, open>>
    BY DEF Typed, Ends, CommandEnds, projects
  <1>2. ~shell'[c].running /\ \A x \in Consoles : x # c => shell'[x] = shell[x]
    BY <1>1 DEF Ends, CommandEnds, TypeOK
  <1>3. PICK ms : ms = <<QuitOf(c)>>
    OBVIOUS
  <1>4. Len(ms) = 1 /\ ms[1] = QuitOf(c) /\ Moved(0, ms)
    BY <1>3 DEF Ends
  <1>5. Len(ms) \in Nat /\ \A k \in 1 .. Len(ms) : ms[k] = QuitOf(c)
    BY <1>4, OneMessage
  <1>6. QuitOf(c).what = "quit" /\ QuitOf(c).console = c
    BY DEF QuitOf
  <1>7. ASSUME NEW command, Sole(command), c # ConsoleOf(command.kind)
        PROVE  Sole(command)'
    BY <1>1, <1>4, <1>5, <1>6, <1>7, SoleStill DEF IsExit
  <1>8. SpinsOn(0)
    BY <1>1, SpinsUnchanged
  <1>9. ASSUME NEW m \in Queued, NEW n \in 1 .. Len(queue), WillRun(n, m)
        PROVE  Sole(m.command)' /\ ~shell'[m.console].running
    <2>1. /\ m.console = ConsoleOf(m.command.kind) /\ m.console \in Consoles
          /\ Sole(m.command) /\ ~shell[m.console].running
      BY <1>9 DEF WillRun, ConsoleOf, Consoles
    <2>2. QED
      BY <1>1, <1>2, <1>7, <2>1
  <1>10. ASSUME NEW x \in Consoles, NEW command \in Commands,
                shell'[x] = [command |-> command, running |-> TRUE], Runs(x, command)
         PROVE  Sole(command)'
    BY <1>2, <1>7, <1>10 DEF Runs
  <1>11. \A x \in Consoles : shell'[x].running => shell'[x] = shell[x]
    BY <1>2
  <1>12. QED
    BY <1>1, <1>4, <1>5, <1>6, <1>8, <1>9, <1>10, <1>11, AloneStill

LEMMA AloneExecutes ==
    ASSUME Typed, Alone, NEW c, NEW ms, Executes(c, ms)
    PROVE  Alone'
  <1>1. /\ TypeOK /\ queue \in Seq(Messages) /\ c \in Consoles /\ Moved(1, ms)
        /\ Msg.what = "execute" /\ Msg.console = c /\ Msg \in Messages /\ Msg \in Queued
        /\ Len(queue) \in Nat \ {0} /\ 1 \in 1 .. Len(queue) /\ Msg = queue[1]
        /\ UNCHANGED <<started, mixed, fContextMessage, fStopButton, fIsBuilding, abandoned, open>>
    BY HeadIsFirst DEF Typed, Executes, Execute, projects
  <1>2. \A x \in Consoles :
            shell'[x] = IF x = c THEN [command |-> Msg.command, running |-> TRUE] ELSE shell[x]
    BY <1>1 DEF Executes, Execute, TypeOK
  <1>3. ms = <<>> \/ (shell[c].running /\ Len(ms) = 1 /\ ms[1] = QuitOf(c))
    BY DEF Executes
  <1>4. QuitOf(c).what = "quit" /\ QuitOf(c).console = c
    BY DEF QuitOf
  <1>5. Len(ms) \in Nat /\ \A k \in 1 .. Len(ms) : ms[k] = QuitOf(c)
    <2>1. CASE ms = <<>>
      BY <2>1
    <2>2. CASE Len(ms) = 1 /\ ms[1] = QuitOf(c)
      BY <2>2, OneMessage
    <2>3. QED
      BY <1>3, <2>1, <2>2
  <1>6. ASSUME NEW command, Sole(command), c # ConsoleOf(command.kind)
        PROVE  Sole(command)'
    BY <1>1, <1>4, <1>5, <1>6, SoleStill DEF IsExit
  <1>7. SpinsOn(1)
    BY <1>1, SpinsUnchanged
  (* Another command runs.                                                 *)
  <1>8. CASE ~Current(Msg.command)
    <2>1. \A x \in Consoles : shell'[x].running /\ Current(shell'[x].command) => shell'[x] = shell[x]
      BY <1>2, <1>8
    <2>2. ASSUME NEW m \in Queued, NEW n \in 1 .. Len(queue), n > 1, WillRun(n, m)
          PROVE  Sole(m.command)' /\ ~shell'[m.console].running
      <3>1. /\ m.console = ConsoleOf(m.command.kind) /\ m.console \in Consoles
            /\ Sole(m.command) /\ ~shell[m.console].running
        BY <2>2 DEF WillRun, ConsoleOf, Consoles
      <3>2. m.console # c
        BY <1>1, <2>2 DEF WillRun, First
      <3>3. QED
        BY <1>2, <1>6, <3>1, <3>2
    <2>3. ASSUME NEW x \in Consoles, NEW command \in Commands, Current(command),
                 shell'[x] = [command |-> command, running |-> TRUE], Runs(x, command)
          PROVE  Sole(command)'
      <3>1. x # c
        BY <1>2, <1>8, <2>3
      <3>2. QED
        BY <1>6, <2>3, <3>1 DEF Runs
    <2>4. \A k \in 1 .. Len(ms) : ms[k].what = "execute" => ms[k].command = NoCommand
      BY <1>4, <1>5
    <2>5. QED
      BY <1>1, <1>5, <1>7, <2>1, <2>2, <2>3, <2>4, AloneStill
  (* The command that was started last runs.                               *)
  <1>9. CASE Current(Msg.command) /\ ~mixed
    <2>1. PICK command : command = Msg.command
      OBVIOUS
    <2>2. WillRun(1, Msg)
      BY <1>1, <1>9 DEF Alone
    <2>3. /\ c = ConsoleOf(command.kind) /\ Sole(command) /\ Spins(command, 1)
          /\ ~shell[c].running /\ First(1, c)
          /\ \A x \in Consoles : shell[x].running => ~Current(shell[x].command)
      BY <1>1, <2>1, <2>2 DEF WillRun
    <2>4. Moved(1, <<>>)
      BY <1>1, <1>3, <2>3
    <2>5. Sole(command)' /\ Spins(command, 1)'
      <3>1. Len(<<>>) \in Nat /\ \A k : k \notin 1 .. Len(<<>>)
        OBVIOUS
      <3>2. Sole(command)'
        BY <1>1, <2>3, <2>4, <3>1, SoleStill
      <3>3. QED
        BY <1>1, <1>7, <2>3, <2>4, <3>2, SpinsStill
    <2>6. \A x : Current(x)' <=> Current(x)
      BY <1>1 DEF Current
    <2>7. ASSUME NEW j \in 1 .. Len(queue'), queue'[j].what = "execute", Current(queue'[j].command)
          PROVE  FALSE
      <3>1. j + 1 \in 1 .. Len(queue) /\ queue'[j] = queue[j + 1] /\ j + 1 > 1
        BY <1>1, <2>4, NothingComes
      <3>2. queue[j + 1] \in Queued /\ queue[j + 1].what = "execute" /\ Current(queue[j + 1].command)
        BY <2>7, <3>1 DEF Queued
      <3>3. WillRun(j + 1, queue[j + 1])
        BY <1>9, <3>1, <3>2 DEF Alone
      <3>4. 1 >= j + 1
        BY <1>1, <1>9, <3>3 DEF WillRun, First
      <3>5. QED
        BY <3>1, <3>4
    <2>8. \A m \in Queued' : m.what = "execute" => ~Current(m.command)
      BY <2>7 DEF Queued
    <2>9. Runs(c, command)'
      BY <2>3, <2>5, <2>6, <2>8 DEF Runs
    <2>10. ASSUME NEW x \in Consoles, NEW other \in Commands,
                  shell'[x] = [command |-> other, running |-> TRUE], Current(other)
           PROVE  x = c /\ other = command
      BY <1>2, <2>1, <2>3, <2>10
    <2>11. QED
      BY <2>6, <2>8, <2>9, <2>10 DEF Alone
  <1>10. CASE mixed
    BY <1>1, <1>10 DEF Alone
  <1>11. QED
    BY <1>8, <1>9, <1>10

LEMMA AloneStep ==
    ASSUME Typed, CommandsFit, Alone, [Next]_vars
    PROVE  Alone'
  <1>1. /\ TypeOK /\ queue \in Seq(Messages) /\ Len(<<>>) \in Nat
        /\ \A k : k \notin 1 .. Len(<<>>)
    BY DEF Typed
  <1>2. ASSUME NEW d, NEW ms, Passes(d, ms)
        PROVE  Alone'
    <2>1. /\ d \in {0, 1} /\ Len(ms) \in Nat /\ Moved(d, ms)
          /\ UNCHANGED <<open, fIsBuilding, fContextMessage, fStopButton, shell, started, mixed,
                         abandoned>>
      BY <1>2 DEF Passes, projects, console
    <2>2. \A k \in 1 .. Len(ms) :
             /\ ~IsExit(ms[k]) /\ ms[k].what # "notice"
             /\ ms[k].what = "execute" => ms[k].command = NoCommand
             /\ ms[k].what \in {"quit", "notify"} =>
                   d = 1 /\ Msg.what = "quit" /\ ms[k].console = Msg.console
      BY <1>2 DEF Passes, IsExit, Kinds
    <2>3. d = 1 => queue # <<>> /\ Msg.what # "notice"
      BY <1>2 DEF Passes, Kinds
    <2>4. SpinsOn(d)
      BY <2>1, <2>3, SpinsUnchanged
    <2>5. ASSUME NEW command, Sole(command)
          PROVE  Sole(command)'
      <3>1. d = 1 /\ Msg.what = "quit" => Msg.console # ConsoleOf(command.kind)
        BY <1>1, <2>3, <2>5, SoleHead
      <3>2. QED
        BY <1>1, <2>1, <2>2, <2>5, <3>1, SoleStill
    <2>6. QED
      BY <2>1, <2>2, <2>4, <2>5, AloneWaits
  <1>3. ASSUME NEW command, NEW ms, Begins(command, ms)
        PROVE  Alone'
    BY <1>3, AloneBegins
  <1>4. ASSUME NEW c, Ends(c)
        PROVE  Alone'
    BY <1>4, AloneEnds
  <1>5. ASSUME NEW c, NEW ms, Executes(c, ms)
        PROVE  Alone'
    BY <1>5, AloneExecutes
  <1>6. ASSUME NEW x, NEW ms, Notifies(x, ms)
        PROVE  Alone'
    <2> DEFINE m == [what |-> "exit", console |-> x, command |-> fContextMessage[x]]
    <2>1. /\ queue # <<>> /\ Moved(1, ms) /\ Msg.what = "notify" /\ Msg.console = x /\ x \in Consoles
          /\ ms = IF fContextMessage[x] = NoCommand THEN <<>> ELSE <<m>>
          /\ UNCHANGED <<open, fIsBuilding, fStopButton, shell, started, mixed, abandoned>>
      BY <1>6 DEF Notifies, Notify, projects
    <2>2. ms = <<>> \/ (Len(ms) = 1 /\ ms[1] = m)
      BY <2>1
    <2>3. m.what = "exit"
      OBVIOUS
    <2> HIDE DEF m
    <2>4. Len(ms) \in Nat /\ \A k \in 1 .. Len(ms) : ms[k] = m
      <3>1. CASE ms = <<>>
        BY <3>1
      <3>2. CASE Len(ms) = 1 /\ ms[1] = m
        BY <3>2, OneMessage
      <3>3. QED
        BY <2>2, <3>1, <3>2
    <2>5. SpinsOn(1)
      BY <2>1, SpinsUnchanged
    <2>6. ASSUME NEW command, Sole(command)
          PROVE  Sole(command)'
      <3>1. x # ConsoleOf(command.kind)
        BY <1>1, <2>1, <2>6, SoleHead
      <3>2. fContextMessage[x] = NoCommand
        BY <2>1, <2>6, <3>1 DEF Sole
      <3>3. fContextMessage' = fContextMessage /\ Moved(1, <<>>)
        BY <1>1, <1>6, <2>1, <3>2 DEF Notifies, Notify, NotifyCommandQuit, TypeOK
      <3>4. QED
        BY <1>1, <2>1, <2>6, <3>3, SoleStill
    <2>7. QED
      BY <2>1, <2>3, <2>4, <2>5, <2>6, AloneWaits
  (* The head says that more is awaited than one command.                  *)
  <1>7. ASSUME NEW ms, Len(ms) \in Nat, Moved(1, ms), queue # <<>>,
               UNCHANGED <<shell, started, mixed>>,
               IsExit(Msg) \/ (Msg.what = "notice" /\ ~Msg.building),
               \A k \in 1 .. Len(ms) : ms[k].what # "execute"
        PROVE  Alone'
    <2>1. \A command : ~Sole(command)
      BY <1>1, <1>7, SoleHead
    <2>2. QED
      BY <1>7, <2>1, AloneWaits
  <1>8. ASSUME NEW x, ViewExits(x)
        PROVE  Alone'
    <2> DEFINE m == [what |-> "windowExit", command |-> Msg.command]
    <2>1. PICK ms : ms = <<m>>
      OBVIOUS
    <2>2. Len(ms) = 1 /\ ms[1] = m /\ m.what # "execute"
      BY <2>1
    <2>3. Moved(1, ms)
      BY <1>8, <2>1 DEF ViewExits
    <2> HIDE DEF m
    <2>4. Len(ms) \in Nat /\ \A k \in 1 .. Len(ms) : ms[k].what # "execute"
      BY <2>2, OneMessage
    <2>5. QED
      BY <1>7, <1>8, <2>3, <2>4 DEF ViewExits, ViewExit, IsExit
  <1>9. ASSUME NEW ms, WindowExits(ms)
        PROVE  Alone'
    <2>1. PICK q : q = Msg.command.project
      OBVIOUS
    <2>2. /\ Moved(1, ms) /\ queue # <<>> /\ IsExit(Msg) /\ UNCHANGED <<shell, started, mixed>>
          /\ ms = <<>> \/ ms = <<Notice(q, FALSE)>>
      BY <1>9, <2>1 DEF WindowExits, WindowExit, IsExit, console
    <2>3. CASE ms = <<>>
      BY <1>1, <1>7, <2>2, <2>3
    <2>4. CASE ms = <<Notice(q, FALSE)>>
      <3>1. Len(ms) = 1 /\ ms[1] = Notice(q, FALSE) /\ Notice(q, FALSE).what = "notice"
        BY <2>4 DEF Notice
      <3>2. Len(ms) \in Nat /\ \A k \in 1 .. Len(ms) : ms[k].what # "execute"
        BY <3>1, OneMessage
      <3>3. QED
        BY <1>7, <2>2, <3>2
    <2>5. QED
      BY <2>2, <2>3, <2>4
  <1>10. ASSUME TellsPhase
         PROVE  Alone'
    <2>1. /\ Moved(1, <<>>) /\ queue # <<>> /\ Msg.what = "notice"
          /\ UNCHANGED <<open, fContextMessage, fStopButton, shell, started, mixed>>
      BY <1>10 DEF TellsPhase, BuildingPhase, projects, console
    <2>2. CASE ~Msg.building
      BY <1>1, <1>7, <2>1, <2>2
    <2>3. CASE Msg.building
      <3>1. Msg.building = TRUE
        BY <1>1, <2>1, <2>3, HeadIsFirst, Fields
      <3>2. /\ abandoned' = abandoned
            /\ \A p \in Projects :
                  \/ fIsBuilding'[p] = fIsBuilding[p] /\ ~(Msg.project = p /\ p \in open)
                  \/ fIsBuilding'[p] = TRUE
        BY <1>1, <1>10, <3>1 DEF TellsPhase, BuildingPhase, TypeOK
      <3>3. SpinsOn(1)
        <4>1. ASSUME NEW p, p \in open
              PROVE  /\ fIsBuilding[p] => fIsBuilding'[p]
                     /\ Msg = Notice(p, TRUE) => fIsBuilding'[p]
          BY <1>1, <3>2, <4>1 DEF TypeOK, Notice
        <4>2. QED
          BY <2>1, <3>2, <4>1 DEF SpinsOn
      <3>4. \A command : Sole(command) => Sole(command)'
        BY <1>1, <2>1, SoleStill
      <3>5. QED
        BY <1>1, <2>1, <3>3, <3>4, AloneWaits
    <2>4. QED
      BY <2>2, <2>3
  <1>11. ASSUME Closes
         PROVE  Alone'
    <2>1. /\ Moved(1, <<>>) /\ Msg.what = "close" /\ open' = open \ {Msg.project}
          /\ UNCHANGED <<fContextMessage, fStopButton, shell, started, mixed>>
          /\ abandoned' = abandoned \cup {x \in {Msg.project} : Building(x)}
          /\ \A p \in Projects : p # Msg.project => fIsBuilding'[p] = fIsBuilding[p]
      BY <1>1, <1>11 DEF Closes, Close, console, TypeOK
    <2>2. SpinsOn(1)
      <3>1. ASSUME NEW p, p \in open, Spinning(p)
            PROVE  p \in abandoned' \/ (p \in open' /\ (fIsBuilding[p] => fIsBuilding'[p]))
        <4>1. Building(p) /\ p \in Projects
          BY <1>1, <3>1, AnnouncedBuilds DEF TypeOK
        <4>2. QED
          BY <2>1, <3>1, <4>1
      <3>2. \A p : Msg # Notice(p, TRUE)
        BY <2>1 DEF Notice
      <3>3. QED
        BY <2>1, <3>1, <3>2 DEF SpinsOn
    <2>3. \A command : Sole(command) => Sole(command)'
      BY <1>1, <2>1, SoleStill
    <2>4. QED
      BY <1>1, <2>1, <2>2, <2>3, AloneWaits
  <1>12. ASSUME NEW d, Rearranges(d)
         PROVE  Alone'
    <2>1. /\ d \in {0, 1} /\ Moved(d, <<>>) /\ open \subseteq open'
          /\ UNCHANGED <<fIsBuilding, abandoned, fContextMessage, fStopButton, shell, started, mixed>>
          /\ d = 1 => Msg.what # "notice"
      BY <1>12 DEF Rearranges, IsMove, console
    <2>2. SpinsOn(d)
      BY <2>1, SpinsUnchanged
    <2>3. \A command : Sole(command) => Sole(command)'
      BY <1>1, <2>1, SoleStill
    <2>4. QED
      BY <1>1, <2>1, <2>2, <2>3, AloneWaits
  <1>13. QED
    BY <1>2, <1>3, <1>4, <1>5, <1>6, <1>8, <1>9, <1>10, <1>11, <1>12, StepKinds

-----------------------------------------------------------------------------
(* The results.                                                            *)

LEMMA InitIInv ==
    ASSUME Init
    PROVE  IInv
  <1>1. /\ queue = <<>> /\ Len(queue) = 0 /\ Queued = {} /\ \A k : k \notin 1 .. Len(queue)
        /\ queue \in Seq(Messages) /\ NoCommand \in Commands /\ IdleShell.command = NoCommand
        /\ IdleShell.running = FALSE
    BY BoundsAssumption DEF Init, Queued, NoCommand, Commands, IdleShell
  <1>2. TypeOK
    <2>1. /\ \A i \in DOMAIN queue : i \in 1 .. Len(queue)
          /\ open \subseteq Projects /\ fActiveProject \in open
      BY <1>1 DEF Init
    <2>2. IdleShell \in [command : Commands, running : BOOLEAN]
      BY <1>1 DEF IdleShell
    <2>3. shell \in [Consoles -> [command : Commands, running : BOOLEAN]]
      BY <2>2 DEF Init
    <2>4. started \in 0 .. MaxCommands /\ moves \in Nat
      BY BoundsAssumption DEF Init
    <2>5. QED
      BY <1>1, <2>1, <2>3, <2>4 DEF Init, TypeOK
  <1>3. QueueFits
    <2>1. Asks(queue) = {}
      BY <1>1 DEF Asks
    <2>2. Cardinality(Asks(queue)) = 0
      BY <2>1, FS_EmptySet
    <2>3. QED
      BY <1>1, <2>2, BoundsAssumption DEF Init, QueueFits
  <1>4. /\ \A c \in Consoles : /\ fContextMessage[c] = NoCommand /\ shell[c] = IdleShell
                               /\ ~fStopButton[c]
        /\ \A p \in Projects : ~fIsBuilding[p]
        /\ buildMenu /\ setActiveMenu /\ fActiveProject # NoProject
    BY BuildAssumption DEF Init
  <1>5. CommandsFit
    BY <1>1, <1>4 DEF CommandsFit
  <1>6. ContextsEnd /\ ButtonsReturn
    BY <1>4 DEF ContextsEnd, ButtonsReturn, Init
  <1>7. BuildsFollow
    BY <1>1, <1>4 DEF BuildsFollow, Follows, Spinning
  <1>8. Alone
    BY <1>1, <1>4 DEF Alone
  <1>9. QED
    BY <1>1, <1>2, <1>3, <1>5, <1>6, <1>7, <1>8 DEF IInv, Typed

LEMMA Inductive ==
    ASSUME IInv, [Next]_vars
    PROVE  IInv'
  BY TypedStep, CommandsStep, ContextsStep, ButtonsStep, BuildsStep, AloneStep DEF IInv

LEMMA Invariant == Spec => []IInv
  <1>1. Init => IInv
    BY InitIInv
  <1>2. IInv /\ [Next]_vars => IInv'
    BY Inductive
  <1>3. QED
    BY <1>1, <1>2, PTL DEF Spec

(* The state of the window, its browser and its consoles is well typed:    *)
(* the active project is an open one, every command that a console         *)
(* remembers or runs was started, and there are never more of them than    *)
(* were asked for.                                                         *)
THEOREM TypeCorrect == Spec => []TypeOK
  <1>1. IInv => TypeOK
    BY DEF IInv, Typed
  <1>2. QED
    BY <1>1, Invariant, PTL

(* When no shell runs and no message waits, the window offers again what   *)
(* it took away: builds if a project is active, the choice of another      *)
(* project, and no Stop; and what the browser still shows as building was  *)
(* abandoned.  This is the pairing of RunCommand, NotifyCommandQuit and    *)
(* the window's CONSOLEIOTHREAD_EXIT, through ends that overtake or repeat *)
(* each other.                                                             *)
THEOREM WindowComesBack == Spec => []AllComesBack
  <1>1. ASSUME IInv, Quiet
        PROVE  /\ buildMenu = (fActiveProject # NoProject) /\ setActiveMenu
               /\ \A c \in Consoles : ~fStopButton[c]
               /\ \A p \in open : fIsBuilding[p] => p \in abandoned
    <2>1. /\ queue = <<>> /\ Queued = {} /\ \A k : k \notin 1 .. Len(queue)
          /\ \A c \in Consoles : ~shell[c].running
          /\ buildMenu \in BOOLEAN /\ open \subseteq Projects /\ NoProject \notin Projects
          /\ "fBuildLogView" \in Consoles
      BY <1>1, BuildAssumption DEF IInv, Typed, TypeOK, Quiet, Queued, Consoles
    <2>2. \A c \in Consoles : fContextMessage[c] = NoCommand
      BY <1>1, <2>1 DEF IInv, ContextsEnd, EndIsNear
    <2>3. /\ buildMenu = (fActiveProject # NoProject) /\ setActiveMenu
          /\ \A c \in Consoles : ~fStopButton[c]
      BY <1>1, <2>1, <2>2 DEF IInv, ButtonsReturn
    <2>4. ASSUME NEW p \in open, fIsBuilding[p]
          PROVE  p \in abandoned
      <3>1. p \in Projects /\ NoCommand.project # p
        BY <2>1 DEF NoCommand
      <3>2. p \in abandoned \/ Told(p)
        BY <1>1, <2>4, <3>1 DEF IInv, BuildsFollow, Follows, Spinning
      <3>3. ~Told(p)
        BY <2>1, <2>2, <3>1 DEF Told, Settled
      <3>4. QED
        BY <3>2, <3>3
    <2>5. QED
      BY <2>3, <2>4
  <1>2. IInv => AllComesBack
    BY <1>1 DEF AllComesBack
  <1>3. QED
    BY <1>2, Invariant, PTL

(* A command that was started while nothing else was under way keeps its   *)
(* Stop button and its place as the one whose end will be announced as     *)
(* long as it runs, and the browser shows its project as building if it is *)
(* a build: no end of an earlier command is taken for its own.             *)
THEOREM LoneCommandIsFollowed == Spec => []AloneIsFollowed
  <1>1. ASSUME IInv, NEW c \in Consoles, shell[c].running, Current(shell[c].command), ~mixed
        PROVE  /\ fStopButton[c] /\ fContextMessage[c] = shell[c].command
               /\ shell[c].command.kind = "build" /\ shell[c].command.project \notin abandoned =>
                      fIsBuilding[shell[c].command.project]
    <2>1. PICK command : command = shell[c].command
      OBVIOUS
    <2>2. command \in Commands /\ shell[c] = [command |-> command, running |-> TRUE]
      BY <1>1, <2>1 DEF IInv, Typed, TypeOK
    <2>3. Runs(c, command)
      BY <1>1, <2>1, <2>2 DEF IInv, Alone
    <2>4. fStopButton[c] /\ fContextMessage[c] = command
      BY <2>3 DEF Runs, Sole
    <2>5. command.kind = "build" /\ command.project \notin abandoned => fIsBuilding[command.project]
      <3>1. \A j \in 1 .. Len(queue) : ~(j < 1)
        BY <1>1 DEF IInv, Typed
      <3>2. QED
        BY <2>3, <3>1 DEF Runs, Spins
    <2>6. QED
      BY <2>1, <2>4, <2>5
  <1>2. IInv => AloneIsFollowed
    BY <1>1 DEF AloneIsFollowed, Current
  <1>3. QED
    BY <1>2, Invariant, PTL
=============================================================================

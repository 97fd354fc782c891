--------------------------- MODULE ProjectsProofs ---------------------------
(***************************************************************************)
(* The safety properties of Projects for every disk, number of openings    *)
(* and length of the queue, and, after them, those of ProjectTree, the     *)
(* tree of one project: for every set of names, and every number of nodes, *)
(* events that wait and openings.                                          *)
(***************************************************************************)
EXTENDS Projects, ProjectTree, SequenceTheorems, WellFoundedInduction, TLAPS

(* Only projects that were made have a task, are listed or were deleted.   *)
Numbered ==
    \A p \in Projects : p > Len(folder) =>
        opener[p] = "none" /\ p \notin fProjectList \cup deleted

(* A project whose task has filled the tree is listed until its task ends. *)
ListedStays ==
    \A p \in Projects : opener[p] \in {"listed", "watches"} => p \in fProjectList

(* A result is of a task that ended, and the project of an activate        *)
(* message is listed, or was and is deleted.  That of a close message need *)
(* not be listed yet.                                                      *)
Fits(m, stage, known) ==
    /\ m.what = "result" => stage[m.project] = "ended"
    /\ m.what = "activate" => m.project \in known

QueueFits ==
    \A i \in 1 .. Len(queue) : Fits(queue[i], opener, fProjectList \cup deleted)

(* While nothing is active and no openings have overlapped, at most one    *)
(* project is listed, and its task has not looked yet whether it is alone. *)
FirstActivates ==
    Running /\ fActiveProject = NoProject /\ ~overlapped =>
        \/ fProjectList = {}
        \/ \E p \in Projects :
               fProjectList = {p} /\ opener[p] \in {"listed", "watches"}

IInv ==
    /\ TypeOK /\ OpeningIsNotDeleted /\ Numbered /\ ListedStays
    /\ QueueFits /\ NothingDangles /\ FirstActivates

-----------------------------------------------------------------------------
(* Messages and the queue.                                                 *)

(* What a message of each kind carries.                                    *)
LEMMA Carries ==
    ASSUME NEW m \in Messages
    PROVE  /\ m.what \in {"open", "close", "activate", "result", "close active",
                          "moved", "gone"}
           /\ m.what = "open" => m.folder \in Folders
           /\ m.what = "moved" => m.folder \in Folders /\ m.to \in Folders
           /\ m.what = "gone" => m.folder \in Folders
           /\ m.what \in {"close", "activate", "result"} => m.project \in Projects
  <1>1. CASE m = CloseActiveMessage
    BY <1>1 DEF CloseActiveMessage
  <1>2. ASSUME NEW f \in Folders, m = OpenMessage(f)
        PROVE  m.what = "open" /\ m.folder \in Folders
    BY <1>2 DEF OpenMessage
  <1>3. ASSUME NEW f \in Folders, m = GoneMessage(f)
        PROVE  m.what = "gone" /\ m.folder \in Folders
    BY <1>3 DEF GoneMessage
  <1>4. ASSUME NEW f \in Folders, NEW g \in Folders, m = MovedMessage(f, g)
        PROVE  m.what = "moved" /\ m.folder \in Folders /\ m.to \in Folders
    BY <1>4 DEF MovedMessage
  <1>5. ASSUME NEW p \in Projects, m \in {CloseMessage(p), ActivateMessage(p), ResultMessage(p)}
        PROVE  m.what \in {"close", "activate", "result"} /\ m.project \in Projects
    BY <1>5 DEF CloseMessage, ActivateMessage, ResultMessage
  <1>6. \/ m = CloseActiveMessage
        \/ \E f \in Folders : m = OpenMessage(f)
        \/ \E f \in Folders : m = GoneMessage(f)
        \/ \E f \in Folders : \E g \in Folders : m = MovedMessage(f, g)
        \/ \E p \in Projects : m \in {CloseMessage(p), ActivateMessage(p), ResultMessage(p)}
    BY DEF Messages
  <1>7. QED
    BY <1>1, <1>2, <1>3, <1>4, <1>5, <1>6

LEMMA AreMessages ==
    /\ CloseActiveMessage \in Messages
    /\ \A f \in Folders : OpenMessage(f) \in Messages /\ GoneMessage(f) \in Messages
    /\ \A f, g \in Folders : MovedMessage(f, g) \in Messages
    /\ \A p \in Projects : /\ CloseMessage(p) \in Messages
                           /\ ActivateMessage(p) \in Messages
                           /\ ResultMessage(p) \in Messages
  BY DEF Messages

(* What is asked for is no result, and makes only listed projects active.  *)
Asked(m) ==
    /\ m \in Messages /\ m.what # "result"
    /\ m.what = "activate" => m.project \in fProjectList

LEMMA Asking ==
    ASSUME TypeOK, UserAsks \/ DiskChanges
    PROVE  \E m : Asked(m) /\ Post(m)
  <1>1. /\ Asked(CloseActiveMessage)
        /\ \A f \in Folders : Asked(OpenMessage(f)) /\ Asked(GoneMessage(f))
        /\ \A f, g \in Folders : Asked(MovedMessage(f, g))
        /\ \A p \in fProjectList : Asked(CloseMessage(p)) /\ Asked(ActivateMessage(p))
    BY AreMessages DEF TypeOK, Asked, CloseActiveMessage, OpenMessage, GoneMessage,
                       MovedMessage, CloseMessage, ActivateMessage
  <1>2. CASE UserAsks
    BY <1>1, <1>2 DEF UserAsks
  <1>3. CASE DiskChanges
    BY <1>1, <1>3 DEF DiskChanges, TypeOK
  <1>4. QED
    BY <1>2, <1>3

(* The first message is taken: it is a message, and the rest stays.        *)
LEMMA FirstMessage ==
    ASSUME TypeOK, queue # <<>>
    PROVE  /\ Head(queue) \in Messages /\ Tail(queue) \in Seq(Messages)
           /\ Len(Tail(queue)) = Len(queue) - 1
           /\ Head(queue) = queue[1] /\ 1 \in 1 .. Len(queue)
           /\ \A i \in 1 .. Len(Tail(queue)) :
                  Tail(queue)[i] = queue[i + 1] /\ i + 1 \in 1 .. Len(queue)
  BY DEF TypeOK

(* The queue still fits when messages that fit are taken and added, and    *)
(* what fitted still does.                                                 *)
LEMMA QueueStep ==
    ASSUME TypeOK, QueueFits,
           \A m \in Messages : Fits(m, opener, fProjectList \cup deleted)
                                => Fits(m, opener', fProjectList' \cup deleted'),
           \A i \in 1 .. Len(queue') :
               \/ \E j \in 1 .. Len(queue) : queue'[i] = queue[j]
               \/ Fits(queue'[i], opener', fProjectList' \cup deleted')
    PROVE  QueueFits'
  <1>1. \A j \in 1 .. Len(queue) : queue[j] \in Messages
    BY DEF TypeOK
  <1>2. ASSUME NEW j \in 1 .. Len(queue)
        PROVE  Fits(queue[j], opener', fProjectList' \cup deleted')
    BY <1>1 DEF QueueFits
  <1>3. QED
    BY <1>2 DEF QueueFits

(* Dropping the first message, or none, adds nothing.                      *)
LEMMA QueueTaken ==
    ASSUME TypeOK, QueueFits, queue' = queue \/ (queue # <<>> /\ queue' = Tail(queue)),
           \A m \in Messages : Fits(m, opener, fProjectList \cup deleted)
                                => Fits(m, opener', fProjectList' \cup deleted')
    PROVE  QueueFits'
  <1>1. \A i \in 1 .. Len(queue') : \E j \in 1 .. Len(queue) : queue'[i] = queue[j]
    BY FirstMessage DEF TypeOK
  <1>2. QED
    BY <1>1, QueueStep

-----------------------------------------------------------------------------
(* Type correctness.                                                       *)

(* The folders opened together become projects of their own.               *)
LEMMA OpeningTypes ==
    ASSUME TypeOK, NEW fs \in Seq(Folders), NEW active, StartOpening(fs, active)
    PROVE  /\ folder' \in Seq(Folders) /\ Len(folder') <= MaxProjects
           /\ Len(folder') = Len(folder) + Len(fs)
           /\ \A i \in 1 .. Len(folder) : folder'[i] = folder[i]
           /\ opener' \in [Projects -> Stages]
           /\ activate' \subseteq Projects /\ fTaskIDs' \subseteq Projects
           /\ UNCHANGED <<detecting, fProjectList, fActiveProject, watched, deleted>>
  <1>1. folder' = folder \o fs /\ Len(folder) + Len(fs) <= MaxProjects
    BY DEF StartOpening
  <1>2. /\ folder \o fs \in Seq(Folders)
        /\ Len(folder \o fs) = Len(folder) + Len(fs)
        /\ \A i \in 1 .. Len(folder) : (folder \o fs)[i] = folder[i]
    <2> HIDE DEF StartOpening
    <2>1. folder \in Seq(Folders)
      BY DEF TypeOK
    <2>2. QED
      BY <2>1
  <1>3. Len(folder) + 1 .. Len(folder) + Len(fs) \subseteq Projects
    BY <1>1, BoundsAssumption DEF TypeOK, Projects
  <1>4. opener' \in [Projects -> Stages]
    BY DEF StartOpening, TypeOK, Stages
  <1>5. activate' \subseteq Projects /\ fTaskIDs' \subseteq Projects
    BY <1>3 DEF StartOpening, TypeOK
  <1>6. UNCHANGED <<detecting, fProjectList, fActiveProject, watched, deleted>>
    BY DEF StartOpening
  <1>7. QED
    BY <1>1, <1>2, <1>4, <1>5, <1>6

LEMMA OneFolder == ASSUME NEW f \in Folders PROVE <<f>> \in Seq(Folders)
  OBVIOUS

(* The workspace of the last time is some folders opened together.         *)
LEMMA Preparing ==
    ASSUME PrepareWorkspace
    PROVE  \E fs \in Seq(Folders) : \E active : StartOpening(fs, active)
  <1>1. PICK n \in 0 .. MaxProjects : \E fs \in [1 .. n -> Folders] :
            StartOpening(fs, {}) \/ \E i \in 1 .. n : StartOpening(fs, {fs[i]})
    BY DEF PrepareWorkspace
  <1>2. PICK fs \in [1 .. n -> Folders] :
            StartOpening(fs, {}) \/ \E i \in 1 .. n : StartOpening(fs, {fs[i]})
    BY <1>1
  <1>3. PICK active : StartOpening(fs, active)
    BY <1>2
  <1>4. fs \in Seq(Folders)
    BY BoundsAssumption
  <1>5. QED
    BY <1>3, <1>4

(* A folder that was moved adds a close message, and an open message after *)
(* it, to what is left of the queue.                                       *)
LEMMA Moving ==
    ASSUME TypeOK, HandleFolderMoved
    PROVE  /\ queue' \in Seq(Messages)
           /\ \A i \in 1 .. Len(queue') :
                  \/ \E j \in 1 .. Len(queue) : queue'[i] = queue[j]
                  \/ Asked(queue'[i])
  <1>1. /\ queue # <<>> /\ Head(queue) \in Messages /\ Tail(queue) \in Seq(Messages)
        /\ \A i \in 1 .. Len(Tail(queue)) :
               \E j \in 1 .. Len(queue) : Tail(queue)[i] = queue[j]
    BY FirstMessage DEF HandleFolderMoved, Next1
  <1>2. CASE queue' = Tail(queue)
    BY <1>1, <1>2
  <1>3. ASSUME NEW p \in Projects, NEW again,
               \/ /\ again = <<OpenMessage(Head(queue).to)>>
                  /\ Head(queue).what = "moved"
               \/ again = <<>>,
               queue' = Tail(queue) \o <<CloseMessage(p)>> \o again
        PROVE  /\ queue' \in Seq(Messages)
               /\ \A i \in 1 .. Len(queue') :
                      \/ \E j \in 1 .. Len(queue) : queue'[i] = queue[j]
                      \/ Asked(queue'[i])
    <2>1. Asked(CloseMessage(p))
      BY AreMessages DEF Asked, CloseMessage, TypeOK
    <2>2. ASSUME Head(queue).what = "moved"
          PROVE  Asked(OpenMessage(Head(queue).to))
      BY <1>1, <2>2, Carries, AreMessages DEF Asked, OpenMessage
    <2>3. /\ Tail(queue) \o <<CloseMessage(p)>> \in Seq(Messages)
          /\ \A i \in 1 .. Len(Tail(queue) \o <<CloseMessage(p)>>) :
                 \/ \E j \in 1 .. Len(queue) : (Tail(queue) \o <<CloseMessage(p)>>)[i] = queue[j]
                 \/ Asked((Tail(queue) \o <<CloseMessage(p)>>)[i])
      BY <1>1, <2>1 DEF Asked
    <2> DEFINE begin == Tail(queue) \o <<CloseMessage(p)>>
    <2> HIDE DEF begin
    <2>4. CASE again = <<>>
      BY <1>3, <2>3, <2>4 DEF begin
    <2>5. CASE again = <<OpenMessage(Head(queue).to)>> /\ Head(queue).what = "moved"
      <3>1. /\ begin \in Seq(Messages)
            /\ \A i \in 1 .. Len(begin) :
                   \/ \E j \in 1 .. Len(queue) : begin[i] = queue[j]
                   \/ Asked(begin[i])
            /\ queue' = begin \o again
        BY <1>3, <2>3 DEF begin
      <3>2. QED
        BY <2>2, <2>5, <3>1 DEF Asked
    <2>6. QED
      BY <1>3, <2>4, <2>5
  <1>4. fProjectList \subseteq Projects
    BY DEF TypeOK
  <1>5. QED
    BY <1>2, <1>3, <1>4 DEF HandleFolderMoved, Take

LEMMA NextType == TypeOK /\ Numbered /\ [Next]_vars => TypeOK'
  <1> SUFFICES ASSUME TypeOK, Numbered, [Next]_vars
               PROVE  TypeOK'
    OBVIOUS
  <1>1. CASE UserAsks \/ DiskChanges
    <2>1. PICK m : Asked(m) /\ Post(m)
      BY <1>1, Asking
    <2>2. queue' \in Seq(Messages)
      BY <2>1 DEF Asked, Post, TypeOK
    <2>3. QED
      BY <2>1, <2>2 DEF Post, TypeOK, tasks, list
  <1>2. CASE PrepareWorkspace
    <2>0. PICK fs \in Seq(Folders) : \E active : StartOpening(fs, active)
      BY <1>2, Preparing
    <2>1. PICK active : StartOpening(fs, active)
      BY <2>0
    <2>2. UNCHANGED <<editor, queue, quit, overlapped, misused>> /\ prepared' = TRUE
      BY <1>2 DEF PrepareWorkspace
    <2>3. QED
      BY <2>1, <2>2, OpeningTypes DEF TypeOK
  <1>3. ASSUME NEW p \in Projects, OpenerStep(p)
        PROVE  TypeOK'
    <2>1. CASE Populate(p)
      BY <2>1 DEF Populate, TypeOK, Stages
    <2>2. CASE StartWatching(p)
      <3>1. p \in 1 .. Len(folder)
        BY <2>2 DEF StartWatching, Numbered, Projects, TypeOK
      <3>2. folder[p] \in Folders
        BY <3>1 DEF TypeOK
      <3>3. QED
        BY <2>2, <3>2 DEF StartWatching, TypeOK, Stages
    <2>3. CASE OpenCompleted(p)
      <3>1. fActiveProject' \in Projects \cup {NoProject} /\ overlapped' \in BOOLEAN
        BY <2>3 DEF OpenCompleted, SetActiveProject, TypeOK
      <3>2. editor' \in [Files -> Projects \cup {NoProject, Closed}]
        BY <2>3 DEF OpenCompleted, TypeOK
      <3>3. QED
        BY <2>3, <3>1, <3>2 DEF OpenCompleted, TypeOK, Stages
    <2>4. CASE PostResult(p)
      <3>1. queue' \in Seq(Messages)
        BY <2>4, AreMessages DEF PostResult, TypeOK
      <3>2. QED
        BY <2>4, <3>1 DEF PostResult, TypeOK, Stages, list
    <2>5. QED
      BY <1>3, <2>1, <2>2, <2>3, <2>4 DEF OpenerStep
  <1>4. ASSUME NEW p \in Projects, GuessBuildCommand(p)
        PROVE  TypeOK'
    BY <1>4 DEF GuessBuildCommand, Uses, TypeOK, list
  <1>5. CASE Handle
    <2> USE DEF Next1, Take
    <2>0. queue # <<>> /\ Head(queue) \in Messages /\ Tail(queue) \in Seq(Messages)
      BY <1>5, FirstMessage
      DEF Handle, HandleOpen, OpenRefused, HandleClose, CloseRefused, StalePointer,
          HandleActivate, HandleFolderMoved, HandleResult
    <2>1. CASE HandleOpen
      <3>1. CASE UNCHANGED <<tasks, list>>
        BY <2>0, <2>1, <3>1 DEF HandleOpen, TypeOK, tasks, list
      <3>2. CASE StartOpening(<<Head(queue).folder>>, {})
        <4>1. Head(queue).folder \in Folders
          <5>1. Head(queue).what = "open"
            BY <2>1 DEF HandleOpen
          <5>2. QED
            BY <2>0, <5>1, Carries
        <4>2. <<Head(queue).folder>> \in Seq(Folders)
          BY <4>1, OneFolder
        <4>3. UNCHANGED <<editor, prepared, quit, overlapped, misused>> /\ queue' \in Seq(Messages)
          BY <2>0, <2>1 DEF HandleOpen
        <4>4. QED
          BY <3>2, <4>2, <4>3, OpeningTypes DEF TypeOK
      <3>3. QED
        BY <2>1, <3>1, <3>2 DEF HandleOpen
    <2>2. CASE OpenRefused \/ CloseRefused
      BY <2>0, <2>2 DEF OpenRefused, CloseRefused, TypeOK, tasks, list
    <2>3. CASE HandleClose
      <3>1. /\ fActiveProject' \in Projects \cup {NoProject} /\ overlapped' \in BOOLEAN
            /\ editor' \in [Files -> Projects \cup {NoProject, Closed}]
        BY <2>3 DEF HandleClose, Close, SetActiveProject, TypeOK
      <3>2. QED
        BY <2>0, <2>3, <3>1 DEF HandleClose, Close, TypeOK, tasks
    <2>4. CASE StalePointer
      BY <2>0, <2>4 DEF StalePointer, Uses, TypeOK, tasks, list
    <2>5. CASE HandleActivate
      BY <2>0, <2>5, Carries DEF HandleActivate, SetActiveProject, TypeOK, tasks
    <2>6. CASE HandleFolderMoved
      BY <2>6, Moving DEF HandleFolderMoved, TypeOK, tasks, list
    <2>7. CASE HandleResult
      BY <2>0, <2>7 DEF HandleResult, TypeOK, list
    <2>8. QED
      BY <1>5, <2>1, <2>2, <2>3, <2>4, <2>5, <2>6, <2>7 DEF Handle
  <1>6. CASE Quit
    BY <1>6 DEF Quit, TypeOK, tasks
  <1>7. ASSUME NEW x \in Files, FileOpen(x) \/ FileClose(x)
        PROVE  TypeOK'
    BY <1>7 DEF FileOpen, FileClose, TypeOK, tasks, list
  <1>8. CASE UNCHANGED vars
    BY <1>8 DEF vars, tasks, list, TypeOK
  <1>9. QED
    BY <1>1, <1>2, <1>3, <1>4, <1>5, <1>6, <1>7, <1>8 DEF Next

-----------------------------------------------------------------------------
(* The rest of the invariant, one lemma for each kind of step.             *)

States == OpeningIsNotDeleted /\ Numbered /\ ListedStays /\ NothingDangles /\ FirstActivates

(* Only the queue changes.                                                 *)
LEMMA QuietStep ==
    ASSUME IInv, UNCHANGED <<tasks, list, editor, prepared, quit, overlapped, misused>>
    PROVE  /\ States'
           /\ \A m \in Messages : Fits(m, opener, fProjectList \cup deleted)
                                  => Fits(m, opener', fProjectList' \cup deleted')
  <1>1. States' = States
    BY DEF tasks, list, States, OpeningIsNotDeleted, Numbered, ListedStays,
           NothingDangles, FirstActivates, Running
  <1>2. QED
    BY <1>1 DEF IInv, States, tasks, list

(* Projects are made and their tasks started.                              *)
LEMMA StartStep ==
    ASSUME IInv, NEW fs \in Seq(Folders), NEW active, StartOpening(fs, active),
           UNCHANGED <<editor, quit, overlapped, misused>>,
           queue' = queue \/ (queue # <<>> /\ queue' = Tail(queue))
    PROVE  States' /\ QueueFits'
  <1> DEFINE new == Len(folder) + 1 .. Len(folder) + Len(fs)
  <1>1. /\ Len(folder) \in Nat /\ Len(fs) \in Nat /\ Projects \subseteq Nat
        /\ Len(folder') = Len(folder) + Len(fs)
        /\ \A i \in 1 .. Len(folder) : folder'[i] = folder[i]
        /\ UNCHANGED <<fProjectList, fActiveProject, deleted>>
    BY OpeningTypes DEF IInv, TypeOK, Projects
  <1>2. /\ \A p \in Projects : opener'[p] = IF p \in new THEN "scans" ELSE opener[p]
        /\ fTaskIDs' = fTaskIDs \cup new
    BY DEF StartOpening
  <1>3. \A p \in new : p > Len(folder)
    BY <1>1
  <1>4. \A p \in Projects : p > Len(folder') => p > Len(folder) /\ p \notin new
    BY <1>1
  <1> HIDE DEF new
  <1>5. OpeningIsNotDeleted'
    BY <1>1, <1>2, <1>3 DEF IInv, OpeningIsNotDeleted, Numbered
  <1>6. Numbered'
    BY <1>1, <1>2, <1>4 DEF IInv, Numbered
  <1>7. ListedStays'
    BY <1>1, <1>2 DEF IInv, ListedStays
  <1>8. \A p \in fProjectList : p \in Projects /\ p \in 1 .. Len(folder) /\ p \notin new
    <2>1. SUFFICES ASSUME NEW p \in fProjectList
                   PROVE  p \in Projects /\ p \in 1 .. Len(folder) /\ p \notin new
      OBVIOUS
    <2>2. p \in Projects
      BY DEF IInv, TypeOK
    <2>3. ~(p > Len(folder))
      BY <2>2 DEF IInv, Numbered
    <2>4. p \in 1 .. Len(folder)
      BY <1>1, <2>2, <2>3 DEF Projects
    <2>5. QED
      BY <1>3, <2>2, <2>3, <2>4
  <1>9. NothingDangles'
    BY <1>1, <1>8 DEF IInv, NothingDangles, Running
  <1>10. FirstActivates'
    BY <1>1, <1>2, <1>8 DEF IInv, FirstActivates, Running
  <1>11. ASSUME NEW m \in Messages, Fits(m, opener, fProjectList \cup deleted)
         PROVE  Fits(m, opener', fProjectList' \cup deleted')
    <2>1. m.what = "result" => m.project \in Projects
      BY Carries
    <2>2. QED
      BY <1>1, <1>2, <1>3, <1>11, <2>1 DEF Fits, IInv, Numbered
  <1>12. QED
    BY <1>5, <1>6, <1>7, <1>9, <1>10, <1>11, QueueTaken DEF IInv, States

(* An opening task makes a step.                                           *)
LEMMA TaskStep ==
    ASSUME IInv, NEW p \in Projects, OpenerStep(p)
    PROVE  States' /\ QueueFits'
  <1>1. p \in fTaskIDs /\ p \notin deleted /\ p \in 1 .. Len(folder)
    BY DEF IInv, OpeningIsNotDeleted, Numbered, TypeOK, Projects, OpenerStep, Populate,
           StartWatching, OpenCompleted, PostResult
  <1>2. \A m \in Messages : Fits(m, opener, fProjectList \cup deleted)
                            => Fits(m, opener', fProjectList' \cup deleted')
    <2>1. /\ \A q \in Projects : opener[q] = "ended" => opener'[q] = "ended"
          /\ fProjectList \subseteq fProjectList' /\ deleted' = deleted
      BY DEF IInv, TypeOK, OpenerStep, Populate, StartWatching, OpenCompleted,
             PostResult, list
    <2>2. QED
      BY <2>1, Carries DEF Fits
  <1>3. CASE Populate(p)
    <2>1. OpeningIsNotDeleted' /\ Numbered' /\ ListedStays'
      BY <1>1, <1>3 DEF Populate, IInv, TypeOK, OpeningIsNotDeleted, Numbered,
                        ListedStays, Projects
    <2>2. NothingDangles'
      BY <1>1, <1>3 DEF Populate, IInv, NothingDangles, Running
    <2>3. FirstActivates'
      BY <1>3 DEF Populate, IInv, TypeOK, FirstActivates, Running
    <2>4. QED
      BY <1>2, <1>3, <2>1, <2>2, <2>3, QueueTaken DEF Populate, IInv, States
  <1>4. CASE StartWatching(p)
    <2>1. OpeningIsNotDeleted' /\ Numbered' /\ ListedStays'
      BY <1>1, <1>4 DEF StartWatching, IInv, TypeOK, OpeningIsNotDeleted, Numbered,
                        ListedStays, Projects
    <2>2. NothingDangles'
      BY <1>4 DEF StartWatching, IInv, NothingDangles, Running
    <2>3. FirstActivates'
      BY <1>4 DEF StartWatching, IInv, TypeOK, FirstActivates, Running
    <2>4. QED
      BY <1>2, <1>4, <2>1, <2>2, <2>3, QueueTaken DEF StartWatching, IInv, States
  <1>5. CASE OpenCompleted(p)
    <2>0. p \in fProjectList /\ p # NoProject
      BY <1>5, PointersAssumption DEF OpenCompleted, IInv, ListedStays, Projects
    <2>1. OpeningIsNotDeleted' /\ Numbered' /\ ListedStays'
      BY <1>1, <1>5 DEF OpenCompleted, IInv, TypeOK, OpeningIsNotDeleted, Numbered,
                        ListedStays, Projects
    <2>2. NothingDangles'
      BY <1>5, <2>0 DEF OpenCompleted, SetActiveProject, IInv, TypeOK, NothingDangles, Running
    <2>3. FirstActivates'
      BY <1>5, <2>0 DEF OpenCompleted, SetActiveProject, IInv, TypeOK, FirstActivates, Running
    <2>4. QED
      BY <1>2, <1>5, <2>1, <2>2, <2>3, QueueTaken DEF OpenCompleted, IInv, States
  <1>6. CASE PostResult(p)
    <2>1. OpeningIsNotDeleted' /\ Numbered' /\ ListedStays'
      BY <1>1, <1>6 DEF PostResult, list, IInv, TypeOK, OpeningIsNotDeleted, Numbered,
                        ListedStays, Projects
    <2>2. NothingDangles'
      BY <1>6 DEF PostResult, list, IInv, NothingDangles, Running
    <2>3. FirstActivates'
      BY <1>6 DEF PostResult, list, IInv, TypeOK, FirstActivates, Running
    <2>4. Fits(ResultMessage(p), opener', fProjectList' \cup deleted')
      BY <1>6 DEF PostResult, Fits, ResultMessage, IInv, TypeOK
    <2>5. \A i \in 1 .. Len(queue') :
              \/ \E j \in 1 .. Len(queue) : queue'[i] = queue[j]
              \/ queue'[i] = ResultMessage(p)
      BY <1>6 DEF PostResult, IInv, TypeOK
    <2>6. QueueFits'
      BY <1>2, <2>4, <2>5, QueueStep DEF IInv
    <2>7. QED
      BY <2>1, <2>2, <2>3, <2>6 DEF States
  <1>7. QED
    BY <1>3, <1>4, <1>5, <1>6 DEF OpenerStep

(* A project is closed: no task runs, and nothing else names it.           *)
LEMMA CloseStep ==
    ASSUME IInv, NEW p, Close(p), UNCHANGED <<tasks, prepared, quit>>,
           queue # <<>>, queue' = Tail(queue)
    PROVE  States' /\ QueueFits'
  <1>1. p \in fProjectList /\ p \in Projects /\ p # NoProject
    <2>1. p \in fProjectList /\ fProjectList \subseteq Projects
      BY DEF Close, IInv, TypeOK
    <2>2. NoProject \notin Projects
      BY PointersAssumption DEF Projects
    <2>3. QED
      BY <2>1, <2>2
  <1>2. \A q \in Projects : opener[q] \in {"none", "ended"}
    BY DEF Close, AreTasksRunning, IInv, OpeningIsNotDeleted
  <1>3. /\ fProjectList' = fProjectList \ {p} /\ deleted' = deleted \cup {p}
        /\ UNCHANGED <<folder, misused, opener, fTaskIDs, prepared, quit>>
    BY DEF Close, tasks
  <1>4. OpeningIsNotDeleted' /\ ListedStays'
    BY <1>2, <1>3 DEF OpeningIsNotDeleted, ListedStays
  <1>5. Numbered'
    BY <1>1, <1>3 DEF IInv, Numbered
  <1>6. fActiveProject' \in fProjectList' \cup {NoProject} \/ ~Running
    BY <1>1, <1>3 DEF Close, SetActiveProject, IInv, NothingDangles
  <1>7. \A x \in Files : editor'[x] = IF editor[x] = p THEN Closed ELSE editor[x]
    BY DEF Close
  <1>8. Closed \notin Projects
    BY PointersAssumption DEF Projects
  <1>9. NothingDangles'
    BY <1>1, <1>3, <1>6, <1>7, <1>8 DEF IInv, NothingDangles, Running
  <1>10. FirstActivates'
    <2>1. SUFFICES ASSUME Running, fActiveProject' = NoProject, ~overlapped'
                   PROVE  fProjectList' = {}
      BY <1>3 DEF FirstActivates, Running
    <2>2. CASE fActiveProject = p
      <3>1. \/ fProjectList = {p}
            \/ \E q \in fProjectList \ {p} : fActiveProject' = q
        BY <2>2 DEF Close, SetActiveProject
      <3>2. NoProject \notin fProjectList
        <4>1. fProjectList \subseteq Projects
          BY DEF IInv, TypeOK
        <4>2. NoProject \notin Projects
          BY PointersAssumption DEF Projects
        <4>3. QED
          BY <4>1, <4>2
      <3>3. CASE fProjectList = {p}
        BY <1>3, <3>3
      <3>4. CASE \E q \in fProjectList \ {p} : fActiveProject' = q
        BY <2>1, <3>2, <3>4
      <3>5. QED
        BY <3>1, <3>3, <3>4
    <2>3. CASE fActiveProject # p
      BY <1>1, <1>2, <2>1, <2>3 DEF Close, IInv, FirstActivates
    <2>4. QED
      BY <2>2, <2>3
  <1>11. fProjectList' \cup deleted' = fProjectList \cup deleted
    BY <1>1, <1>3
  <1>12. QueueFits'
    BY <1>3, <1>11, QueueTaken DEF IInv
  <1>13. QED
    BY <1>4, <1>5, <1>9, <1>10, <1>12 DEF States

(* Another project becomes the active one.                                 *)
LEMMA ActivateStep ==
    ASSUME IInv, HandleActivate
    PROVE  States' /\ QueueFits'
  <1>1. /\ queue # <<>> /\ Head(queue) \in Messages /\ Head(queue).what = "activate"
        /\ Head(queue) = queue[1] /\ 1 \in 1 .. Len(queue)
    BY FirstMessage DEF HandleActivate, Next1, IInv
  <1>2. Head(queue).project \in Projects
    BY <1>1, Carries
  <1>3. Head(queue).project \in fProjectList
    BY <1>1 DEF HandleActivate, IInv, QueueFits, Fits
  <1>4. Head(queue).project # NoProject
    BY <1>2, PointersAssumption DEF Projects
  <1>5. /\ UNCHANGED <<tasks, folder, fProjectList, deleted, editor, prepared, quit, misused>>
        /\ fActiveProject' = Head(queue).project
        /\ queue' = Tail(queue)
    BY DEF HandleActivate, SetActiveProject, Take
  <1>6. OpeningIsNotDeleted' /\ Numbered' /\ ListedStays'
    BY <1>5 DEF IInv, OpeningIsNotDeleted, Numbered, ListedStays, tasks
  <1>7. NothingDangles' /\ FirstActivates'
    BY <1>3, <1>4, <1>5 DEF IInv, NothingDangles, FirstActivates, Running
  <1>8. QueueFits'
    BY <1>1, <1>5, QueueTaken DEF IInv, tasks
  <1>9. QED
    BY <1>6, <1>7, <1>8 DEF States

(* A result ends the count of the task that posted it, which had ended.    *)
LEMMA ResultStep ==
    ASSUME IInv, HandleResult
    PROVE  States' /\ QueueFits'
  <1>1. /\ queue # <<>> /\ Head(queue) \in Messages /\ Head(queue).what = "result"
        /\ Head(queue) = queue[1] /\ 1 \in 1 .. Len(queue)
    BY FirstMessage DEF HandleResult, Next1, IInv
  <1>2. opener[Head(queue).project] = "ended"
    BY <1>1 DEF IInv, QueueFits, Fits
  <1>3. /\ UNCHANGED <<opener, list, editor, prepared, quit, overlapped, misused>>
        /\ fTaskIDs' = fTaskIDs \ {Head(queue).project}
        /\ queue' = Tail(queue)
    BY DEF HandleResult, Take
  <1>4. OpeningIsNotDeleted'
    BY <1>2, <1>3 DEF IInv, OpeningIsNotDeleted, list
  <1>5. Numbered' /\ ListedStays' /\ NothingDangles' /\ FirstActivates'
    BY <1>3 DEF IInv, Numbered, ListedStays, NothingDangles, FirstActivates, Running, list
  <1>6. QueueFits'
    BY <1>1, <1>3, QueueTaken DEF IInv, list
  <1>7. QED
    BY <1>4, <1>5, <1>6 DEF States

(* A deleted project is used: there is nothing more to be said.            *)
LEMMA MisuseStep ==
    ASSUME IInv, NEW p, NEW who, Uses(p, who), UNCHANGED <<opener, fTaskIDs, list, editor, prepared, quit, overlapped>>,
           queue' = queue \/ (queue # <<>> /\ queue' = Tail(queue))
    PROVE  States' /\ QueueFits'
  <1>1. Running' => Running
    BY DEF Uses, Running
  <1>2. OpeningIsNotDeleted' /\ Numbered' /\ ListedStays'
    BY DEF IInv, OpeningIsNotDeleted, Numbered, ListedStays, list
  <1>3. NothingDangles' /\ FirstActivates'
    BY <1>1 DEF IInv, NothingDangles, FirstActivates, list
  <1>4. QueueFits'
    BY QueueTaken DEF IInv, list
  <1>5. QED
    BY <1>2, <1>3, <1>4 DEF States

(* The window quits, when no task runs.                                    *)
LEMMA QuitStep ==
    ASSUME IInv, Quit
    PROVE  States' /\ QueueFits'
  <1>1. /\ \A q \in Projects : opener[q] \in {"none", "ended"}
        /\ UNCHANGED <<folder, opener, fTaskIDs, fProjectList>>
        /\ deleted' = deleted \cup fProjectList /\ queue' = <<>> /\ ~Running'
    BY DEF Quit, AreTasksRunning, IInv, OpeningIsNotDeleted, tasks, Running
  <1>2. OpeningIsNotDeleted' /\ Numbered' /\ ListedStays'
    BY <1>1 DEF IInv, OpeningIsNotDeleted, Numbered, ListedStays
  <1>3. NothingDangles' /\ FirstActivates' /\ QueueFits'
    BY <1>1 DEF NothingDangles, FirstActivates, QueueFits
  <1>4. QED
    BY <1>2, <1>3 DEF States

(* A file is opened or closed in the editor.                               *)
LEMMA FileStep ==
    ASSUME IInv, NEW x \in Files, FileOpen(x) \/ FileClose(x)
    PROVE  States' /\ QueueFits'
  <1>1. UNCHANGED <<tasks, list, queue, prepared, quit, overlapped, misused>>
    BY DEF FileOpen, FileClose
  <1>2. OpeningIsNotDeleted' /\ Numbered' /\ ListedStays' /\ FirstActivates'
    BY <1>1 DEF IInv, OpeningIsNotDeleted, Numbered, ListedStays, FirstActivates,
                Running, tasks, list
  <1>3. {NoProject, Closed} \cap Projects = {}
    BY PointersAssumption DEF Projects
  <1>4. \A y \in Files : \/ editor'[y] = editor[y] \/ editor'[y] \notin Projects
                         \/ editor'[y] \in fProjectList /\ y \in FilesOf[folder[editor'[y]]]
    BY <1>3 DEF FileOpen, FileClose, IInv, TypeOK
  <1>5. NothingDangles'
    BY <1>1, <1>4 DEF IInv, NothingDangles, Running, list
  <1>6. QueueFits'
    BY <1>1, QueueTaken DEF IInv, tasks, list
  <1>7. QED
    BY <1>2, <1>5, <1>6 DEF States

-----------------------------------------------------------------------------
(* The theorems.                                                           *)

LEMMA InitIInv == Init => IInv
  <1> SUFFICES ASSUME Init
               PROVE  IInv
    OBVIOUS
  <1>1. TypeOK
    <2>1. /\ folder \in Seq(Folders) /\ Len(folder) = 0
          /\ queue \in Seq(Messages)
      BY DEF Init
    <2>2. /\ opener \in [Projects -> Stages]
          /\ editor \in [Files -> Projects \cup {NoProject, Closed}]
      BY DEF Init, Stages
    <2>3. /\ activate = {} /\ fTaskIDs = {} /\ fProjectList = {} /\ detecting = {}
          /\ fActiveProject = NoProject /\ watched = {} /\ deleted = {}
          /\ prepared \in BOOLEAN /\ quit \in BOOLEAN
          /\ overlapped \in BOOLEAN /\ misused = {}
      BY DEF Init
    <2>4. Len(folder) <= MaxProjects
      BY <2>1, BoundsAssumption
    <2>5. QED
      BY <2>1, <2>2, <2>3, <2>4 DEF TypeOK
  <1>2. OpeningIsNotDeleted /\ Numbered /\ ListedStays
    BY DEF Init, OpeningIsNotDeleted, Numbered, ListedStays
  <1>3. QueueFits /\ FirstActivates
    BY DEF Init, QueueFits, FirstActivates
  <1>4. NothingDangles
    BY PointersAssumption DEF Init, NothingDangles, Projects
  <1>5. QED
    BY <1>1, <1>2, <1>3, <1>4 DEF IInv

LEMMA NextIInv == IInv /\ [Next]_vars => IInv'
  <1> SUFFICES ASSUME IInv, [Next]_vars
               PROVE  States' /\ QueueFits'
    BY NextType DEF IInv, States
  <1>1. CASE UserAsks \/ DiskChanges
    <2>1. PICK m : Asked(m) /\ Post(m)
      BY <1>1, Asking DEF IInv
    <2>2. UNCHANGED <<tasks, list, editor, prepared, quit, overlapped, misused>>
      BY <2>1 DEF Post
    <2>3. \A i \in 1 .. Len(queue') :
              (\E j \in 1 .. Len(queue) : queue'[i] = queue[j]) \/ queue'[i] = m
      BY <2>1 DEF Post, Asked, IInv, TypeOK
    <2>4. Fits(m, opener', fProjectList' \cup deleted')
      BY <2>1, <2>2 DEF Asked, Fits, list
    <2>5. QueueFits'
      BY <2>2, <2>3, <2>4, QuietStep, QueueStep DEF IInv
    <2>6. QED
      BY <2>2, <2>5, QuietStep
  <1>2. CASE PrepareWorkspace
    <2>0. PICK fs \in Seq(Folders) : \E active : StartOpening(fs, active)
      BY <1>2, Preparing
    <2>1. PICK active : StartOpening(fs, active)
      BY <2>0
    <2>2. QED
      BY <1>2, <2>1, StartStep DEF PrepareWorkspace
  <1>3. CASE \E p \in Projects : OpenerStep(p)
    BY <1>3, TaskStep
  <1>4. ASSUME NEW p \in Projects, GuessBuildCommand(p)
        PROVE  States' /\ QueueFits'
    BY <1>4, MisuseStep DEF GuessBuildCommand
  <1>5. CASE HandleOpen
    <2>0. /\ UNCHANGED <<editor, prepared, quit, overlapped, misused>>
          /\ queue # <<>> /\ queue' = Tail(queue)
      BY <1>5 DEF HandleOpen, Next1, Take
    <2>1. CASE UNCHANGED <<tasks, list>>
      BY <2>0, <2>1, QuietStep, QueueTaken DEF IInv
    <2>2. CASE StartOpening(<<Head(queue).folder>>, {})
      <3>1. Head(queue).folder \in Folders
        BY <1>5, FirstMessage, Carries DEF HandleOpen, Next1, IInv
      <3>2. QED
        BY <2>0, <2>2, <3>1, OneFolder, StartStep
    <2>3. QED
      BY <1>5, <2>1, <2>2 DEF HandleOpen
  <1>6. CASE OpenRefused \/ CloseRefused
    BY <1>6, QuietStep, QueueTaken DEF OpenRefused, CloseRefused, Next1, Take, IInv
  <1>7. CASE HandleClose
    BY <1>7, CloseStep DEF HandleClose, Next1, Take
  <1>8. CASE StalePointer
    BY <1>8, MisuseStep DEF StalePointer, Next1, Take, tasks
  <1>9. CASE HandleActivate
    BY <1>9, ActivateStep
  <1>10. CASE HandleFolderMoved
    <2>1. UNCHANGED <<tasks, list, editor, prepared, quit, overlapped, misused>>
      BY <1>10 DEF HandleFolderMoved
    <2>2. \A m : Asked(m) => Fits(m, opener', fProjectList' \cup deleted')
      BY <2>1 DEF Asked, Fits, list
    <2>3. QueueFits'
      BY <1>10, <2>1, <2>2, Moving, QuietStep, QueueStep DEF IInv
    <2>4. QED
      BY <2>1, <2>3, QuietStep
  <1>11. CASE HandleResult
    BY <1>11, ResultStep
  <1>12. CASE Quit
    BY <1>12, QuitStep
  <1>13. CASE \E x \in Files : FileOpen(x) \/ FileClose(x)
    BY <1>13, FileStep
  <1>14. CASE UNCHANGED vars
    BY <1>14, QuietStep, QueueTaken DEF vars, IInv
  <1>15. QED
    BY <1>1, <1>2, <1>3, <1>4, <1>5, <1>6, <1>7, <1>8, <1>9, <1>10, <1>11, <1>12,
       <1>13, <1>14 DEF Next, Handle

LEMMA Inductive == SafeSpec => []IInv
  BY InitIInv, NextIInv, PTL DEF SafeSpec

(* Projects, tasks, editors and messages are well formed: each pointer in  *)
(* a list, a message or an editor is that of a project that was made.      *)
THEOREM TypeCorrect == SafeSpec => []TypeOK
  <1>1. IInv => TypeOK
    BY DEF IInv
  <1>2. QED
    BY Inductive, <1>1, PTL

(* No project is deleted while the task that opens it works on it, and     *)
(* that task is counted for as long, whatever is opened, closed, moved and *)
(* quit meanwhile.                                                         *)
THEOREM TasksKeepTheirProject == SafeSpec => []OpeningIsNotDeleted
  <1>1. IInv => OpeningIsNotDeleted
    BY DEF IInv
  <1>2. QED
    BY Inductive, <1>1, PTL

(* The active project and the editors' projects are listed and exist.      *)
THEOREM PointersAreListed == SafeSpec => []NothingDangles
  <1>1. IInv => NothingDangles
    BY DEF IInv
  <1>2. QED
    BY Inductive, <1>1, PTL

(* Once its openings are over the window with a project has an active one, *)
(* unless two of them overlapped when none was.                            *)
THEOREM OneIsActive == SafeSpec => []SomeoneIsActive
  <1>1. IInv => SomeoneIsActive
    BY DEF IInv, FirstActivates, SomeoneIsActive, Opening
  <1>2. QED
    BY Inductive, <1>1, PTL

-----------------------------------------------------------------------------
(***************************************************************************)
(* ProjectTree.                                                            *)
(*                                                                         *)
(* The tree of a watched project is behind the folder by the events that   *)
(* wait: they lead from the names in the tree to the names on the disk,    *)
(* and what an item has wrong of its file an event that waits will mend.   *)
(***************************************************************************)

(* The folder: a node has one name, and what the tree refers to was made.  *)
OnDisk == {d \in Dirs : disk[d] # Nothing}

(* What the tree and the disk have in common: the nodes they name.         *)
RefsTo(N) == N \cup {NoRef}
ItemsOf(N) == [name : Dirs, kids : Seq(RefsTo(N))]
NamedIn(N) ==
    /\ Nothing \notin N /\ disk \in [Dirs -> N \cup {Nothing}] /\ holds \subseteq N
    /\ tree \in Seq(ItemsOf(N))

DiskIsSound ==
    /\ NamedIn(1 .. made)
    /\ \A d, e \in Dirs : disk[d] = disk[e] /\ disk[d] # Nothing => d = e

Unique(items) == \A i, j \in DOMAIN items : items[i].name = items[j].name => i = j
Names(items) == {r.name : r \in ToSet(items)}

(* While nothing happens during the opening, the scan has every directory  *)
(* it came by, and the files of all but the one it is in.                  *)
ScanIsTrue ==
    phase \in {"scans", "listed"} /\ ~blind =>
        /\ Unique(tree) /\ Names(tree) = scanned \cap OnDisk
        /\ \A r \in ToSet(tree) :
               r.kids = IF inside # <<>> /\ r.name = inside[1] THEN <<>>
                        ELSE FilesIn(disk[r.name])
        /\ inside # <<>> => inside[2] = disk[inside[1]] /\ inside[1] \in scanned
        /\ phase = "listed" => scanned = Dirs /\ inside = <<>>

(* What an event says of the names in the folder before and after it.      *)
Legal(e, before, after) ==
    \/ e.what = "created" /\ e.dir = e.to /\ e.dir \notin before /\ after = before \cup {e.dir}
    \/ e.what = "removed" /\ e.dir = e.to /\ e.dir \in before /\ after = before \ {e.dir}
    \/ /\ e.what = "renamed" /\ e.dir \in before /\ e.to \notin before
       /\ after = (before \ {e.dir}) \cup {e.to}
    \/ /\ e.what \in {"file created", "file removed"} /\ e.dir = e.to
       /\ e.dir \in before /\ after = before
    \/ /\ e.what = "file moved" /\ e.dir # e.to
       /\ {e.dir, e.to} \subseteq before /\ after = before

(* The events that wait lead from one set of names to another.             *)
Lead(waiting, from, until) ==
    \E S \in [0 .. Len(waiting) -> SUBSET Dirs] :
        /\ S[0] = from /\ S[Len(waiting)] = until
        /\ \A i \in 1 .. Len(waiting) : Legal(waiting[i], S[i - 1], S[i])

Watched == phase = "open" /\ ~blind

TreeIsBehind == Watched => Unique(tree) /\ Lead(events, Names(tree), OnDisk)

(* The name the item called d will have when the events are handled.       *)
DirEvents == {"created", "removed"}
FileEvents == {"file created", "file removed", "file moved"}
Touches(e) == {e.dir, e.to}
Waits(E, kinds, d) == \E e \in E : e.what \in kinds /\ d \in Touches(e)
Becomes(E, d, t) ==
    \/ Event("renamed", d, t) \in E
    \/ d = t /\ \A e \in E : ~ (e.what = "renamed" /\ e.dir = d)

(* A rename waits in front of all that is about its names.                 *)
RenamesFirst(waiting) ==
    \A i, j \in DOMAIN waiting :
        i < j /\ waiting[j].what = "renamed" =>
            Touches(waiting[i]) \cap Touches(waiting[j]) = {}

(* The last event about a directory tells whether its file is there.       *)
Full == {d \in Dirs : disk[d] \in holds}
Tells(e, d) == e.what = "file created" \/ (e.what = "file moved" /\ e.to = d)
LastTells(waiting, F) ==
    \A i \in DOMAIN waiting : \A d \in Touches(waiting[i]) :
        /\ waiting[i].what \in FileEvents
        /\ \A j \in DOMAIN waiting : j > i => d \notin Touches(waiting[j])
        => (d \in F <=> Tells(waiting[i], d))

(* A file is under the item of the directory it is in.                     *)
RefsAtHome(R, E, D) ==
    \A r \in R : \A w \in Dirs : \A k \in DOMAIN r.kids :
        D[w] # Nothing /\ r.kids[k] = D[w] => Becomes(E, r.name, w)

(* An item that is not to be replaced has the file of its directory, or    *)
(* has none, which an event that waits mends.                              *)
FileOf(t, D, F) == IF t \in F THEN <<D[t]>> ELSE <<>>
KidsFit(R, E, D, F) ==
    \A r \in R : \A t \in Dirs :
        Becomes(E, r.name, t) /\ ~Waits(E, DirEvents, t) =>
            /\ r.kids = <<>> \/ r.kids = <<D[t]>>
            /\ ~Waits(E, FileEvents, t) => r.kids = FileOf(t, D, F)

KidsAre(R, waiting, D, F) ==
    /\ RenamesFirst(waiting) /\ LastTells(waiting, F)
    /\ RefsAtHome(R, ToSet(waiting), D) /\ KidsFit(R, ToSet(waiting), D, F)

KidsAreBehind == Watched /\ ~renamedEarly => KidsAre(ToSet(tree), events, disk, Full)

TreeInv ==
    /\ TreeTypeOK /\ DiskIsSound /\ ParentIsThere
    /\ ScanIsTrue /\ TreeIsBehind /\ KidsAreBehind

-----------------------------------------------------------------------------
(* Induction over the natural numbers, with a set in the place of the      *)
(* predicate.                                                              *)

LessThan == {q \in Nat \X Nat : q[1] < q[2]}

LEMMA LessThanIsWellFounded == IsWellFoundedOn(LessThan, Nat)
  BY NatLessThanWellFounded DEF OpToRel, LessThan

LEMMA NatInduct ==
    ASSUME NEW S, 0 \in S, \A n \in Nat : n \in S => n + 1 \in S
    PROVE  \A n \in Nat : n \in S
  <1>1. SUFFICES ASSUME Nat \ S # {}
                 PROVE  FALSE
    OBVIOUS
  <1>2. PICK n \in Nat \ S : \A m \in Nat \ S : ~ (<<m, n>> \in LessThan)
    BY <1>1, LessThanIsWellFounded, WFMin, Zenon
  <1>3. n # 0 /\ n - 1 \in Nat
    BY <1>2
  <1>4. <<n - 1, n>> \in LessThan
    BY <1>2, <1>3 DEF LessThan
  <1>5. n - 1 \in S
    BY <1>2, <1>3, <1>4
  <1>6. QED
    BY <1>2, <1>3, <1>5

LEMMA RemoveAtFact ==
    ASSUME NEW S, NEW s \in Seq(S), NEW i \in 1 .. Len(s)
    PROVE  /\ RemoveAt(s, i) \in Seq(S)
           /\ Len(RemoveAt(s, i)) = Len(s) - 1
           /\ \A j \in 1 .. Len(s) - 1 :
                  RemoveAt(s, i)[j] = IF j < i THEN s[j] ELSE s[j + 1]
  <1>1. /\ SubSeq(s, 1, i - 1) \in Seq(S) /\ Len(SubSeq(s, 1, i - 1)) = i - 1
        /\ \A j \in 1 .. i - 1 : SubSeq(s, 1, i - 1)[j] = s[j]
    BY SubSeqProperties
  <1>2. /\ SubSeq(s, i + 1, Len(s)) \in Seq(S)
        /\ Len(SubSeq(s, i + 1, Len(s))) = Len(s) - i
        /\ \A j \in 1 .. Len(s) - i : SubSeq(s, i + 1, Len(s))[j] = s[i + j]
    BY SubSeqProperties
  <1> DEFINE head == SubSeq(s, 1, i - 1)
             tail == SubSeq(s, i + 1, Len(s))
  <1>a. /\ head \in Seq(S) /\ Len(head) = i - 1 /\ \A j \in 1 .. i - 1 : head[j] = s[j]
        /\ tail \in Seq(S) /\ Len(tail) = Len(s) - i
        /\ \A j \in 1 .. Len(s) - i : tail[j] = s[i + j]
    BY <1>1, <1>2
  <1> HIDE DEF head, tail
  <1>3. /\ head \o tail \in Seq(S) /\ Len(head \o tail) = Len(s) - 1
        /\ \A j \in 1 .. Len(s) - 1 :
               (head \o tail)[j] = IF j <= i - 1 THEN head[j] ELSE tail[j - (i - 1)]
    <2>1. /\ head \o tail \in Seq(S) /\ Len(head \o tail) = Len(head) + Len(tail)
          /\ \A j \in 1 .. Len(head) + Len(tail) :
                 (head \o tail)[j] =
                     IF j <= Len(head) THEN head[j] ELSE tail[j - Len(head)]
      BY <1>a, ConcatProperties
    <2>2. Len(head) + Len(tail) = Len(s) - 1 /\ Len(head) = i - 1
      BY <1>a
    <2>3. QED
      BY <2>1, <2>2, Zenon
  <1>4. RemoveAt(s, i) = head \o tail
    BY DEF RemoveAt, head, tail
  <1>5. ASSUME NEW j \in 1 .. Len(s) - 1
        PROVE  RemoveAt(s, i)[j] = IF j < i THEN s[j] ELSE s[j + 1]
    <2>1. CASE j < i
      BY <1>a, <1>3, <1>4, <2>1
    <2>2. CASE j >= i
      <3>1. j - (i - 1) \in 1 .. Len(s) - i /\ i + (j - (i - 1)) = j + 1
        BY <2>2
      <3>2. tail[j - (i - 1)] = s[j + 1]
        BY <1>a, <3>1
      <3>3. (head \o tail)[j] = tail[j - (i - 1)]
        <4>1. ~ (j <= i - 1)
          BY <2>2
        <4>2. QED
          BY <1>3, <4>1, Zenon
      <3>4. RemoveAt(s, i)[j] = s[j + 1]
        BY <1>4, <3>2, <3>3, Zenon
      <3>5. ~ (j < i)
        BY <2>2
      <3>6. QED
        BY <3>4, <3>5, Zenon
    <2>3. QED
      BY <2>1, <2>2
  <1>6. QED
    <2>1. RemoveAt(s, i) \in Seq(S) /\ Len(RemoveAt(s, i)) = Len(s) - 1
      BY <1>3, <1>4, Zenon
    <2>2. QED
      BY <1>5, <2>1, Zenon

-----------------------------------------------------------------------------
(* The items of a tree.                                                    *)

LEMMA RowsOf ==
    ASSUME NEW X, NEW s \in Seq(X)
    PROVE  /\ DOMAIN s = 1 .. Len(s) /\ Len(s) \in Nat
           /\ ToSet(s) \subseteq X
           /\ \A i \in DOMAIN s : s[i] \in ToSet(s) /\ s[i] \in X
           /\ \A r \in ToSet(s) : \E i \in DOMAIN s : s[i] = r
  BY DEF ToSet

LEMMA AppendRows ==
    ASSUME NEW X, NEW s \in Seq(X), NEW r \in X
    PROVE  /\ Append(s, r) \in Seq(X)
           /\ ToSet(Append(s, r)) = ToSet(s) \cup {r}
           /\ Unique(s) /\ r.name \notin Names(s) => Unique(Append(s, r))
  <1> DEFINE t == Append(s, r)
             n == Len(s)
  <1>1. /\ t \in Seq(X) /\ Len(t) = n + 1 /\ n \in Nat /\ t[n + 1] = r
        /\ \A i \in 1 .. n : t[i] = s[i]
    BY AppendProperties
  <1>2. DOMAIN s = 1 .. n /\ DOMAIN t = 1 .. n + 1
    BY <1>1
  <1> HIDE DEF t, n
  <1>3. ToSet(t) = ToSet(s) \cup {r}
    <2>1. \A i \in 1 .. n + 1 : i \in 1 .. n \/ i = n + 1
      BY <1>1
    <2>2. \A i \in 1 .. n : i \in 1 .. n + 1
      BY <1>1
    <2>3. n + 1 \in 1 .. n + 1
      BY <1>1
    <2>4. QED
      BY <1>1, <1>2, <2>1, <2>2, <2>3 DEF ToSet
  <1>4. ASSUME Unique(s), r.name \notin Names(s)
        PROVE  Unique(t)
    <2>1. \A i \in 1 .. n : s[i].name # r.name
      BY <1>2, <1>4 DEF Names, ToSet
    <2>2. \A i, j \in 1 .. n : s[i].name = s[j].name => i = j
      BY <1>2, <1>4 DEF Unique
    <2>3. ASSUME NEW i \in 1 .. n + 1, NEW j \in 1 .. n + 1, t[i].name = t[j].name
          PROVE  i = j
      <3>1. CASE i = n + 1 /\ j = n + 1
        BY <3>1
      <3>2. CASE i \in 1 .. n /\ j = n + 1
        BY <1>1, <2>1, <2>3, <3>2
      <3>3. CASE i = n + 1 /\ j \in 1 .. n
        BY <1>1, <2>1, <2>3, <3>3
      <3>4. CASE i \in 1 .. n /\ j \in 1 .. n
        BY <1>1, <2>2, <2>3, <3>4
      <3>5. QED
        BY <1>1, <3>1, <3>2, <3>3, <3>4
    <2>4. QED
      BY <1>2, <2>3 DEF Unique
  <1>5. QED
    BY <1>1, <1>3, <1>4 DEF t

(* An item changed in its place.                                           *)
LEMMA ReplaceRow ==
    ASSUME NEW X, NEW s \in Seq(X), NEW i \in DOMAIN s, NEW r \in X
    PROVE  /\ [s EXCEPT ![i] = r] \in Seq(X)
           /\ DOMAIN [s EXCEPT ![i] = r] = DOMAIN s
           /\ [s EXCEPT ![i] = r][i] = r
           /\ \A j \in DOMAIN s : j # i => [s EXCEPT ![i] = r][j] = s[j]
  BY DEF ToSet

Kept(items, d) == {q \in ToSet(items) : q.name # d}

LEMMA ReplaceRows ==
    ASSUME NEW X, NEW s \in Seq(X), NEW i \in DOMAIN s, NEW r \in X, Unique(s),
           NEW t \in Seq(X), DOMAIN t = DOMAIN s, t[i] = r,
           \A j \in DOMAIN s : j # i => t[j] = s[j],
           r.name = s[i].name \/ r.name \notin Names(s)
    PROVE  /\ Unique(t)
           /\ ToSet(t) = Kept(s, s[i].name) \cup {r}
  <1>1. /\ DOMAIN t = DOMAIN s /\ t[i] = r
        /\ \A j \in DOMAIN s : j # i => t[j] = s[j]
    OBVIOUS
  <1>2. \A j \in DOMAIN s : s[j].name = s[i].name => j = i
    BY DEF Unique
  <1>3. ToSet(t) = Kept(s, s[i].name) \cup {r}
    <2>1. ASSUME NEW j \in DOMAIN s
          PROVE  t[j] = r \/ (t[j] \in ToSet(s) /\ t[j].name # s[i].name)
      BY <1>1, <1>2 DEF ToSet
    <2>2. ASSUME NEW q \in ToSet(s), q.name # s[i].name
          PROVE  q \in ToSet(t)
      <3>1. PICK j \in DOMAIN s : s[j] = q
        BY DEF ToSet
      <3>2. j # i /\ t[j] = q
        BY <1>1, <2>2, <3>1
      <3>3. QED
        BY <1>1, <3>2 DEF ToSet
    <2>3. r \in ToSet(t)
      BY <1>1 DEF ToSet
    <2>4. \A q \in ToSet(t) : \E j \in DOMAIN s : q = t[j]
      BY <1>1 DEF ToSet
    <2>5. \A q \in ToSet(t) : q = r \/ (q \in ToSet(s) /\ q.name # s[i].name)
      BY <2>1, <2>4, Zenon
    <2>6. QED
      BY <2>2, <2>3, <2>5, Zenon DEF Kept
  <1>4. Unique(t)
    <2>1. ASSUME NEW j \in DOMAIN s, j # i
          PROVE  t[j].name # r.name
      <3>1. t[j] = s[j] /\ s[j].name \in Names(s)
        BY <1>1, <2>1 DEF Names, ToSet
      <3>2. QED
        BY <1>2, <2>1, <3>1
    <2>2. ASSUME NEW j \in DOMAIN s, NEW k \in DOMAIN s, t[j].name = t[k].name
          PROVE  j = k
      <3>1. CASE j = i \/ k = i
        BY <1>1, <2>1, <2>2, <3>1
      <3>2. CASE j # i /\ k # i
        BY <1>1, <2>2, <3>2 DEF Unique
      <3>3. QED
        BY <3>1, <3>2
    <2>3. QED
      BY <1>1, <2>2 DEF Unique
  <1>5. QED
    BY <1>1, <1>3, <1>4

(* An item taken out of its place.                                         *)
LEMMA RemoveRows ==
    ASSUME NEW X, NEW s \in Seq(X), NEW i \in DOMAIN s, Unique(s)
    PROVE  /\ Unique(RemoveAt(s, i))
           /\ ToSet(RemoveAt(s, i)) = Kept(s, s[i].name)
  <1>1. PICK n, t : n = Len(s) /\ t = RemoveAt(s, i)
    OBVIOUS
  <1>2. n \in Nat /\ DOMAIN s = 1 .. n /\ i \in 1 .. n
    BY <1>1
  <1>3. /\ t \in Seq(X) /\ Len(t) = n - 1
        /\ \A j \in 1 .. n - 1 : t[j] = IF j < i THEN s[j] ELSE s[j + 1]
    <2>1. i \in 1 .. Len(s)
      BY <1>1, <1>2
    <2>2. QED
      BY <1>1, <2>1, RemoveAtFact
  <1>4. DOMAIN t = 1 .. n - 1
    BY <1>3
  <1>5. \A j \in 1 .. n - 1 : j < i => t[j] = s[j] /\ j \in 1 .. n
    BY <1>2, <1>3
  <1>6. \A j \in 1 .. n - 1 : j >= i => t[j] = s[j + 1] /\ j + 1 \in 1 .. n
    BY <1>2, <1>3
  <1>7. \A j, k \in 1 .. n : s[j].name = s[k].name => j = k
    BY <1>2 DEF Unique
  <1>8. ASSUME NEW j \in 1 .. n - 1, NEW k \in 1 .. n - 1, t[j].name = t[k].name
        PROVE  j = k
    <2>1. CASE j < i /\ k < i
      BY <1>5, <1>7, <1>8, <2>1
    <2>2. CASE j < i /\ k >= i
      <3>1. t[j] = s[j] /\ t[k] = s[k + 1] /\ j \in 1 .. n /\ k + 1 \in 1 .. n
        BY <1>5, <1>6, <2>2
      <3>2. j = k + 1
        BY <1>7, <1>8, <3>1, Zenon
      <3>3. QED
        BY <1>2, <2>2, <3>2
    <2>3. CASE j >= i /\ k < i
      <3>1. t[k] = s[k] /\ t[j] = s[j + 1] /\ k \in 1 .. n /\ j + 1 \in 1 .. n
        BY <1>5, <1>6, <2>3
      <3>2. k = j + 1
        BY <1>7, <1>8, <3>1, Zenon
      <3>3. QED
        BY <1>2, <2>3, <3>2
    <2>4. CASE j >= i /\ k >= i
      <3>1. t[k] = s[k + 1] /\ t[j] = s[j + 1] /\ k + 1 \in 1 .. n /\ j + 1 \in 1 .. n
        BY <1>6, <2>4
      <3>2. k + 1 = j + 1
        BY <1>7, <1>8, <3>1, Zenon
      <3>3. QED
        BY <3>2
    <2>5. QED
      BY <1>2, <2>1, <2>2, <2>3, <2>4
  <1>9. ToSet(t) = Kept(s, s[i].name)
    <2>1. ASSUME NEW j \in 1 .. n - 1
          PROVE  t[j] \in ToSet(s) /\ t[j].name # s[i].name
      <3>1. CASE j < i
        <4>1. t[j] = s[j] /\ j \in 1 .. n /\ j # i
          BY <1>2, <1>5, <3>1
        <4>2. s[j] \in ToSet(s)
          BY <1>2, <4>1 DEF ToSet
        <4>3. QED
          BY <1>2, <1>7, <4>1, <4>2
      <3>2. CASE j >= i
        <4>1. t[j] = s[j + 1] /\ j + 1 \in 1 .. n /\ j + 1 # i
          BY <1>2, <1>6, <3>2
        <4>2. s[j + 1] \in ToSet(s)
          BY <1>2, <4>1 DEF ToSet
        <4>3. QED
          BY <1>2, <1>7, <4>1, <4>2
      <3>3. QED
        BY <1>2, <3>1, <3>2
    <2>2. ASSUME NEW k \in 1 .. n, s[k].name # s[i].name
          PROVE  \E j \in 1 .. n - 1 : t[j] = s[k]
      <3>1. CASE k < i
        BY <1>2, <1>5, <3>1
      <3>2. CASE k > i
        <4>1. k - 1 \in 1 .. n - 1 /\ k - 1 >= i /\ k - 1 + 1 = k
          BY <1>2, <3>2
        <4>2. QED
          BY <1>6, <4>1
      <3>3. QED
        BY <1>2, <2>2, <3>1, <3>2
    <2>3. \A q : (q \in ToSet(t) <=> \E j \in 1 .. n - 1 : t[j] = q)
                 /\ (q \in ToSet(s) <=> \E k \in 1 .. n : s[k] = q)
      BY <1>2, <1>4 DEF ToSet
    <2>4. \A q \in ToSet(t) : q \in ToSet(s) /\ q.name # s[i].name
      BY <2>1, <2>3, Zenon
    <2>5. \A q \in ToSet(s) : q.name # s[i].name => q \in ToSet(t)
      BY <2>2, <2>3, Zenon
    <2>6. QED
      BY <2>4, <2>5, Zenon DEF Kept
  <1>10. QED
    BY <1>1, <1>4, <1>8, <1>9 DEF Unique

-----------------------------------------------------------------------------
(* Type correctness.                                                       *)

LEMMA EventsAre ==
    /\ \A what \in {"created", "removed", "renamed", "file created", "file removed",
                    "file moved"} : \A d, e \in Dirs : Event(what, d, e) \in EventSet
    /\ \A what, d, e : /\ Event(what, d, e).what = what /\ Event(what, d, e).dir = d
                       /\ Event(what, d, e).to = e
    /\ \A x \in EventSet : x.dir \in Dirs /\ x.to \in Dirs
  BY DEF Event, EventSet

LEMMA ItemsAre ==
    ASSUME NEW N
    PROVE  /\ \A d \in Dirs : \A kids \in Seq(RefsTo(N)) : Item(d, kids) \in ItemsOf(N)
           /\ \A d, kids : Item(d, kids).name = d /\ Item(d, kids).kids = kids
           /\ \A r \in ItemsOf(N) : r.name \in Dirs /\ r.kids \in Seq(RefsTo(N))
                                   /\ r = Item(r.name, r.kids)
  BY DEF Item, ItemsOf

LEMMA TypesAreNamed ==
    ASSUME TreeTypeOK
    PROVE  NamedIn(Nodes) /\ Seq(ItemsOf(Nodes)) = Seq(Items)
  BY DEF TreeTypeOK, NamedIn, ItemsOf, Items, RefsTo, Refs, Nodes, Nothing

LEMMA FilesAre ==
    ASSUME NEW N, NamedIn(N)
    PROVE  \A node : FilesIn(node) \in Seq(RefsTo(N))
  <1>1. <<>> \in Seq(RefsTo(N))
    OBVIOUS
  <1>2. ASSUME NEW node \in holds
        PROVE  <<node>> \in Seq(RefsTo(N))
    <2>1. node \in RefsTo(N)
      BY DEF NamedIn, RefsTo
    <2>2. QED
      BY <2>1
  <1>3. QED
    BY <1>1, <1>2 DEF FilesIn

LEMMA TellTypes ==
    ASSUME TreeTypeOK, NEW e \in EventSet, Tell(e)
    PROVE  /\ events' \in Seq(EventSet) /\ blind' \in BOOLEAN
           /\ tree' = tree /\ phase' = phase /\ opens' = opens
           /\ scanned' = scanned /\ inside' = inside /\ crashed' = crashed
  BY DEF TreeTypeOK, Tell, scan

LEMMA FolderTypes ==
    ASSUME TreeTypeOK, FolderChanges
    PROVE  TreeTypeOK'
  <1>1. ASSUME NEW d \in Dirs, AddDir(d)
        PROVE  TreeTypeOK'
    <2>1. Tell(Event("created", d, d)) /\ Event("created", d, d) \in EventSet
      BY <1>1, EventsAre DEF AddDir
    <2>2. made' = made + 1 /\ made' \in Nodes /\ made' \in 0 .. MaxNodes
      BY <1>1, ProjectTreeAssumption DEF AddDir, TreeTypeOK, Nodes
    <2>3. QED
      BY <1>1, <2>1, <2>2, TellTypes DEF AddDir, TreeTypeOK
  <1>2. ASSUME NEW d \in Dirs, RemoveDir(d)
        PROVE  TreeTypeOK'
    <2>1. Tell(Event("removed", d, d)) /\ Event("removed", d, d) \in EventSet
      BY <1>2, EventsAre DEF RemoveDir
    <2>2. QED
      BY <1>2, <2>1, TellTypes DEF RemoveDir, TreeTypeOK
  <1>3. ASSUME NEW d \in Dirs, NEW e \in Dirs, RenameDir(d, e)
        PROVE  TreeTypeOK'
    <2>1. Tell(Event("renamed", d, e)) /\ Event("renamed", d, e) \in EventSet
      BY <1>3, EventsAre DEF RenameDir
    <2>2. disk' \in [Dirs -> Nodes \cup {Nothing}]
      BY <1>3 DEF RenameDir, TreeTypeOK
    <2>3. renamedEarly' \in BOOLEAN
      BY <1>3 DEF RenameDir
    <2>4. QED
      BY <1>3, <2>1, <2>2, <2>3, TellTypes DEF RenameDir, TreeTypeOK
  <1>4. ASSUME NEW d \in Dirs, AddFile(d)
        PROVE  TreeTypeOK'
    <2>1. Tell(Event("file created", d, d)) /\ Event("file created", d, d) \in EventSet
      BY <1>4, EventsAre DEF AddFile
    <2>2. QED
      BY <1>4, <2>1, TellTypes DEF AddFile, TreeTypeOK
  <1>5. ASSUME NEW d \in Dirs, RemoveFile(d)
        PROVE  TreeTypeOK'
    <2>1. Tell(Event("file removed", d, d)) /\ Event("file removed", d, d) \in EventSet
      BY <1>5, EventsAre DEF RemoveFile
    <2>2. QED
      BY <1>5, <2>1, TellTypes DEF RemoveFile, TreeTypeOK
  <1>6. ASSUME NEW d \in Dirs, NEW e \in Dirs, MoveFile(d, e)
        PROVE  TreeTypeOK'
    <2>1. Tell(Event("file moved", d, e)) /\ Event("file moved", d, e) \in EventSet
      BY <1>6, EventsAre DEF MoveFile
    <2>2. QED
      BY <1>6, <2>1, TellTypes DEF MoveFile, TreeTypeOK
  <1>7. QED
    BY <1>1, <1>2, <1>3, <1>4, <1>5, <1>6 DEF FolderChanges

LEMMA WithKidsFact ==
    ASSUME NEW N, NEW items \in Seq(ItemsOf(N)), NEW i \in DOMAIN items, NEW kids \in Seq(RefsTo(N))
    PROVE  /\ WithKids(items, i, kids) \in Seq(ItemsOf(N))
           /\ DOMAIN WithKids(items, i, kids) = DOMAIN items
  <1>1. items[i].name \in Dirs
    BY ItemsAre
  <1>2. Item(items[i].name, kids) \in ItemsOf(N)
    BY <1>1, ItemsAre
  <1>3. QED
    BY <1>2, ReplaceRow DEF WithKids

LEMMA PlacesAre ==
    ASSUME NEW N, NamedIn(N), NEW p \in Places
    PROVE  /\ p[1] \in DOMAIN tree /\ p[2] \in DOMAIN tree[p[1]].kids
           /\ tree[p[1]].kids \in Seq(RefsTo(N)) /\ tree[p[1]].name \in Dirs
           /\ RemoveAt(tree[p[1]].kids, p[2]) \in Seq(RefsTo(N))
  <1>1. p[1] \in DOMAIN tree /\ p[2] \in DOMAIN tree[p[1]].kids
    BY DEF Places
  <1>2. tree[p[1]].kids \in Seq(RefsTo(N)) /\ tree[p[1]].name \in Dirs
    BY <1>1, ItemsAre DEF NamedIn
  <1>3. p[2] \in 1 .. Len(tree[p[1]].kids)
    BY <1>1, <1>2
  <1>4. QED
    BY <1>1, <1>2, <1>3, RemoveAtFact

LEMMA WithoutFileTypes ==
    ASSUME NEW N, NamedIn(N), NEW d \in Dirs, NEW shown \in WithoutFile(d)
    PROVE  shown \in Seq(ItemsOf(N)) /\ DOMAIN shown = DOMAIN tree
  <1>1. CASE shown = tree
    BY <1>1 DEF NamedIn
  <1>2. CASE \E p \in FileItems(d) :
                 shown = WithKids(tree, p[1], RemoveAt(tree[p[1]].kids, p[2]))
    <2>1. PICK p \in FileItems(d) :
                   shown = WithKids(tree, p[1], RemoveAt(tree[p[1]].kids, p[2]))
      BY <1>2
    <2>2. p \in Places
      BY DEF FileItems
    <2>3. tree \in Seq(ItemsOf(N))
      BY DEF NamedIn
    <2>4. QED
      BY <2>1, <2>2, <2>3, PlacesAre, WithKidsFact
  <1>3. QED
    BY <1>1, <1>2 DEF WithoutFile

LEMMA CreateFileTypes ==
    ASSUME NEW N, NamedIn(N), NEW d \in Dirs, NEW shown \in Seq(ItemsOf(N)), DOMAIN shown = DOMAIN tree,
           CreateFile(d, shown)
    PROVE  tree' \in Seq(ItemsOf(N))
  <1>1. CASE tree' = shown /\ UNCHANGED crashed
    BY <1>1 DEF NamedIn
  <1>2. CASE /\ \E i \in DirItems(d) :
                    tree' = WithKids(shown, i, Append(shown[i].kids, RefOf(d)))
             /\ UNCHANGED crashed
    <2>1. PICK i \in DOMAIN tree :
                   tree' = WithKids(shown, i, Append(shown[i].kids, RefOf(d)))
      BY <1>2 DEF DirItems
    <2>2. RefOf(d) \in RefsTo(N)
      BY DEF RefOf, RefsTo, NamedIn
    <2>3. shown[i].kids \in Seq(RefsTo(N))
      BY <2>1, ItemsAre
    <2>4. Append(shown[i].kids, RefOf(d)) \in Seq(RefsTo(N))
      BY <2>2, <2>3
    <2>5. QED
      BY <1>2, <2>1, <2>4, WithKidsFact DEF NamedIn
  <1>3. CASE crashed' = TRUE /\ UNCHANGED tree
    BY <1>3 DEF NamedIn
  <1>4. QED
    BY <1>1, <1>2, <1>3 DEF CreateFile

LEMMA ShowsTypes ==
    ASSUME TreeTypeOK, NEW what, Shows(what)
    PROVE  /\ events # <<>> /\ Head(events) \in EventSet /\ Head(events).what = what
           /\ Head(events).dir \in Dirs /\ Head(events).to \in Dirs
           /\ events' = Tail(events)
           /\ events' \in Seq(EventSet) /\ blind' \in BOOLEAN
           /\ disk' = disk /\ holds' = holds /\ made' = made /\ phase' = phase
           /\ opens' = opens /\ scanned' = scanned /\ inside' = inside
           /\ renamedEarly' = renamedEarly /\ blind' = (blind \/ phase # "open")
  <1>1. /\ events # <<>> /\ Head(events) \in EventSet /\ Head(events).what = what
        /\ events' = Tail(events) /\ events' \in Seq(EventSet)
    BY DEF Shows, TreeTypeOK
  <1>2. Head(events).dir \in Dirs /\ Head(events).to \in Dirs
    BY <1>1, EventsAre
  <1>3. blind' = (blind \/ phase # "open") /\ blind' \in BOOLEAN
    BY DEF Shows
  <1>4. QED
    BY <1>1, <1>2, <1>3 DEF Shows, onDisk, scan

(* A step of the browser names no other nodes.                             *)
LEMMA HandlingNames ==
    ASSUME TreeTypeOK, NEW N, NamedIn(N), HandleEvent
    PROVE  tree' \in Seq(ItemsOf(N))
  <1> tree \in Seq(ItemsOf(N))
    BY DEF NamedIn
  <1>1. ASSUME Shows("created"), CreateDir(Head(events).dir)
        PROVE  tree' \in Seq(ItemsOf(N))
    <2>1. Item(Head(events).dir, FilesIn(disk[Head(events).dir])) \in ItemsOf(N)
      BY <1>1, ShowsTypes, ItemsAre, FilesAre
    <2>2. Append(tree, Item(Head(events).dir, FilesIn(disk[Head(events).dir])))
              \in Seq(ItemsOf(N))
      BY <2>1
    <2>3. QED
      BY <1>1, <2>2 DEF CreateDir
  <1>2. ASSUME Shows("file created"), CreateFile(Head(events).dir, tree)
        PROVE  tree' \in Seq(ItemsOf(N))
    BY <1>2, ShowsTypes, CreateFileTypes
  <1>3. ASSUME Shows("removed"), tree' \in WithoutDir(Head(events).dir)
        PROVE  tree' \in Seq(ItemsOf(N))
    <2>1. CASE tree' = tree
      BY <2>1
    <2>2. CASE \E i \in DirItems(Head(events).dir) : tree' = RemoveAt(tree, i)
      <3>1. PICK i \in 1 .. Len(tree) : tree' = RemoveAt(tree, i)
        BY <2>2 DEF DirItems
      <3>2. QED
        BY <3>1, RemoveAtFact
    <2>3. QED
      BY <1>3, <2>1, <2>2 DEF WithoutDir
  <1>4. ASSUME Shows("file removed"), tree' \in WithoutFile(Head(events).dir)
        PROVE  tree' \in Seq(ItemsOf(N))
    BY <1>4, ShowsTypes, WithoutFileTypes
  <1>5. CASE Renamed
    <2>1. ASSUME NEW i \in DOMAIN tree
          PROVE  [tree EXCEPT ![i] = Item(Head(events).to, tree[i].kids)] \in Seq(ItemsOf(N))
      <3>1. tree[i].kids \in Seq(RefsTo(N))
        BY ItemsAre
      <3>2. Item(Head(events).to, tree[i].kids) \in ItemsOf(N)
        BY <1>5, <3>1, ShowsTypes, ItemsAre DEF Renamed
      <3>3. QED
        BY <3>2, ReplaceRow
    <2>2. QED
      BY <1>5, <2>1 DEF Renamed, DirItems
  <1>6. CASE Moved
    <2>1. PICK shown \in WithoutFile(Head(events).dir) : CreateFile(Head(events).to, shown)
      BY <1>6 DEF Moved
    <2>2. QED
      BY <1>6, <2>1, ShowsTypes, WithoutFileTypes, CreateFileTypes DEF Moved
  <1>7. QED
    BY <1>1, <1>2, <1>3, <1>4, <1>5, <1>6 DEF HandleEvent, EntryCreated, EntryRemoved

OpenSteps == \/ Open \/ Depopulate \/ ScanEnds \/ StartMonitor \/ ScanInside
           \/ \E d \in Dirs : ScanEntry(d)

LEMMA OpeningNames ==
    ASSUME TreeTypeOK, NEW N, NamedIn(N), OpenSteps
    PROVE  tree' \in Seq(ItemsOf(N))
  <1> tree \in Seq(ItemsOf(N))
    BY DEF NamedIn
  <1>1. CASE Open \/ Depopulate
    <2>1. tree' = <<>>
      BY <1>1 DEF Open, Depopulate
    <2>2. QED
      BY <2>1
  <1>2. CASE ScanEnds \/ StartMonitor
    BY <1>2 DEF ScanEnds, StartMonitor
  <1>3. CASE ScanInside
    <2>1. ASSUME NEW i \in DOMAIN tree
          PROVE  tree[i] \in ItemsOf(N) /\
                 Item(tree[i].name, tree[i].kids \o FilesIn(inside[2])) \in ItemsOf(N)
      <3>1. tree[i] \in ItemsOf(N) /\ tree[i].name \in Dirs /\ tree[i].kids \in Seq(RefsTo(N))
        BY ItemsAre
      <3>2. tree[i].kids \o FilesIn(inside[2]) \in Seq(RefsTo(N))
        BY <3>1, FilesAre, ConcatProperties
      <3>3. QED
        BY <3>1, <3>2, ItemsAre
    <2>2. tree' \in [DOMAIN tree -> ItemsOf(N)]
      BY <1>3, <2>1 DEF ScanInside
    <2>3. QED
      BY <2>2
  <1>4. ASSUME NEW d \in Dirs, ScanEntry(d)
        PROVE  tree' \in Seq(ItemsOf(N))
    <2>1. <<>> \in Seq(RefsTo(N))
      OBVIOUS
    <2>2. Item(d, <<>>) \in ItemsOf(N)
      BY <2>1, ItemsAre
    <2>3. QED
      BY <1>4, <2>2 DEF ScanEntry
  <1>5. QED
    BY <1>1, <1>2, <1>3, <1>4 DEF OpenSteps

LEMMA HandleTypes ==
    ASSUME TreeTypeOK, HandleEvent
    PROVE  TreeTypeOK'
  <1>1. tree' \in Seq(Items)
    BY HandlingNames, TypesAreNamed
  <1>2. crashed' \in BOOLEAN
    BY DEF HandleEvent, EntryCreated, EntryRemoved, Renamed, Moved, CreateDir, CreateFile,
           TreeTypeOK
  <1>3. \E what : Shows(what)
    BY DEF HandleEvent, EntryCreated, EntryRemoved, Renamed, Moved
  <1>4. QED
    BY <1>1, <1>2, <1>3, ShowsTypes DEF TreeTypeOK

LEMMA TreeOpeningTypes ==
    ASSUME TreeTypeOK, OpenSteps
    PROVE  TreeTypeOK'
  <1>0. tree' \in Seq(Items)
    BY OpeningNames, TypesAreNamed
  <1>1. CASE Open
    <2>1. opens' \in 0 .. MaxOpens
      BY <1>1, ProjectTreeAssumption DEF Open, TreeTypeOK
    <2>2. scanned' \subseteq Dirs /\ inside' = <<>>
      BY <1>1 DEF Open
    <2>3. QED
      BY <1>0, <1>1, <2>1, <2>2 DEF Open, TreeTypeOK, Phases, onDisk
  <1>2. CASE Depopulate
    BY <1>0, <1>2 DEF Depopulate, TreeTypeOK, Phases, onDisk, ghosts
  <1>3. CASE ScanEnds
    BY <1>3 DEF ScanEnds, TreeTypeOK, Phases, onDisk, ghosts
  <1>4. CASE StartMonitor
    BY <1>4 DEF StartMonitor, TreeTypeOK, Phases, onDisk
  <1>5. CASE ScanInside
    BY <1>0, <1>5 DEF ScanInside, TreeTypeOK, onDisk, ghosts
  <1>6. ASSUME NEW d \in Dirs, ScanEntry(d)
        PROVE  TreeTypeOK'
    <2>1. inside' \in {<<>>} \cup (Dirs \X Nodes)
      BY <1>6 DEF ScanEntry, TreeTypeOK
    <2>2. QED
      BY <1>0, <1>6, <2>1 DEF ScanEntry, TreeTypeOK, onDisk, ghosts
  <1>7. QED
    BY <1>1, <1>2, <1>3, <1>4, <1>5, <1>6 DEF OpenSteps

LEMMA TreeTypeStep ==
    ASSUME TreeTypeOK, [TreeNext]_treeVars
    PROVE  TreeTypeOK'
  <1>1. CASE UNCHANGED treeVars
    BY <1>1 DEF treeVars, onDisk, scan, ghosts, TreeTypeOK
  <1>2. CASE TreeNext
    BY <1>2, FolderTypes, HandleTypes, TreeOpeningTypes DEF TreeNext, OpenSteps
  <1>3. QED
    BY <1>1, <1>2

-----------------------------------------------------------------------------
(* The disk.                                                               *)

LEMMA MoreNodes ==
    ASSUME NEW M, NEW N, M \subseteq N
    PROVE  Seq(ItemsOf(M)) \subseteq Seq(ItemsOf(N))
  <1>1. \A kids \in Seq(RefsTo(M)) : kids \in Seq(RefsTo(N))
    BY DEF RefsTo
  <1>2. ItemsOf(M) \subseteq ItemsOf(N)
    BY <1>1 DEF ItemsOf
  <1>3. QED
    BY <1>2

LEMMA FolderDisk ==
    ASSUME TreeTypeOK, DiskIsSound, FolderChanges
    PROVE  DiskIsSound'
  <1>1. made \in Nat /\ tree' = tree /\ NamedIn(1 .. made) /\ tree \in Seq(ItemsOf(1 .. made))
    <2>1. \E e : Tell(e)
      BY DEF FolderChanges, AddDir, RemoveDir, RenameDir, AddFile, RemoveFile, MoveFile
    <2>2. tree' = tree
      BY <2>1 DEF Tell
    <2>3. made \in Nat
      BY DEF TreeTypeOK
    <2>4. QED
      BY <2>2, <2>3 DEF DiskIsSound, NamedIn
  <1>2. ASSUME NEW d \in Dirs, AddDir(d)
        PROVE  DiskIsSound'
    <2>1. /\ made' = made + 1 /\ disk' = [disk EXCEPT ![d] = made + 1]
          /\ holds' \subseteq holds \cup {made + 1}
      BY <1>2 DEF AddDir
    <2>2. tree \in Seq(ItemsOf(1 .. made + 1))
      <3>1. 1 .. made \subseteq 1 .. made + 1
        BY <1>1
      <3>2. QED
        BY <1>1, <3>1, MoreNodes
    <2>3. /\ disk' \in [Dirs -> (1 .. made + 1) \cup {Nothing}]
          /\ holds' \subseteq 1 .. made + 1 /\ Nothing \notin 1 .. made + 1
      BY <1>1, <2>1 DEF NamedIn, Nothing
    <2>4. \A e, f \in Dirs : disk'[e] = disk'[f] /\ disk'[e] # Nothing => e = f
      BY <1>1, <2>1 DEF DiskIsSound, NamedIn, Nothing
    <2>5. NamedIn(1 .. made)'
      BY <1>1, <2>1, <2>2, <2>3 DEF NamedIn
    <2>6. QED
      BY <2>4, <2>5 DEF DiskIsSound
  <1>3. ASSUME NEW d \in Dirs, RemoveDir(d)
        PROVE  DiskIsSound'
    BY <1>1, <1>3 DEF RemoveDir, DiskIsSound, NamedIn
  <1>4. ASSUME NEW d \in Dirs, NEW e \in Dirs, RenameDir(d, e)
        PROVE  DiskIsSound'
    BY <1>1, <1>4 DEF RenameDir, DiskIsSound, NamedIn
  <1>5. ASSUME NEW d \in Dirs, AddFile(d) \/ RemoveFile(d) \/ \E e \in Dirs : MoveFile(d, e)
        PROVE  DiskIsSound'
    <2>1. disk' = disk /\ made' = made
      BY <1>5 DEF AddFile, RemoveFile, MoveFile
    <2>a. \A e \in Dirs : disk[e] # Nothing => disk[e] \in 1 .. made
      BY <1>1 DEF NamedIn
    <2>b. \E e \in Dirs : disk[e] # Nothing /\ holds' \subseteq holds \cup {disk[e]}
      <3>1. disk[d] # Nothing
        BY <1>1, <1>5 DEF AddFile, RemoveFile, MoveFile, NamedIn
      <3>2. CASE AddFile(d) \/ RemoveFile(d)
        BY <3>1, <3>2 DEF AddFile, RemoveFile
      <3>3. CASE \E e \in Dirs : MoveFile(d, e)
        BY <3>3 DEF MoveFile
      <3>4. QED
        BY <1>5, <3>2, <3>3
    <2>2. holds' \subseteq 1 .. made
      BY <1>1, <2>a, <2>b DEF NamedIn
    <2>3. QED
      BY <1>1, <2>1, <2>2 DEF DiskIsSound, NamedIn
  <1>6. QED
    BY <1>2, <1>3, <1>4, <1>5 DEF FolderChanges

LEMMA DiskStep ==
    ASSUME TreeTypeOK, DiskIsSound, [TreeNext]_treeVars
    PROVE  DiskIsSound'
  <1>1. CASE UNCHANGED treeVars
    BY <1>1 DEF treeVars, onDisk, DiskIsSound, NamedIn
  <1>2. CASE HandleEvent \/ OpenSteps
    <2>1. disk' = disk /\ holds' = holds /\ made' = made
      BY <1>2 DEF HandleEvent, EntryCreated, EntryRemoved, Renamed, Moved, Shows, OpenSteps, Open,
                  Depopulate, ScanEnds, StartMonitor, ScanInside, ScanEntry, onDisk
    <2>2. PICK N : N = 1 .. made
      OBVIOUS
    <2>3. tree' \in Seq(ItemsOf(N))
      BY <1>2, <2>2, HandlingNames, OpeningNames DEF DiskIsSound
    <2>4. QED
      BY <2>1, <2>2, <2>3 DEF DiskIsSound, NamedIn
  <1>3. CASE FolderChanges
    BY <1>3, FolderDisk
  <1>4. QED
    BY <1>1, <1>2, <1>3 DEF TreeNext, OpenSteps

-----------------------------------------------------------------------------
(* The scan.                                                               *)

LEMMA TreeTyped ==
    ASSUME TreeTypeOK, DiskIsSound
    PROVE  /\ tree \in Seq(Items) /\ DOMAIN tree = 1 .. Len(tree)
           /\ \A i \in DOMAIN tree : /\ tree[i] \in ToSet(tree)
                                     /\ tree[i].name \in Dirs /\ tree[i].kids \in Seq(Refs)
           /\ \A r \in ToSet(tree) : /\ \E i \in DOMAIN tree : tree[i] = r
                                     /\ r \in Items /\ r.name \in Dirs /\ r.kids \in Seq(Refs)
           /\ Names(tree) \subseteq Dirs
           /\ \A d : FilesIn(d) \in Seq(Refs)
           /\ \A d \in Dirs : disk[d] = Nothing => FilesIn(disk[d]) = <<>>
  <1>1. tree \in Seq(Items)
    BY DEF TreeTypeOK
  <1>2. \A r \in ToSet(tree) : /\ \E i \in DOMAIN tree : tree[i] = r
                               /\ r \in Items /\ r.name \in Dirs /\ r.kids \in Seq(Refs)
    <2>1. \A r \in Items : r.name \in Dirs /\ r.kids \in Seq(Refs)
      BY DEF Items
    <2>2. QED
      BY <1>1, <2>1, RowsOf
  <1>3. \A i \in DOMAIN tree : tree[i] \in ToSet(tree)
    BY <1>1, RowsOf
  <1>4. Names(tree) \subseteq Dirs
    BY <1>2 DEF Names
  <1>5. \A d : FilesIn(d) \in Seq(Refs)
    BY FilesAre, TypesAreNamed DEF RefsTo, Refs
  <1>6. \A d \in Dirs : disk[d] = Nothing => FilesIn(disk[d]) = <<>>
    BY DEF DiskIsSound, NamedIn, FilesIn
  <1>7. QED
    BY <1>1, <1>2, <1>3, <1>4, <1>5, <1>6

LEMMA ScanInsideStep ==
    ASSUME TreeTypeOK, DiskIsSound, ScanIsTrue, ScanInside
    PROVE  ScanIsTrue'
  <1>1. SUFFICES ASSUME ~blind
                 PROVE  ScanIsTrue'
    BY DEF ScanInside, ghosts, ScanIsTrue
  <1>2. /\ phase = "scans" /\ inside # <<>> /\ inside' = <<>> /\ disk' = disk /\ holds' = holds
        /\ phase' = "scans" /\ scanned' = scanned
    BY DEF ScanInside, onDisk
  <1>3. /\ Unique(tree) /\ Names(tree) = scanned \cap OnDisk
        /\ \A r \in ToSet(tree) :
               r.kids = IF inside # <<>> /\ r.name = inside[1] THEN <<>>
                        ELSE FilesIn(disk[r.name])
        /\ inside[2] = disk[inside[1]]
    BY <1>1, <1>2 DEF ScanIsTrue
  <1>4. DOMAIN tree' = DOMAIN tree
    BY DEF ScanInside
  <1>5. ASSUME NEW i \in DOMAIN tree
        PROVE  tree'[i].name = tree[i].name /\ tree'[i].kids = FilesIn(disk[tree[i].name])
    <2>1. tree[i] \in ToSet(tree) /\ tree[i].kids \in Seq(Refs)
      BY TreeTyped
    <2>2. CASE tree[i].name = inside[1]
      <3>1. \A k \in DOMAIN tree : tree[k].name = inside[1] => k = i
        BY <1>3, <2>2 DEF Unique
      <3>2. i <= i
        BY TreeTyped
      <3>3. tree'[i] = Item(tree[i].name, tree[i].kids \o FilesIn(inside[2]))
        BY <2>2, <3>1, <3>2 DEF ScanInside
      <3>4. tree[i].kids = <<>>
        BY <1>2, <1>3, <2>1, <2>2
      <3>5. <<>> \o FilesIn(inside[2]) = FilesIn(inside[2])
        BY TreeTyped
      <3>6. QED
        BY <1>3, <2>2, <3>3, <3>4, <3>5, ItemsAre
    <2>3. CASE tree[i].name # inside[1]
      <3>1. tree'[i] = tree[i]
        BY <2>3 DEF ScanInside
      <3>2. QED
        BY <1>3, <2>1, <2>3, <3>1
    <2>4. QED
      BY <2>2, <2>3
  <1>6. Unique(tree')
    BY <1>3, <1>4, <1>5 DEF Unique
  <1>7. Names(tree') = Names(tree)
    BY <1>4, <1>5 DEF Names, ToSet
  <1>8. \A r \in ToSet(tree') : r.kids = FilesIn(disk[r.name])
    BY <1>4, <1>5 DEF ToSet
  <1>9. QED
    BY <1>2, <1>3, <1>6, <1>7, <1>8 DEF ScanIsTrue, OnDisk, FilesIn, Names, Unique

LEMMA ScanEntryStep ==
    ASSUME TreeTypeOK, DiskIsSound, ScanIsTrue, NEW d \in Dirs, ScanEntry(d)
    PROVE  ScanIsTrue'
  <1>1. SUFFICES ASSUME ~blind
                 PROVE  ScanIsTrue'
    BY DEF ScanEntry, ghosts, ScanIsTrue
  <1>2. /\ phase = "scans" /\ inside = <<>> /\ d \notin scanned /\ scanned' = scanned \cup {d}
        /\ phase' = "scans" /\ disk' = disk /\ holds' = holds
        /\ tree' = IF disk[d] = Nothing THEN tree ELSE Append(tree, Item(d, <<>>))
        /\ inside' = IF disk[d] = Nothing THEN <<>> ELSE <<d, disk[d]>>
    BY DEF ScanEntry, onDisk
  <1>3. /\ Unique(tree) /\ Names(tree) = scanned \cap OnDisk
        /\ \A r \in ToSet(tree) : r.kids = FilesIn(disk[r.name])
    BY <1>1, <1>2 DEF ScanIsTrue
  <1>4. CASE disk[d] = Nothing
    BY <1>2, <1>3, <1>4 DEF ScanIsTrue, OnDisk, FilesIn, Names, Unique
  <1>5. CASE disk[d] # Nothing
    <2>1. tree' = Append(tree, Item(d, <<>>)) /\ inside' = <<d, disk[d]>> /\ d \in OnDisk
      BY <1>2, <1>5 DEF OnDisk
    <2>2. <<>> \in Seq(Refs)
      OBVIOUS
    <2>3. Item(d, <<>>) \in Items /\ Item(d, <<>>).name = d /\ Item(d, <<>>).kids = <<>>
      BY <2>2 DEF Item, Items
    <2>4. d \notin Names(tree)
      BY <1>2, <1>3
    <2>5. Unique(tree') /\ ToSet(tree') = ToSet(tree) \cup {Item(d, <<>>)}
      BY <2>1, <2>3, <2>4, <1>3, TreeTyped, AppendRows
    <2>6. Names(tree') = Names(tree) \cup {d}
      BY <2>3, <2>5 DEF Names
    <2>7. OnDisk' = OnDisk /\ \A n : FilesIn(n)' = FilesIn(n)
      BY <1>2 DEF OnDisk, FilesIn
    <2>8. \A r \in ToSet(tree') : r.kids = IF r.name = d THEN <<>> ELSE FilesIn(disk[r.name])
      BY <1>3, <2>3, <2>4, <2>5 DEF Names
    <2>9. inside' # <<>> /\ inside'[1] = d /\ inside'[2] = disk[d]
      BY <2>1
    <2>10. QED
      BY <1>2, <1>3, <2>1, <2>5, <2>6, <2>7, <2>8, <2>9 DEF ScanIsTrue, FilesIn
  <1>6. QED
    BY <1>4, <1>5

LEMMA ScanStep ==
    ASSUME TreeTypeOK, DiskIsSound, ScanIsTrue, [TreeNext]_treeVars
    PROVE  ScanIsTrue'
  <1>1. CASE UNCHANGED treeVars
    BY <1>1 DEF treeVars, onDisk, scan, ghosts, ScanIsTrue, Unique, Names, OnDisk, FilesIn
  <1>2. CASE FolderChanges
    <2>1. \E e : Tell(e)
      BY <1>2 DEF FolderChanges, AddDir, RemoveDir, RenameDir, AddFile, RemoveFile, MoveFile
    <2>2. phase' \in {"scans", "listed"} => blind'
      BY <2>1 DEF Tell, scan
    <2>3. QED
      BY <2>2 DEF ScanIsTrue
  <1>3. CASE HandleEvent
    <2>1. \E what : Shows(what)
      BY <1>3 DEF HandleEvent, EntryCreated, EntryRemoved, Renamed, Moved
    <2>2. phase' \in {"scans", "listed"} => blind'
      BY <2>1 DEF Shows, scan
    <2>3. QED
      BY <2>2 DEF ScanIsTrue
  <1>4. CASE Open
    <2>1. /\ phase' = "scans" /\ tree' = <<>> /\ scanned' = {} /\ inside' = <<>>
      BY <1>4 DEF Open
    <2>2. ToSet(tree') = {} /\ Unique(tree') /\ Names(tree') = {}
      BY <2>1 DEF ToSet, Unique, Names
    <2>3. QED
      BY <2>1, <2>2 DEF ScanIsTrue
  <1>5. CASE Depopulate \/ StartMonitor
    BY <1>5 DEF Depopulate, StartMonitor, ScanIsTrue
  <1>6. CASE ScanEnds
    BY <1>6 DEF ScanEnds, onDisk, ghosts, ScanIsTrue, Unique, Names, OnDisk, FilesIn
  <1>7. QED
    BY <1>1, <1>2, <1>3, <1>4, <1>5, <1>6, ScanInsideStep, ScanEntryStep DEF TreeNext

-----------------------------------------------------------------------------
(* The events that wait, and the names.                                    *)

LEMMA LeadNone ==
    ASSUME NEW A \in SUBSET Dirs, NEW B
    PROVE  Lead(<<>>, A, B) <=> A = B
  <1>1. Len(<<>>) = 0 /\ 1 .. 0 = {}
    OBVIOUS
  <1>2. ASSUME A = B
        PROVE  Lead(<<>>, A, B)
    <2>1. PICK S : S = [i \in 0 .. 0 |-> A]
      OBVIOUS
    <2>2. S \in [0 .. 0 -> SUBSET Dirs] /\ S[0] = A
      BY <2>1
    <2>3. QED
      BY <1>1, <1>2, <2>2 DEF Lead
  <1>3. QED
    BY <1>1, <1>2 DEF Lead

LEMMA LeadAppend ==
    ASSUME NEW w \in Seq(EventSet), NEW e \in EventSet, NEW A, NEW B, NEW C \in SUBSET Dirs,
           Lead(w, A, B), Legal(e, B, C)
    PROVE  Lead(Append(w, e), A, C)
  <1>1. PICK S \in [0 .. Len(w) -> SUBSET Dirs] :
            /\ S[0] = A /\ S[Len(w)] = B
            /\ \A i \in 1 .. Len(w) : Legal(w[i], S[i - 1], S[i])
    BY DEF Lead
  <1>2. PICK n, v : n = Len(w) /\ v = Append(w, e)
    OBVIOUS
  <1>3. /\ n \in Nat /\ Len(v) = n + 1 /\ v[n + 1] = e /\ \A i \in 1 .. n : v[i] = w[i]
        /\ S \in [0 .. n -> SUBSET Dirs] /\ S[0] = A /\ S[n] = B
        /\ \A i \in 1 .. n : Legal(w[i], S[i - 1], S[i])
    BY <1>1, <1>2, AppendProperties
  <1>4. PICK T : T = [i \in 0 .. n + 1 |-> IF i = n + 1 THEN C ELSE S[i]]
    OBVIOUS
  <1>5. /\ T \in [0 .. n + 1 -> SUBSET Dirs] /\ T[n + 1] = C
        /\ \A i \in 0 .. n : T[i] = S[i]
    BY <1>3, <1>4
  <1>6. T[0] = A /\ T[n] = B
    BY <1>3, <1>5
  <1>7. ASSUME NEW i \in 1 .. n + 1
        PROVE  Legal(v[i], T[i - 1], T[i])
    <2>1. CASE i = n + 1
      <3>1. v[i] = e /\ T[i - 1] = B /\ T[i] = C
        BY <1>3, <1>5, <1>6, <2>1
      <3>2. QED
        BY <3>1
    <2>2. CASE i \in 1 .. n
      <3>1. i \in 0 .. n /\ i - 1 \in 0 .. n
        BY <1>3, <2>2
      <3>2. v[i] = w[i] /\ T[i - 1] = S[i - 1] /\ T[i] = S[i]
        BY <1>3, <1>5, <2>2, <3>1
      <3>3. QED
        BY <1>3, <2>2, <3>2
    <2>3. QED
      BY <1>3, <2>1, <2>2
  <1>8. \E S1 \in [0 .. n + 1 -> SUBSET Dirs] :
            /\ S1[0] = A /\ S1[n + 1] = C
            /\ \A i \in 1 .. n + 1 : Legal(v[i], S1[i - 1], S1[i])
    BY <1>5, <1>6, <1>7
  <1>9. Lead(v, A, C)
    BY <1>3, <1>8, Zenon DEF Lead
  <1>10. QED
    BY <1>2, <1>9

LEMMA LeadTail ==
    ASSUME NEW w \in Seq(EventSet), w # <<>>, NEW A, NEW B, Lead(w, A, B)
    PROVE  \E C \in SUBSET Dirs : Legal(Head(w), A, C) /\ Lead(Tail(w), C, B)
  <1>1. PICK S \in [0 .. Len(w) -> SUBSET Dirs] :
            /\ S[0] = A /\ S[Len(w)] = B
            /\ \A i \in 1 .. Len(w) : Legal(w[i], S[i - 1], S[i])
    BY DEF Lead
  <1>2. PICK n, v : n = Len(w) /\ v = Tail(w)
    OBVIOUS
  <1>3. /\ n \in Nat \ {0} /\ Len(v) = n - 1 /\ Head(w) = w[1]
        /\ \A i \in 1 .. n - 1 : v[i] = w[i + 1]
        /\ S \in [0 .. n -> SUBSET Dirs] /\ S[0] = A /\ S[n] = B
        /\ \A i \in 1 .. n : Legal(w[i], S[i - 1], S[i])
    BY <1>1, <1>2
  <1>4. PICK T : T = [i \in 0 .. n - 1 |-> S[i + 1]]
    OBVIOUS
  <1>5. /\ T \in [0 .. n - 1 -> SUBSET Dirs]
        /\ \A i \in 0 .. n - 1 : T[i] = S[i + 1]
    BY <1>3, <1>4
  <1>6. T[0] = S[1] /\ T[n - 1] = B /\ S[1] \in SUBSET Dirs
    BY <1>3, <1>5
  <1>7. ASSUME NEW i \in 1 .. n - 1
        PROVE  Legal(v[i], T[i - 1], T[i])
    <2>1. i + 1 \in 1 .. n /\ i \in 0 .. n - 1 /\ i - 1 \in 0 .. n - 1 /\ i + 1 - 1 = i
          /\ i - 1 + 1 = i
      BY <1>3
    <2>2. v[i] = w[i + 1] /\ T[i - 1] = S[i] /\ T[i] = S[i + 1]
      BY <1>3, <1>5, <2>1
    <2>3. Legal(w[i + 1], S[i], S[i + 1])
      BY <1>3, <2>1
    <2>4. QED
      BY <2>2, <2>3
  <1>8. \E S1 \in [0 .. n - 1 -> SUBSET Dirs] :
            /\ S1[0] = S[1] /\ S1[n - 1] = B
            /\ \A i \in 1 .. n - 1 : Legal(v[i], S1[i - 1], S1[i])
    BY <1>5, <1>6, <1>7
  <1>9. Lead(v, S[1], B)
    BY <1>3, <1>8, Zenon DEF Lead
  <1>10. Legal(w[1], A, S[1])
    <2>1. 1 \in 1 .. n /\ 1 - 1 = 0
      BY <1>3
    <2>2. QED
      BY <1>3, <2>1
  <1>11. QED
    BY <1>2, <1>3, <1>6, <1>9, <1>10

(* A directory stays where it is while no event takes it away.             *)
LEMMA LeadStays ==
    ASSUME NEW w \in Seq(EventSet), NEW A, NEW B, Lead(w, A, B), NEW d \in A,
           \A e \in ToSet(w) : ~ (e.what \in {"removed", "renamed"} /\ e.dir = d)
    PROVE  d \in B
  <1>1. PICK S \in [0 .. Len(w) -> SUBSET Dirs] :
            /\ S[0] = A /\ S[Len(w)] = B
            /\ \A i \in 1 .. Len(w) : Legal(w[i], S[i - 1], S[i])
    BY DEF Lead
  <1>2. PICK n, P : n = Len(w) /\ P = {m \in Nat : m <= n => d \in S[m]}
    OBVIOUS
  <1>3. n \in Nat /\ S[0] = A /\ S[n] = B /\ DOMAIN w = 1 .. n
        /\ \A i \in 1 .. n : Legal(w[i], S[i - 1], S[i])
    BY <1>1, <1>2
  <1>4. 0 \in P
    BY <1>2, <1>3
  <1>5. ASSUME NEW m \in Nat, m \in P
        PROVE  m + 1 \in P
    <2>1. CASE m + 1 <= n
      <3>1. m + 1 \in 1 .. n /\ m <= n /\ m + 1 - 1 = m
        BY <1>3, <2>1
      <3>2. d \in S[m] /\ Legal(w[m + 1], S[m], S[m + 1])
        BY <1>2, <1>3, <1>5, <3>1
      <3>3. w[m + 1] \in ToSet(w)
        BY <1>3, <3>1 DEF ToSet
      <3>4. d \in S[m + 1]
        BY <3>2, <3>3 DEF Legal
      <3>5. QED
        BY <1>2, <3>4
    <2>2. CASE ~ (m + 1 <= n)
      BY <1>2, <2>2
    <2>3. QED
      BY <2>1, <2>2
  <1>6. n \in P
    BY <1>3, <1>4, <1>5, NatInduct, Zenon
  <1>7. QED
    BY <1>2, <1>3, <1>6

-----------------------------------------------------------------------------
(* What a handler does to the items, while their names are unique.         *)

(* The item at i gets other kids.                                          *)
LEMMA KidsRows ==
    ASSUME NEW items \in Seq(Items), Unique(items), NEW i \in DOMAIN items,
           NEW kids \in Seq(Refs)
    PROVE  /\ WithKids(items, i, kids) \in Seq(Items) /\ Unique(WithKids(items, i, kids))
           /\ DOMAIN WithKids(items, i, kids) = DOMAIN items
           /\ \A j \in DOMAIN items : WithKids(items, i, kids)[j].name = items[j].name
           /\ ToSet(WithKids(items, i, kids)) =
                  Kept(items, items[i].name) \cup {Item(items[i].name, kids)}
           /\ Names(WithKids(items, i, kids)) = Names(items)
  <1>1. PICK r, t : r = Item(items[i].name, kids) /\ t = [items EXCEPT ![i] = r]
    OBVIOUS
  <1>2. r \in Items /\ r.name = items[i].name
    <2>1. items[i] \in Items
      BY RowsOf
    <2>2. QED
      BY <1>1, <2>1 DEF Item, Items
  <1>4. /\ t \in Seq(Items) /\ DOMAIN t = DOMAIN items /\ t[i] = r
        /\ \A j \in DOMAIN items : j # i => t[j] = items[j]
    BY <1>1, <1>2
  <1>3. t \in Seq(Items) /\ Unique(t) /\ ToSet(t) = Kept(items, items[i].name) \cup {r}
    BY <1>2, <1>4, ReplaceRows
  <1>5. \A j \in DOMAIN items : t[j].name = items[j].name
    BY <1>2, <1>4
  <1>6. Names(t) = Names(items)
    BY <1>4, <1>5 DEF Names, ToSet
  <1>7. t = WithKids(items, i, kids)
    BY <1>1 DEF WithKids
  <1>8. QED
    BY <1>1, <1>3, <1>4, <1>5, <1>6, <1>7

SameNames(shown) ==
    /\ shown \in Seq(Items) /\ Unique(shown) /\ Names(shown) = Names(tree)
    /\ DOMAIN shown = DOMAIN tree /\ \A i \in DOMAIN tree : shown[i].name = tree[i].name

(* A file goes from the item that has it.                                  *)
LEMMA WithoutFileRows ==
    ASSUME TreeTypeOK, DiskIsSound, Unique(tree), NEW d \in Dirs, NEW shown \in WithoutFile(d)
    PROVE  /\ SameNames(shown)
           /\ \/ /\ shown = tree
                 /\ disk[d] # Nothing =>
                        \A r \in ToSet(tree) : \A k \in DOMAIN r.kids : r.kids[k] # disk[d]
              \/ \E r \in ToSet(tree) : \E k \in DOMAIN r.kids :
                     /\ disk[d] # Nothing /\ r.kids[k] = disk[d]
                     /\ ToSet(shown) = Kept(tree, r.name)
                                           \cup {Item(r.name, RemoveAt(r.kids, k))}
  <1>1. tree \in Seq(Items)
    BY DEF TreeTypeOK
  <1>2. CASE FileItems(d) = {}
    <2>1. shown = tree
      BY <1>2 DEF WithoutFile
    <2>2. SameNames(shown)
      BY <1>1, <2>1 DEF SameNames
    <2>3. ASSUME disk[d] # Nothing, NEW r \in ToSet(tree), NEW k \in DOMAIN r.kids
          PROVE  r.kids[k] # disk[d]
      <3>1. PICK i \in DOMAIN tree : tree[i] = r
        BY <2>3 DEF ToSet
      <3>2. <<i, k>> \in Places
        BY <3>1 DEF Places
      <3>3. <<i, k>> \notin FileItems(d)
        BY <1>2
      <3>4. QED
        BY <2>3, <3>1, <3>2, <3>3 DEF FileItems
    <2>4. QED
      BY <2>1, <2>2, <2>3
  <1>3. CASE FileItems(d) # {}
    <2>1. PICK p \in FileItems(d) :
              shown = WithKids(tree, p[1], RemoveAt(tree[p[1]].kids, p[2]))
      BY <1>3 DEF WithoutFile
    <2>2. p \in Places /\ disk[d] # Nothing /\ tree[p[1]].kids[p[2]] = disk[d]
      BY DEF FileItems
    <2>3. PICK i, k : i = p[1] /\ k = p[2]
      OBVIOUS
    <2>4. /\ i \in DOMAIN tree /\ k \in DOMAIN tree[i].kids
          /\ RemoveAt(tree[i].kids, k) \in Seq(Refs)
      BY <2>2, <2>3, PlacesAre, TypesAreNamed DEF RefsTo, Refs
    <2>5. shown = WithKids(tree, i, RemoveAt(tree[i].kids, k))
      BY <2>1, <2>3
    <2>6. SameNames(shown) /\ ToSet(shown) = Kept(tree, tree[i].name)
                                  \cup {Item(tree[i].name, RemoveAt(tree[i].kids, k))}
      BY <1>1, <2>4, <2>5, KidsRows DEF SameNames
    <2>7. tree[i] \in ToSet(tree) /\ tree[i].kids[k] = disk[d]
      BY <2>2, <2>3, <2>4 DEF ToSet
    <2>8. QED
      BY <2>2, <2>4, <2>6, <2>7
  <1>4. QED
    BY <1>2, <1>3

(* A file comes under the item of the directory, unless it is in the tree. *)
LEMMA CreateFileRows ==
    ASSUME TreeTypeOK, DiskIsSound, Unique(tree), NEW d \in Dirs, d \in Names(tree),
           NEW shown, SameNames(shown), CreateFile(d, shown)
    PROVE  /\ SameNames(tree') /\ crashed' = crashed
           /\ \/ /\ tree' = shown /\ disk[d] # Nothing
                 /\ \E r \in ToSet(tree) : \E k \in DOMAIN r.kids : r.kids[k] = disk[d]
              \/ /\ disk[d] # Nothing =>
                        \A r \in ToSet(tree) : \A k \in DOMAIN r.kids : r.kids[k] # disk[d]
                 /\ \E r \in ToSet(shown) :
                        /\ r.name = d
                        /\ ToSet(tree') = Kept(shown, d)
                                              \cup {Item(d, Append(r.kids, RefOf(d)))}
  <1>1. PICK j \in DOMAIN tree : tree[j].name = d
    BY DEF Names, ToSet
  <1>2. DirItems(d) # {}
    BY <1>1 DEF DirItems
  <1>3. CASE FileItems(d) # {}
    <2>1. tree' = shown /\ crashed' = crashed
      BY <1>3, <1>2 DEF CreateFile
    <2>2. PICK p \in FileItems(d) : TRUE
      BY <1>3
    <2>3. p \in Places /\ disk[d] # Nothing /\ tree[p[1]].kids[p[2]] = disk[d]
      BY DEF FileItems
    <2>4. p[1] \in DOMAIN tree /\ p[2] \in DOMAIN tree[p[1]].kids
      BY <2>3, PlacesAre, TypesAreNamed
    <2>5. tree[p[1]] \in ToSet(tree)
      BY <2>4 DEF ToSet
    <2>6. \E r \in ToSet(tree) : \E k \in DOMAIN r.kids : r.kids[k] = disk[d]
      BY <2>3, <2>4, <2>5
    <2>7. QED
      BY <2>1, <2>3, <2>6
  <1>4. CASE FileItems(d) = {}
    <2>1. PICK i \in DirItems(d) : tree' = WithKids(shown, i, Append(shown[i].kids, RefOf(d)))
      BY <1>2, <1>4 DEF CreateFile
    <2>2. crashed' = crashed
      BY <1>2, <1>4 DEF CreateFile
    <2>3. i \in DOMAIN shown /\ shown[i].name = d /\ shown \in Seq(Items) /\ Unique(shown)
      BY DEF DirItems, SameNames
    <2>4. shown[i].kids \in Seq(Refs) /\ shown[i] \in ToSet(shown)
      <3>1. shown[i] \in Items /\ shown[i] \in ToSet(shown)
        BY <2>3, RowsOf
      <3>2. QED
        BY <3>1 DEF Items
    <2>5. RefOf(d) \in Refs
      BY DEF TreeTypeOK, RefOf, Refs
    <2>6. Append(shown[i].kids, RefOf(d)) \in Seq(Refs)
      BY <2>4, <2>5
    <2>7. /\ SameNames(tree')
          /\ ToSet(tree') = Kept(shown, d) \cup {Item(d, Append(shown[i].kids, RefOf(d)))}
      <3>1. /\ tree' \in Seq(Items) /\ Unique(tree') /\ DOMAIN tree' = DOMAIN shown
            /\ \A k \in DOMAIN shown : tree'[k].name = shown[k].name
            /\ ToSet(tree') = Kept(shown, d) \cup {Item(d, Append(shown[i].kids, RefOf(d)))}
            /\ Names(tree') = Names(shown)
        <4>1. PICK kids \in Seq(Refs) : kids = Append(shown[i].kids, RefOf(d))
          BY <2>6
        <4>2. tree' = WithKids(shown, i, kids)
          BY <2>1, <4>1
        <4>3. PICK t : t = WithKids(shown, i, kids)
          OBVIOUS
        <4>4. /\ t \in Seq(Items) /\ Unique(t) /\ DOMAIN t = DOMAIN shown
              /\ \A k \in DOMAIN shown : t[k].name = shown[k].name
              /\ ToSet(t) = Kept(shown, shown[i].name) \cup {Item(shown[i].name, kids)}
              /\ Names(t) = Names(shown)
          BY <2>3, <4>3, KidsRows
        <4>5. tree' = t /\ shown[i].name = d
          BY <2>3, <4>2, <4>3
        <4>6. QED
          BY <4>1, <4>4, <4>5, Zenon
      <3>2. QED
        BY <3>1 DEF SameNames
    <2>8. ASSUME disk[d] # Nothing, NEW r \in ToSet(tree), NEW k \in DOMAIN r.kids
          PROVE  r.kids[k] # disk[d]
      <3>1. PICK m \in DOMAIN tree : tree[m] = r
        BY <2>8 DEF ToSet
      <3>2. <<m, k>> \in Places
        BY <3>1 DEF Places
      <3>3. <<m, k>> \notin FileItems(d)
        BY <1>4
      <3>4. QED
        BY <2>8, <3>1, <3>2, <3>3 DEF FileItems
    <2>9. QED
      BY <2>2, <2>3, <2>4, <2>7, <2>8
  <1>5. QED
    BY <1>3, <1>4

(* A directory's item comes.                                               *)
LEMMA CreatedRows ==
    ASSUME TreeTypeOK, DiskIsSound, Unique(tree), NEW d \in Dirs, d \notin Names(tree),
           phase # "closed", CreateDir(d)
    PROVE  /\ Unique(tree') /\ Names(tree') = Names(tree) \cup {d} /\ crashed' = crashed
           /\ ToSet(tree') = ToSet(tree) \cup {Item(d, FilesIn(disk[d]))}
  <1>1. DirItems(d) = {}
    BY DEF DirItems, Names, ToSet
  <1>2. tree' = Append(tree, Item(d, FilesIn(disk[d]))) /\ crashed' = crashed
    BY <1>1 DEF CreateDir
  <1>3. Item(d, FilesIn(disk[d])) \in Items /\ Item(d, FilesIn(disk[d])).name = d
    BY TreeTyped DEF Item, Items
  <1>4. Unique(tree') /\ ToSet(tree') = ToSet(tree) \cup {Item(d, FilesIn(disk[d]))}
    BY <1>2, <1>3, TreeTyped, AppendRows
  <1>5. Names(tree') = Names(tree) \cup {d}
    BY <1>3, <1>4 DEF Names
  <1>6. QED
    BY <1>2, <1>4, <1>5

(* It goes with what is under it.                                          *)
LEMMA RemovedRows ==
    ASSUME TreeTypeOK, DiskIsSound, Unique(tree), NEW d \in Dirs, d \in Names(tree),
           tree' \in WithoutDir(d)
    PROVE  /\ Unique(tree') /\ Names(tree') = Names(tree) \ {d}
           /\ ToSet(tree') = Kept(tree, d)
  <1>1. PICK i \in DOMAIN tree : tree[i].name = d /\ tree' = RemoveAt(tree, i)
    BY DEF WithoutDir, DirItems, Names, ToSet
  <1>2. Unique(tree') /\ ToSet(tree') = Kept(tree, d)
    BY <1>1, TreeTyped, RemoveRows
  <1>3. Names(tree') = Names(tree) \ {d}
    BY <1>2 DEF Names, Kept
  <1>4. QED
    BY <1>2, <1>3

(* It gets the new name.                                                   *)
LEMMA RenamedRows ==
    ASSUME TreeTypeOK, DiskIsSound, Unique(tree), NEW d \in Dirs, d \in Names(tree),
           NEW e \in Dirs, e \notin Names(tree), Renamed, Head(events).dir = d,
           Head(events).to = e
    PROVE  /\ Unique(tree') /\ Names(tree') = (Names(tree) \ {d}) \cup {e}
           /\ crashed' = crashed
           /\ \E r \in ToSet(tree) : r.name = d /\ ToSet(tree') = Kept(tree, d)
                                                       \cup {Item(e, r.kids)}
  <1>1. DirItems(d) # {}
    BY DEF DirItems, Names, ToSet
  <1>2. PICK i \in DirItems(d) : tree' = [tree EXCEPT ![i] = Item(e, tree[i].kids)]
    BY <1>1 DEF Renamed
  <1>3. PICK r : r = Item(e, tree[i].kids)
    OBVIOUS
  <1>4. /\ i \in DOMAIN tree /\ tree[i].name = d /\ r \in Items /\ r.name = e
        /\ tree[i] \in ToSet(tree) /\ tree \in Seq(Items)
    BY <1>3, TreeTyped DEF DirItems, Item, Items
  <1>a. /\ tree' \in Seq(Items) /\ DOMAIN tree' = DOMAIN tree /\ tree'[i] = r
        /\ \A j \in DOMAIN tree : j # i => tree'[j] = tree[j]
    BY <1>2, <1>3, <1>4
  <1>5. Unique(tree') /\ ToSet(tree') = Kept(tree, d) \cup {r}
    BY <1>4, <1>a, ReplaceRows
  <1>6. Names(tree') = (Names(tree) \ {d}) \cup {e}
    BY <1>4, <1>5 DEF Names, Kept
  <1>7. QED
    BY <1>3, <1>4, <1>5, <1>6 DEF Renamed

-----------------------------------------------------------------------------
(* The names of an open project's tree are behind those in the folder by   *)
(* the events that wait.                                                   *)

LEMMA LegalSays ==
    ASSUME NEW e, NEW A, NEW B, Legal(e, A, B)
    PROVE  /\ e.what = "created" => e.dir = e.to /\ e.dir \notin A /\ B = A \cup {e.dir}
           /\ e.what = "removed" => e.dir = e.to /\ e.dir \in A /\ B = A \ {e.dir}
           /\ e.what = "renamed" => /\ e.dir \in A /\ e.to \notin A
                                    /\ B = (A \ {e.dir}) \cup {e.to}
           /\ e.what \in {"file created", "file removed"} =>
                  e.dir = e.to /\ e.dir \in A /\ B = A
           /\ e.what = "file moved" => e.dir # e.to /\ e.dir \in A /\ e.to \in A /\ B = A
  <1>1. PICK what : what = e.what
    OBVIOUS
  <1>2. CASE what = "created"
    BY <1>1, <1>2 DEF Legal
  <1>3. CASE what = "removed"
    BY <1>1, <1>3 DEF Legal
  <1>4. CASE what = "renamed"
    BY <1>1, <1>4 DEF Legal
  <1>5. CASE what = "file created" \/ what = "file removed"
    BY <1>1, <1>5 DEF Legal
  <1>6. CASE what = "file moved"
    BY <1>1, <1>6 DEF Legal
  <1>7. QED
    BY <1>1, <1>2, <1>3, <1>4, <1>5, <1>6 DEF Legal

LEMMA LegalEvents ==
    ASSUME NEW d, NEW f, NEW A, NEW B
    PROVE  /\ d \notin A /\ B = A \cup {d} => Legal(Event("created", d, d), A, B)
           /\ d \in A /\ B = A \ {d} => Legal(Event("removed", d, d), A, B)
           /\ d \in A /\ f \notin A /\ B = (A \ {d}) \cup {f} =>
                  Legal(Event("renamed", d, f), A, B)
           /\ d \in A /\ B = A => /\ Legal(Event("file created", d, d), A, B)
                                  /\ Legal(Event("file removed", d, d), A, B)
           /\ d \in A /\ f \in A /\ d # f /\ B = A => Legal(Event("file moved", d, f), A, B)
  <1>1. \A what, g : /\ Event(what, d, g).what = what /\ Event(what, d, g).dir = d
                     /\ Event(what, d, g).to = g
    BY DEF Event
  <1>2. d \notin A /\ B = A \cup {d} => Legal(Event("created", d, d), A, B)
    BY <1>1, Zenon DEF Legal
  <1>3. d \in A /\ B = A \ {d} => Legal(Event("removed", d, d), A, B)
    BY <1>1, Zenon DEF Legal
  <1>4. d \in A /\ f \notin A /\ B = (A \ {d}) \cup {f} => Legal(Event("renamed", d, f), A, B)
    BY <1>1, Zenon DEF Legal
  <1>5. d \in A /\ B = A => /\ Legal(Event("file created", d, d), A, B)
                            /\ Legal(Event("file removed", d, d), A, B)
    BY <1>1 DEF Legal
  <1>6. d \in A /\ f \in A /\ d # f /\ B = A => Legal(Event("file moved", d, f), A, B)
    <2>1. PICK e : e = Event("file moved", d, f)
      OBVIOUS
    <2>2. e.what = "file moved" /\ e.dir = d /\ e.to = f
      BY <1>1, <2>1
    <2>3. d \in A /\ f \in A => {e.dir, e.to} \subseteq A
      BY <2>2
    <2>4. d # f => e.dir # e.to
      BY <2>2
    <2>5. d \in A /\ f \in A /\ d # f /\ B = A => Legal(e, A, B)
      BY <2>2, <2>3, <2>4, Zenon DEF Legal
    <2>6. QED
      BY <2>1, <2>5, Zenon
  <1>7. QED
    BY <1>2, <1>3, <1>4, <1>5, <1>6

LEMMA FolderEvents ==
    ASSUME TreeTypeOK, DiskIsSound, FolderChanges
    PROVE  \E e \in EventSet : Tell(e) /\ Legal(e, OnDisk, OnDisk')
  <1>0. disk \in [Dirs -> Nodes \cup {Nothing}] /\ made \in Nat /\ Nothing \notin holds
    <2>1. disk \in [Dirs -> Nodes \cup {Nothing}] /\ made \in Nat
      BY DEF TreeTypeOK
    <2>2. Nothing \notin holds
      BY DEF DiskIsSound, NamedIn
    <2>3. QED
      BY <2>1, <2>2
  <1>1. ASSUME NEW d \in Dirs, AddDir(d)
        PROVE  \E e \in EventSet : Tell(e) /\ Legal(e, OnDisk, OnDisk')
    <2>1. Event("created", d, d) \in EventSet /\ Tell(Event("created", d, d))
      BY <1>1, EventsAre DEF AddDir
    <2>2. OnDisk' = OnDisk \cup {d} /\ d \notin OnDisk
      BY <1>0, <1>1 DEF AddDir, OnDisk, Nothing
    <2>3. Legal(Event("created", d, d), OnDisk, OnDisk')
      BY <2>2, LegalEvents
    <2>4. QED
      BY <2>1, <2>3
  <1>2. ASSUME NEW d \in Dirs, RemoveDir(d)
        PROVE  \E e \in EventSet : Tell(e) /\ Legal(e, OnDisk, OnDisk')
    <2>1. Event("removed", d, d) \in EventSet /\ Tell(Event("removed", d, d))
      BY <1>2, EventsAre DEF RemoveDir
    <2>2. OnDisk' = OnDisk \ {d} /\ d \in OnDisk
      BY <1>0, <1>2 DEF RemoveDir, OnDisk
    <2>3. Legal(Event("removed", d, d), OnDisk, OnDisk')
      BY <2>2, LegalEvents
    <2>4. QED
      BY <2>1, <2>3
  <1>3. ASSUME NEW d \in Dirs, NEW f \in Dirs, RenameDir(d, f)
        PROVE  \E e \in EventSet : Tell(e) /\ Legal(e, OnDisk, OnDisk')
    <2>1. Event("renamed", d, f) \in EventSet /\ Tell(Event("renamed", d, f))
      BY <1>3, EventsAre DEF RenameDir
    <2>2. OnDisk' = (OnDisk \ {d}) \cup {f} /\ d \in OnDisk /\ f \notin OnDisk
      BY <1>0, <1>3 DEF RenameDir, OnDisk
    <2>3. Legal(Event("renamed", d, f), OnDisk, OnDisk')
      BY <2>2, LegalEvents
    <2>4. QED
      BY <2>1, <2>3
  <1>4. ASSUME NEW d \in Dirs, AddFile(d)
        PROVE  \E e \in EventSet : Tell(e) /\ Legal(e, OnDisk, OnDisk')
    <2>1. Event("file created", d, d) \in EventSet /\ Tell(Event("file created", d, d))
      BY <1>4, EventsAre DEF AddFile
    <2>2. OnDisk' = OnDisk /\ d \in OnDisk
      BY <1>4 DEF AddFile, OnDisk
    <2>3. Legal(Event("file created", d, d), OnDisk, OnDisk')
      BY <2>2, LegalEvents
    <2>4. QED
      BY <2>1, <2>3
  <1>5. ASSUME NEW d \in Dirs, RemoveFile(d)
        PROVE  \E e \in EventSet : Tell(e) /\ Legal(e, OnDisk, OnDisk')
    <2>1. Event("file removed", d, d) \in EventSet /\ Tell(Event("file removed", d, d))
      BY <1>5, EventsAre DEF RemoveFile
    <2>2. OnDisk' = OnDisk /\ d \in OnDisk
      BY <1>0, <1>5 DEF RemoveFile, OnDisk
    <2>3. Legal(Event("file removed", d, d), OnDisk, OnDisk')
      BY <2>2, LegalEvents
    <2>4. QED
      BY <2>1, <2>3
  <1>6. ASSUME NEW d \in Dirs, NEW f \in Dirs, MoveFile(d, f)
        PROVE  \E e \in EventSet : Tell(e) /\ Legal(e, OnDisk, OnDisk')
    <2>1. Event("file moved", d, f) \in EventSet /\ Tell(Event("file moved", d, f))
      BY <1>6, EventsAre DEF MoveFile
    <2>2. OnDisk' = OnDisk /\ d \in OnDisk /\ f \in OnDisk /\ d # f
      BY <1>0, <1>6 DEF MoveFile, OnDisk
    <2>3. Legal(Event("file moved", d, f), OnDisk, OnDisk')
      BY <2>2, LegalEvents
    <2>4. QED
      BY <2>1, <2>3
  <1>7. QED
    BY <1>1, <1>2, <1>3, <1>4, <1>5, <1>6 DEF FolderChanges

LEMMA Handling ==
    ASSUME TreeTypeOK, HandleEvent
    PROVE  /\ events # <<>> /\ Head(events) \in EventSet /\ events' = Tail(events)
           /\ Head(events).dir \in Dirs /\ Head(events).to \in Dirs
           /\ disk' = disk /\ holds' = holds /\ phase' = phase
           /\ renamedEarly' = renamedEarly /\ blind' = (blind \/ phase # "open")
  <1>1. \E what : Shows(what)
    BY DEF HandleEvent, EntryCreated, EntryRemoved, Renamed, Moved
  <1>2. QED
    BY <1>1, ShowsTypes

(* A handler makes the tree's names what its event says.                   *)
LEMMA HandlerNames ==
    ASSUME TreeTypeOK, DiskIsSound, Unique(tree), phase = "open", HandleEvent,
           NEW C, Legal(Head(events), Names(tree), C)
    PROVE  Unique(tree') /\ Names(tree') = C /\ crashed' = crashed
  <1>1. PICK d, f : d = Head(events).dir /\ f = Head(events).to
    OBVIOUS
  <1>2. d \in Dirs /\ f \in Dirs
    BY <1>1, Handling
  <1>3. ASSUME Shows("created"), CreateDir(d)
        PROVE  Unique(tree') /\ Names(tree') = C /\ crashed' = crashed
    <2>1. d \in Dirs /\ d \notin Names(tree) /\ C = Names(tree) \cup {d}
      BY <1>1, <1>2, <1>3, LegalSays DEF Shows
    <2>2. QED
      BY <1>3, <2>1, CreatedRows
  <1>4. ASSUME Shows("file created"), CreateFile(d, tree)
        PROVE  Unique(tree') /\ Names(tree') = C /\ crashed' = crashed
    <2>1. d \in Dirs /\ d \in Names(tree) /\ C = Names(tree)
      BY <1>1, <1>2, <1>4, LegalSays DEF Shows
    <2>2. SameNames(tree)
      BY DEF SameNames, TreeTypeOK
    <2>3. SameNames(tree') /\ crashed' = crashed
      BY <1>4, <2>1, <2>2, CreateFileRows
    <2>4. QED
      BY <2>1, <2>3 DEF SameNames
  <1>5. ASSUME Shows("removed"), tree' \in WithoutDir(d), crashed' = crashed
        PROVE  Unique(tree') /\ Names(tree') = C /\ crashed' = crashed
    <2>1. d \in Dirs /\ d \in Names(tree) /\ C = Names(tree) \ {d}
      BY <1>1, <1>2, <1>5, LegalSays DEF Shows
    <2>2. QED
      BY <1>5, <2>1, RemovedRows
  <1>6. ASSUME Shows("file removed"), tree' \in WithoutFile(d), crashed' = crashed
        PROVE  Unique(tree') /\ Names(tree') = C /\ crashed' = crashed
    <2>1. d \in Dirs /\ d \in Names(tree) /\ C = Names(tree)
      BY <1>1, <1>2, <1>6, LegalSays DEF Shows
    <2>2. SameNames(tree')
      BY <1>6, <2>1, WithoutFileRows
    <2>3. QED
      BY <1>6, <2>1, <2>2 DEF SameNames
  <1>7. CASE Renamed
    <2>1. /\ d \in Dirs /\ f \in Dirs /\ d \in Names(tree) /\ f \notin Names(tree)
          /\ C = (Names(tree) \ {d}) \cup {f}
      BY <1>1, <1>2, <1>7, LegalSays DEF Renamed, Shows
    <2>2. QED
      BY <1>1, <1>7, <2>1, RenamedRows
  <1>8. ASSUME Shows("file moved"), NEW shown \in WithoutFile(d), CreateFile(f, shown)
        PROVE  Unique(tree') /\ Names(tree') = C /\ crashed' = crashed
    <2>1. d \in Dirs /\ f \in Dirs /\ d \in Names(tree) /\ f \in Names(tree) /\ C = Names(tree)
      BY <1>1, <1>2, <1>8, LegalSays DEF Shows
    <2>2. SameNames(shown)
      BY <1>8, <2>1, WithoutFileRows
    <2>3. SameNames(tree') /\ crashed' = crashed
      BY <1>8, <2>1, <2>2, CreateFileRows
    <2>4. QED
      BY <2>1, <2>3 DEF SameNames
  <1>9. QED
    BY <1>1, <1>3, <1>4, <1>5, <1>6, <1>7, <1>8
    DEF HandleEvent, EntryCreated, EntryRemoved, Moved

LEMMA OtherSteps ==
    ASSUME OpenSteps
    PROVE  /\ crashed' = crashed /\ disk' = disk /\ holds' = holds
           /\ phase' = "open" => StartMonitor
  BY DEF OpenSteps, Open, Depopulate, ScanEnds, StartMonitor, ScanInside, ScanEntry, onDisk

LEMMA StartIsTrue ==
    ASSUME TreeTypeOK, DiskIsSound, ScanIsTrue, StartMonitor, ~blind'
    PROVE  /\ events = <<>> /\ events' = <<>> /\ tree' = tree /\ disk' = disk /\ holds' = holds
           /\ Unique(tree) /\ Names(tree) = OnDisk
           /\ \A r \in ToSet(tree) : r.kids = FilesIn(disk[r.name])
  <1>1. /\ events = <<>> /\ events' = <<>> /\ tree' = tree /\ disk' = disk /\ holds' = holds
        /\ phase = "listed" /\ (~blind \/ Matches)
    BY DEF StartMonitor, onDisk
  <1>2. CASE ~blind
    BY <1>1, <1>2 DEF ScanIsTrue, OnDisk
  <1>3. CASE Matches
    <2>1. Unique(tree)
      BY <1>3 DEF Matches, Unique
    <2>2. \A i \in DOMAIN tree : /\ disk[tree[i].name] # Nothing
                                 /\ tree[i].kids = FilesIn(disk[tree[i].name])
      BY <1>3 DEF Matches
    <2>3. \A r \in ToSet(tree) : r.kids = FilesIn(disk[r.name]) /\ r.name \in OnDisk
      BY <2>2, TreeTyped DEF OnDisk
    <2>4. \A d \in OnDisk : \E r \in ToSet(tree) : r.name = d
      BY <1>3 DEF Matches, OnDisk, ToSet
    <2>5. Names(tree) = OnDisk
      BY <2>3, <2>4 DEF Names
    <2>6. QED
      BY <1>1, <2>1, <2>3, <2>5
  <1>4. QED
    BY <1>1, <1>2, <1>3

LEMMA BehindStep ==
    ASSUME TreeTypeOK, DiskIsSound, ScanIsTrue, ParentIsThere, TreeIsBehind,
           [TreeNext]_treeVars
    PROVE  ParentIsThere' /\ TreeIsBehind'
  <1>1. CASE UNCHANGED treeVars
    BY <1>1 DEF treeVars, onDisk, scan, ghosts, ParentIsThere, TreeIsBehind, Watched, Lead,
                Unique, Names, OnDisk
  <1>2. CASE FolderChanges
    <2>1. PICK e \in EventSet : Tell(e) /\ Legal(e, OnDisk, OnDisk')
      BY <1>2, FolderEvents
    <2>2. /\ tree' = tree /\ phase' = phase /\ crashed' = crashed /\ (blind => blind')
          /\ phase = "open" => events' = Append(events, e)
      BY <2>1 DEF Tell, scan
    <2>3. ParentIsThere'
      BY <2>2 DEF ParentIsThere
    <2>4. ASSUME Watched'
          PROVE  Unique(tree') /\ Lead(events', Names(tree'), OnDisk')
      <3>1. Watched /\ events' = Append(events, e)
        BY <2>2, <2>4 DEF Watched
      <3>2. OnDisk' \in SUBSET Dirs /\ events \in Seq(EventSet)
        BY DEF OnDisk, TreeTypeOK
      <3>3. Unique(tree) /\ Lead(events, Names(tree), OnDisk)
        BY <3>1 DEF TreeIsBehind
      <3>4. Lead(events', Names(tree), OnDisk')
        BY <2>1, <3>1, <3>2, <3>3, LeadAppend
      <3>5. QED
        BY <2>2, <3>3, <3>4
    <2>5. TreeIsBehind'
      BY <2>4 DEF TreeIsBehind, Lead, Unique, Names
    <2>6. QED
      BY <2>3, <2>5
  <1>3. CASE HandleEvent /\ ~crashed
    <2>1. CASE phase = "open" /\ ~blind
      <3>1. Unique(tree) /\ Lead(events, Names(tree), OnDisk)
        BY <2>1 DEF TreeIsBehind, Watched
      <3>2. events # <<>> /\ events' = Tail(events) /\ disk' = disk /\ events \in Seq(EventSet)
        BY <1>3, Handling DEF TreeTypeOK
      <3>3. PICK C \in SUBSET Dirs : Legal(Head(events), Names(tree), C)
                                     /\ Lead(Tail(events), C, OnDisk)
        BY <3>1, <3>2, LeadTail
      <3>4. Unique(tree') /\ Names(tree') = C /\ crashed' = crashed
        BY <1>3, <2>1, <3>1, <3>3, HandlerNames
      <3>5. OnDisk' = OnDisk
        BY <3>2 DEF OnDisk
      <3>6. Lead(events', Names(tree'), OnDisk')
        BY <3>2, <3>3, <3>4, <3>5
      <3>7. QED
        BY <1>3, <3>4, <3>6 DEF ParentIsThere, TreeIsBehind
    <2>2. CASE ~ (phase = "open" /\ ~blind)
      BY <1>3, <2>2, Handling DEF ParentIsThere, TreeIsBehind, Watched
    <2>3. QED
      BY <2>1, <2>2
  <1>4. CASE OpenSteps /\ ~crashed
    <2>1. ParentIsThere'
      BY <1>4, OtherSteps DEF ParentIsThere
    <2>2. ASSUME Watched'
          PROVE  Unique(tree') /\ Lead(events', Names(tree'), OnDisk')
      <3>1. StartMonitor /\ ~blind'
        BY <1>4, <2>2, OtherSteps DEF Watched
      <3>2. /\ events' = <<>> /\ tree' = tree /\ OnDisk' = OnDisk
            /\ Unique(tree) /\ Names(tree) = OnDisk
        BY <3>1, StartIsTrue DEF OnDisk
      <3>3. OnDisk \in SUBSET Dirs
        BY DEF OnDisk
      <3>4. QED
        BY <3>2, <3>3, LeadNone
    <2>3. QED
      BY <2>1, <2>2 DEF TreeIsBehind
  <1>5. QED
    BY <1>1, <1>2, <1>3, <1>4 DEF TreeNext, OpenSteps

-----------------------------------------------------------------------------
(* The files of an open project's tree are behind in the same way.  First  *)
(* for a set R of items, a set E of events, and a disk D with files F.     *)

LEMMA EventIs ==
    \A what, d, f : /\ Event(what, d, f).what = what /\ Event(what, d, f).dir = d
                    /\ Event(what, d, f).to = f /\ Touches(Event(what, d, f)) = {d, f}
  BY DEF Event, Touches

LEMMA WaitsMore ==
    ASSUME NEW E, NEW e
    PROVE  \A K, t : Waits(E \cup {e}, K, t) <=>
                         Waits(E, K, t) \/ (e.what \in K /\ t \in Touches(e))
  BY DEF Waits

LEMMA BecomesSame ==
    ASSUME NEW E, NEW e, e.what # "renamed"
    PROVE  \A z, t : Becomes(E \cup {e}, z, t) <=> Becomes(E, z, t)
  <1>1. \A z, t : Event("renamed", z, t) # e
    BY EventIs
  <1>2. QED
    BY <1>1 DEF Becomes

(* An event that is not about a rename is told.                            *)
LEMMA KidsTold ==
    ASSUME NEW R, NEW E, NEW D, NEW F, NEW e \in EventSet, NEW D1, NEW F1,
           RefsAtHome(R, E, D), KidsFit(R, E, D, F), e.what # "renamed",
           \A w \in Dirs : D1[w] = D[w] \/ D1[w] = Nothing
                           \/ \A r \in R : \A k \in DOMAIN r.kids : r.kids[k] # D1[w],
           \A t \in Dirs : t \notin Touches(e) => D1[t] = D[t] /\ (t \in F1 <=> t \in F),
           e.what \in FileEvents => D1 = D
    PROVE  RefsAtHome(R, E \cup {e}, D1) /\ KidsFit(R, E \cup {e}, D1, F1)
  <1>1. \A z, t : Becomes(E \cup {e}, z, t) <=> Becomes(E, z, t)
    BY BecomesSame
  <1>2. ASSUME NEW r \in R, NEW w \in Dirs, NEW k \in DOMAIN r.kids, D1[w] # Nothing,
               r.kids[k] = D1[w]
        PROVE  Becomes(E \cup {e}, r.name, w)
    <2>1. D1[w] = D[w]
      BY <1>2
    <2>2. Becomes(E, r.name, w)
      BY <1>2, <2>1 DEF RefsAtHome
    <2>3. QED
      BY <1>1, <2>2
  <1>3. ASSUME NEW r \in R, NEW t \in Dirs, Becomes(E \cup {e}, r.name, t),
               ~Waits(E \cup {e}, DirEvents, t)
        PROVE  /\ r.kids = <<>> \/ r.kids = <<D1[t]>>
               /\ ~Waits(E \cup {e}, FileEvents, t) => r.kids = FileOf(t, D1, F1)
    <2>1. /\ Becomes(E, r.name, t) /\ ~Waits(E, DirEvents, t)
          /\ ~ (e.what \in DirEvents /\ t \in Touches(e))
      BY <1>1, <1>3, WaitsMore
    <2>2. /\ r.kids = <<>> \/ r.kids = <<D[t]>>
          /\ ~Waits(E, FileEvents, t) => r.kids = FileOf(t, D, F)
      BY <2>1 DEF KidsFit
    <2>3. CASE t \in Touches(e)
      <3>1. e.what \in FileEvents
        BY <2>1, <2>3 DEF EventSet, FileEvents, DirEvents
      <3>2. D1 = D /\ Waits(E \cup {e}, FileEvents, t)
        BY <2>3, <3>1, WaitsMore
      <3>3. QED
        BY <2>2, <3>2
    <2>4. CASE t \notin Touches(e)
      <3>1. D1[t] = D[t] /\ FileOf(t, D1, F1) = FileOf(t, D, F)
        BY <2>4 DEF FileOf
      <3>2. Waits(E \cup {e}, FileEvents, t) <=> Waits(E, FileEvents, t)
        BY <2>4, WaitsMore
      <3>3. QED
        BY <2>2, <3>1, <3>2
    <2>5. QED
      BY <2>3, <2>4
  <1>4. RefsAtHome(R, E \cup {e}, D1)
    BY <1>2 DEF RefsAtHome
  <1>5. KidsFit(R, E \cup {e}, D1, F1)
    BY <1>3 DEF KidsFit
  <1>6. QED
    BY <1>4, <1>5

(* A rename is told, and nothing that waits is about either name.          *)
LEMMA KidsRenameTold ==
    ASSUME NEW R, NEW E, NEW D, NEW F, NEW D1, NEW F1, NEW d \in Dirs, NEW f \in Dirs, d # f,
           RefsAtHome(R, E, D), KidsFit(R, E, D, F),
           \A e \in E : d \notin Touches(e) /\ f \notin Touches(e),
           \A r \in R : r.name # f,
           D1[d] = Nothing, D1[f] = D[d], f \in F1 <=> d \in F,
           \A t \in Dirs : t # d /\ t # f => D1[t] = D[t] /\ (t \in F1 <=> t \in F)
    PROVE  /\ RefsAtHome(R, E \cup {Event("renamed", d, f)}, D1)
           /\ KidsFit(R, E \cup {Event("renamed", d, f)}, D1, F1)
  <1>1. PICK e, E1 : e = Event("renamed", d, f) /\ E1 = E \cup {e}
    OBVIOUS
  <1>2. e.what = "renamed" /\ e.dir = d /\ e.to = f /\ Touches(e) = {d, f} /\ e \in E1
    BY <1>1, EventIs
  <1>3. \A z, t : Event("renamed", z, t) \in E => z # d /\ z # f /\ t # d /\ t # f
    BY EventIs
  <1>4. \A z, t : Event("renamed", z, t) = e <=> z = d /\ t = f
    BY <1>1, <1>2, EventIs
  <1>5. \A x \in E : x.what = "renamed" => x.dir # d /\ x.dir # f
    BY DEF Touches
  <1>6. Becomes(E, d, d) /\ Becomes(E1, d, f)
    BY <1>1, <1>2, <1>5 DEF Becomes
  <1>7. ASSUME NEW z, NEW t, z # d, t # f, Becomes(E, z, t)
        PROVE  Becomes(E1, z, t)
    BY <1>1, <1>2, <1>7 DEF Becomes
  <1>8. ASSUME NEW z, Becomes(E, z, d)
        PROVE  z = d
    BY <1>3, <1>8 DEF Becomes
  <1>9. ASSUME NEW z, NEW t, Becomes(E1, z, t)
        PROVE  \/ z = d /\ t = f
               \/ z = f /\ t = f
               \/ z # d /\ t # d /\ t # f /\ Becomes(E, z, t)
    <2>1. CASE Event("renamed", z, t) \in E
      BY <1>3, <2>1 DEF Becomes
    <2>2. CASE Event("renamed", z, t) = e
      BY <1>4, <2>2
    <2>3. CASE z = t /\ \A x \in E1 : ~ (x.what = "renamed" /\ x.dir = z)
      <3>1. z # d
        BY <1>2, <2>3
      <3>2. Becomes(E, z, t)
        BY <1>1, <2>3 DEF Becomes
      <3>3. QED
        BY <2>3, <3>1, <3>2
    <2>4. QED
      BY <1>1, <1>9, <2>1, <2>2, <2>3 DEF Becomes
  <1>10. \A K : ~Waits(E, K, d) /\ ~Waits(E, K, f)
    BY DEF Waits
  <1>11. \A K, t : t # d /\ t # f => (Waits(E1, K, t) <=> Waits(E, K, t))
    BY <1>1, <1>2, WaitsMore
  <1>12. ASSUME NEW r \in R, NEW w \in Dirs, NEW k \in DOMAIN r.kids, D1[w] # Nothing,
                r.kids[k] = D1[w]
         PROVE  Becomes(E1, r.name, w)
    <2>1. CASE w = f
      <3>1. Becomes(E, r.name, d)
        BY <1>12, <2>1 DEF RefsAtHome
      <3>2. QED
        BY <1>6, <1>8, <2>1, <3>1
    <2>2. CASE w # f
      <3>1. w # d /\ D1[w] = D[w]
        BY <1>12, <2>2
      <3>2. Becomes(E, r.name, w)
        BY <1>12, <3>1 DEF RefsAtHome
      <3>3. r.name # d
        BY <1>3, <1>6, <3>1, <3>2 DEF Becomes
      <3>4. QED
        BY <1>7, <2>2, <3>2, <3>3
    <2>3. QED
      BY <2>1, <2>2
  <1>13. ASSUME NEW r \in R, NEW t \in Dirs, Becomes(E1, r.name, t), ~Waits(E1, DirEvents, t)
         PROVE  /\ r.kids = <<>> \/ r.kids = <<D1[t]>>
                /\ ~Waits(E1, FileEvents, t) => r.kids = FileOf(t, D1, F1)
    <2>1. CASE r.name = d /\ t = f
      <3>1. /\ r.kids = <<>> \/ r.kids = <<D[d]>>
            /\ r.kids = FileOf(d, D, F)
        BY <1>6, <1>10, <2>1 DEF KidsFit
      <3>2. D1[t] = D[d] /\ FileOf(t, D1, F1) = FileOf(d, D, F)
        BY <2>1 DEF FileOf
      <3>3. QED
        BY <3>1, <3>2
    <2>2. CASE r.name # d /\ t # d /\ t # f /\ Becomes(E, r.name, t)
      <3>1. /\ ~Waits(E, DirEvents, t)
            /\ Waits(E1, FileEvents, t) <=> Waits(E, FileEvents, t)
        BY <1>11, <1>13, <2>2
      <3>2. D1[t] = D[t] /\ FileOf(t, D1, F1) = FileOf(t, D, F)
        BY <2>2 DEF FileOf
      <3>3. /\ r.kids = <<>> \/ r.kids = <<D[t]>>
            /\ ~Waits(E, FileEvents, t) => r.kids = FileOf(t, D, F)
        BY <2>2, <3>1 DEF KidsFit
      <3>4. QED
        BY <3>1, <3>2, <3>3
    <2>3. QED
      BY <1>9, <1>13, <2>1, <2>2
  <1>14. RefsAtHome(R, E1, D1)
    BY <1>12 DEF RefsAtHome
  <1>15. KidsFit(R, E1, D1, F1)
    BY <1>13 DEF KidsFit
  <1>16. QED
    BY <1>1, <1>14, <1>15

-----------------------------------------------------------------------------
(* What handling an event leaves: E waited, E1 still waits.                *)

(* The event was about the file of d, or makes or removes d.               *)
Settled(E1, d) ==
    \A t \in Dirs : /\ Becomes(E1, d, t) <=> t = d
                    /\ Becomes(E1, t, d) <=> t = d

Handled(E, E1, kinds, d) ==
    /\ Settled(E1, d)
    /\ \A z, t \in Dirs : Becomes(E, z, t) <=> Becomes(E1, z, t)
    /\ \A t \in Dirs : t # d \/ DirEvents # kinds =>
           (Waits(E, DirEvents, t) <=> Waits(E1, DirEvents, t))
    /\ \A t \in Dirs : t # d \/ FileEvents # kinds =>
           (Waits(E, FileEvents, t) <=> Waits(E1, FileEvents, t))

Disk(D) ==
    /\ \A d \in Dirs : D[d] \in Nat
    /\ \A d, e \in Dirs : D[d] = D[e] /\ D[d] # Nothing => d = e

RowSet(R) ==
    /\ \A r \in R : r.name \in Dirs /\ r.kids \in Seq(Refs)
    /\ \A r, q \in R : r.name = q.name => r = q

(* The items of other names than d are as they were.                       *)
LEMMA OthersFit ==
    ASSUME NEW R, NEW E, NEW E1, NEW D, NEW F, NEW kinds, NEW d \in Dirs, NEW R1,
           RowSet(R), RefsAtHome(R, E, D), KidsFit(R, E, D, F), Handled(E, E1, kinds, d),
           \A r \in R1 : r \in R /\ r.name # d
    PROVE  RefsAtHome(R1, E1, D) /\ KidsFit(R1, E1, D, F)
  <1>1. ASSUME NEW r \in R1, NEW w \in Dirs, NEW k \in DOMAIN r.kids, D[w] # Nothing,
               r.kids[k] = D[w]
        PROVE  Becomes(E1, r.name, w)
    <2>1. r \in R /\ r.name \in Dirs
      BY DEF RowSet
    <2>2. Becomes(E, r.name, w)
      BY <1>1, <2>1 DEF RefsAtHome
    <2>3. QED
      BY <2>1, <2>2 DEF Handled
  <1>2. ASSUME NEW r \in R1, NEW t \in Dirs, Becomes(E1, r.name, t), ~Waits(E1, DirEvents, t)
        PROVE  /\ r.kids = <<>> \/ r.kids = <<D[t]>>
               /\ ~Waits(E1, FileEvents, t) => r.kids = FileOf(t, D, F)
    <2>1. r \in R /\ r.name \in Dirs /\ r.name # d
      BY DEF RowSet
    <2>2. Becomes(E, r.name, t)
      BY <1>2, <2>1 DEF Handled
    <2>3. t # d
      BY <1>2, <2>1 DEF Handled, Settled
    <2>4. /\ Waits(E, DirEvents, t) <=> Waits(E1, DirEvents, t)
          /\ Waits(E, FileEvents, t) <=> Waits(E1, FileEvents, t)
      BY <2>3 DEF Handled
    <2>5. QED
      BY <1>2, <2>1, <2>2, <2>4 DEF KidsFit
  <1>3. RefsAtHome(R1, E1, D)
    BY <1>1 DEF RefsAtHome
  <1>4. KidsFit(R1, E1, D, F)
    BY <1>2 DEF KidsFit
  <1>5. QED
    BY <1>3, <1>4

(* They fit when the item of d does, too.                                  *)
Rest(R, d) == {r \in R : r.name # d}
Fitting(kids, E1, D, F, d) ==
    /\ \A k \in DOMAIN kids : \A w \in Dirs : D[w] # Nothing /\ kids[k] = D[w] => w = d
    /\ ~Waits(E1, DirEvents, d) =>
           /\ kids = <<>> \/ kids = <<D[d]>>
           /\ ~Waits(E1, FileEvents, d) => kids = FileOf(d, D, F)

LEMMA RowsFit ==
    ASSUME NEW R, NEW E1, NEW D, NEW F, NEW d \in Dirs, Settled(E1, d), Disk(D),
           RefsAtHome(Rest(R, d), E1, D), KidsFit(Rest(R, d), E1, D, F),
           \A r \in R : r.name = d => Fitting(r.kids, E1, D, F, d)
    PROVE  RefsAtHome(R, E1, D) /\ KidsFit(R, E1, D, F)
  <1>3. ASSUME NEW r \in R, NEW w \in Dirs, NEW k \in DOMAIN r.kids, D[w] # Nothing,
               r.kids[k] = D[w]
        PROVE  Becomes(E1, r.name, w)
    <2>1. CASE r.name = d
      BY <1>3, <2>1 DEF Settled, Fitting
    <2>2. CASE r.name # d
      <3>1. r \in Rest(R, d)
        BY <2>2 DEF Rest
      <3>2. QED
        BY <1>3, <3>1 DEF RefsAtHome
    <2>3. QED
      BY <2>1, <2>2
  <1>4. ASSUME NEW r \in R, NEW t \in Dirs, Becomes(E1, r.name, t), ~Waits(E1, DirEvents, t)
        PROVE  /\ r.kids = <<>> \/ r.kids = <<D[t]>>
               /\ ~Waits(E1, FileEvents, t) => r.kids = FileOf(t, D, F)
    <2>1. CASE r.name = d
      <3>1. t = d
        BY <1>4, <2>1 DEF Settled, Fitting
      <3>2. QED
        BY <1>4, <2>1, <3>1 DEF Fitting
    <2>2. CASE r.name # d
      <3>1. r \in Rest(R, d)
        BY <2>2 DEF Rest
      <3>2. QED
        BY <1>4, <3>1 DEF KidsFit
    <2>3. QED
      BY <2>1, <2>2
  <1>5. RefsAtHome(R, E1, D)
    BY <1>3 DEF RefsAtHome
  <1>6. KidsFit(R, E1, D, F)
    BY <1>4 DEF KidsFit
  <1>7. QED
    BY <1>5, <1>6

(* The directory d was made.                                               *)
LEMMA KidsCreated ==
    ASSUME NEW R, NEW E, NEW E1, NEW D, NEW F, NEW d \in Dirs, NEW R1,
           RowSet(R), Disk(D), RefsAtHome(R, E, D), KidsFit(R, E, D, F),
           Handled(E, E1, DirEvents, d), \A r \in R : r.name # d,
           R1 = R \cup {Item(d, FileOf(d, D, F))}
    PROVE  RefsAtHome(R1, E1, D) /\ KidsFit(R1, E1, D, F)
  <1>2. Item(d, FileOf(d, D, F)).name = d /\ Item(d, FileOf(d, D, F)).kids = FileOf(d, D, F)
    BY DEF Item
  <1>3. RefsAtHome(Rest(R1, d), E1, D) /\ KidsFit(Rest(R1, d), E1, D, F)
    <2>1. \A r \in Rest(R1, d) : r \in R /\ r.name # d
      BY <1>2 DEF Rest
    <2>2. QED
      BY <2>1, OthersFit
  <1>4. ASSUME NEW r \in R1, r.name = d
        PROVE  Fitting(r.kids, E1, D, F, d)
    <2>1. r.kids = FileOf(d, D, F)
      BY <1>2, <1>4
    <2>2. r.kids = <<>> \/ r.kids = <<D[d]>>
      BY <2>1 DEF FileOf
    <2>3. \A k \in DOMAIN r.kids : r.kids[k] = D[d]
      BY <2>2
    <2>4. QED
      BY <2>1, <2>2, <2>3 DEF Disk, Fitting
  <1>5. Settled(E1, d)
    BY DEF Handled
  <1>6. QED
    BY <1>3, <1>4, <1>5, RowsFit

(* The file of d goes from the items R, or comes under an item of shown if *)
(* it is not in R.                                                         *)
FileIn(R, D, d) == D[d] # Nothing /\ \E r \in R : \E k \in DOMAIN r.kids : r.kids[k] = D[d]
FileGoes(R, D, d, R1) ==
    \/ R1 = R /\ ~FileIn(R, D, d)
    \/ \E r \in R : \E k \in DOMAIN r.kids :
           /\ D[d] # Nothing /\ r.kids[k] = D[d]
           /\ R1 = Rest(R, r.name) \cup {Item(r.name, RemoveAt(r.kids, k))}
FileComes(R, shown, D, d, R1) ==
    \/ R1 = shown /\ FileIn(R, D, d)
    \/ /\ ~FileIn(R, D, d)
       /\ \E r \in shown :
              /\ r.name = d
              /\ R1 = Rest(shown, d) \cup
                       {Item(d, Append(r.kids, IF D[d] = Nothing THEN NoRef ELSE D[d]))}

(* The file of d came.                                                     *)
LEMMA KidsFileCame ==
    ASSUME NEW R, NEW E, NEW E1, NEW D, NEW F, NEW d \in Dirs, NEW R1,
           RowSet(R), Disk(D), RefsAtHome(R, E, D), KidsFit(R, E, D, F),
           Handled(E, E1, FileEvents, d),
           ~Waits(E1, DirEvents, d) => D[d] # Nothing,
           ~Waits(E1, DirEvents, d) /\ ~Waits(E1, FileEvents, d) => d \in F,
           FileComes(R, R, D, d, R1)
    PROVE  RefsAtHome(R1, E1, D) /\ KidsFit(R1, E1, D, F)
  <1>0. Settled(E1, d)
    BY DEF Handled
  <1>1. \A z, t \in Dirs : Becomes(E, z, t) <=> Becomes(E1, z, t)
    BY DEF Handled
  <1>2. Waits(E, DirEvents, d) <=> Waits(E1, DirEvents, d)
    BY DEF Handled, DirEvents, FileEvents
  <1>3. ASSUME NEW r \in R, r.name = d
        PROVE  /\ \A k \in DOMAIN r.kids : \A w \in Dirs :
                      D[w] # Nothing /\ r.kids[k] = D[w] => w = d
               /\ ~Waits(E1, DirEvents, d) => r.kids = <<>> \/ r.kids = <<D[d]>>
               /\ r.kids \in Seq(Refs)
    <2>1. Becomes(E, d, d)
      BY <1>0, <1>1 DEF Settled
    <2>2. \A w \in Dirs : Becomes(E, d, w) => w = d
      BY <1>0, <1>1 DEF Settled
    <2>3. \A k \in DOMAIN r.kids : \A w \in Dirs :
              D[w] # Nothing /\ r.kids[k] = D[w] => w = d
      BY <1>3, <2>2 DEF RefsAtHome
    <2>4. ~Waits(E1, DirEvents, d) => r.kids = <<>> \/ r.kids = <<D[d]>>
      BY <1>2, <1>3, <2>1 DEF KidsFit
    <2>5. QED
      BY <2>3, <2>4 DEF RowSet
  <1>5. \A r \in Rest(R1, d) : r \in R /\ r.name # d
    BY DEF Item, FileComes, Rest
  <1>6. RefsAtHome(Rest(R1, d), E1, D) /\ KidsFit(Rest(R1, d), E1, D, F)
    BY <1>5, OthersFit
  <1>7. ASSUME NEW r \in R1, r.name = d
        PROVE  /\ \A k \in DOMAIN r.kids : \A w \in Dirs :
                      D[w] # Nothing /\ r.kids[k] = D[w] => w = d
               /\ ~Waits(E1, DirEvents, d) => r.kids = <<D[d]>>
    <2>1. CASE R1 = R /\ FileIn(R, D, d)
      <3>0. D[d] # Nothing
        BY <2>1 DEF FileIn
      <3>1. PICK q \in R : \E k \in DOMAIN q.kids : q.kids[k] = D[d]
        BY <2>1 DEF FileIn
      <3>2. Becomes(E, q.name, d) /\ q.name \in Dirs
        BY <3>0, <3>1 DEF RefsAtHome, RowSet
      <3>3. q.name = d
        BY <1>0, <1>1, <3>2 DEF Settled
      <3>4. q = r
        BY <1>7, <2>1, <3>3 DEF RowSet
      <3>5. r.kids # <<>>
        BY <3>1, <3>4
      <3>6. QED
        BY <1>3, <1>7, <2>1, <3>0, <3>5
    <2>2. CASE /\ ~FileIn(R, D, d)
               /\ \E q \in R : /\ q.name = d
                               /\ R1 = Rest(R, d) \cup
                                       {Item(d, Append(q.kids, IF D[d] = Nothing THEN NoRef
                                                                                 ELSE D[d]))}
      <3>1. PICK ref : ref = IF D[d] = Nothing THEN NoRef ELSE D[d]
        OBVIOUS
      <3>2. PICK q \in R : /\ q.name = d
                           /\ R1 = Rest(R, d) \cup {Item(d, Append(q.kids, ref))}
        BY <2>2, <3>1
      <3>3. r.kids = Append(q.kids, ref)
        BY <1>7, <3>2 DEF Item, Rest
      <3>4. q.kids \in Seq(Refs)
        BY <1>3, <3>2
      <3>5. ASSUME NEW k \in DOMAIN r.kids, NEW w \in Dirs, D[w] # Nothing, r.kids[k] = D[w]
            PROVE  w = d
        <4>1. (k \in DOMAIN q.kids /\ r.kids[k] = q.kids[k]) \/ r.kids[k] = ref
          BY <3>3, <3>4
        <4>2. CASE k \in DOMAIN q.kids /\ r.kids[k] = q.kids[k]
          BY <1>3, <3>2, <3>5, <4>2
        <4>3. CASE r.kids[k] = ref
          <5>1. D[w] \in Nat /\ D[w] = ref
            BY <3>5, <4>3 DEF Disk
          <5>2. ref = D[d]
            BY <3>1, <5>1 DEF NoRef
          <5>3. QED
            BY <3>5, <5>1, <5>2 DEF Disk
        <4>4. QED
          BY <4>1, <4>2, <4>3
      <3>6. ASSUME ~Waits(E1, DirEvents, d)
            PROVE  r.kids = <<D[d]>>
        <4>1. D[d] # Nothing /\ ref = D[d]
          BY <3>1, <3>6
        <4>2. q.kids = <<>> \/ q.kids = <<D[d]>>
          BY <1>3, <3>2, <3>6
        <4>3. q.kids # <<D[d]>>
          <5>1. <<D[d]>>[1] = D[d] /\ 1 \in DOMAIN <<D[d]>>
            OBVIOUS
          <5>2. QED
            BY <2>2, <3>2, <4>1, <5>1 DEF FileIn
        <4>4. q.kids = <<>>
          BY <4>2, <4>3
        <4>5. Append(<<>>, ref) = <<ref>>
          OBVIOUS
        <4>6. QED
          BY <3>3, <4>1, <4>4, <4>5
      <3>7. QED
        BY <3>5, <3>6
    <2>3. QED
      BY <2>1, <2>2 DEF FileComes
  <1>8. ~Waits(E1, DirEvents, d) /\ ~Waits(E1, FileEvents, d) => FileOf(d, D, F) = <<D[d]>>
    BY DEF FileOf
  <1>9. \A r \in R1 : r.name = d => Fitting(r.kids, E1, D, F, d)
    BY <1>7, <1>8 DEF Fitting
  <1>10. QED
    BY <1>0, <1>6, <1>9, RowsFit

(* The file of d went.                                                     *)
LEMMA KidsFileWent ==
    ASSUME NEW R, NEW E, NEW E1, NEW D, NEW F, NEW d \in Dirs, NEW R1,
           RowSet(R), Disk(D), RefsAtHome(R, E, D), KidsFit(R, E, D, F),
           Handled(E, E1, FileEvents, d),
           ~Waits(E1, DirEvents, d) => D[d] # Nothing,
           ~Waits(E1, DirEvents, d) /\ ~Waits(E1, FileEvents, d) => d \notin F,
           FileGoes(R, D, d, R1)
    PROVE  RefsAtHome(R1, E1, D) /\ KidsFit(R1, E1, D, F)
  <1>0. Settled(E1, d)
    BY DEF Handled
  <1>1. \A z, t \in Dirs : Becomes(E, z, t) <=> Becomes(E1, z, t)
    BY DEF Handled
  <1>2. Waits(E, DirEvents, d) <=> Waits(E1, DirEvents, d)
    BY DEF Handled, DirEvents, FileEvents
  <1>3. ASSUME NEW r \in R, r.name = d
        PROVE  /\ \A k \in DOMAIN r.kids : \A w \in Dirs :
                      D[w] # Nothing /\ r.kids[k] = D[w] => w = d
               /\ ~Waits(E1, DirEvents, d) => r.kids = <<>> \/ r.kids = <<D[d]>>
               /\ r.kids \in Seq(Refs)
    <2>1. Becomes(E, d, d)
      BY <1>0, <1>1 DEF Settled
    <2>2. \A w \in Dirs : Becomes(E, d, w) => w = d
      BY <1>0, <1>1 DEF Settled
    <2>3. \A k \in DOMAIN r.kids : \A w \in Dirs :
              D[w] # Nothing /\ r.kids[k] = D[w] => w = d
      BY <1>3, <2>2 DEF RefsAtHome
    <2>4. ~Waits(E1, DirEvents, d) => r.kids = <<>> \/ r.kids = <<D[d]>>
      BY <1>2, <1>3, <2>1 DEF KidsFit
    <2>5. QED
      BY <2>3, <2>4 DEF RowSet
  <1>4. CASE R1 = R /\ ~FileIn(R, D, d)
    <2>1. ASSUME NEW r \in R1, r.name = d, ~Waits(E1, DirEvents, d)
          PROVE  r.kids = <<>>
      <3>1. r.kids = <<>> \/ r.kids = <<D[d]>>
        BY <1>3, <1>4, <2>1
      <3>2. <<D[d]>>[1] = D[d] /\ 1 \in DOMAIN <<D[d]>>
        OBVIOUS
      <3>3. QED
        BY <1>4, <2>1, <3>1, <3>2 DEF FileIn
    <2>3. RefsAtHome(Rest(R1, d), E1, D) /\ KidsFit(Rest(R1, d), E1, D, F)
      <3>1. \A r \in Rest(R1, d) : r \in R /\ r.name # d
        BY <1>4 DEF Rest
      <3>2. QED
        BY <3>1, OthersFit
    <2>4. ~Waits(E1, DirEvents, d) /\ ~Waits(E1, FileEvents, d) => FileOf(d, D, F) = <<>>
      BY DEF FileOf
    <2>5. \A r \in R1 : r.name = d => Fitting(r.kids, E1, D, F, d)
      BY <1>3, <1>4, <2>1, <2>4 DEF Fitting
    <2>6. QED
      BY <1>0, <2>3, <2>5, RowsFit
  <1>5. ASSUME NEW r \in R, NEW k \in DOMAIN r.kids, D[d] # Nothing, r.kids[k] = D[d],
               R1 = Rest(R, r.name) \cup {Item(r.name, RemoveAt(r.kids, k))}
        PROVE  RefsAtHome(R1, E1, D) /\ KidsFit(R1, E1, D, F)
    <2>1. r.name = d
      <3>1. Becomes(E, r.name, d) /\ r.name \in Dirs
        BY <1>5 DEF RefsAtHome, RowSet
      <3>2. QED
        BY <1>0, <1>1, <3>1 DEF Settled
    <2>2. PICK kids : kids = RemoveAt(r.kids, k)
      OBVIOUS
    <2>3. \A q \in R1 : q.name = d => q.kids = kids
      BY <1>5, <2>1, <2>2 DEF Item, Rest
    <2>4. /\ r.kids \in Seq(Refs) /\ k \in 1 .. Len(r.kids)
      BY <1>3, <2>1
    <2>5. /\ kids \in Seq(Refs) /\ Len(kids) = Len(r.kids) - 1
          /\ \A j \in 1 .. Len(r.kids) - 1 :
                 kids[j] = IF j < k THEN r.kids[j] ELSE r.kids[j + 1]
      BY <2>2, <2>4, RemoveAtFact
    <2>6. \A j \in DOMAIN kids : \E i \in DOMAIN r.kids : kids[j] = r.kids[i]
      BY <2>4, <2>5
    <2>7. ASSUME ~Waits(E1, DirEvents, d)
          PROVE  kids = <<>>
      <3>a. r.kids = <<>> \/ r.kids = <<D[d]>>
        BY <1>3, <2>1, <2>7
      <3>b. r.kids # <<>>
        BY <2>4
      <3>c. Len(<<D[d]>>) = 1
        OBVIOUS
      <3>1. Len(r.kids) = 1
        BY <3>a, <3>b, <3>c
      <3>2. QED
        BY <2>5, <3>1
    <2>9. RefsAtHome(Rest(R1, d), E1, D) /\ KidsFit(Rest(R1, d), E1, D, F)
      <3>1. \A q \in Rest(R1, d) : q \in R /\ q.name # d
        BY <1>5, <2>1 DEF Item, Rest
      <3>2. QED
        BY <3>1, OthersFit
    <2>10. ~Waits(E1, DirEvents, d) /\ ~Waits(E1, FileEvents, d) => FileOf(d, D, F) = <<>>
      BY DEF FileOf
    <2>11. \A j \in DOMAIN kids : \A w \in Dirs : D[w] # Nothing /\ kids[j] = D[w] => w = d
      BY <1>3, <2>1, <2>6
    <2>12. \A q \in R1 : q.name = d => Fitting(q.kids, E1, D, F, d)
      BY <2>3, <2>7, <2>10, <2>11 DEF Fitting
    <2>13. QED
      BY <1>0, <2>9, <2>12, RowsFit
  <1>6. QED
    BY <1>4, <1>5 DEF FileGoes

(* No rename of d waits.                                                   *)
Keeps(E, d) == \A x \in E : x.what = "renamed" => d \notin Touches(x)

LEMMA KeepsSettled ==
    ASSUME NEW E, NEW d \in Dirs, Keeps(E, d)
    PROVE  Settled(E, d)
  <1>1. \A t : Event("renamed", d, t) \notin E /\ Event("renamed", t, d) \notin E
    BY EventIs DEF Keeps
  <1>2. \A x \in E : ~ (x.what = "renamed" /\ x.dir = d)
    BY DEF Keeps, Touches
  <1>3. QED
    BY <1>1, <1>2 DEF Settled, Becomes

(* The directory d got the name f.                                         *)
LEMMA KidsRenamed ==
    ASSUME NEW R, NEW E, NEW E1, NEW D, NEW F, NEW d \in Dirs, NEW f \in Dirs, NEW R1,
           RowSet(R), RefsAtHome(R, E, D), KidsFit(R, E, D, F),
           E = E1 \cup {Event("renamed", d, f)}, Keeps(E1, d), Keeps(E1, f),
           \A r \in R : r.name # f,
           \E r \in R : r.name = d /\ R1 = Rest(R, d) \cup {Item(f, r.kids)}
    PROVE  RefsAtHome(R1, E1, D) /\ KidsFit(R1, E1, D, F)
  <1>1. PICK row \in R : /\ row.name = d
                         /\ R1 = Rest(R, d) \cup {Item(f, row.kids)}
    OBVIOUS
  <1>2. d # f
    BY <1>1
  <1>3. PICK e : e = Event("renamed", d, f)
    OBVIOUS
  <1>4. /\ e.what = "renamed" /\ e.dir = d /\ e.to = f /\ e \in E
        /\ \A z, t : Event("renamed", z, t) = e <=> z = d /\ t = f
    BY <1>3, EventIs
  <1>5. \A t : /\ Waits(E, DirEvents, t) => Waits(E1, DirEvents, t)
               /\ Waits(E, FileEvents, t) => Waits(E1, FileEvents, t)
    <2>1. \A K, t : Waits(E, K, t) <=> Waits(E1, K, t) \/ (e.what \in K /\ t \in Touches(e))
      BY <1>3, WaitsMore
    <2>2. e.what \notin DirEvents /\ e.what \notin FileEvents
      BY <1>4 DEF DirEvents, FileEvents
    <2>3. QED
      BY <2>1, <2>2
  <1>6. \A K, t : Waits(E1, K, t) => Waits(E, K, t)
    BY <1>3, WaitsMore
  <1>7. ASSUME NEW z \in Dirs, NEW t \in Dirs, z # d
        PROVE  Becomes(E, z, t) <=> Becomes(E1, z, t)
    BY <1>3, <1>4, <1>7 DEF Becomes
  <1>8. Becomes(E, d, f)
    BY <1>3, <1>4 DEF Becomes
  <1>9. ASSUME NEW t \in Dirs, Becomes(E, d, t)
        PROVE  t = f
    <2>1. Event("renamed", d, t) \in E
      BY <1>4, <1>9 DEF Becomes
    <2>2. Event("renamed", d, t) \notin E1
      BY EventIs DEF Keeps
    <2>3. QED
      BY <1>3, <1>4, <2>1, <2>2
  <1>10. Settled(E1, f)
    BY KeepsSettled
  <1>11. ASSUME NEW r \in R1
         PROVE  \/ r \in R /\ r.name \in Dirs /\ r.name # d
                \/ r.name = f /\ r.kids = row.kids
    BY <1>1 DEF Item, RowSet, Rest
  <1>12. ASSUME NEW r \in R1, NEW w \in Dirs, NEW k \in DOMAIN r.kids, D[w] # Nothing,
                r.kids[k] = D[w]
         PROVE  Becomes(E1, r.name, w)
    <2>1. CASE r \in R /\ r.name \in Dirs /\ r.name # d
      <3>1. Becomes(E, r.name, w)
        BY <1>12, <2>1 DEF RefsAtHome
      <3>2. QED
        BY <1>7, <2>1, <3>1
    <2>2. CASE r.name = f /\ r.kids = row.kids
      <3>1. Becomes(E, d, w)
        BY <1>1, <1>12, <2>2 DEF RefsAtHome
      <3>2. w = f
        BY <1>9, <3>1
      <3>3. QED
        BY <1>10, <2>2, <3>2 DEF Settled
    <2>3. QED
      BY <1>11, <2>1, <2>2
  <1>13. ASSUME NEW r \in R1, NEW t \in Dirs, Becomes(E1, r.name, t), ~Waits(E1, DirEvents, t)
         PROVE  /\ r.kids = <<>> \/ r.kids = <<D[t]>>
                /\ ~Waits(E1, FileEvents, t) => r.kids = FileOf(t, D, F)
    <2>1. /\ ~Waits(E, DirEvents, t)
          /\ Waits(E, FileEvents, t) => Waits(E1, FileEvents, t)
      BY <1>5, <1>13
    <2>2. CASE r \in R /\ r.name \in Dirs /\ r.name # d
      <3>1. Becomes(E, r.name, t)
        BY <1>7, <1>13, <2>2
      <3>2. QED
        BY <2>1, <2>2, <3>1 DEF KidsFit
    <2>3. CASE r.name = f /\ r.kids = row.kids
      <3>1. t = f
        BY <1>10, <1>13, <2>3 DEF Settled
      <3>2. QED
        BY <1>1, <1>8, <2>1, <2>3, <3>1 DEF KidsFit
    <2>4. QED
      BY <1>11, <2>2, <2>3
  <1>14. RefsAtHome(R1, E1, D)
    BY <1>12 DEF RefsAtHome
  <1>15. KidsFit(R1, E1, D, F)
    BY <1>13 DEF KidsFit
  <1>16. QED
    BY <1>14, <1>15

(* An event about d alone was handled.                                     *)
LEMMA HandledFrom ==
    ASSUME NEW E, NEW E1, NEW h, NEW kinds, NEW d \in Dirs,
           E = E1 \cup {h}, h.what \in kinds, kinds \in {DirEvents, FileEvents},
           Touches(h) = {d}, Keeps(E1, d)
    PROVE  Handled(E, E1, kinds, d)
  <1>1. h.what # "renamed"
    BY DEF DirEvents, FileEvents
  <1>2. \A z, t \in Dirs : Becomes(E, z, t) <=> Becomes(E1, z, t)
    BY <1>1, BecomesSame
  <1>3. \A K, t : Waits(E, K, t) <=> Waits(E1, K, t) \/ (h.what \in K /\ t = d)
    BY WaitsMore
  <1>4. h.what \in DirEvents => kinds = DirEvents
    BY DEF DirEvents, FileEvents
  <1>5. h.what \in FileEvents => kinds = FileEvents
    BY DEF DirEvents, FileEvents
  <1>6. \A t \in Dirs : t # d \/ DirEvents # kinds =>
            (Waits(E, DirEvents, t) <=> Waits(E1, DirEvents, t))
    BY <1>3, <1>4
  <1>7. \A t \in Dirs : t # d \/ FileEvents # kinds =>
            (Waits(E, FileEvents, t) <=> Waits(E1, FileEvents, t))
    BY <1>3, <1>5
  <1>8. QED
    BY <1>2, <1>6, <1>7, KeepsSettled DEF Handled

-----------------------------------------------------------------------------
(* How the events that wait change.                                        *)

LEMMA Appended ==
    ASSUME NEW w \in Seq(EventSet), NEW e \in EventSet, NEW v, v = Append(w, e)
    PROVE  /\ DOMAIN v = 1 .. Len(w) + 1 /\ Len(w) \in Nat /\ DOMAIN w = 1 .. Len(w)
           /\ v[Len(w) + 1] = e /\ \A i \in 1 .. Len(w) : v[i] = w[i]
           /\ ToSet(v) = ToSet(w) \cup {e}
  <1>1. /\ DOMAIN v = 1 .. Len(w) + 1 /\ Len(w) \in Nat /\ DOMAIN w = 1 .. Len(w)
        /\ v[Len(w) + 1] = e /\ \A i \in 1 .. Len(w) : v[i] = w[i]
    BY AppendProperties
  <1>2. ToSet(v) \subseteq ToSet(w) \cup {e}
    BY <1>1 DEF ToSet
  <1>3. ToSet(w) \subseteq ToSet(v) /\ e \in ToSet(v)
    BY <1>1 DEF ToSet
  <1>4. QED
    BY <1>1, <1>2, <1>3

LEMMA Behead ==
    ASSUME NEW w \in Seq(EventSet), w # <<>>, NEW v, v = Tail(w)
    PROVE  /\ DOMAIN v = 1 .. Len(w) - 1 /\ Len(w) \in Nat \ {0} /\ DOMAIN w = 1 .. Len(w)
           /\ Head(w) = w[1] /\ \A i \in 1 .. Len(w) - 1 : v[i] = w[i + 1]
           /\ ToSet(w) = ToSet(v) \cup {Head(w)} /\ v \in Seq(EventSet)
           /\ \A x \in ToSet(v) : \E j \in DOMAIN w : j > 1 /\ w[j] = x
  <1>1. /\ DOMAIN v = 1 .. Len(w) - 1 /\ Len(w) \in Nat \ {0} /\ DOMAIN w = 1 .. Len(w)
        /\ Head(w) = w[1] /\ \A i \in 1 .. Len(w) - 1 : v[i] = w[i + 1]
        /\ v \in Seq(EventSet)
    OBVIOUS
  <1>2. \A x \in ToSet(v) : \E j \in DOMAIN w : j > 1 /\ w[j] = x
    <2>1. ASSUME NEW i \in 1 .. Len(w) - 1
          PROVE  i + 1 \in DOMAIN w /\ i + 1 > 1 /\ w[i + 1] = v[i]
      BY <1>1
    <2>2. QED
      BY <1>1, <2>1 DEF ToSet
  <1>3. ToSet(v) \cup {Head(w)} \subseteq ToSet(w)
    BY <1>1, <1>2 DEF ToSet
  <1>4. ASSUME NEW j \in DOMAIN w
        PROVE  w[j] \in ToSet(v) \cup {Head(w)}
    <2>1. CASE j = 1
      BY <1>1, <2>1
    <2>2. CASE j # 1
      <3>1. j - 1 \in 1 .. Len(w) - 1 /\ j - 1 + 1 = j
        BY <1>1, <2>2
      <3>2. w[j] = v[j - 1] /\ j - 1 \in DOMAIN v
        BY <1>1, <3>1
      <3>3. QED
        BY <3>2 DEF ToSet
    <2>3. QED
      BY <2>1, <2>2
  <1>5. ToSet(w) \subseteq ToSet(v) \cup {Head(w)}
    BY <1>4 DEF ToSet
  <1>6. QED
    BY <1>1, <1>2, <1>3, <1>5

LEMMA RenamesAppend ==
    ASSUME NEW w \in Seq(EventSet), NEW e \in EventSet, RenamesFirst(w),
           e.what = "renamed" => \A x \in ToSet(w) : Touches(x) \cap Touches(e) = {}
    PROVE  RenamesFirst(Append(w, e))
  <1>1. PICK v, n : v = Append(w, e) /\ n = Len(w)
    OBVIOUS
  <1>2. /\ DOMAIN v = 1 .. n + 1 /\ n \in Nat /\ DOMAIN w = 1 .. n
        /\ v[n + 1] = e /\ \A i \in 1 .. n : v[i] = w[i]
    BY <1>1, Appended
  <1>3. ASSUME NEW i \in DOMAIN v, NEW j \in DOMAIN v, i < j, v[j].what = "renamed"
        PROVE  Touches(v[i]) \cap Touches(v[j]) = {}
    <2>1. i \in 1 .. n
      BY <1>2, <1>3
    <2>2. CASE j = n + 1
      <3>1. w[i] \in ToSet(w) /\ v[i] = w[i] /\ v[j] = e
        BY <1>2, <2>1, <2>2 DEF ToSet
      <3>2. QED
        BY <1>3, <3>1
    <2>3. CASE j \in 1 .. n
      <3>1. v[i] = w[i] /\ v[j] = w[j] /\ i \in DOMAIN w /\ j \in DOMAIN w
        BY <1>2, <2>1, <2>3
      <3>2. QED
        BY <1>3, <3>1 DEF RenamesFirst
    <2>4. QED
      BY <1>2, <2>2, <2>3
  <1>4. RenamesFirst(v)
    BY <1>3 DEF RenamesFirst
  <1>5. QED
    BY <1>1, <1>4

LEMMA RenamesTail ==
    ASSUME NEW w \in Seq(EventSet), w # <<>>, RenamesFirst(w)
    PROVE  /\ RenamesFirst(Tail(w))
           /\ \A d \in Touches(Head(w)) : Keeps(ToSet(Tail(w)), d)
  <1>1. PICK v, n : v = Tail(w) /\ n = Len(w)
    OBVIOUS
  <1>2. /\ DOMAIN v = 1 .. n - 1 /\ n \in Nat \ {0} /\ DOMAIN w = 1 .. n
        /\ Head(w) = w[1] /\ \A i \in 1 .. n - 1 : v[i] = w[i + 1]
    BY <1>1, Behead
  <1>a. v = Tail(w)
    BY <1>1
  <1>b. \A x \in ToSet(v) : \E j \in DOMAIN w : j > 1 /\ w[j] = x
    BY <1>a, Behead
  <1>3. ASSUME NEW i \in DOMAIN v, NEW j \in DOMAIN v, i < j, v[j].what = "renamed"
        PROVE  Touches(v[i]) \cap Touches(v[j]) = {}
    <2>1. /\ i + 1 \in DOMAIN w /\ j + 1 \in DOMAIN w /\ i + 1 < j + 1
          /\ v[i] = w[i + 1] /\ v[j] = w[j + 1]
      BY <1>2, <1>3
    <2>2. QED
      BY <1>3, <2>1 DEF RenamesFirst
  <1>4. ASSUME NEW x \in ToSet(v), x.what = "renamed"
        PROVE  Touches(Head(w)) \cap Touches(x) = {}
    <2>1. PICK j \in DOMAIN w : j > 1 /\ w[j] = x
      BY <1>b
    <2>2. 1 \in DOMAIN w /\ 1 < j
      BY <1>2, <2>1
    <2>3. QED
      BY <1>2, <1>4, <2>1, <2>2 DEF RenamesFirst
  <1>5. RenamesFirst(v)
    BY <1>3 DEF RenamesFirst
  <1>6. \A d \in Touches(Head(w)) : Keeps(ToSet(v), d)
    BY <1>4 DEF Keeps
  <1>7. QED
    BY <1>1, <1>5, <1>6

LEMMA LastAppend ==
    ASSUME NEW w \in Seq(EventSet), NEW e \in EventSet, NEW F, NEW F1, LastTells(w, F),
           \A t \in Dirs : t \notin Touches(e) => (t \in F1 <=> t \in F),
           e.what \in FileEvents => \A t \in Touches(e) : t \in F1 <=> Tells(e, t)
    PROVE  LastTells(Append(w, e), F1)
  <1>1. PICK v, n : v = Append(w, e) /\ n = Len(w)
    OBVIOUS
  <1>2. /\ DOMAIN v = 1 .. n + 1 /\ n \in Nat /\ DOMAIN w = 1 .. n
        /\ v[n + 1] = e /\ \A i \in 1 .. n : v[i] = w[i] /\ w[i] \in EventSet
    BY <1>1, Appended
  <1>3. ASSUME NEW i \in DOMAIN v, NEW t \in Touches(v[i]), v[i].what \in FileEvents,
               \A j \in DOMAIN v : j > i => t \notin Touches(v[j])
        PROVE  t \in F1 <=> Tells(v[i], t)
    <2>1. CASE i = n + 1
      BY <1>2, <1>3, <2>1
    <2>2. CASE i \in 1 .. n
      <3>1. i \in DOMAIN w /\ v[i] = w[i] /\ w[i] \in EventSet
        BY <1>2, <2>2
      <3>2. t \notin Touches(e)
        BY <1>2, <1>3, <2>2
      <3>3. t \in Dirs
        BY <3>1 DEF EventSet, Touches
      <3>4. \A j \in DOMAIN w : j > i => t \notin Touches(w[j])
        BY <1>2, <1>3
      <3>5. t \in F <=> Tells(w[i], t)
        BY <1>3, <3>1, <3>4 DEF LastTells
      <3>6. QED
        BY <3>1, <3>2, <3>3, <3>5
    <2>3. QED
      BY <1>2, <2>1, <2>2
  <1>4. LastTells(v, F1)
    BY <1>3 DEF LastTells
  <1>5. QED
    BY <1>1, <1>4

LEMMA LastTail ==
    ASSUME NEW w \in Seq(EventSet), w # <<>>, NEW F, LastTells(w, F)
    PROVE  /\ LastTells(Tail(w), F)
           /\ \A d \in Touches(Head(w)) :
                  /\ Head(w).what \in FileEvents
                  /\ \A x \in ToSet(Tail(w)) : d \notin Touches(x)
                  => (d \in F <=> Tells(Head(w), d))
  <1>1. PICK v, n : v = Tail(w) /\ n = Len(w)
    OBVIOUS
  <1>2. /\ DOMAIN v = 1 .. n - 1 /\ n \in Nat \ {0} /\ DOMAIN w = 1 .. n
        /\ Head(w) = w[1] /\ \A i \in 1 .. n - 1 : v[i] = w[i + 1]
    BY <1>1, Behead
  <1>3. ASSUME NEW i \in DOMAIN v, NEW t \in Touches(v[i]), v[i].what \in FileEvents,
               \A j \in DOMAIN v : j > i => t \notin Touches(v[j])
        PROVE  t \in F <=> Tells(v[i], t)
    <2>1. i + 1 \in DOMAIN w /\ v[i] = w[i + 1]
      BY <1>2
    <2>2. ASSUME NEW j \in DOMAIN w, j > i + 1
          PROVE  t \notin Touches(w[j])
      <3>1. j - 1 \in DOMAIN v /\ j - 1 > i /\ v[j - 1] = w[j - 1 + 1] /\ j - 1 + 1 = j
        BY <1>2, <2>2
      <3>2. QED
        BY <1>3, <3>1
    <2>3. QED
      BY <1>3, <2>1, <2>2 DEF LastTells
  <1>4. ASSUME NEW t \in Touches(Head(w)), Head(w).what \in FileEvents,
               \A x \in ToSet(v) : t \notin Touches(x)
        PROVE  t \in F <=> Tells(Head(w), t)
    <2>1. ASSUME NEW j \in DOMAIN w, j > 1
          PROVE  t \notin Touches(w[j])
      <3>1. j - 1 \in DOMAIN v /\ v[j - 1] = w[j - 1 + 1] /\ j - 1 + 1 = j
        BY <1>2, <2>1
      <3>2. w[j] \in ToSet(v)
        BY <3>1 DEF ToSet
      <3>3. QED
        BY <1>4, <3>2
    <2>2. 1 \in DOMAIN w
      BY <1>2
    <2>3. QED
      BY <1>2, <1>4, <2>1, <2>2 DEF LastTells
  <1>5. LastTells(v, F)
    BY <1>3 DEF LastTells
  <1>6. QED
    BY <1>1, <1>4, <1>5

-----------------------------------------------------------------------------
(* A file moved is a file removed and a file created.                      *)

LEMMA SameFit ==
    ASSUME NEW R, NEW E, NEW E0, NEW D, NEW F, RefsAtHome(R, E, D), KidsFit(R, E, D, F),
           \A z, t : Becomes(E, z, t) <=> Becomes(E0, z, t),
           \A t : /\ Waits(E, DirEvents, t) <=> Waits(E0, DirEvents, t)
                  /\ Waits(E, FileEvents, t) <=> Waits(E0, FileEvents, t)
    PROVE  RefsAtHome(R, E0, D) /\ KidsFit(R, E0, D, F)
  <1>1. RefsAtHome(R, E0, D)
    BY DEF RefsAtHome
  <1>2. KidsFit(R, E0, D, F)
    BY DEF KidsFit
  <1>3. QED
    BY <1>1, <1>2

(* Another file than the one that went is still there.                     *)
LEMMA StillThere ==
    ASSUME NEW R, RowSet(R), NEW R1, NEW D, NEW d, NEW g, FileGoes(R, D, d, R1),
           D[g] # Nothing => D[d] # D[g]
    PROVE  FileIn(R, D, g) <=> FileIn(R1, D, g)
  <1>0. PICK f : f = D[g]
    OBVIOUS
  <1>1. ASSUME NEW r \in R, NEW k \in DOMAIN r.kids, r.kids[k] # f,
               R1 = Rest(R, r.name) \cup {Item(r.name, RemoveAt(r.kids, k))}
        PROVE  (\E q \in R : \E m \in DOMAIN q.kids : q.kids[m] = f)
                   <=> \E q \in R1 : \E m \in DOMAIN q.kids : q.kids[m] = f
    <2>1. PICK row, kids, n : /\ kids = RemoveAt(r.kids, k) /\ row = Item(r.name, kids)
                              /\ n = Len(r.kids)
      OBVIOUS
    <2>2. r.kids \in Seq(Refs)
      BY DEF RowSet
    <2>3. k \in 1 .. n /\ n \in Nat /\ DOMAIN r.kids = 1 .. n
      BY <2>1, <2>2
    <2>4. /\ kids \in Seq(Refs) /\ Len(kids) = n - 1
          /\ \A j \in 1 .. n - 1 : kids[j] = IF j < k THEN r.kids[j] ELSE r.kids[j + 1]
      <3>1. k \in 1 .. Len(r.kids)
        BY <2>1, <2>3
      <3>2. QED
        BY <2>1, <2>2, <3>1, RemoveAtFact
    <2>5. DOMAIN kids = 1 .. n - 1
      BY <2>4
    <2>6. row.kids = kids /\ row \in R1 /\ R1 = Rest(R, r.name) \cup {row}
      BY <1>1, <2>1 DEF Item, Rest
    <2>7. ASSUME NEW q \in R, NEW m \in DOMAIN q.kids, q.kids[m] = f
          PROVE  \E p \in R1 : \E j \in DOMAIN p.kids : p.kids[j] = f
      <3>1. CASE q.name # r.name
        BY <2>6, <2>7, <3>1 DEF Rest
      <3>2. CASE q.name = r.name
        <4>1. q = r
          BY <3>2 DEF RowSet
        <4>2. m \in 1 .. n /\ m # k /\ r.kids[m] = f
          BY <1>1, <2>3, <2>7, <4>1
        <4>3. \E j \in 1 .. n - 1 : kids[j] = f
          <5>1. CASE m < k
            <6>1. m \in 1 .. n - 1 /\ kids[m] = r.kids[m]
              BY <2>3, <2>4, <4>2, <5>1
            <6>2. QED
              BY <4>2, <6>1
          <5>2. CASE m > k
            <6>1. m - 1 \in 1 .. n - 1 /\ ~ (m - 1 < k) /\ m - 1 + 1 = m
              BY <2>3, <4>2, <5>2
            <6>2. kids[m - 1] = r.kids[m]
              BY <2>4, <6>1
            <6>3. QED
              BY <4>2, <6>1, <6>2
          <5>3. QED
            BY <2>3, <4>2, <5>1, <5>2
        <4>4. QED
          BY <2>5, <2>6, <4>3
      <3>3. QED
        BY <3>1, <3>2
    <2>8. ASSUME NEW q \in R1, NEW m \in DOMAIN q.kids, q.kids[m] = f
          PROVE  \E p \in R : \E j \in DOMAIN p.kids : p.kids[j] = f
      <3>1. CASE q \in R
        BY <2>8, <3>1
      <3>2. CASE q = row
        <4>1. m \in 1 .. n - 1 /\ kids[m] = f
          BY <2>5, <2>6, <2>8, <3>2
        <4>2. m \in 1 .. n /\ m + 1 \in 1 .. n
          BY <2>3, <4>1
        <4>3. kids[m] = r.kids[m] \/ kids[m] = r.kids[m + 1]
          BY <2>4, <4>1
        <4>4. QED
          BY <2>3, <4>1, <4>2, <4>3
      <3>3. QED
        BY <2>6, <3>1, <3>2 DEF Rest
    <2>9. QED
      BY <2>7, <2>8
  <1>2. CASE R1 = R \/ f = Nothing
    BY <1>0, <1>2 DEF FileIn
  <1>3. CASE R1 # R /\ f # Nothing
    <2>1. PICK r \in R : \E k \in DOMAIN r.kids :
              /\ r.kids[k] = D[d]
              /\ R1 = Rest(R, r.name) \cup {Item(r.name, RemoveAt(r.kids, k))}
      BY <1>3 DEF FileGoes
    <2>2. PICK k \in DOMAIN r.kids :
              /\ r.kids[k] = D[d]
              /\ R1 = Rest(R, r.name) \cup {Item(r.name, RemoveAt(r.kids, k))}
      BY <2>1
    <2>3. r.kids[k] # f
      BY <1>0, <1>3, <2>2
    <2>4. (\E q \in R : \E m \in DOMAIN q.kids : q.kids[m] = f)
              <=> \E q \in R1 : \E m \in DOMAIN q.kids : q.kids[m] = f
      BY <1>1, <2>2, <2>3
    <2>5. QED
      BY <1>0, <2>4 DEF FileIn
  <1>4. QED
    BY <1>2, <1>3

LEMMA KidsFileMoved ==
    ASSUME NEW R, NEW E, NEW E1, NEW D, NEW F, NEW d \in Dirs, NEW f \in Dirs, d # f,
           NEW h, h.what = "file moved", h.dir = d, h.to = f, E = E1 \cup {h},
           Keeps(E1, d), Keeps(E1, f),
           RowSet(R), Disk(D), RefsAtHome(R, E, D), KidsFit(R, E, D, F),
           ~Waits(E1, DirEvents, d) => D[d] # Nothing,
           ~Waits(E1, DirEvents, f) => D[f] # Nothing,
           ~Waits(E1, DirEvents, d) /\ ~Waits(E1, FileEvents, d) => d \notin F,
           ~Waits(E1, DirEvents, f) /\ ~Waits(E1, FileEvents, f) => f \in F,
           NEW R1, RowSet(R1),
           FileGoes(R, D, d, R1), NEW R2, FileComes(R, R1, D, f, R2)
    PROVE  RefsAtHome(R2, E1, D) /\ KidsFit(R2, E1, D, F)
  <1>1. PICK came, went : came = Event("file created", f, f) /\ went = Event("file removed", d, d)
    OBVIOUS
  <1>2. /\ came.what = "file created" /\ Touches(came) = {f}
        /\ went.what = "file removed" /\ Touches(went) = {d}
    <2>1. came.what = "file created" /\ Touches(came) = {f}
      BY <1>1 DEF Event, Touches
    <2>2. went.what = "file removed" /\ Touches(went) = {d}
      BY <1>1 DEF Event, Touches
    <2>3. QED
      BY <2>1, <2>2
  <1>3. PICK E2, E0 : E2 = E1 \cup {came} /\ E0 = E2 \cup {went}
    OBVIOUS
  <1>4. \A z, t : /\ Becomes(E2, z, t) <=> Becomes(E1, z, t)
                  /\ Becomes(E0, z, t) <=> Becomes(E2, z, t)
                  /\ Becomes(E, z, t) <=> Becomes(E1, z, t)
    BY <1>2, <1>3, BecomesSame
  <1>5. /\ \A K, t : Waits(E2, K, t) <=> Waits(E1, K, t) \/ (came.what \in K /\ t \in Touches(came))
        /\ \A K, t : Waits(E0, K, t) <=> Waits(E2, K, t) \/ (went.what \in K /\ t \in Touches(went))
        /\ \A K, t : Waits(E, K, t) <=> Waits(E1, K, t) \/ (h.what \in K /\ t \in Touches(h))
    <2>1. \A K, t : Waits(E2, K, t) <=> Waits(E1, K, t) \/ (came.what \in K /\ t \in Touches(came))
      BY <1>3, WaitsMore
    <2>2. \A K, t : Waits(E0, K, t) <=> Waits(E2, K, t) \/ (went.what \in K /\ t \in Touches(went))
      BY <1>3, WaitsMore
    <2>3. \A K, t : Waits(E, K, t) <=> Waits(E1, K, t) \/ (h.what \in K /\ t \in Touches(h))
      BY WaitsMore
    <2>4. QED
      BY <2>1, <2>2, <2>3
  <1>6. \A t : /\ Waits(E, DirEvents, t) <=> Waits(E1, DirEvents, t)
               /\ Waits(E0, DirEvents, t) <=> Waits(E1, DirEvents, t)
               /\ Waits(E2, DirEvents, t) <=> Waits(E1, DirEvents, t)
               /\ Waits(E2, FileEvents, t) <=> Waits(E1, FileEvents, t) \/ t = f
               /\ Waits(E0, FileEvents, t) <=> Waits(E1, FileEvents, t) \/ t = f \/ t = d
               /\ Waits(E, FileEvents, t) <=> Waits(E1, FileEvents, t) \/ t = f \/ t = d
    <2>1. /\ came.what \notin DirEvents /\ went.what \notin DirEvents /\ h.what \notin DirEvents
          /\ came.what \in FileEvents /\ went.what \in FileEvents /\ h.what \in FileEvents
      BY <1>2 DEF DirEvents, FileEvents
    <2>2. Touches(h) = {d, f}
      BY DEF Touches
    <2>3. QED
      BY <1>2, <1>5, <2>1, <2>2
  <1>7. RefsAtHome(R, E0, D) /\ KidsFit(R, E0, D, F)
    BY <1>4, <1>6, SameFit
  <1>8. Keeps(E2, d)
    BY <1>2, <1>3 DEF Keeps
  <1>9. Handled(E0, E2, FileEvents, d) /\ Handled(E2, E1, FileEvents, f)
    <2>1. came.what \in FileEvents /\ went.what \in FileEvents
      BY <1>2 DEF FileEvents
    <2>2. QED
      BY <1>2, <1>3, <1>8, <2>1, HandledFrom
  <1>10. RefsAtHome(R1, E2, D) /\ KidsFit(R1, E2, D, F)
    <2>1. /\ ~Waits(E2, DirEvents, d) => D[d] # Nothing
          /\ ~Waits(E2, DirEvents, d) /\ ~Waits(E2, FileEvents, d) => d \notin F
      BY <1>6
    <2>2. QED
      BY <1>7, <1>9, <2>1, KidsFileWent
  <1>11. D[f] # Nothing => D[d] # D[f]
    BY DEF Disk
  <1>12. FileIn(R, D, f) <=> FileIn(R1, D, f)
    BY <1>11, StillThere
  <1>13. FileComes(R1, R1, D, f, R2)
    BY <1>12 DEF FileComes
  <1>14. QED
    BY <1>9, <1>10, <1>13, KidsFileCame

-----------------------------------------------------------------------------
(* What the handler of an event makes of the files.                        *)

LEMMA RowsAre ==
    ASSUME NEW items \in Seq(Items), Unique(items)
    PROVE  RowSet(ToSet(items)) /\ \A d : Kept(items, d) = Rest(ToSet(items), d)
  <1>1. \A r \in ToSet(items) : r \in Items /\ \E i \in DOMAIN items : items[i] = r
    BY RowsOf
  <1>2. \A r \in ToSet(items) : r.name \in Dirs /\ r.kids \in Seq(Refs)
    BY <1>1 DEF Items
  <1>3. \A r, q \in ToSet(items) : r.name = q.name => r = q
    BY <1>1 DEF Unique
  <1>4. QED
    BY <1>2, <1>3 DEF RowSet, Kept, Rest

LEMMA DiskIs ==
    ASSUME TreeTypeOK, DiskIsSound
    PROVE  Disk(disk)
  <1>1. \A d \in Dirs : disk[d] \in Nat
    BY DEF TreeTypeOK, Nodes, Nothing
  <1>2. QED
    BY <1>1 DEF DiskIsSound, Disk

(* Nothing else about d waits: it is there, and the event told the last of *)
(* its file.                                                               *)
LEMMA LastAbout ==
    ASSUME NEW E \in SUBSET EventSet, NEW d \in Dirs, Keeps(E, d), ~Waits(E, DirEvents, d),
           ~Waits(E, FileEvents, d)
    PROVE  \A x \in E : d \notin Touches(x)
  <1>1. ASSUME NEW x \in E, d \in Touches(x)
        PROVE  FALSE
    <2>1. x.what \in DirEvents \/ x.what \in FileEvents \/ x.what = "renamed"
      BY DEF EventSet, DirEvents, FileEvents
    <2>2. QED
      BY <1>1, <2>1 DEF Waits, Keeps
  <1>2. QED
    BY <1>1

LEMMA StaysThere ==
    ASSUME NEW w \in Seq(EventSet), NEW C, Lead(w, C, OnDisk), NEW d \in C, d \in Dirs,
           Keeps(ToSet(w), d), ~Waits(ToSet(w), DirEvents, d)
    PROVE  disk[d] # Nothing
  <1>1. \A x \in ToSet(w) : ~ (x.what \in {"removed", "renamed"} /\ x.dir = d)
    BY DEF Keeps, Waits, DirEvents, Touches
  <1>2. d \in OnDisk
    BY <1>1, LeadStays
  <1>3. QED
    BY <1>2 DEF OnDisk

(* What the first of the events E says, of the names and the files, when   *)
(* E1 wait behind it.                                                      *)
FirstSays(E, E1, h, C) ==
    /\ E = E1 \cup {h} /\ h.dir \in Dirs /\ h.to \in Dirs
    /\ Keeps(E1, h.dir) /\ Keeps(E1, h.to) /\ Legal(h, Names(tree), C)
    /\ \A t \in C : t \in Dirs /\ Keeps(E1, t) /\ ~Waits(E1, DirEvents, t) => disk[t] # Nothing
    /\ \A t \in {h.dir, h.to} :
           h.what \in FileEvents /\ ~Waits(E1, DirEvents, t) /\ ~Waits(E1, FileEvents, t)
               => (t \in Full <=> Tells(h, t))

LEMMA BehindFirst ==
    ASSUME TreeTypeOK, DiskIsSound, TreeIsBehind, KidsAreBehind, Watched, ~renamedEarly,
           HandleEvent
    PROVE  \E C : FirstSays(ToSet(events), ToSet(events'), Head(events), C)
  <1>1. PICK w, h, d, f, E1 : /\ w = Tail(events) /\ h = Head(events) /\ d = h.dir /\ f = h.to
                              /\ E1 = ToSet(w)
    OBVIOUS
  <1>2. /\ events # <<>> /\ events \in Seq(EventSet) /\ events' = w /\ w \in Seq(EventSet)
        /\ d \in Dirs /\ f \in Dirs
    BY <1>1, Handling DEF TreeTypeOK
  <1>3. RenamesFirst(events) /\ LastTells(events, Full) /\ Lead(events, Names(tree), OnDisk)
    BY DEF KidsAreBehind, KidsAre, TreeIsBehind
  <1>4. PICK C \in SUBSET Dirs : Legal(h, Names(tree), C) /\ Lead(w, C, OnDisk)
    BY <1>1, <1>2, <1>3, LeadTail
  <1>5. ToSet(events) = E1 \cup {h} /\ E1 \in SUBSET EventSet
    <2>1. ToSet(events) = E1 \cup {h}
      BY <1>1, <1>2, Behead
    <2>2. E1 \in SUBSET EventSet
      BY <1>1, <1>2 DEF ToSet
    <2>3. QED
      BY <2>1, <2>2
  <1>6. Touches(h) = {d, f}
    BY <1>1 DEF Touches
  <1>7. Keeps(E1, d) /\ Keeps(E1, f)
    BY <1>1, <1>2, <1>3, <1>6, RenamesTail
  <1>8. ASSUME NEW t \in C, t \in Dirs, Keeps(E1, t), ~Waits(E1, DirEvents, t)
        PROVE  disk[t] # Nothing
    BY <1>1, <1>2, <1>4, <1>8, StaysThere
  <1>9. ASSUME NEW t \in {d, f}, h.what \in FileEvents, ~Waits(E1, DirEvents, t),
               ~Waits(E1, FileEvents, t)
        PROVE  t \in Full <=> Tells(h, t)
    <2>1. t \in Dirs /\ Keeps(E1, t) /\ t \in Touches(h)
      BY <1>2, <1>6, <1>7
    <2>2. \A x \in E1 : t \notin Touches(x)
      BY <1>5, <1>9, <2>1, LastAbout
    <2>3. QED
      BY <1>1, <1>2, <1>3, <1>9, <2>1, <2>2, LastTail
  <1>10. \A t \in C : t \in Dirs /\ Keeps(E1, t) /\ ~Waits(E1, DirEvents, t) => disk[t] # Nothing
    BY <1>8
  <1>11. \A t \in {h.dir, h.to} :
             h.what \in FileEvents /\ ~Waits(E1, DirEvents, t) /\ ~Waits(E1, FileEvents, t)
                 => (t \in Full <=> Tells(h, t))
    BY <1>1, <1>9
  <1>12. FirstSays(ToSet(events), E1, h, C)
    BY <1>1, <1>2, <1>4, <1>5, <1>7, <1>10, <1>11 DEF FirstSays
  <1>13. QED
    BY <1>1, <1>2, <1>12

LEMMA FileGoesRows ==
    ASSUME TreeTypeOK, DiskIsSound, Unique(tree), NEW d \in Dirs, NEW shown \in WithoutFile(d)
    PROVE  SameNames(shown) /\ FileGoes(ToSet(tree), disk, d, ToSet(shown))
  <1>1. PICK R, R1 : R = ToSet(tree) /\ R1 = ToSet(shown)
    OBVIOUS
  <1>2. /\ SameNames(shown)
        /\ \A t : Kept(tree, t) = Rest(R, t)
    BY <1>1, WithoutFileRows, RowsAre DEF TreeTypeOK
  <1>3. CASE shown = tree /\ (disk[d] # Nothing =>
                 \A r \in ToSet(tree) : \A k \in DOMAIN r.kids : r.kids[k] # disk[d])
    <2>1. R1 = R /\ ~FileIn(R, disk, d)
      BY <1>1, <1>3 DEF FileIn
    <2>2. QED
      BY <1>1, <1>2, <2>1 DEF FileGoes
  <1>4. ASSUME NEW r \in ToSet(tree), NEW k \in DOMAIN r.kids, disk[d] # Nothing,
               r.kids[k] = disk[d],
               ToSet(shown) = Kept(tree, r.name) \cup {Item(r.name, RemoveAt(r.kids, k))}
        PROVE  FileGoes(R, disk, d, R1)
    <2>1. r \in R /\ R1 = Rest(R, r.name) \cup {Item(r.name, RemoveAt(r.kids, k))}
      BY <1>1, <1>2, <1>4
    <2>2. QED
      BY <1>4, <2>1 DEF FileGoes
  <1>5. QED
    BY <1>1, <1>2, <1>3, <1>4, WithoutFileRows

LEMMA FileComesRows ==
    ASSUME TreeTypeOK, DiskIsSound, Unique(tree), NEW d \in Dirs, d \in Names(tree),
           NEW shown, SameNames(shown), CreateFile(d, shown)
    PROVE  FileComes(ToSet(tree), ToSet(shown), disk, d, ToSet(tree'))
  <1>1. PICK R, R1, R2 : R = ToSet(tree) /\ R1 = ToSet(shown) /\ R2 = ToSet(tree')
    OBVIOUS
  <1>2. \A t : Kept(shown, t) = Rest(R1, t)
    BY <1>1, RowsAre DEF SameNames
  <1>3. CASE /\ tree' = shown /\ disk[d] # Nothing
             /\ \E r \in ToSet(tree) : \E k \in DOMAIN r.kids : r.kids[k] = disk[d]
    <2>1. R2 = R1 /\ FileIn(R, disk, d)
      BY <1>1, <1>3 DEF FileIn
    <2>2. QED
      BY <1>1, <2>1 DEF FileComes
  <1>4. ASSUME disk[d] # Nothing =>
                   \A r \in ToSet(tree) : \A k \in DOMAIN r.kids : r.kids[k] # disk[d],
               NEW r \in ToSet(shown), r.name = d,
               ToSet(tree') = Kept(shown, d) \cup {Item(d, Append(r.kids, RefOf(d)))}
        PROVE  FileComes(R, R1, disk, d, R2)
    <2>1. ~FileIn(R, disk, d)
      BY <1>1, <1>4 DEF FileIn
    <2>2. /\ r \in R1
          /\ R2 = Rest(R1, d) \cup
                     {Item(d, Append(r.kids, IF disk[d] = Nothing THEN NoRef ELSE disk[d]))}
      BY <1>1, <1>2, <1>4 DEF RefOf
    <2>3. QED
      BY <1>4, <2>1, <2>2 DEF FileComes
  <1>5. QED
    BY <1>1, <1>3, <1>4, CreateFileRows

LEMMA HandlerKids ==
    ASSUME TreeTypeOK, DiskIsSound, TreeIsBehind, KidsAreBehind, Watched, ~renamedEarly,
           HandleEvent
    PROVE  /\ RefsAtHome(ToSet(tree'), ToSet(events'), disk)
           /\ KidsFit(ToSet(tree'), ToSet(events'), disk, Full)
  <1>1. PICK R, R1, E, E1, h, D, F : /\ R = ToSet(tree) /\ R1 = ToSet(tree') /\ E = ToSet(events)
                                     /\ E1 = ToSet(events') /\ h = Head(events)
                                     /\ D = disk /\ F = Full
    OBVIOUS
  <1>2. PICK d, f : d = h.dir /\ f = h.to
    OBVIOUS
  <1>3. PICK C : FirstSays(E, E1, h, C)
    BY <1>1, BehindFirst
  <1>4. /\ E = E1 \cup {h} /\ d \in Dirs /\ f \in Dirs /\ Keeps(E1, d) /\ Keeps(E1, f)
        /\ Legal(h, Names(tree), C)
        /\ \A t \in C : t \in Dirs /\ Keeps(E1, t) /\ ~Waits(E1, DirEvents, t) => D[t] # Nothing
        /\ \A t \in {d, f} :
               h.what \in FileEvents /\ ~Waits(E1, DirEvents, t) /\ ~Waits(E1, FileEvents, t)
                   => (t \in F <=> Tells(h, t))
    BY <1>1, <1>2, <1>3 DEF FirstSays
  <1>5. /\ tree \in Seq(Items) /\ Unique(tree) /\ RowSet(R) /\ Disk(D)
        /\ \A t : Kept(tree, t) = Rest(R, t)
        /\ RefsAtHome(R, E, D) /\ KidsFit(R, E, D, F)
    <2>1. tree \in Seq(Items) /\ Unique(tree)
      BY DEF TreeTypeOK, TreeIsBehind
    <2>2. RefsAtHome(R, E, D) /\ KidsFit(R, E, D, F)
      BY <1>1 DEF KidsAreBehind, KidsAre
    <2>3. QED
      BY <1>1, <2>1, <2>2, RowsAre, DiskIs
  <1>6. /\ h.what = "created" => d = f /\ d \notin Names(tree)
        /\ h.what = "removed" => d = f /\ d \in Names(tree)
        /\ h.what = "renamed" => d \in Names(tree) /\ f \notin Names(tree)
        /\ h.what \in {"file created", "file removed"} => d = f /\ d \in Names(tree) /\ d \in C
        /\ h.what = "file moved" =>
               d # f /\ d \in Names(tree) /\ f \in Names(tree) /\ d \in C /\ f \in C
    <2>1. PICK N : N = Names(tree)
      OBVIOUS
    <2>2. Legal(h, N, C)
      BY <1>4, <2>1
    <2>3. /\ h.what = "created" => h.dir = h.to /\ h.dir \notin N /\ C = N \cup {h.dir}
          /\ h.what = "removed" => h.dir = h.to /\ h.dir \in N /\ C = N \ {h.dir}
          /\ h.what = "renamed" => h.dir \in N /\ h.to \notin N
                                   /\ C = (N \ {h.dir}) \cup {h.to}
          /\ h.what \in {"file created", "file removed"} =>
                 h.dir = h.to /\ h.dir \in N /\ C = N
          /\ h.what = "file moved" => h.dir # h.to /\ h.dir \in N /\ h.to \in N /\ C = N
      BY <2>2, LegalSays
    <2>4. QED
      BY <1>2, <2>1, <2>3
  <1>a. Touches(h) = {d, f}
    BY <1>2 DEF Touches
  <1>b. \A what : Shows(what) => h.what = what
    BY <1>1 DEF Shows
  <1>7. phase = "open"
    BY DEF Watched
  <1>8. ASSUME Shows("created"), CreateDir(d)
        PROVE  RefsAtHome(R1, E1, D) /\ KidsFit(R1, E1, D, F)
    <2>1. h.what = "created" /\ d \notin Names(tree) /\ Touches(h) = {d}
      BY <1>6, <1>a, <1>b, <1>8
    <2>2. R1 = R \cup {Item(d, FilesIn(disk[d]))}
      BY <1>1, <1>4, <1>5, <1>7, <1>8, <2>1, CreatedRows
    <2>3. FilesIn(disk[d]) = FileOf(d, D, F)
      BY <1>1, <1>4 DEF FilesIn, FileOf, Full
    <2>4. \A r \in R : r.name # d
      BY <1>1, <2>1 DEF Names
    <2>5. Handled(E, E1, DirEvents, d)
      BY <1>4, <2>1, HandledFrom DEF DirEvents
    <2>6. QED
      BY <1>4, <1>5, <2>2, <2>3, <2>4, <2>5, KidsCreated
  <1>9. ASSUME Shows("removed"), tree' \in WithoutDir(d)
        PROVE  RefsAtHome(R1, E1, D) /\ KidsFit(R1, E1, D, F)
    <2>1. h.what = "removed" /\ d \in Names(tree) /\ Touches(h) = {d}
      BY <1>6, <1>a, <1>b, <1>9
    <2>2. R1 = Rest(R, d)
      BY <1>1, <1>4, <1>5, <1>9, <2>1, RemovedRows
    <2>3. Handled(E, E1, DirEvents, d)
      BY <1>4, <2>1, HandledFrom DEF DirEvents
    <2>4. \A r \in R1 : r \in R /\ r.name # d
      BY <2>2 DEF Rest
    <2>5. QED
      BY <1>4, <1>5, <2>3, <2>4, OthersFit
  <1>10. ASSUME Shows("file created"), CreateFile(d, tree)
         PROVE  RefsAtHome(R1, E1, D) /\ KidsFit(R1, E1, D, F)
    <2>1. h.what = "file created" /\ d \in Names(tree) /\ d \in C /\ Touches(h) = {d}
      BY <1>6, <1>a, <1>b, <1>10
    <2>2. SameNames(tree)
      BY <1>5 DEF SameNames
    <2>3. FileComes(R, R, D, d, R1)
      BY <1>1, <1>4, <1>5, <1>10, <2>1, <2>2, FileComesRows
    <2>4. Handled(E, E1, FileEvents, d)
      BY <1>4, <2>1, HandledFrom DEF FileEvents
    <2>5. /\ ~Waits(E1, DirEvents, d) => D[d] # Nothing
          /\ ~Waits(E1, DirEvents, d) /\ ~Waits(E1, FileEvents, d) => d \in F
      BY <1>4, <2>1 DEF FileEvents, Tells
    <2>6. QED
      BY <1>4, <1>5, <2>3, <2>4, <2>5, KidsFileCame
  <1>11. ASSUME Shows("file removed"), tree' \in WithoutFile(d)
         PROVE  RefsAtHome(R1, E1, D) /\ KidsFit(R1, E1, D, F)
    <2>1. h.what = "file removed" /\ d \in Names(tree) /\ d \in C /\ Touches(h) = {d}
      BY <1>6, <1>a, <1>b, <1>11
    <2>2. FileGoes(R, D, d, R1)
      BY <1>1, <1>4, <1>5, <1>11, FileGoesRows
    <2>3. Handled(E, E1, FileEvents, d)
      BY <1>4, <2>1, HandledFrom DEF FileEvents
    <2>4. /\ ~Waits(E1, DirEvents, d) => D[d] # Nothing
          /\ ~Waits(E1, DirEvents, d) /\ ~Waits(E1, FileEvents, d) => d \notin F
      BY <1>4, <2>1 DEF FileEvents, Tells
    <2>5. QED
      BY <1>4, <1>5, <2>2, <2>3, <2>4, KidsFileWent
  <1>12. ASSUME Renamed
         PROVE  RefsAtHome(R1, E1, D) /\ KidsFit(R1, E1, D, F)
    <2>1. h.what = "renamed" /\ d \in Names(tree) /\ f \notin Names(tree)
      BY <1>6, <1>b, <1>12 DEF Renamed
    <2>2. \E r \in R : r.name = d /\ R1 = Rest(R, d) \cup {Item(f, r.kids)}
      BY <1>1, <1>2, <1>4, <1>5, <1>12, <2>1, RenamedRows
    <2>3. h = Event("renamed", d, f)
      <3>1. h \in EventSet
        BY <1>1, Handling
      <3>2. QED
        BY <1>2, <2>1, <3>1 DEF EventSet, Event
    <2>4. \A r \in R : r.name # f
      BY <1>1, <2>1 DEF Names
    <2>5. QED
      BY <1>4, <1>5, <2>2, <2>3, <2>4, KidsRenamed
  <1>13. ASSUME Shows("file moved"), NEW shown \in WithoutFile(d), CreateFile(f, shown)
         PROVE  RefsAtHome(R1, E1, D) /\ KidsFit(R1, E1, D, F)
    <2>1. /\ h.what = "file moved" /\ d # f /\ d \in Names(tree) /\ f \in Names(tree)
          /\ d \in C /\ f \in C
      BY <1>6, <1>b, <1>13
    <2>2. PICK R2 : R2 = ToSet(shown)
      OBVIOUS
    <2>3. SameNames(shown) /\ FileGoes(R, D, d, R2)
      BY <1>1, <1>4, <1>5, <2>2, FileGoesRows
    <2>4. RowSet(R2)
      BY <2>2, <2>3, RowsAre DEF SameNames
    <2>5. FileComes(R, R2, D, f, R1)
      BY <1>1, <1>4, <1>5, <1>13, <2>1, <2>2, <2>3, FileComesRows
    <2>6. /\ ~Waits(E1, DirEvents, d) => D[d] # Nothing
          /\ ~Waits(E1, DirEvents, f) => D[f] # Nothing
          /\ ~Waits(E1, DirEvents, d) /\ ~Waits(E1, FileEvents, d) => d \notin F
          /\ ~Waits(E1, DirEvents, f) /\ ~Waits(E1, FileEvents, f) => f \in F
      BY <1>2, <1>4, <2>1 DEF FileEvents, Tells
    <2>7. QED
      BY <1>2, <1>4, <1>5, <2>1, <2>3, <2>4, <2>5, <2>6, KidsFileMoved
  <1>14. RefsAtHome(R1, E1, D) /\ KidsFit(R1, E1, D, F)
    BY <1>1, <1>2, <1>8, <1>9, <1>10, <1>11, <1>12, <1>13
    DEF HandleEvent, EntryCreated, EntryRemoved, Moved
  <1>15. QED
    BY <1>1, <1>14

-----------------------------------------------------------------------------
(* What happens in the folder is told.                                     *)

LEMMA NodesAre ==
    ASSUME TreeTypeOK, DiskIsSound
    PROVE  /\ made \in Nat /\ Nothing \notin holds /\ Nothing \notin 1 .. made
           /\ holds \subseteq 1 .. made /\ disk \in [Dirs -> (1 .. made) \cup {Nothing}]
           /\ \A t, d \in Dirs : t # d /\ disk[d] # Nothing => disk[t] # disk[d]
           /\ \A r \in ToSet(tree) : \A k \in DOMAIN r.kids : r.kids[k] # made + 1
  <1>1. made \in Nat
    BY DEF TreeTypeOK
  <1>2. /\ Nothing \notin 1 .. made /\ holds \subseteq 1 .. made
        /\ disk \in [Dirs -> (1 .. made) \cup {Nothing}] /\ tree \in Seq(ItemsOf(1 .. made))
    BY DEF DiskIsSound, NamedIn
  <1>3. \A t, d \in Dirs : t # d /\ disk[d] # Nothing => disk[t] # disk[d]
    BY DEF DiskIsSound
  <1>4. ASSUME NEW r \in ToSet(tree), NEW k \in DOMAIN r.kids
        PROVE  r.kids[k] # made + 1
    <2>1. PICK i \in DOMAIN tree : tree[i] = r
      BY DEF ToSet
    <2>2. r \in ItemsOf(1 .. made)
      BY <1>2, <2>1
    <2>3. r.kids \in Seq(RefsTo(1 .. made))
      BY <2>2 DEF ItemsOf
    <2>4. r.kids[k] \in RefsTo(1 .. made)
      BY <2>3
    <2>5. QED
      BY <1>1, <2>4 DEF RefsTo, NoRef
  <1>5. QED
    BY <1>1, <1>2, <1>3, <1>4

LEMMA TellAppends ==
    ASSUME NEW e \in EventSet, Tell(e), TreeTypeOK, Watched
    PROVE  /\ events' = Append(events, e) /\ tree' = tree /\ events \in Seq(EventSet)
           /\ ToSet(events') = ToSet(events) \cup {e}
  <1>1. events' = Append(events, e) /\ tree' = tree /\ events \in Seq(EventSet)
    BY DEF Tell, Watched, TreeTypeOK
  <1>2. QED
    BY <1>1, Appended

(* All but a rename.                                                       *)
LEMMA ToldKids ==
    ASSUME TreeTypeOK, Watched, KidsAre(ToSet(tree), events, disk, Full),
           NEW e \in EventSet, Tell(e), e.what # "renamed",
           NEW D1, NEW F1,
           \A w \in Dirs : D1[w] = disk[w] \/ D1[w] = Nothing
                           \/ \A r \in ToSet(tree) : \A k \in DOMAIN r.kids : r.kids[k] # D1[w],
           \A t \in Dirs : t \notin Touches(e) => D1[t] = disk[t] /\ (t \in F1 <=> t \in Full),
           e.what \in FileEvents => D1 = disk /\ \A t \in Touches(e) : t \in F1 <=> Tells(e, t)
    PROVE  KidsAre(ToSet(tree'), events', D1, F1)
  <1>1. PICK R, w, D, F : R = ToSet(tree) /\ w = events /\ D = disk /\ F = Full
    OBVIOUS
  <1>2. /\ events' = Append(w, e) /\ tree' = tree /\ w \in Seq(EventSet)
        /\ ToSet(events') = ToSet(w) \cup {e}
    BY <1>1, TellAppends
  <1>3. /\ RenamesFirst(w) /\ LastTells(w, F) /\ RefsAtHome(R, ToSet(w), D)
        /\ KidsFit(R, ToSet(w), D, F)
    BY <1>1 DEF KidsAre
  <1>4. RenamesFirst(events')
    BY <1>2, <1>3, RenamesAppend
  <1>5. LastTells(events', F1)
    <2>1. /\ \A t \in Dirs : t \notin Touches(e) => (t \in F1 <=> t \in F)
          /\ e.what \in FileEvents => \A t \in Touches(e) : t \in F1 <=> Tells(e, t)
      BY <1>1
    <2>2. QED
      BY <1>2, <1>3, <2>1, LastAppend
  <1>6. RefsAtHome(R, ToSet(w) \cup {e}, D1) /\ KidsFit(R, ToSet(w) \cup {e}, D1, F1)
    <2>1. /\ \A t \in Dirs : D1[t] = D[t] \/ D1[t] = Nothing
                             \/ \A r \in R : \A k \in DOMAIN r.kids : r.kids[k] # D1[t]
          /\ \A t \in Dirs : t \notin Touches(e) => D1[t] = D[t] /\ (t \in F1 <=> t \in F)
          /\ e.what \in FileEvents => D1 = D
      BY <1>1
    <2>2. QED
      BY <1>3, <2>1, KidsTold
  <1>7. QED
    BY <1>1, <1>2, <1>4, <1>5, <1>6 DEF KidsAre

LEMMA ToldRename ==
    ASSUME TreeTypeOK, Watched, KidsAre(ToSet(tree), events, disk, Full),
           NEW d \in Dirs, NEW f \in Dirs, d # f, Tell(Event("renamed", d, f)),
           \A x \in ToSet(events) : d \notin Touches(x) /\ f \notin Touches(x),
           f \notin Names(tree), NEW D1, NEW F1,
           D1[d] = Nothing, D1[f] = disk[d], f \in F1 <=> d \in Full,
           \A t \in Dirs : t # d /\ t # f => D1[t] = disk[t] /\ (t \in F1 <=> t \in Full)
    PROVE  KidsAre(ToSet(tree'), events', D1, F1)
  <1>1. PICK R, w, D, F, e : /\ R = ToSet(tree) /\ w = events /\ D = disk /\ F = Full
                             /\ e = Event("renamed", d, f)
    OBVIOUS
  <1>a. e \in EventSet
    BY <1>1, EventsAre
  <1>b. e.what = "renamed" /\ Touches(e) = {d, f} /\ e.what \notin FileEvents
    BY <1>1 DEF Event, Touches, FileEvents
  <1>2. /\ events' = Append(w, e) /\ tree' = tree /\ w \in Seq(EventSet)
        /\ ToSet(events') = ToSet(w) \cup {e}
    BY <1>1, <1>a, TellAppends
  <1>3. /\ RenamesFirst(w) /\ LastTells(w, F) /\ RefsAtHome(R, ToSet(w), D)
        /\ KidsFit(R, ToSet(w), D, F)
    BY <1>1 DEF KidsAre
  <1>4. RenamesFirst(events')
    <2>1. \A x \in ToSet(w) : Touches(x) \cap Touches(e) = {}
      BY <1>1, <1>b
    <2>2. QED
      BY <1>2, <1>3, <1>a, <2>1, RenamesAppend
  <1>5. LastTells(events', F1)
    <2>1. \A t \in Dirs : t \notin Touches(e) => (t \in F1 <=> t \in F)
      BY <1>1, <1>b
    <2>2. QED
      BY <1>2, <1>3, <1>a, <1>b, <2>1, LastAppend
  <1>6. RefsAtHome(R, ToSet(w) \cup {e}, D1) /\ KidsFit(R, ToSet(w) \cup {e}, D1, F1)
    <2>1. /\ \A x \in ToSet(w) : d \notin Touches(x) /\ f \notin Touches(x)
          /\ \A r \in R : r.name # f
          /\ D1[f] = D[d] /\ (f \in F1 <=> d \in F)
          /\ \A t \in Dirs : t # d /\ t # f => D1[t] = D[t] /\ (t \in F1 <=> t \in F)
      BY <1>1 DEF Names
    <2>2. QED
      BY <1>1, <1>3, <2>1, KidsRenameTold
  <1>7. QED
    BY <1>1, <1>2, <1>4, <1>5, <1>6 DEF KidsAre

LEMMA FolderKids ==
    ASSUME TreeTypeOK, DiskIsSound, TreeIsBehind, KidsAreBehind, FolderChanges,
           Watched, ~renamedEarly'
    PROVE  KidsAre(ToSet(tree'), events', disk', Full')
  <1>1. /\ made \in Nat /\ Nothing \notin holds /\ Nothing \notin 1 .. made
        /\ holds \subseteq 1 .. made /\ disk \in [Dirs -> (1 .. made) \cup {Nothing}]
        /\ \A t, d \in Dirs : t # d /\ disk[d] # Nothing => disk[t] # disk[d]
        /\ \A r \in ToSet(tree) : \A k \in DOMAIN r.kids : r.kids[k] # made + 1
    BY NodesAre
  <1>2. ~renamedEarly
    BY DEF FolderChanges, AddDir, RemoveDir, RenameDir, AddFile, RemoveFile, MoveFile
  <1>3. KidsAre(ToSet(tree), events, disk, Full)
    BY <1>2 DEF KidsAreBehind
  <1>4. \A t \in Dirs : t \in Full' <=> disk'[t] \in holds'
    BY DEF Full
  <1>5. \A t \in Dirs : t \in Full <=> disk[t] \in holds
    BY DEF Full
  <1>6. ASSUME NEW d \in Dirs, AddDir(d)
        PROVE  KidsAre(ToSet(tree'), events', disk', Full')
    <2>1. PICK e : e = Event("created", d, d)
      OBVIOUS
    <2>2. e \in EventSet /\ e.what = "created" /\ Touches(e) = {d} /\ e.what \notin FileEvents
      <3>1. e \in EventSet
        BY <2>1, EventsAre
      <3>2. QED
        BY <2>1, <3>1 DEF Event, Touches, FileEvents
    <2>3. /\ Tell(e) /\ disk'[d] = made + 1 /\ \A t \in Dirs : t # d => disk'[t] = disk[t]
          /\ holds' \in {holds, holds \cup {made + 1}}
      BY <1>1, <1>6, <2>1 DEF AddDir
    <2>4. \A t \in Dirs : t # d => (t \in Full' <=> t \in Full)
      <3>1. made + 1 \notin 1 .. made /\ made + 1 # Nothing
        BY <1>1 DEF Nothing
      <3>2. \A t \in Dirs : disk[t] # made + 1
        BY <1>1, <3>1
      <3>3. QED
        BY <1>4, <1>5, <2>3, <3>2
    <2>5. QED
      BY <1>1, <1>3, <2>2, <2>3, <2>4, ToldKids
  <1>7. ASSUME NEW d \in Dirs, RemoveDir(d)
        PROVE  KidsAre(ToSet(tree'), events', disk', Full')
    <2>1. PICK e : e = Event("removed", d, d)
      OBVIOUS
    <2>2. e \in EventSet /\ e.what = "removed" /\ Touches(e) = {d} /\ e.what \notin FileEvents
      <3>1. e \in EventSet
        BY <2>1, EventsAre
      <3>2. QED
        BY <2>1, <3>1 DEF Event, Touches, FileEvents
    <2>3. /\ Tell(e) /\ disk'[d] = Nothing /\ \A t \in Dirs : t # d => disk'[t] = disk[t]
          /\ holds' = holds \ {disk[d]} /\ disk[d] # Nothing
      BY <1>1, <1>7, <2>1 DEF RemoveDir
    <2>4. \A t \in Dirs : t # d => (t \in Full' <=> t \in Full)
      BY <1>1, <1>4, <1>5, <2>3
    <2>5. QED
      BY <1>1, <1>3, <2>2, <2>3, <2>4, ToldKids
  <1>8. ASSUME NEW d \in Dirs, AddFile(d)
        PROVE  KidsAre(ToSet(tree'), events', disk', Full')
    <2>1. PICK e : e = Event("file created", d, d)
      OBVIOUS
    <2>2. e \in EventSet /\ e.what = "file created" /\ Touches(e) = {d}
      <3>1. e \in EventSet
        BY <2>1, EventsAre
      <3>2. QED
        BY <2>1, <3>1 DEF Event, Touches, FileEvents
    <2>3. Tell(e) /\ disk' = disk /\ holds' = holds \cup {disk[d]} /\ disk[d] # Nothing
      BY <1>8, <2>1 DEF AddFile
    <2>4. /\ \A t \in Dirs : t # d => (t \in Full' <=> t \in Full)
          /\ d \in Full'
      BY <1>1, <1>4, <1>5, <2>3
    <2>5. \A t \in Touches(e) : t \in Full' <=> Tells(e, t)
      BY <2>2, <2>4 DEF Tells
    <2>6. QED
      BY <1>1, <1>3, <2>2, <2>3, <2>4, <2>5, ToldKids
  <1>9. ASSUME NEW d \in Dirs, RemoveFile(d)
        PROVE  KidsAre(ToSet(tree'), events', disk', Full')
    <2>1. PICK e : e = Event("file removed", d, d)
      OBVIOUS
    <2>2. e \in EventSet /\ e.what = "file removed" /\ Touches(e) = {d}
      <3>1. e \in EventSet
        BY <2>1, EventsAre
      <3>2. QED
        BY <2>1, <3>1 DEF Event, Touches, FileEvents
    <2>3. Tell(e) /\ disk' = disk /\ holds' = holds \ {disk[d]} /\ disk[d] # Nothing
      BY <1>1, <1>9, <2>1 DEF RemoveFile
    <2>4. /\ \A t \in Dirs : t # d => (t \in Full' <=> t \in Full)
          /\ d \notin Full'
      BY <1>1, <1>4, <1>5, <2>3
    <2>5. \A t \in Touches(e) : t \in Full' <=> Tells(e, t)
      BY <2>2, <2>4 DEF Tells
    <2>6. QED
      BY <1>1, <1>3, <2>2, <2>3, <2>4, <2>5, ToldKids
  <1>10. ASSUME NEW d \in Dirs, NEW f \in Dirs, MoveFile(d, f)
         PROVE  KidsAre(ToSet(tree'), events', disk', Full')
    <2>1. PICK e : e = Event("file moved", d, f)
      OBVIOUS
    <2>2. e \in EventSet /\ e.what = "file moved" /\ Touches(e) = {d, f} /\ e.to = f
      <3>1. e \in EventSet
        BY <2>1, EventsAre
      <3>2. QED
        BY <2>1, <3>1 DEF Event, Touches
    <2>3. /\ Tell(e) /\ disk' = disk /\ holds' = (holds \ {disk[d]}) \cup {disk[f]}
          /\ disk[d] # Nothing /\ disk[f] # Nothing /\ d # f
      BY <1>1, <1>10, <2>1 DEF MoveFile
    <2>4. /\ \A t \in Dirs : t # d /\ t # f => (t \in Full' <=> t \in Full)
          /\ d \notin Full' /\ f \in Full'
      BY <1>1, <1>4, <1>5, <2>3
    <2>5. \A t \in Touches(e) : t \in Full' <=> Tells(e, t)
      BY <2>2, <2>3, <2>4 DEF Tells
    <2>6. QED
      BY <1>1, <1>3, <2>2, <2>3, <2>4, <2>5, ToldKids
  <1>11. ASSUME NEW d \in Dirs, NEW f \in Dirs, RenameDir(d, f)
         PROVE  KidsAre(ToSet(tree'), events', disk', Full')
    <2>1. /\ disk[d] # Nothing /\ disk[f] = Nothing /\ holds' = holds
          /\ disk' = [disk EXCEPT ![d] = Nothing, ![f] = disk[d]]
          /\ Tell(Event("renamed", d, f)) /\ About(d) \cup About(f) = {}
      BY <1>11 DEF RenameDir
    <2>2. d # f
      BY <2>1
    <2>3. /\ disk'[d] = Nothing /\ disk'[f] = disk[d]
          /\ \A t \in Dirs : t # d /\ t # f => disk'[t] = disk[t]
      BY <1>1, <2>1, <2>2
    <2>4. \A x \in ToSet(events) : d \notin Touches(x) /\ f \notin Touches(x)
      BY <2>1 DEF About, Touches, ToSet
    <2>5. f \notin Names(tree)
      <3>1. events \in Seq(EventSet) /\ Lead(events, Names(tree), OnDisk)
        BY DEF TreeTypeOK, TreeIsBehind
      <3>2. \A x \in ToSet(events) : ~ (x.what \in {"removed", "renamed"} /\ x.dir = f)
        BY <2>4 DEF Touches
      <3>3. f \notin OnDisk
        BY <2>1 DEF OnDisk
      <3>4. QED
        BY <3>1, <3>2, <3>3, LeadStays
    <2>6. /\ f \in Full' <=> d \in Full
          /\ \A t \in Dirs : t # d /\ t # f => (t \in Full' <=> t \in Full)
      <3>1. (f \in Full' <=> disk'[f] \in holds) /\ (d \in Full <=> disk[d] \in holds)
        BY <1>4, <1>5, <2>1
      <3>2. ASSUME NEW t \in Dirs, t # d, t # f
            PROVE  t \in Full' <=> t \in Full
        <4>1. disk'[t] = disk[t] /\ holds' = holds
          BY <2>1, <2>3, <3>2
        <4>2. QED
          BY <1>4, <1>5, <4>1
      <3>3. QED
        BY <2>3, <3>1, <3>2
    <2>7. QED
      BY <1>3, <2>1, <2>2, <2>3, <2>4, <2>5, <2>6, ToldRename
  <1>12. QED
    BY <1>6, <1>7, <1>8, <1>9, <1>10, <1>11 DEF FolderChanges

(* The monitor starts with a tree that shows what is on the disk.          *)
LEMMA StartKids ==
    ASSUME TreeTypeOK, DiskIsSound, ScanIsTrue, StartMonitor, ~blind'
    PROVE  KidsAre(ToSet(tree'), events', disk', Full')
  <1>1. PICK R, D, F : R = ToSet(tree) /\ D = disk /\ F = Full
    OBVIOUS
  <1>2. /\ events' = <<>> /\ R = ToSet(tree') /\ D = disk' /\ F = Full'
        /\ \A r \in R : r.kids = FilesIn(disk[r.name])
    BY <1>1, StartIsTrue DEF Full
  <1>3. DOMAIN <<>> = {} /\ ToSet(<<>>) = {}
    BY DEF ToSet
  <1>4. RenamesFirst(<<>>) /\ LastTells(<<>>, F)
    BY <1>3 DEF RenamesFirst, LastTells
  <1>5. ASSUME NEW r \in R
        PROVE  r.name \in Dirs /\ r.kids = FileOf(r.name, D, F)
    <2>1. r.name \in Dirs
      BY <1>1, TreeTyped
    <2>2. QED
      BY <1>1, <1>2, <2>1 DEF FilesIn, FileOf, Full
  <1>6. \A z, t : Becomes({}, z, t) <=> t = z
    BY DEF Becomes
  <1>7. ASSUME NEW r \in R, NEW t \in Dirs, NEW k \in DOMAIN r.kids, D[t] # Nothing,
               r.kids[k] = D[t]
        PROVE  Becomes({}, r.name, t)
    <2>1. r.kids[k] = D[r.name]
      <3>1. r.kids = <<D[r.name]>> \/ r.kids = <<>>
        BY <1>5 DEF FileOf
      <3>2. QED
        BY <1>7, <3>1
    <2>2. QED
      BY <1>1, <1>5, <1>6, <1>7, <2>1 DEF DiskIsSound
  <1>8. RefsAtHome(R, {}, D)
    BY <1>7 DEF RefsAtHome
  <1>9. KidsFit(R, {}, D, F)
    BY <1>5, <1>6 DEF KidsFit, FileOf
  <1>10. KidsAre(R, <<>>, D, F)
    BY <1>3, <1>4, <1>8, <1>9 DEF KidsAre
  <1>11. QED
    BY <1>2, <1>10

LEMMA KidsStep ==
    ASSUME TreeTypeOK, DiskIsSound, ScanIsTrue, TreeIsBehind, KidsAreBehind,
           [TreeNext]_treeVars
    PROVE  KidsAreBehind'
  <1>1. CASE UNCHANGED treeVars
    BY <1>1 DEF treeVars, onDisk, scan, ghosts, KidsAreBehind, Watched, KidsAre, Full,
                RenamesFirst, LastTells, RefsAtHome, KidsFit, FileOf
  <1>2. ASSUME FolderChanges, Watched', ~renamedEarly'
        PROVE  KidsAre(ToSet(tree'), events', disk', Full')
    <2>1. \E e : Tell(e)
      BY <1>2 DEF FolderChanges, AddDir, RemoveDir, RenameDir, AddFile, RemoveFile, MoveFile
    <2>2. Watched
      BY <1>2, <2>1 DEF Tell, scan, Watched
    <2>3. QED
      BY <1>2, <2>2, FolderKids
  <1>3. ASSUME HandleEvent, Watched', ~renamedEarly'
        PROVE  KidsAre(ToSet(tree'), events', disk', Full')
    <2>1. /\ events' = Tail(events) /\ events # <<>> /\ events \in Seq(EventSet)
          /\ disk' = disk /\ Full' = Full /\ Watched /\ ~renamedEarly
      BY <1>3, Handling DEF Watched, Full, TreeTypeOK
    <2>2. RenamesFirst(events) /\ LastTells(events, Full)
      BY <2>1 DEF KidsAreBehind, KidsAre
    <2>3. RenamesFirst(events')
      BY <2>1, <2>2, RenamesTail
    <2>4. LastTells(events', Full)
      BY <2>1, <2>2, LastTail
    <2>5. /\ RefsAtHome(ToSet(tree'), ToSet(events'), disk)
          /\ KidsFit(ToSet(tree'), ToSet(events'), disk, Full)
      BY <1>3, <2>1, HandlerKids
    <2>6. QED
      BY <2>1, <2>3, <2>4, <2>5 DEF KidsAre
  <1>4. ASSUME OpenSteps, Watched'
        PROVE  KidsAre(ToSet(tree'), events', disk', Full')
    BY <1>4, OtherSteps, StartKids DEF Watched
  <1>5. CASE UNCHANGED treeVars \/ FolderChanges \/ HandleEvent \/ OpenSteps
    BY <1>1, <1>2, <1>3, <1>4, <1>5 DEF KidsAreBehind
  <1>6. QED
    BY <1>5 DEF TreeNext, OpenSteps

-----------------------------------------------------------------------------
(* The theorems.                                                           *)

LEMMA TreeStarts ==
    ASSUME TreeInit
    PROVE  TreeInv
  <1>1. /\ tree = <<>> /\ phase = "closed" /\ opens = 0 /\ scanned = {} /\ inside = <<>>
        /\ events = <<>> /\ blind = FALSE /\ renamedEarly = FALSE /\ crashed = FALSE
        /\ holds \in SUBSET (1 .. made)
    BY DEF TreeInit
  <1>2. /\ made \in {0, 1} /\ disk \in [Dirs -> (1 .. made) \cup {Nothing}]
        /\ \A d, e \in Dirs : disk[d] = disk[e] /\ disk[d] # Nothing => d = e
    BY DEF TreeInit, Nothing
  <1>3. made \in 0 .. MaxNodes /\ 1 .. made \subseteq Nodes
    BY <1>2, ProjectTreeAssumption DEF Nodes
  <1>4. /\ disk \in [Dirs -> Nodes \cup {Nothing}] /\ holds \subseteq Nodes
        /\ <<>> \in Seq(Items) /\ <<>> \in Seq(EventSet) /\ 0 \in 0 .. MaxOpens
    BY <1>1, <1>2, <1>3, ProjectTreeAssumption
  <1>5. TreeTypeOK
    BY <1>1, <1>3, <1>4 DEF TreeTypeOK, Phases
  <1>6. DiskIsSound
    <2>1. Nothing \notin 1 .. made /\ <<>> \in Seq(ItemsOf(1 .. made))
      BY DEF Nothing
    <2>2. QED
      BY <1>1, <1>2, <2>1 DEF DiskIsSound, NamedIn
  <1>7. QED
    BY <1>1, <1>5, <1>6 DEF TreeInv, ParentIsThere, ScanIsTrue, TreeIsBehind, KidsAreBehind,
                            Watched

LEMMA TreeIsInductive == TreeSpec => []TreeInv
  <1>1. TreeInit => TreeInv
    BY TreeStarts
  <1>2. TreeInv /\ [TreeNext]_treeVars => TreeInv'
    BY TreeTypeStep, DiskStep, ScanStep, BehindStep, KidsStep DEF TreeInv
  <1>3. QED
    BY <1>1, <1>2, PTL DEF TreeSpec

(* What is kept of an open project's tree, its folder and the monitor's    *)
(* events has its type: an item that came late or without a ref, too.      *)
THEOREM TreeTypeCorrect == TreeSpec => []TreeTypeOK
  <1>1. TreeInv => TreeTypeOK
    BY DEF TreeInv
  <1>2. QED
    BY <1>1, TreeIsInductive, PTL

(* However late the events are handled, none finds its parent item missing *)
(* unless the project was closed with events left or the tree missed       *)
(* something before the monitor was started: _CreateItemForPath never adds *)
(* to a null parent otherwise.                                             *)
THEOREM ParentsAreThere == TreeSpec => []ParentIsThere
  <1>1. TreeInv => ParentIsThere
    BY DEF TreeInv
  <1>2. QED
    BY <1>1, TreeIsInductive, PTL

(* With no event left the names lead nowhere else and no mending waits.    *)
LEMMA SettledMatches ==
    ASSUME TreeInv
    PROVE  SettledTreeIsDisk
  <1>1. SUFFICES ASSUME phase = "open", events = <<>>, ~blind, ~renamedEarly
                 PROVE  Matches
    BY DEF SettledTreeIsDisk
  <1>2. TreeTypeOK /\ DiskIsSound /\ Watched /\ TreeIsBehind /\ KidsAreBehind
    BY <1>1 DEF TreeInv, Watched
  <1>3. Unique(tree) /\ Lead(<<>>, Names(tree), OnDisk)
    BY <1>1, <1>2 DEF TreeIsBehind
  <1>4. Names(tree) = OnDisk
    BY <1>2, <1>3, TreeTyped, LeadNone
  <1>5. ToSet(<<>>) = {}
    BY DEF ToSet
  <1>6. KidsFit(ToSet(tree), {}, disk, Full)
    BY <1>1, <1>2, <1>5 DEF KidsAreBehind, KidsAre
  <1>7. \A z : Becomes({}, z, z) /\ \A K : ~Waits({}, K, z)
    BY DEF Becomes, Waits
  <1>8. ASSUME NEW i \in DOMAIN tree
        PROVE  disk[tree[i].name] # Nothing /\ tree[i].kids = FilesIn(disk[tree[i].name])
    <2>1. tree[i] \in ToSet(tree) /\ tree[i].name \in Dirs
      BY <1>2, TreeTyped
    <2>2. tree[i].name \in OnDisk
      BY <1>4, <2>1 DEF Names
    <2>3. tree[i].kids = FileOf(tree[i].name, disk, Full)
      BY <1>6, <1>7, <2>1 DEF KidsFit
    <2>4. QED
      BY <2>1, <2>2, <2>3 DEF OnDisk, FileOf, FilesIn, Full
  <1>9. ASSUME NEW d \in Dirs, disk[d] # Nothing
        PROVE  \E i \in DOMAIN tree : tree[i].name = d
    BY <1>4, <1>9 DEF OnDisk, Names, ToSet
  <1>10. QED
    BY <1>3, <1>8, <1>9 DEF Matches, Unique

(* When every event is handled the tree of an open project is what is on   *)
(* the disk, although the handlers see the disk of a later time: they look *)
(* up the path of an event in a folder where other changes have happened   *)
(* since, and what they get wrong a later event mends.                     *)
THEOREM SettledIsDisk == TreeSpec => []SettledTreeIsDisk
  <1>1. TreeInv => SettledTreeIsDisk
    BY SettledMatches
  <1>2. QED
    BY <1>1, TreeIsInductive, PTL
=============================================================================

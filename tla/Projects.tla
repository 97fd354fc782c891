------------------------------ MODULE Projects ------------------------------
(***************************************************************************)
(* The open projects of the Genio window (ui/GenioWindow.cpp,              *)
(* ui/ProjectBrowser.cpp, project/ProjectFolder.cpp, helpers/Task.h).      *)
(*                                                                         *)
(* A project is opened by a task of its own: a thread that fills the       *)
(* browser's tree, lists the project, starts the path monitor and then     *)
(* completes the opening under the lock of the window's looper.  Its last  *)
(* act is to post a result, and only when the window has handled it is the *)
(* task no longer counted as running.  A second task looks for the build   *)
(* system of the project and is counted nowhere.                           *)
(*                                                                         *)
(* Messages carry pointers to projects.  A project is never forgotten      *)
(* here, only deleted, so that the use of a deleted one can be seen.       *)
(***************************************************************************)
EXTENDS Integers, Sequences

CONSTANTS
    Folders,        \* folders of the disk that may be opened
    Inside,         \* <<f, g>>: the folder f lies in the folder g
    Files,          \* files the editor may show
    FilesOf,        \* folder -> the files below it
    Renames,        \* <<f, g>>: the folder f may be renamed to g while it is open
    NoProject,      \* nullptr
    Closed,         \* an editor that is not open
    MaxProjects,    \* bound: openings
    MaxQueue        \* bound: messages the user and the disk leave waiting

ASSUME FoldersAssumption ==
    /\ Inside \subseteq Folders \X Folders /\ Renames \subseteq Folders \X Folders
    /\ FilesOf \in [Folders -> SUBSET Files]
ASSUME PointersAssumption ==
    /\ NoProject # Closed
    /\ {NoProject, Closed} \cap Int = {}
ASSUME BoundsAssumption == MaxProjects \in Nat /\ MaxQueue \in Nat

Projects == 1 .. MaxProjects

VARIABLES
    folder,                 \* the folders of the projects made so far
    opener,                 \* project -> how far its opening task is
    activate,               \* the projects that are to be active once open
    fTaskIDs,               \* the opening tasks not known to have ended
    fProjectList,           \* the projects the browser lists
    fActiveProject,
    watched,                \* the folders the path monitor watches
    detecting,              \* projects whose build system is looked for
    deleted,
    editor,                 \* file -> Closed, or the editor's project
    queue,                  \* messages of the window's looper
    prepared,               \* the projects of the last time have been opened
    quit,
    overlapped,             \* nothing became active since two openings overlapped
    misused                 \* who used a deleted project

tasks == <<opener, activate, fTaskIDs, detecting>>
list == <<folder, fProjectList, fActiveProject, watched, deleted>>
vars == <<tasks, list, editor, queue, prepared, quit, overlapped, misused>>

Stages == {"none", "scans", "listed", "watches", "completed", "ended"}
Opening == {p \in Projects : opener[p] \in {"scans", "listed", "watches"}}

(* Two projects may not be the same folder, nor one inside the other.      *)
Clashes(f, g) == f = g \/ <<f, g>> \in Inside \/ <<g, f>> \in Inside

OpenMessage(f) == [what |-> "open", folder |-> f]
CloseMessage(p) == [what |-> "close", project |-> p]
ActivateMessage(p) == [what |-> "activate", project |-> p]
ResultMessage(p) == [what |-> "result", project |-> p]
CloseActiveMessage == [what |-> "close active"]
MovedMessage(f, g) == [what |-> "moved", folder |-> f, to |-> g]
GoneMessage(f) == [what |-> "gone", folder |-> f]
Messages ==
    {CloseActiveMessage}
    \cup {OpenMessage(f) : f \in Folders} \cup {GoneMessage(f) : f \in Folders}
    \cup {MovedMessage(f, g) : f, g \in Folders}
    \cup UNION {{CloseMessage(p), ActivateMessage(p), ResultMessage(p)} : p \in Projects}

-----------------------------------------------------------------------------
(* Pieces of handlers.                                                     *)

SetActiveProject(p) ==
    /\ fActiveProject' = p
    /\ overlapped' = (overlapped /\ p = NoProject)

(* Fault: tasks are counted by their places, from 0.                       *)
StartOpeningFromZero(fs, active) ==
    LET first == Len(folder)
        new == first + 1 .. first + Len(fs)
    IN  /\ first + Len(fs) <= MaxProjects
        /\ folder' = folder \o fs
        /\ opener' = [p \in Projects |-> IF p \in new THEN "scans" ELSE opener[p]]
        /\ activate' = activate \cup {p \in new : fs[p - first] \in active}
        /\ fTaskIDs' = fTaskIDs \cup {p - 1 : p \in new}
        /\ UNCHANGED <<detecting, fProjectList, fActiveProject, watched, deleted>>

(* _ProjectFolderOpen of each of the folders fs, none of which clashes     *)
(* with a listed project: the new projects and their tasks.                *)
StartOpening(fs, active) ==
    LET first == Len(folder)
        new == first + 1 .. first + Len(fs)
    IN  /\ first + Len(fs) <= MaxProjects
        /\ folder' = folder \o fs
        /\ opener' = [p \in Projects |-> IF p \in new THEN "scans" ELSE opener[p]]
        /\ activate' = activate \cup {p \in new : fs[p - first] \in active}
        /\ fTaskIDs' = fTaskIDs \cup new
        /\ UNCHANGED <<detecting, fProjectList, fActiveProject, watched, deleted>>

Uses(p, who) == misused' = IF p \in deleted THEN misused \cup {who} ELSE misused

AreTasksRunning == fTaskIDs # {}

Init ==
    /\ folder = <<>> /\ opener = [p \in Projects |-> "none"] /\ activate = {}
    /\ fTaskIDs = {} /\ fProjectList = {} /\ fActiveProject = NoProject
    /\ watched = {} /\ detecting = {} /\ deleted = {}
    /\ editor = [x \in Files |-> Closed]
    /\ queue = <<>> /\ prepared = FALSE /\ quit = FALSE /\ overlapped = FALSE /\ misused = {}

(* The window works, and nothing of it has been corrupted.                 *)
Running == ~quit /\ misused = {}

-----------------------------------------------------------------------------
(* What the user and the disk ask for.                                     *)

Post(m) ==
    /\ Running /\ Len(queue) < MaxQueue
    /\ queue' = Append(queue, m)
    /\ UNCHANGED <<tasks, list, editor, prepared, quit, overlapped, misused>>

(* Menus, buttons and folders dropped on the browser.  The items that      *)
(* close a project or make it active hold its pointer.  An open message    *)
(* holds nothing of the present, so one that waits is no different from    *)
(* one sent later.                                                         *)
UserAsks ==
    \/ queue = <<>> /\ \E f \in Folders : Post(OpenMessage(f))
    \/ Post(CloseActiveMessage)
    \/ \E p \in fProjectList : Post(CloseMessage(p))
    \/ \E p \in fProjectList \ {fActiveProject} : Post(ActivateMessage(p))

(* The path monitor tells that a folder was removed or renamed: it watches *)
(* a project's folder and all in it.  Bound: one such message waits.       *)
DiskChanges ==
    /\ \A i \in 1 .. Len(queue) : queue[i].what \notin {"gone", "moved"}
    /\ \E f \in watched \cup {g \in Folders : \E h \in watched : <<g, h>> \in Inside} :
           \/ Post(GoneMessage(f))
           \/ \E g \in Folders : <<f, g>> \in Renames /\ Post(MovedMessage(f, g))

(* MSG_PREPARE_WORKSPACE, sent once with a delay of 100 ms: the projects   *)
(* of the last time are opened in one go.  Each is compared with those     *)
(* listed by now, but not with those opened just before it.                *)
PrepareWorkspace ==
    /\ Running /\ ~prepared
    /\ prepared' = TRUE
    /\ \E n \in 0 .. MaxProjects : \E fs \in [1 .. n -> Folders] :
           /\ \A i \in 1 .. n, p \in fProjectList : ~Clashes(folder[p], fs[i])
           /\ StartOpening(fs, {}) \/ \E i \in 1 .. n : StartOpening(fs, {fs[i]})
    /\ UNCHANGED <<editor, queue, quit, overlapped, misused>>

-----------------------------------------------------------------------------
(* The opening task of a project: _ProjectFolderOpenerRunner.              *)

(* The scan is done: the project and its tree are in the browser's lists.  *)
Populate(p) ==
    /\ opener[p] = "scans"
    /\ opener' = [opener EXCEPT ![p] = "listed"]
    /\ fProjectList' = fProjectList \cup {p}
    /\ overlapped' = (overlapped \/ (fActiveProject = NoProject /\ fProjectList # {}))
    /\ UNCHANGED <<activate, fTaskIDs, detecting, folder, fActiveProject, watched,
                   deleted, editor, queue, prepared, quit, misused>>

StartWatching(p) ==
    /\ opener[p] = "listed"
    /\ opener' = [opener EXCEPT ![p] = "watches"]
    /\ watched' = watched \cup {folder[p]}
    /\ UNCHANGED <<activate, fTaskIDs, detecting, folder, fProjectList, fActiveProject,
                   deleted, editor, queue, prepared, quit, overlapped, misused>>

(* Fault: only the one of the last time is made active.                    *)
OpenCompletedAfterRestart(p) ==
    /\ opener[p] = "watches"
    /\ opener' = [opener EXCEPT ![p] = "completed"]
    /\ IF p \in activate
       THEN SetActiveProject(p)
       ELSE UNCHANGED <<fActiveProject, overlapped>>
    /\ editor' = [x \in Files |->
                     IF editor[x] = NoProject /\ x \in FilesOf[folder[p]]
                     THEN p ELSE editor[x]]
    /\ activate' = activate \ {p}
    /\ detecting' = detecting \cup {p}
    /\ UNCHANGED <<fTaskIDs, folder, fProjectList, watched, deleted,
                   queue, prepared, quit, misused>>

(* _ProjectFolderOpenCompleted, under the window's lock.  The first        *)
(* project and the one of the last time become active.                     *)
OpenCompleted(p) ==
    /\ opener[p] = "watches"
    /\ opener' = [opener EXCEPT ![p] = "completed"]
    /\ IF fProjectList = {p} \/ p \in activate
       THEN SetActiveProject(p)
       ELSE UNCHANGED <<fActiveProject, overlapped>>
    /\ editor' = [x \in Files |->
                     IF editor[x] = NoProject /\ x \in FilesOf[folder[p]]
                     THEN p ELSE editor[x]]
    /\ activate' = activate \ {p}
    /\ detecting' = detecting \cup {p}
    /\ UNCHANGED <<fTaskIDs, folder, fProjectList, watched, deleted,
                   queue, prepared, quit, misused>>

(* _CallTarget posts the result and the thread ends.                       *)
PostResult(p) ==
    /\ opener[p] = "completed"
    /\ opener' = [opener EXCEPT ![p] = "ended"]
    /\ queue' = Append(queue, ResultMessage(p))
    /\ UNCHANGED <<activate, fTaskIDs, detecting, list, editor, prepared, quit, overlapped, misused>>

OpenerStep(p) ==
    /\ Running
    /\ Populate(p) \/ StartWatching(p) \/ OpenCompleted(p) \/ PostResult(p)

(* GuessBuildCommand reads the folder and stores what it finds in the      *)
(* project.  Its result is of no task the window counts.                   *)
GuessBuildCommand(p) ==
    /\ misused = {} /\ p \in detecting
    /\ detecting' = detecting \ {p}
    /\ Uses(p, "detection")
    /\ UNCHANGED <<opener, activate, fTaskIDs, list, editor, queue, prepared, quit, overlapped>>

-----------------------------------------------------------------------------
(* The handlers of the window's messages.  Each takes the first message.   *)

Next1(what) == Running /\ queue # <<>> /\ Head(queue).what = what
Take == queue' = Tail(queue)

HandleOpen ==
    /\ Next1("open") /\ Take
    /\ LET f == Head(queue).folder
           open == \E p \in fProjectList : Clashes(folder[p], f)
       IN  \/ open /\ UNCHANGED <<tasks, list>>
           \/ ~open /\ StartOpening(<<f>>, {})
    /\ UNCHANGED <<editor, prepared, quit, overlapped, misused>>

(* The folder does not exist, is not a directory or is a volume.           *)
OpenRefused ==
    /\ Next1("open") /\ Take
    /\ UNCHANGED <<tasks, list, editor, prepared, quit, overlapped, misused>>

(* Fault: an opening task does not keep a project from being closed.       *)
CloseDuringTasks(p) ==
    /\ p \in fProjectList
    /\ IF fActiveProject = p
       THEN IF fProjectList = {p}
            THEN SetActiveProject(NoProject)
            ELSE \E q \in fProjectList \ {p} : SetActiveProject(q)
       ELSE UNCHANGED <<fActiveProject, overlapped>>
    /\ editor' = [x \in Files |-> IF editor[x] = p THEN Closed ELSE editor[x]]
    /\ watched' = watched \ {folder[p]}
    /\ fProjectList' = fProjectList \ {p}
    /\ deleted' = deleted \cup {p}
    /\ UNCHANGED <<folder, misused>>

(* Fault: an active project that is closed stays the active one.           *)
CloseKeepsActive(p) ==
    /\ p \in fProjectList /\ ~AreTasksRunning
    /\ UNCHANGED <<fActiveProject, overlapped>>
    /\ editor' = [x \in Files |-> IF editor[x] = p THEN Closed ELSE editor[x]]
    /\ watched' = watched \ {folder[p]}
    /\ fProjectList' = fProjectList \ {p}
    /\ deleted' = deleted \cup {p}
    /\ UNCHANGED <<folder, misused>>

(* _ProjectFolderClose of a listed project, once its editors are saved:    *)
(* they are closed, the tree and the watch go, another project becomes     *)
(* active (the first by name), and the project is deleted.                 *)
Close(p) ==
    /\ p \in fProjectList /\ ~AreTasksRunning
    /\ IF fActiveProject = p
       THEN IF fProjectList = {p}
            THEN SetActiveProject(NoProject)
            ELSE \E q \in fProjectList \ {p} : SetActiveProject(q)
       ELSE UNCHANGED <<fActiveProject, overlapped>>
    /\ editor' = [x \in Files |-> IF editor[x] = p THEN Closed ELSE editor[x]]
    /\ watched' = watched \ {folder[p]}
    /\ fProjectList' = fProjectList \ {p}
    /\ deleted' = deleted \cup {p}
    /\ UNCHANGED <<folder, misused>>

(* The project a close message is about.                                   *)
ToClose == IF Head(queue).what = "close" THEN Head(queue).project ELSE fActiveProject

HandleClose ==
    /\ Next1("close") \/ Next1("close active")
    /\ Take /\ Close(ToClose)
    /\ UNCHANGED <<tasks, prepared, quit>>

(* Nothing is active, a task is running, or the user is asked about edits  *)
(* of an editor of the project and cancels.                                *)
CloseRefused ==
    /\ Next1("close") \/ Next1("close active")
    /\ \/ ToClose = NoProject \/ AreTasksRunning
       \/ ToClose \in fProjectList /\ \E x \in Files : editor[x] = ToClose
    /\ Take
    /\ UNCHANGED <<tasks, list, editor, prepared, quit, overlapped, misused>>

(* The pointer of a message is of a project closed since it was sent.      *)
StalePointer ==
    /\ \/ Next1("close") /\ ~AreTasksRunning
       \/ Next1("activate")
    /\ Head(queue).project \in deleted
    /\ Take /\ Uses(Head(queue).project, "message")
    /\ UNCHANGED <<tasks, list, editor, prepared, quit, overlapped>>

HandleActivate ==
    /\ Next1("activate") /\ Head(queue).project \notin deleted
    /\ Take /\ SetActiveProject(Head(queue).project)
    /\ UNCHANGED <<tasks, folder, fProjectList, watched, deleted, editor, prepared, quit, misused>>

(* A project's folder has gone or was renamed: the project is to be        *)
(* closed, and opened again under the new name.  The first item of the     *)
(* tree for that folder decides which project: that of a project is there  *)
(* as soon as its scan has begun, and the folder may first be found as an  *)
(* item of another project it lies in, which then only loses the item.     *)
HandleFolderMoved ==
    /\ Next1("gone") \/ Next1("moved")
    /\ LET f == Head(queue).folder
           scanned == {p \in Projects : opener[p] = "scans"}
           here == {p \in fProjectList \cup scanned : folder[p] = f}
           around == {p \in fProjectList \cup scanned : <<f, folder[p]>> \in Inside}
           again == IF Head(queue).what = "moved"
                    THEN <<OpenMessage(Head(queue).to)>> ELSE <<>>
       IN  \/ (here \cap fProjectList = {} \/ around # {}) /\ Take
           \/ \E p \in here : queue' = Tail(queue) \o <<CloseMessage(p)>> \o again
    /\ UNCHANGED <<tasks, list, editor, prepared, quit, overlapped, misused>>

(* Fault: the result does not end the task.                                *)
HandleResultForgets ==
    /\ Next1("result") /\ Take
    /\ UNCHANGED <<tasks, list, editor, prepared, quit, overlapped, misused>>

HandleResult ==
    /\ Next1("result") /\ Take
    /\ fTaskIDs' = fTaskIDs \ {Head(queue).project}
    /\ UNCHANGED <<opener, activate, detecting, list, editor, prepared, quit, overlapped, misused>>

Handle ==
    \/ HandleOpen \/ OpenRefused \/ HandleClose \/ CloseRefused \/ StalePointer
    \/ HandleActivate \/ HandleFolderMoved \/ HandleResult

(* QuitRequested: refused while tasks run; the projects are deleted.       *)
Quit ==
    /\ Running /\ ~AreTasksRunning
    /\ quit' = TRUE
    /\ editor' = [x \in Files |-> Closed]
    /\ deleted' = deleted \cup fProjectList
    /\ queue' = <<>>
    /\ UNCHANGED <<tasks, folder, fProjectList, fActiveProject, watched, prepared,
                   overlapped, misused>>

-----------------------------------------------------------------------------
(* The editors.                                                            *)

(* A file is opened: its editor joins a listed project that holds it.      *)
FileOpen(x) ==
    /\ Running /\ editor[x] = Closed
    /\ LET holders == {p \in fProjectList : x \in FilesOf[folder[p]]}
       IN  \/ holders = {} /\ editor' = [editor EXCEPT ![x] = NoProject]
           \/ \E p \in holders : editor' = [editor EXCEPT ![x] = p]
    /\ UNCHANGED <<tasks, list, queue, prepared, quit, overlapped, misused>>

FileClose(x) ==
    /\ Running /\ editor[x] # Closed
    /\ editor' = [editor EXCEPT ![x] = Closed]
    /\ UNCHANGED <<tasks, list, queue, prepared, quit, overlapped, misused>>

Next ==
    \/ UserAsks \/ DiskChanges \/ PrepareWorkspace \/ Handle \/ Quit
    \/ \E p \in Projects : OpenerStep(p) \/ GuessBuildCommand(p)
    \/ \E x \in Files : FileOpen(x) \/ FileClose(x)

SafeSpec == Init /\ [][Next]_vars

(* The looper handles what is queued, and threads are scheduled.           *)
Spec ==
    /\ SafeSpec
    /\ WF_vars(Handle)
    /\ \A p \in Projects : WF_vars(OpenerStep(p))

-----------------------------------------------------------------------------
(* Properties.                                                             *)

TypeOK ==
    /\ folder \in Seq(Folders) /\ Len(folder) <= MaxProjects
    /\ opener \in [Projects -> Stages] /\ activate \subseteq Projects
    /\ fTaskIDs \subseteq Projects /\ fProjectList \subseteq Projects
    /\ fActiveProject \in Projects \cup {NoProject}
    /\ watched \subseteq Folders /\ detecting \subseteq Projects /\ deleted \subseteq Projects
    /\ editor \in [Files -> Projects \cup {NoProject, Closed}]
    /\ queue \in Seq(Messages)
    /\ prepared \in BOOLEAN /\ quit \in BOOLEAN /\ overlapped \in BOOLEAN
    /\ misused \subseteq {"message", "detection"}

(* While its opening task works on a project the task is counted, so no    *)
(* close and no quit deletes the project.  The count falls only when the   *)
(* result has been handled, after the task's last use of the project.      *)
OpeningIsNotDeleted ==
    \A p \in Projects :
        opener[p] \notin {"none", "ended"} => p \in fTaskIDs /\ p \notin deleted

(* The active project, the listed ones and those of the editors exist and  *)
(* are listed, however closes, openings and file operations interleave;    *)
(* and an editor's project is one whose folder holds the file.             *)
NothingDangles ==
    Running =>
        /\ fProjectList \cap deleted = {}
        /\ fActiveProject \in fProjectList \cup {NoProject}
        /\ \A x \in Files : editor[x] \in Projects =>
               editor[x] \in fProjectList /\ x \in FilesOf[folder[editor[x]]]

(* Some project is active as soon as one is open, except where a second    *)
(* was listed before the first became active: then neither sees itself     *)
(* alone, and "Close project" and the build commands have no project.      *)
(* The code is followed here, which makes another project active when the  *)
(* active one is closed; the comment above _ProjectFolderActivate says the *)
(* opposite ("An active project closed does not activate one").            *)
SomeoneIsActive ==
    Running /\ fProjectList # {} /\ Opening = {} /\ fActiveProject = NoProject
        => overlapped

(* Every opening is over at some time, so projects can be closed and the   *)
(* window can be quit again: no task is counted for ever.                  *)
OpeningsEnd ==
    \A p \in Projects : []<>(p \notin fTaskIDs \/ ~Running)
=============================================================================

------------------------------ MODULE BuildRun ------------------------------
(***************************************************************************)
(* Builds and other commands in the two consoles of the main window:       *)
(* ui/GenioWindow.cpp, helpers/console_io/ConsoleIOTab.cpp and             *)
(* ConsoleIOTabView.cpp, ui/TerminalTab.cpp, with the terminal of          *)
(* libs/terminal below them and ui/ProjectBrowser.cpp beside them.         *)
(*                                                                         *)
(* All of them are handlers of one looper and talk through its queue.  A   *)
(* console has one shell and remembers one command, fContextMessage; the   *)
(* thread that reads the shell's output reports its end without saying     *)
(* which shell it was.                                                     *)
(***************************************************************************)
EXTENDS Integers, FiniteSets, Sequences

CONSTANTS
    Projects, NoProject,
    BuildOnSave,    \* the setting build_on_save
    MaxCommands,    \* bound: commands started
    MaxMoves,       \* bound: projects opened, closed and activated
    MaxQueue        \* bound: messages in the queue when the user adds one

ASSUME BuildAssumption == NoProject \notin Projects /\ BuildOnSave \in BOOLEAN
ASSUME BoundsAssumption == MaxCommands \in Nat /\ MaxMoves \in Nat /\ MaxQueue \in Nat

VARIABLES
    queue,              \* messages for handlers of the window's looper
    open, fActiveProject,
    fIsBuilding,        \* project -> what the browser was told last
    buildMenu,          \* _UpdateProjectMenuItemsState
    setActiveMenu,      \* fSetActiveProjectMenuItem
    fContextMessage,    \* console -> the command whose exit will be announced
    fStopButton,        \* console -> enabled
    shell,              \* console -> command of its shell, and whether it runs
    started, moves,
    mixed,              \* the last command was started before others had ended
    abandoned           \* projects closed while building, or whose build the console
                        \* has forgotten for a command of another project

projects == <<open, fActiveProject, moves>>
console == <<fContextMessage, fStopButton, shell, started, mixed>>
menus == <<buildMenu, setActiveMenu>>
vars == <<queue, projects, fIsBuilding, menus, console, abandoned>>

Consoles == {"fBuildLogView", "fMTermView"}
(* Clean is run like build, and bindcatalogs like catkeys.                 *)
Kinds == {"build", "catkeys", "target", "git", "program"}
ConsoleOf(kind) == IF kind \in {"build", "catkeys"} THEN "fBuildLogView" ELSE "fMTermView"
NoCommand == [id |-> 0, kind |-> "none", project |-> NoProject]

(* The shell of a new terminal runs ":", and so does the one of Stop.      *)
IdleShell == [command |-> NoCommand, running |-> FALSE]

Init ==
    /\ queue = <<>>
    /\ open \in SUBSET Projects \ {{}} /\ fActiveProject \in open
    /\ fIsBuilding = [p \in Projects |-> FALSE]
    /\ buildMenu = TRUE /\ setActiveMenu = TRUE
    /\ fContextMessage = [c \in Consoles |-> NoCommand]
    /\ fStopButton = [c \in Consoles |-> FALSE]
    /\ shell = [c \in Consoles |-> IdleShell]
    /\ started = 0 /\ moves = 0 /\ mixed = FALSE /\ abandoned = {}

-----------------------------------------------------------------------------
(* Messages.                                                               *)

Arrives(what) == queue # <<>> /\ Head(queue).what = what
Msg == Head(queue)
Reply(messages) == queue' = Tail(queue) \o messages
InQueue(what) == {i \in DOMAIN queue : queue[i].what = what}
Notice(p, building) == [what |-> "notice", project |-> p, building |-> building]

(* A command ran, or will run, whose end the window has not taken in yet.  *)
UnderWay ==
    \/ \E c \in Consoles : fContextMessage[c] # NoCommand \/ shell[c].running
    \/ \E i \in DOMAIN queue :
           queue[i].what \in {"execute", "quit", "notify", "exit", "windowExit", "notice"}

(* Behind the message that is handled, p will be told that it is building. *)
AwaitsBuild(p) ==
    \E i \in InQueue("notice") : i > 1 /\ queue[i] = Notice(p, TRUE)

Building(p) ==
    \/ fIsBuilding[p]
    \/ \E i \in InQueue("notice") : queue[i] = Notice(p, TRUE)

-----------------------------------------------------------------------------
(* The user.                                                               *)

MayStart == started + Cardinality(UNION {InQueue(k) : k \in Kinds}) < MaxCommands

Click(message) ==
    /\ Len(queue) < MaxQueue
    /\ message.what \in {"activate", "close"} => moves < MaxMoves
    /\ message.what \in Kinds => MayStart
    /\ queue' = Append(queue, message)
    /\ UNCHANGED <<projects, fIsBuilding, menus, console, abandoned>>

(* The items for build, clean, catkeys, run and git (in a repository) are  *)
(* enabled together; the console's command line always is.  The active     *)
(* project's own menu offers a build unless the project is building.       *)
Choose(kind) ==
    /\ \/ kind = "program" \/ buildMenu
       \/ kind = "build" /\ fActiveProject # NoProject /\ ~fIsBuilding[fActiveProject]
    /\ Click([what |-> kind])

(* _PostFileSave posts a build when a file of the active project was       *)
(* saved, whether one runs or not.                                         *)
Save ==
    /\ BuildOnSave
    /\ fActiveProject # NoProject
    /\ Click([what |-> "build"])

PressStop(c) == fStopButton[c] /\ Click([what |-> "stop", console |-> c])

(* The menu bar's "Set active" and the one in the project's own menu.      *)
ChooseActive(p) ==
    /\ p \in open \ {fActiveProject}
    /\ setActiveMenu \/ (fActiveProject # NoProject /\ ~fIsBuilding[fActiveProject])
    /\ InQueue("activate") \cup InQueue("close") = {}
    /\ Click([what |-> "activate", project |-> p])

ChooseClose(p) ==
    /\ p \in open
    /\ InQueue("activate") \cup InQueue("close") = {}
    /\ Click([what |-> "close", project |-> p])

-----------------------------------------------------------------------------
(* Commands are started.                                                   *)

(* Fault: Stop forgets the command.                                        *)
StopForgets(c) ==
    /\ Reply(<<[what |-> "execute", console |-> c, command |-> NoCommand]>>)
    /\ fContextMessage' = [fContextMessage EXCEPT ![c] = NoCommand]
    /\ UNCHANGED <<fStopButton, shell, started, mixed>>

(* ConsoleIOTab::Stop: a shell that ends at once takes the place of the    *)
(* one that runs.  It leaves fContextMessage alone.                        *)
Stop(c) ==
    /\ Reply(<<[what |-> "execute", console |-> c, command |-> NoCommand]>>)
    /\ UNCHANGED console

DoStop ==
    /\ Arrives("stop")
    /\ Stop(Msg.console)
    /\ UNCHANGED <<projects, fIsBuilding, menus, abandoned>>

(* ConsoleIOTabView::RunCommand and ConsoleIOTab::RunCommand.              *)
RunCommand(kind, before) ==
    LET c == ConsoleOf(kind)
        command == [id |-> started + 1, kind |-> kind, project |-> fActiveProject]
    IN  /\ started' = started + 1
        /\ mixed' = UnderWay
        /\ fStopButton' = [fStopButton EXCEPT ![c] = TRUE]
        /\ fContextMessage' = [fContextMessage EXCEPT ![c] = command]
        /\ Reply(before \o <<[what |-> "execute", console |-> c, command |-> command]>>)
        /\ abandoned' = abandoned \cup
               {p \in {fContextMessage[c].project} \ {fActiveProject} :
                    fContextMessage[c].kind \in {"build", "catkeys"} /\ Building(p)}
        /\ UNCHANGED <<projects, fIsBuilding, shell>>

(* Files that save_on_build saves ask for a build of their own.            *)
Saved ==
    IF BuildOnSave /\ MayStart THEN {<<>>, <<[what |-> "build"]>>} ELSE {<<>>}

DoBuild ==
    /\ Arrives("build")
    /\ fActiveProject # NoProject
    /\ \E saved \in Saved : RunCommand("build", saved \o <<Notice(fActiveProject, TRUE)>>)
    /\ buildMenu' = FALSE /\ setActiveMenu' = FALSE

DoCatkeys ==
    /\ Arrives("catkeys")
    /\ fActiveProject # NoProject
    /\ RunCommand("catkeys", <<>>)
    /\ UNCHANGED menus

(* Running the target in the terminal, and git: "Pretend building or       *)
(* running".                                                               *)
DoTarget ==
    /\ Arrives("target") \/ Arrives("git")
    /\ fActiveProject # NoProject
    /\ RunCommand(Msg.what, <<>>)
    /\ buildMenu' = FALSE
    /\ UNCHANGED setActiveMenu

DoProgram ==
    /\ Arrives("program")
    /\ RunCommand("program", <<>>)
    /\ UNCHANGED menus

(* No project, no build command (after saving), or no target that runs in  *)
(* the terminal.                                                           *)
NothingToRun ==
    /\ queue # <<>>
    /\ \/ Msg.what \in Kinds \ {"program"} /\ fActiveProject = NoProject /\ Reply(<<>>)
       \/ Msg.what = "build" /\ fActiveProject # NoProject /\ \E saved \in Saved : Reply(saved)
       \/ Msg.what = "target" /\ Reply(<<>>)
    /\ UNCHANGED <<projects, fIsBuilding, menus, console, abandoned>>

-----------------------------------------------------------------------------
(* Commands end.                                                           *)

(* The process closes its output; the reader thread posts                  *)
(* MSG_QUIT_TERMNAL and ends.                                              *)
CommandEnds(c) ==
    /\ shell[c].running
    /\ shell' = [shell EXCEPT ![c].running = FALSE]
    /\ queue' = Append(queue, [what |-> "quit", console |-> c])
    /\ UNCHANGED <<projects, fIsBuilding, menus, fContextMessage, fStopButton, started,
                   mixed, abandoned>>

(* B_EXECUTE_PROPERTY: the old shell is closed and another one opened.  If *)
(* the old one still runs, its reader is interrupted: in read() it posts   *)
(* the end of the terminal, elsewhere it goes quietly.                     *)
Execute ==
    /\ Arrives("execute")
    /\ LET c == Msg.console IN
        /\ shell' = [shell EXCEPT ![c] = [command |-> Msg.command, running |-> TRUE]]
        /\ \/ Reply(<<>>)
           \/ shell[c].running /\ Reply(<<[what |-> "quit", console |-> c]>>)
    /\ UNCHANGED <<projects, fIsBuilding, menus, fContextMessage, fStopButton, started,
                   mixed, abandoned>>

(* GenioListener asks the terminal for its shell, the one it has now.      *)
Quit ==
    /\ Arrives("quit")
    /\ Reply(<<[what |-> "notify", console |-> Msg.console]>>)
    /\ UNCHANGED <<projects, fIsBuilding, menus, console, abandoned>>

(* ConsoleIOTab::NotifyCommandQuit, whether waitpid found a status or not. *)
NotifyCommandQuit(c) ==
    /\ \/ /\ fContextMessage[c] # NoCommand
          /\ Reply(<<[what |-> "exit", console |-> c, command |-> fContextMessage[c]]>>)
       \/ fContextMessage[c] = NoCommand /\ Reply(<<>>)
    /\ fContextMessage' = [fContextMessage EXCEPT ![c] = NoCommand]

Notify ==
    /\ Arrives("notify")
    /\ NotifyCommandQuit(Msg.console)
    /\ UNCHANGED <<projects, fIsBuilding, menus, fStopButton, shell, started, mixed, abandoned>>

(* ConsoleIOTabView: CONSOLEIOTHREAD_EXIT goes on to the window.           *)
ViewExit ==
    /\ Arrives("exit")
    /\ fStopButton' = [fStopButton EXCEPT ![Msg.console] = FALSE]
    /\ Reply(<<[what |-> "windowExit", command |-> Msg.command]>>)
    /\ UNCHANGED <<projects, fIsBuilding, menus, fContextMessage, shell, started, mixed,
                   abandoned>>

(* Fault: the end of a build is told to the project that is active then.   *)
AnnounceToActive(command) ==
    /\ \/ /\ command.kind \in {"build", "catkeys", "target"}
          /\ Reply(<<Notice(fActiveProject, FALSE)>>)
          /\ setActiveMenu' = TRUE
       \/ /\ command.kind \in {"git", "program"}
          /\ Reply(<<>>)
          /\ UNCHANGED setActiveMenu
    /\ buildMenu' = (fActiveProject # NoProject)

(* The window.  A target run in the terminal has the cmd_type "build".     *)
Announce(command) ==
    /\ \/ /\ command.kind \in {"build", "catkeys", "target"}
          /\ Reply(<<Notice(command.project, FALSE)>>)
          /\ setActiveMenu' = TRUE
       \/ /\ command.kind \in {"git", "program"}
          /\ Reply(<<>>)
          /\ UNCHANGED setActiveMenu
    /\ buildMenu' = (fActiveProject # NoProject)

WindowExit ==
    /\ Arrives("windowExit")
    /\ Announce(Msg.command)
    /\ UNCHANGED <<projects, fIsBuilding, console, abandoned>>

(* ProjectBrowser: MSG_NOTIFY_BUILDING_PHASE, for a project still open.    *)
BuildingPhase ==
    /\ Arrives("notice")
    /\ \/ /\ Msg.project \in open
          /\ fIsBuilding' = [fIsBuilding EXCEPT ![Msg.project] = Msg.building]
          /\ abandoned' = abandoned \ {p \in {Msg.project} : ~Msg.building /\ ~AwaitsBuild(p)}
       \/ Msg.project \notin open /\ UNCHANGED <<fIsBuilding, abandoned>>
    /\ Reply(<<>>)
    /\ UNCHANGED <<projects, menus, console>>

-----------------------------------------------------------------------------
(* Projects come and go.                                                   *)

(* Fault: an active project stays active.                                  *)
SetActiveOnce(p) ==
    /\ fActiveProject' = IF fActiveProject = NoProject THEN p ELSE fActiveProject
    /\ buildMenu' = (p # NoProject)
    /\ UNCHANGED setActiveMenu

SetActiveProject(p) ==
    /\ fActiveProject' = p
    /\ buildMenu' = (p # NoProject)
    /\ UNCHANGED setActiveMenu

Activate ==
    /\ Arrives("activate")
    /\ SetActiveProject(Msg.project)
    /\ Reply(<<>>)
    /\ moves' = moves + 1
    /\ UNCHANGED <<open, fIsBuilding, console, abandoned>>

(* _ProjectFolderClose: another project takes the place of the active one. *)
Close ==
    /\ Arrives("close")
    /\ open' = open \ {Msg.project}
    /\ \/ /\ Msg.project = fActiveProject
          /\ \E p \in open' \cup {NoProject} :
                 /\ (p = NoProject) = (open' = {})
                 /\ SetActiveProject(p)
       \/ Msg.project # fActiveProject /\ UNCHANGED <<fActiveProject, menus>>
    /\ abandoned' = abandoned \cup {p \in {Msg.project} : Building(p)}
    /\ fIsBuilding' = [fIsBuilding EXCEPT ![Msg.project] = FALSE]
    /\ Reply(<<>>)
    /\ moves' = moves + 1
    /\ UNCHANGED console

(* The opener task takes the looper's lock between two messages.  A new    *)
(* project, and the only one, become active.                               *)
Open(p) ==
    /\ moves < MaxMoves
    /\ p \notin open
    /\ open' = open \cup {p}
    /\ moves' = moves + 1
    /\ \/ SetActiveProject(p)
       \/ open # {} /\ UNCHANGED <<fActiveProject, menus>>
    /\ UNCHANGED <<queue, fIsBuilding, console, abandoned>>

(* A setting of the active project changed, its build mode among them: the *)
(* items come back, even while a command runs.                             *)
ConfigurationChanged ==
    /\ fActiveProject # NoProject
    /\ buildMenu' = TRUE
    /\ UNCHANGED <<queue, projects, fIsBuilding, setActiveMenu, console, abandoned>>

Handle ==
    \/ DoBuild \/ DoCatkeys \/ DoTarget \/ DoProgram \/ NothingToRun \/ DoStop
    \/ Execute \/ Quit \/ Notify \/ ViewExit \/ WindowExit \/ BuildingPhase
    \/ Activate \/ Close

User ==
    \/ \E kind \in Kinds : Choose(kind)
    \/ \E c \in Consoles : PressStop(c)
    \/ \E p \in Projects : ChooseActive(p) \/ ChooseClose(p)
    \/ Save

Next ==
    \/ User \/ Handle
    \/ \E c \in Consoles : CommandEnds(c)
    \/ \E p \in Projects : Open(p)
    \/ ConfigurationChanged

Spec == Init /\ [][Next]_vars

-----------------------------------------------------------------------------

Commands == [id : 0..MaxCommands, kind : Kinds \cup {"none"}, project : Projects \cup {NoProject}]

TypeOK ==
    /\ \A i \in DOMAIN queue :
           queue[i].what \in Kinds \cup {"stop", "activate", "close", "execute", "quit",
                                         "notify", "exit", "windowExit", "notice"}
    /\ open \subseteq Projects
    /\ fActiveProject \in open \cup {NoProject}
    /\ fIsBuilding \in [Projects -> BOOLEAN]
    /\ buildMenu \in BOOLEAN /\ setActiveMenu \in BOOLEAN
    /\ fContextMessage \in [Consoles -> Commands]
    /\ fStopButton \in [Consoles -> BOOLEAN]
    /\ shell \in [Consoles -> [command : Commands, running : BOOLEAN]]
    /\ started \in 0..MaxCommands /\ moves \in Nat
    /\ mixed \in BOOLEAN /\ abandoned \subseteq Projects

Quiet == queue = <<>> /\ \A c \in Consoles : ~shell[c].running

(* When nothing runs any more, the window offers again what it took away,  *)
(* whatever was started, stopped, closed and opened on top of each other;  *)
(* only a project whose build was forgotten for a command of another       *)
(* project can go on as "building".                                        *)
AllComesBack ==
    Quiet => /\ buildMenu = (fActiveProject # NoProject)
             /\ setActiveMenu
             /\ \A c \in Consoles : ~fStopButton[c]
             /\ \A p \in open : fIsBuilding[p] => p \in abandoned

(* A command that was started while nothing else ran can be stopped until  *)
(* it ends, is the one whose end will be announced, and its project is     *)
(* building until then if it is a build.                                   *)
AloneIsFollowed ==
    \A c \in Consoles :
        LET command == shell[c].command IN
        shell[c].running /\ command # NoCommand /\ command.id = started /\ ~mixed =>
            /\ fStopButton[c]
            /\ fContextMessage[c] = command
            /\ command.kind = "build" /\ command.project \notin abandoned =>
                   fIsBuilding[command.project]
=============================================================================

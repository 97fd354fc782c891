# Haikode in TLA+

Haikode is a fork of the Genio IDE for Haiku: an editor with projects, builds,
git and language servers, and a panel in which an AI provider answers prompts
and proposes patches that the user applies or rejects. This directory holds a
formal model of the parts of it that run concurrently or that change the user's
files, the TLC configurations that check it, and TLAPS proofs about it. Paths
below are relative to the repository (`src/ui/...` is the source directory).

Contents: [1 inventory](#1-inventory), [2 modules](#2-modules-and-how-they-correspond-to-the-code),
[3 runs](#3-runs-and-bounds), [4 fairness](#4-fairness), [5 proofs](#5-proofs),
[6 findings](#6-where-the-code-and-its-documents-disagree), [7 what is not modelled](#7-what-is-not-modelled),
[8 plan](#8-plan).

How to run, in this directory:

    tlc -workers 2 -config MCAIPanel.cfg MCAIPanel
    tlapm AIPanelProofs.tla
    tlapm ProjectsProofs.tla

## 1 Inventory

The program is one Haiku application. Almost all of its state lives in views
and helpers of the main window and is touched by **one looper thread**, which
takes messages from a FIFO queue and runs each handler to its end. Concurrency
comes from: detached `std::thread` workers of the AI panel, the reader threads of
terminals and language servers, the thread of a search, `Task` threads, other programs that change
files (the node and path monitors tell the window, later), and the queue itself: a
click or a notification is handled after everything queued before it.

| Component | State | Operations | Hard behaviour | Correct when |
|---|---|---|---|---|
| AI panel `src/ui/AIChatPanel.cpp` | running request, its id and token, pending diff and where it was saved, pending commands, active project, which buttons are enabled | ask, review, test provider, OAuth exchange, Codex runs, Stop, run or reject a command, apply or reject a patch, its files, its hunks | late answers after Stop, clicks queued behind answers, project switches between a proposal and its Apply | at most one request counts; what is stopped proposes nothing; the buttons come back; what is written is the pending proposal |
| Patch engine `src/ai/UnifiedDiff.cpp` | the parsed diff; files and backup directories on disk | Apply, ApplyFile, ApplyHunk, RemoveFile, RemoveHunk | failing system calls, crash, several files, one file twice | what a patch overwrites is in a backup; an unsafe diff writes nothing; no hunk is dropped undecided |
| Process capture `src/ai/ProcessCapture.cpp` | the child, the pipe, output so far | Run | output between last read and exit, full pipe, Stop and timeout racing the exit, signals to recycled ids | output complete, no zombie, no stray signal, Stop and timeout work |
| LSP session `src/lsp-client/LSPEditorWrapper.cpp`, `LSPProjectWrapper.cpp` | edits not sent, document version, last diagnostics, which server has the file open | didOpen/didChange/didSave/didClose, requests, diagnostics, moves between projects | answers and diagnostics about an older text, server that starts late, reloads and moves with edits pending | the server's copy plus pending edits is the text; answers fit the text they change |
| LSP transport `LSPPipeClient.cpp`, `PipeStream.cpp`, `LSPServersManager.cpp` | pipe, partial frame | framing, reader thread | short reads, server death | every message delivered once, in order |
| Editor `src/editor/Editor.cpp` and the window's files `src/ui/GenioWindow.cpp` | buffer, save point, watched node, alerts | open, save, save as, close, reload, node monitor messages | changes by other programs between messages and during alerts; saves that fail half way | an unmodified buffer is the file; later changes are noticed; unsaved text is not thrown away |
| Builds and consoles `GenioWindow.cpp`, `src/helpers/console_io`, `src/ui/TerminalTab.cpp`, `libs/terminal` | one command per console, menus, building state of projects | build, clean, catkeys, run, git, Stop | second command while one runs, shell replaced, project closed while building | menus come back, building ends, the command that runs can be stopped |
| Panels and tabs `PanelTabManager.cpp`, `gtab` | which panel is where, hidden or shown | move, hide, show, save layout | messages and menu items that are about a layout of before, indexes that shift, a view shown that should not be | every panel is in one place, tab and card agree, what is asked is what happens, a closed panel can come back |
| Projects `GenioWindow.cpp`, `ProjectFolder.cpp`, `ProjectBrowser.cpp` | listed projects, the active one, the opening tasks, the project of each editor | open, close, activate, folder renamed or removed, workspace, quit | openings run in threads of their own, close and quit meanwhile, messages with pointers | nothing in use is deleted, nothing points to a project that is not listed, every opening ends |
| Project tree `ProjectBrowser.cpp` | items and their entry_refs | scan, path monitor, depopulate | events handled late, by paths that lead elsewhere by then; changes between scan and watch | the tree is the disk when all events are handled |
| Background tasks `src/helpers/Task.h` | map of exceptions | start, post result | a result is how a task ends | each result handled once |
| Search `SearchResultPanel.cpp`, `GrepThread.cpp`, `console_io` | the thread, grep, what was collected, the rows | find, references, reports, end | messages that name no search, a thread deleted at work, a start that fails | the list is of one search, complete, and the button comes back |
| Jump navigator `JumpNavigator.cpp` | two stacks | jump, back, forward | positions of closed files | back undoes jump |
| AI providers, OAuth, readiness, guidance `src/ai` | none beyond one exchange | HTTP, loopback listener | timeouts, Stop | seen by the panel as workers |
| Git, settings, templates, scripting, extensions, dialogs | kept by libgit2, files, or nothing | thin calls | (notices under a lock) | - |
| Vendored: Scintilla, Lexilla, JSON, most of the terminal | - | - | - | - |

Interactions that matter to the models: the panel starts *process capture* and
*patch engine* (capture in a worker thread, patches in the looper); after an
applied patch it posts `MSG_HAIKODE_AI_PATCH_APPLIED`, upon which the window
reloads unmodified *editors*; a reload closes and reopens the *LSP session*; a
save may post a *build*; the *project browser* is told about a build by notices
that go through the window's queue.

## 2 Modules and how they correspond to the code

`PROJECT.json` maps every definition to its lines. Names of variables and
actions are those of the source where it has one. An action whose name is
commented "Fault" is not part of any next-state relation; it shows, put in
the place of the definition that follows it, that the properties notice the bug.

**AIPanel** - the request life cycle. Each case of `AIChatPanel::MessageReceived`
is an action that takes the head of `inbox`; a refused or early-returning
variant is an action of its own (`PromptRefused`, `RunRefused`, `PatchRefused`,
`NothingToCancel`...). `threads` are the detached workers: all they do is post
one message with their request id (`ThreadEnd`). `cancelled` is the set of tokens
set; `Click` posts the message of an enabled button, and carries (as a ghost) the
proposal that was on screen. A diff is the id of the request that proposed it
and the number of hunks left. `audit` and `written` record what went to
`.haikode/patches` and into a project; a call takes one file or one hunk, and one that
fails has written nothing, as the write is its last step and fails only by not being opened. The button groups enabled and disabled
together are one Boolean each. Whether a provider is ready, what it answers and
whether a file is written are nondeterministic.

**SupervisedAI** - the abstract promise: one request at a time, Stop makes a request
inert, only the pending proposal is written. `AIPanel!ImplementsPromise` states
the refinement: `live` is the running request's id, `proposal` the origin of the
pending diff; queue, threads, buttons, commands and audit disappear.

**PatchApply** - `Apply`, `ApplyFile`, `ApplyHunk` as the sequence of file-system
calls they make (`Check`, `Backup`, `Truncate`, `Write`, `Return`), each of which
may throw (`Fail`) or be the last (`Crash`). A file's content is a version of the
user's text and the set of hunks in it; whether a hunk's context still matches
is a choice of the environment (the line matcher is left for a module of its
own). `again` marks a content that a call overwrites for the second time, and `Behind` is
what a diff has of a path after its first entry for it. The user edits files between calls, not during one: the panel and the
editors share the looper.

**ProcessCapture** - `ProcessCapture::Run`, one action per system call, indexed by
`pc`, interleaved with the child, its descendants, `SIGKILL`, Stop and the clock. Of what is
written after the run is over only the presence counts; with `Endless` there is no end of it.

**LspSession** - one file, one editor, several servers. `copy` is what a server made
of the notifications sent to it, `fChanges` the edits not yet sent. Contents
are numbers and an edit is a pair (from, to): a server that applies an edit to
another content than it was made for holds `Garbled`. `inFlight` is the bag
of answers and diagnostics; it is a set without order because answers of
different requests and of different servers may overtake each other. Diagnostics carry the
version they are of or `NoVersion`. A load or a save may fail; a project may be opened
after the file (`ProjectOpened`). `session`
counts didOpen, so that properties can tell the sessions apart although the
code's version counter cannot.

**BuildRun** - the consoles `fBuildLogView` and `fMTermView`. Everything is a message in
`queue`: clicks, the execute message to the terminal, the reader thread's
`MSG_QUIT_TERMNAL`, the notification to the console tab, the exit message to the
view and to the window, the notice to the project browser. `CommandEnds` is the
process closing its output; `Execute` replaces a shell whether it has ended or
not. `mixed` and `abandoned` are history: whether the last command was started
on top of another, and which projects' builds the program has lost sight of.

**Documents** - one editor tab and the file system around it: paths name nodes, nodes
have contents. Other programs write, remove, rename and create; the node monitor
queues messages for watched nodes. An alert (`alert`) blocks the looper, so its
question and its answer are two actions with other programs in between. A save
is refused, leaves a short file, or succeeds; a load or reload succeeds (`Loaded`), or
leaves the old text or a part of the new one (`NotLoaded`, `AnswerStat`). Ghosts say when the
program is excused: `ignored` (the user chose to keep the buffer), `failed` (the last save or load,
and no caller looks at the result), `unmonitored` (a load failed after `UnloadFile` stopped
the monitoring, and nothing started it since), `unseen` (a file appeared under a name nobody watches).

**Projects** - the projects of the window. A project is a number; `opener` says how
far its opening task is (`Populate`, `StartWatching`, `OpenCompleted` under the
window's lock, `PostResult`), `fTaskIDs` which tasks the window counts, `queue` the
messages of the looper, several of which carry pointers: a project is never
forgotten, only `deleted`, so that a use of it after that can be seen (`misused`,
after which nothing is claimed). `GuessBuildCommand` is the second task, which
nobody counts. `PrepareWorkspace`, the projects of the last time, comes once, at any time, as
its message is sent with a delay. A folder that is told to be gone or renamed is found by the
tree of a project that is listed or still being scanned, and may be an item of another.
`overlapped` is history: whether two openings overlapped since
none was active.

**ProjectTree** - the items of one project. The disk is two names for directories with at
most one file each; a directory is a node, as an entry_ref names one, and an item
of a file holds the node of its directory, which is what makes the children of a
renamed directory findable. The scan (`ScanEntry`, `ScanInside`) and the disk are
interleaved; the monitor's events wait in `events` and are looked up by path when
they are handled, so the path may lead nowhere or elsewhere. A null parent
item is the end (`crashed`). The opening is `Open`, the scan, `ScanEnds` and `StartMonitor`,
the close `Depopulate`; the names differ from those of Projects so that one module can
prove about both. `blind` and `renamedEarly` mark the two weaknesses the
properties except.

**Search** - the panel of results, the thread, grep and the looper. A search is its
number, which no message carries in the code: here they do, as a ghost, so that
the properties can say whose row a row is. `doing` is a handler that waits for grep to
die while the thread goes on. grep runs before its pipes are emptied (`CleanPipes`); `dropped`
counts the lines that are lost by that. `leftovers`, `cut`, `late`, `raced` are history.

**PanelTabs** - the tab views of the groups and of the closed panels, each a record of a list of
tabs, a list of cards, a front tab and a visible card, as `GTabView` keeps them
(`layout` maps a view to its record): `AddTab`, `RemoveTab`, `MoveTabs`, `Select` are its operations and work
on indexes. `menu` is the panels menu as it was filled; `queue` the
messages to the views. `fresh` is a ghost in a message (see `AskedIsDone`).
`UseExposed` says whether the user does anything while the view of the closed
panels is shown, which the code does not intend but allows.

**AIPanelProofs, DocumentsProofs, ProjectsProofs, PatchApplyProofs, LspSessionProofs,
SearchProofs, BuildRunProofs, PanelTabsProofs** - the proofs. Those about ProcessCapture are at the
end of AIPanelProofs, as the panel runs the capture, and those about ProjectTree at the end of
ProjectsProofs, as it is a project's tree; the definitions of the two modules that would
clash with those of the other carry their module's name (`CaptureSpec`, `TreeTypeOK`). **MCAIPanel, MCPatchApply,
MCBuildRun, MCDocuments, MCProjects, MCProjectTree, MCSearch, MCPanelTabs** - model
values, symmetry, the diffs, folders, lines and panels used.

AIPanel stands above PatchApply and ProcessCapture by abstraction rather than
by an INSTANCE: what it assumes of them (a partial apply may write, a worker
ends or not) is what they are checked to do, and the product of their states
would add nothing that a property tells apart. Projects and ProjectTree split the
browser the same way: Projects sees a tree as filled or gone, ProjectTree sees its
project as closed, being scanned, listed or open. What Documents, LspSession and
BuildRun take as "a project is opened, closed or made active" is an action of Projects.

## 3 Runs and bounds

Deadlock is not checked where the system may stop: when all bounded work is used
up, or Run has returned. `MCAIPanel.cfg` does check it: there is always something
to dispatch or to click.

| Run | Question | Bounds, and why they are enough |
|---|---|---|
| `ai_panel` | Is the panel's state coherent under every order of clicks, answers, Stop and switches, and does it implement SupervisedAI? Do prompts end? | 3 requests (one stopped, one running, one more), 2 queued clicks plus all answers, 2 hunks (partial decisions), 1 project or none, 1 pending command |
| `patch_apply` | Is nothing lost, nothing half-validated, nothing dropped? | 4 diffs, 4 paths, 5 hunks: a file and a symbolic link, a new file and an old one, one file twice, a name that is refused; 2 user versions: a backup, a failure, a second try |
| `process_capture` | Is the capture complete, clean and stoppable? | 7 bytes with a limit of 4, pipe of 3, buffer of 2: output beyond the limit fills the pipe once over, reads are partial |
| `lsp_session` | Do the server, its answers and its diagnostics follow the text? | 2 servers, 3 contents, 2 sessions, 2 messages in flight: an old answer, a new one, an edit between; any load or save may fail |
| `build_run` | Do menus, Stop and building states come back, whatever overlaps? | 2 projects, 2 commands, 1 move, 2 queued clicks; build_on_save on. Interference is between two commands |
| `documents` | Does the tab notice other programs, and keep the user's text? | 2 names, 2 nodes, 3 contents, 2 events: replace, rename, recreate; any load or save may fail |
| `projects` | Are projects opened, closed and deleted so that nothing in use goes? | 2 openings of 3 folders (one in another, one a renaming of another), 1 file, 2 messages besides results, one of them of the disk: two openings that overlap, a message that waits behind a close |
| `project_tree` | Does the tree follow the disk? | 2 names, 2 nodes, 3 events waiting, 2 openings: a node under either name, an event about each and one more, a second opening with events of the first |
| `search` | Is the list of one search, and does it end? | 3 searches, 2 lists of references, 2 finds waiting, 3 lines in 2 files: leftovers of one search met by the second, and a third |
| `panel_tabs` | Do tabs, cards and messages agree? | 3 panels, 2 groups, 2 messages waiting: an index that is another tab's, two messages about one panel |
| `stale_answer`, `closed_has_owner` | violations, section 6 | as the passing run of the module |

What the passing runs show:

* *AIPanel.* `RunningIffUnderWay`: while the panel says a request runs its answer is
  really to come, and while it says none runs no late answer would be accepted.
  `OneLiveWorker`: any number of stopped workers may be around, at most one is not told
  to stop. `StoppedProposesNothing`: a stopped request's diff is never pending, saved,
  written. `ImplementsPromise`: the refinement. `PromptsEnd`: liveness.
* *PatchApply.* `NothingLost`: every content a patch destroyed is in a backup (for
  whatever diff, but for what one call overwrites twice). `ProposedHunksAreDecided`: a hunk leaves
  the pending diff only by a decision, but for those of a second entry for a path.
* *ProcessCapture.* `OutputComplete`, `NoChildLeft`, and `StopAndTimeoutWork`, which names its
  exception: as long as every read finds output (`OutputNeverEnds`) neither is looked at. The run
  has children and descendants that do so.
* *LspSession.* `ServerFollowsText`, `OpenInItsServerOnly`, `AnswersFitSession` (answers and
  diagnostics with a version; those without are taken for any text). `leftover` marks the sessions in which edits stayed pending over a
  close; the properties name that exception, and the null dereference in the idle timer
  needs it.
* *BuildRun.* When nothing runs any more, the menus are as they should be and only a
  project whose build the console forgot for another project's command still
  spins (`AllComesBack`). A command started alone can be stopped and is the one
  announced (`AloneIsFollowed`). Weaker than a reader may expect: two overlapping commands
  do confuse the console (the second overwrites `fContextMessage`), so nothing is
  promised while `mixed`. The comment at `src/ui/GenioWindow.cpp:2213` speaks of a hack in
  ConsoleIOView for a build while building; the code has none. A changed setting
  enables the menus while a command runs (`ConfigurationChanged`), so a second build needs
  no build_on_save.
* *Documents.* When all is quiet, the tab watches exactly its file's node
  (`NextChangeIsSeen`), its save point is what is on disk (`SavePointIsOnDisk`), and
  unsaved text went only by an edit, an answer or a failed save or load (`EditsSurvive`).
  The exceptions are weaknesses of the code: a load that fails behind `UnloadFile`
  (`Editor.cpp:1192-1229`) leaves the file unwatched, and nothing is said of changes until a save or
  another load starts the monitoring again; a failed or short load or reload leaves a buffer that is not the
  file's, and sets no save point; "Save" in the close dialog closes the
  tab even if saving failed; Save as loads whatever is under the new
  name after a save that failed; a file recreated after the user kept a removed one is
  not noticed.
* *Projects.* The count of tasks is what keeps a project alive while its thread works
  (`OpeningIsNotDeleted`): the result is the task's last act, and close and quit are refused
  until it is handled. `NothingDangles`: the window's own pointers are to listed
  projects, whatever interleaves. `SomeoneIsActive`: excepted are openings that
  overlapped, where each completion counts two projects and none becomes active. It holds also after
  the active project is closed, as the code makes another one active, against the comment above
  `_ProjectFolderActivate` (section 6).
  `OpeningsEnd`: liveness, without which nothing could be closed and the window not be quit.
* *ProjectTree.* `SettledTreeIsDisk`, `ParentIsThere`: late events do no lasting harm
  except in the two named cases, both weaknesses of the code: what changes between the scan
  and `StartMonitor` is in neither, and a directory renamed while events about it wait is
  found under its new name by none of them.
* *Search.* `ListIsOfTheSearch`: rows are of the search the list was cleared for and, in
  the end, all that came after the pipes were emptied. Excepted: reports of a thread that references deleted
  and that wait when the next search starts (`leftovers`), and lines written between the
  thread's last read and its look at grep (`late`). `DoneIsTheLastAct`: the panel
  deletes the thread upon its message only when the thread waits to be killed. `FindComesBack`
  excepts a search cut short by references, and a thread that could not start and tells nobody.
* *PanelTabs.* `CardsFollowTabs`: the two lists that are matched by index never part (whether the
  index a tab is dropped at is the one meant is not stated: it is computed before the removal shifts the
  list, and is the same for tab and card). `AskedIsDone`:
  a show or a close does what its sender meant, though a close only has an index, if
  nothing else about the panel was waiting. `ClosedCanReturn`: as long as the view of the
  closed panels stays hidden, each remembers its group; `closed_has_owner` shows how
  it comes to be shown.

## 4 Fairness

* *AIPanel*: weak fairness of `Dispatch` (a looper with a message in its queue
  handles it) and of the end of workers that end by themselves: provider tests and prompts run
  through curl with `CURLOPT_TIMEOUT`, and any curl transfer asks its cancellation token in the
  progress callback. A code exchange without Stop and a captured process are
  *not* assumed to end. Users owe nothing.
* *ProcessCapture*: weak fairness of Run (the thread is scheduled) and of the kernel
  delivering SIGKILL. Nothing of the child.
* *Projects*: weak fairness of the looper's handlers together, and of each opening task.
  The step of a task that fills the tree is the whole scan, so this assumes that scans end: `ProjectBrowser.cpp:976`
  reads on until `B_ENTRY_NOT_FOUND`, which a directory that cannot be opened never
  returns; directories are taken to be readable. Users, the disk and the detection task owe nothing; an alert about unsaved
  edits is answered within its handler.
* *Search*: weak fairness of grep's writing and ending (`grep -r` over files that exist ends),
  of the thread and of the looper. `StartupFails` is not fair.
* *PatchApply, LspSession, BuildRun, Documents, ProjectTree, PanelTabs*: safety only. A
  build need not end, a user need not answer an alert and a server need not answer
  at all, so their "in the end" is stated as what holds when all is quiet.

## 5 Proofs

Proved by TLAPS for every value of the constants (the named ASSUMEs of the modules
are all that is assumed; TLC evaluates them in the runs):

* `AIPanelProofs!TypeCorrect` - `SafeSpec => []TypeOK`, handler by handler.
* `AIPanelProofs!OneWorker`, `StoppedIsInert`, `IdleIsDeaf` from `Inductive`, the
  lemma that `IInv` is an invariant. The properties are not inductive alone:
  that a late answer is not current needs that request numbers on their way are all
  at most `fActiveRequestId` and occur once (`OneAnswerEach`); that the token
  cancelled by Stop is the running one's needs `TokenOfRunning`; and that a stopped
  request cannot have proposed already needs `ProposalsAreOver`: proposals come
  from requests that are over, while only the running one is ever cancelled. The
  21 handlers are opened once, in `StepKinds`, which sorts steps into seven
  kinds (a message of no account, begin, accept, cancel, post, end, rest); the
  invariant is then proved per kind.
* `AIPanelProofs!NeverStuck` - `[]RunningIsUnderWay` - and `RunningFollowsAnswer`, both halves.
* `AIPanelProofs!Refines` - AIPanel implements `SupervisedAI!SafeSpec`.
* `AIPanelProofs!CaptureTypeCorrect`, `CompleteOutput`, `NoZombies`, `OwnChildOnly`, of ProcessCapture
  for every pipe, buffer and limit. The invariant says at which `pc` the child cannot have been, or must have been,
  waited for (`Unreaped`, `Reaped`), that the output plus the pipe holds
  all that was sent unless the output is full (`NothingDropped`), that
  this is carried over the last drain (`Drained`), and that the way to the kill
  goes through a verdict (`Verdict`).

* `DocumentsProofs!TypeCorrect`, `OneNodeWatched`, `NoEditIsLost`, for any number of paths,
  files, contents and messages. `OneNodeWatched` needs that no alert is up for a closed
  tab (`AlertsAreOfAFile`), whose answer would start monitoring; `NoEditIsLost` is a
  statement about one step (`Survives`), whose only case that is not immediate is
  Save as, which reads back what it wrote.
* `DocumentsProofs!AlwaysListening`, `UnmodifiedIsOnDisk`. Both look at a tab
  that is quiet, and quiet is not inductive: `Unheard` weakens it to hold while a close or
  no alert is up, and `Attentive` and `OnDisk` are the two properties under it. That a
  removal looked at 1.5 seconds later is never found undone needs `RemovedStayGone`,
  and that needs `OneEntry`: a file has one name. Messages are handled from the front
  and come at the back, so `TailNews` and `NewsKept` say what of `Expected` is left.

* `ProjectsProofs!TypeCorrect`, `TasksKeepTheirProject`, `PointersAreListed`, `OneIsActive`, for any
  folders, nesting, files, renamings and numbers of openings and messages. `IInv` adds to the
  three properties: only projects that were made have tasks, are listed or deleted
  (`Numbered`); a project whose task filled the tree is listed until that task ends
  (`ListedStays`), because closes are refused while a task is counted; a result that
  waits is of a task that ended, and pointers in messages are to projects that are listed
  or deleted (`QueueFits`), which is what makes an activation listed; and while nothing is active
  and no two openings overlapped, at most one project is listed and its task has not
  looked yet (`FirstActivates`), from which the completion finds itself alone.
* `PatchApplyProofs!TypeCorrect`, `BackupsKeepAll` and `HunksAreDecided`, for any diffs, those with
  several entries for one path too. The copies of a call are made in the order of
  its entries, and an entry is written only after its copy (`InHandIsCopied`); a copy is made
  over another in one directory only by a later entry of its path, so that what is overwritten
  for the last time stays copied (`CopyIsSafe`). `CallsHaveADirectory` and `DoneIsGiven` tie a call's directory and its
  finished entries to the history variables.

* `LspSessionProofs!OneServer` and `OnlyLeftoversCrash`, for any servers, sessions and edits.
  `IInv` is about who is open where. `Linked` ties `registered`, `fInitialized` and kept
  changes to a tab that was shown; `Closable` says that a file open in a server will be
  closed there by `UnsetLSPServer`, which needs `fInitialized` and not only the pointer; and
  `LeftByReload` that changes without a server were left by the reload that took it.
* `LspSessionProofs!TypeCorrect`, `CopyIsText` and `AnswersFit`. `CInv` is about contents and
  versions, given `IInv`: pending changes are a chain that ends in the editor's text and
  starts in the copy of the server that has the file open, which is as many versions back as
  there are changes (`Following`), so that flushing them gives that text (`AfterChain`); and
  an answer of this session with the editor's version has its text (`Answers`). What `After`
  makes of a list of changes is stated without recursion: the last content of a chain.
* `SearchProofs!TypeCorrect`, `NothingIsCutByDone` and `NoMixedList`, for any output of grep and any
  number of searches and messages. `MessagesFit` says of each message in the queue that the search it
  is the last of was started, and is not the one held unless its thread only waits to be killed:
  messages of threads that were deleted at work have smaller numbers. `ThreadFits` says that what
  the thread collected, and the list, are of the search held.
* `SearchProofs!ListIsComplete`: the list of a search that is done has every match. `LInv` follows
  a line from grep's output to the list: the rows are the runs of the output up to a line
  (`RunsOf`), the reports in the queue the runs from there on (`Leads`), what the thread
  collects is the run it reads (`Collects`), and together they end where the thread has read
  (`Shown`); no report is behind the last message of its search (`DoneIsBehind`).
  That the rows are the runs is stated by the function of the lines they end at, so that one
  more row is one step of a proof and not an induction.
* `BuildRunProofs!TypeCorrect`, `WindowComesBack` and `LoneCommandIsFollowed`, for any projects and
  numbers of commands and messages. The difficulty is that the end of a command goes through
  four messages (quit, notify, exit, windowExit) and a notice, and that none of them but the
  last two name the command. `ContextsEnd` says that a command whose end is awaited has a
  shell that runs, or a run or an end on its way in that console; `ButtonsReturn` that each
  button that was taken away has such a command or an exit on its way; `BuildsFollow` that a
  project that is building, or will be told so, is abandoned, or will be told that it is not *behind*
  that (`Settled`). `Alone` is about the last command, when it was started while nothing was
  under way: it waits as the first run of its console (`WillRun`) or it runs (`Runs`), no
  end of another command is on its way (`Sole`), and the notice of its build is in front of its
  run (`Spins`). Typing needs `QueueFits`: clicks that wait count against the bound, and
  at most one message closes or activates, so that its project is still open when
  it is handled. The 22 actions are opened once, under `StepKinds`, which sorts steps into ten
  kinds; what a step does to the queue is always `Moved`: the head goes and some messages come.

* `PanelTabsProofs!TypeCorrect`, `TabsAndCards`, `ClosedComesBack` and `AskedIsWhatHappens`, for any
  groups, panels, order of panels and number of messages, and with a user who goes on while
  the closed panels' view is shown or not (the ASSUME asks of `AddOrder` that it names each panel
  once). First comes what the operations on one view do: `Select`, `AddTab`, `RemoveTab`, `RemoveCard`
  keep tab and card at one index, and `Give` takes the panel from one view to one other. A
  restart, which adds the panels one by one at the indexes saved, needs an induction over
  how many were added; it is done by the well-foundedness of the numbers and a
  set in the place of the predicate (`NatInduct`). `IInv` then adds to the properties: every
  panel is in one view, tabs and cards agree (`Typed`); a close that waits, and a menu item of a
  group, has the index its tab still has (`IndexesHold`), which holds because only one
  close waits at a time and none under an open menu (`OneClose`); what a fresh message waits
  behind is about other panels (`FreshAlone`), so that its panel is still where the sender
  saw it when it is handled (`FreshFits`). `AskedIsDone` is a statement about one step from there.
* `ProjectsProofs!TreeTypeCorrect`, `ParentsAreThere` and `SettledIsDisk`, about ProjectTree, for any
  names, nodes, events that wait and openings (`ProjectTreeAssumption` says only that the
  bounds are numbers and one directory fits). The difficulty is that a handler sees the disk
  of now and an event of before, so that the tree is in general wrong. `TreeInv` says how wrong:
  * `DiskIsSound`: a node has one name, and the tree names only nodes that were made.
  * `TreeIsBehind`: the names in an open project's tree are each once there, and the events that
    wait *lead* from them to the names on the disk: there is a chain of sets of names, each
    made from the one before by what an event says (`Lead`, `Legal`). Handling drops the first
    link, a change adds a last one. The first link is why the parent of a new file has
    an item: `ParentIsThere`.
  * `KidsAreBehind`: unless a directory was renamed early, a ref in the tree is under the item its
    directory has, or will have once a rename is handled (`RefsAtHome`, `Becomes`), and an item not
    to be replaced by a later event (`Waits`) has the file of its directory or nothing, and
    has it exactly unless an event about the file waits (`KidsFit`). Two facts about the queue
    carry this: a rename is in front of all that is about its names (`RenamesFirst`, which is
    what `renamedEarly` excepts), and the last event about a directory tells what is true of
    its file (`LastTells`). A file moved is handled as a file removed and a file created.
  * `ScanIsTrue`: while nothing happens during the opening the scan has what is on the disk of
    the names it has come by; with every name come by this starts the other two.

  With no event left the chain has no link and nothing waits, which is `Matches`. TLC checked
  `TreeInv` on the states of the run `project_tree` before it was proved.

Only model-checked: all liveness (`PromptsEnd`, `StopAndTimeoutWork`, `OpeningsEnd`,
`FindComesBack`; fairness and ENABLED are beyond the prover). Every safety property that a passing
run checks is proved. `OneNodeWatched`, `OwnChildOnly` and `OnlyLeftoversCrash` are proved and not
run as properties of their own. What the proofs need of induction over numbers (the panels
that a restart has added, the links of a chain of names) they get from `NatInduct`, in
PanelTabsProofs and ProjectsProofs: the numbers are well founded, and a set stands in the place of
the predicate, since the theorem of the library that takes a predicate cannot be used. Sums
over a sequence (`ItemsShown`, which only bounds ProjectTree) are left unexpanded.

## 6 Where the code and its documents disagree

Two runs end with a counterexample; PROJECT.json quotes both sides.

| Run | The code | The document |
|---|---|---|
| `stale_answer` | didClose starts versions again at 0, so an answer of the session before a reload passes the staleness check | `LSPTextDocument.h:35` |
| `closed_has_owner` | A show message sent to a group whose panel is closed before it arrives shows the view of the closed panels; a tab dropped there is closed without a previous owner, and the menu cannot bring it back before a restart | `PanelTabManager.cpp:276-279`: "This should never happen" |

Other divergences, met while modelling and reachable in the models, but not kept as runs:

* A stopped or failed review leaves Apply, Reject and Review disabled for the patch still
  pending (`AIChatPanel.cpp:1909`; `HAIKODE.md:57-59`: Stop re-enables the UI).
* A proposal that came while no project was active is written in part without a patch file
  (`AIChatPanel.cpp:3008`; `HAIKODE.md:76-77`).
* An Apply click that waits behind an answer applies that answer's diff
  (`AIChatPanel.cpp:3242`; `HAIKODE.md:23`). `AIPanel!Click` carries the proposal that was on
  screen, so the difference can be stated.
* A diff with two entries for one path overwrites its own backup, and `ApplyFile` drops
  the later entries of that path undecided (`UnifiedDiff.cpp:1369`; `HAIKODE.md:67-71`): the
  exceptions of `NothingLost` (`again`) and `ProposedHunksAreDecided` (`Behind`).
* A child that always has output is neither stopped nor timed out (`ProcessCapture.cpp:225`;
  `tests/process_capture_smoke.cpp:77-80` asserts it for children that are silent): without its exception
  `OutputNeverEnds`, `StopAndTimeoutWork` fails.
* A search may miss its first lines: `_CleanPipes` (`ConsoleIOThread.cpp:99`), which is to throw away what
  was inherited by the fork, runs after grep was resumed.
* A reload that fails leaves the file unwatched and the buffer old or short, without a word
  (`Editor.cpp:1192, 1225, 1527, 1554`; the comment at `Editor.cpp:1527` says "errors should be notified").
* Closing the active project makes another one active; the comment at
  `GenioWindow.cpp:3621` says it does not.
* The build-system detection of a project is counted by nobody: the project can be closed and
  deleted under it (`GenioWindow.cpp:4104`). Two openings of the same folder are not refused while
  the first scans (`GenioWindow.cpp:3961`).
* A second show message for a hidden panel dereferences null (`PanelTabManager.cpp:196`). The
  order of tabs that is saved is not the one restored, as panels are added in a fixed
  order with indexes of the whole (`PanelTabManager.cpp:282`).
* After references, or after a start-up that failed, the Find button stays disabled until
  the next search ends (`SearchResultPanel.cpp:108, 119`); a failed thread is kept, so that
  no search starts before references come. References without an active project
  dereference null (`GenioWindow.cpp:1232`).

## 7 What is not modelled

Left out for good: presentation and wording, settings, templates, scripting, extensions,
git (thin calls to libgit2), the HTTP and JSON of providers, and the vendored libraries
(Scintilla, Lexilla, the terminal, JSON), which are most of the lines of the repository
and not code of this program.
Left out of modelled parts: trimming of white space and read-only files in
Documents; completion, hover, signature help and rename dialogs in LspSession;
the debugger and banners in BuildRun; profiles, model lists and field editing in
AIPanel; parsing and line matching in PatchApply; several tabs in Documents; filters, renaming
and creating files from the tree, deeper directories in ProjectTree; the grep command line and
the bytes of a line in Search; the tabs of editors in PanelTabs; the exceptions map of Task.h.
Not reached: the LSP transport, the jump navigator.

## 8 Plan

In order of what they protect. The number of TLC runs is kept at one per question.

1. *HunkApply*: the strict line matcher of `UnifiedDiff.cpp` as recursive functions over
   short sequences of lines, against a reference definition of a patch; then
   `PatchApply`'s choice of what matches refined by it.
2. *Transport*: framing and the reader of `LSPPipeClient`, as the FIFO that `LspSession` assumes.
3. *JumpNavigator*, and the line buffer of `GrepThread` at its limit.
4. Several documents in one window (Save all, Quit) on top of `Documents`.

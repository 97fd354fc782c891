----------------------------- MODULE LspSession -----------------------------
(***************************************************************************)
(* One open file and the language servers that follow it                   *)
(* (lsp-client/LSPEditorWrapper.cpp, LSPProjectWrapper.cpp and the calls   *)
(* of editor/Editor.cpp and ui/GenioWindow.cpp into them).                 *)
(*                                                                         *)
(* All handlers run in the looper of the Genio window.  A server reads the *)
(* notifications and requests of its pipe in order, so its copy of the     *)
(* file is kept here as of the last notification sent; its answers and     *)
(* diagnostics come back later, in any order, through the response queue.  *)
(*                                                                         *)
(* A content is a number; an edit takes the file from one to another, and  *)
(* a range computed in one content means nothing in another.               *)
(***************************************************************************)
EXTENDS Integers, FiniteSets, Sequences

CONSTANTS
    Servers,        \* language servers (LSPProjectWrapper) a file may belong to
    NoServer,       \* nullptr
    MaxContents,    \* bound: contents the file has had
    MaxSessions,    \* bound: times the document is opened in a server
    MaxInFlight     \* bound: messages of servers not handled yet

ASSUME ServersAssumption == NoServer \notin Servers

ASSUME BoundsAssumption ==
    /\ MaxContents \in Nat \ {0} /\ MaxSessions \in Nat \ {0}
    /\ MaxInFlight \in Nat

VARIABLES
    text, saved,            \* the editor's content, and the one of the save point
    contents,               \* contents so far
    selected,               \* ~fFirstTimeSelected
    fLSPProjectWrapper, fInitialized, fVersion,
    fChanges,               \* edits not sent yet
    fLastDiagnostics,       \* the content they were computed for, 0 when cleared
    registered,             \* the wrapper whose fTextDocs holds the file
    wrapper,                \* server -> "none", "starting", "up" (fInitialized)
    copy, copyVersion,      \* server -> its content and version of the file
    inFlight,               \* answers and diagnostics on their way to the window
    session,                \* times the document was opened
    leftover,               \* whether edits of before a close or open stayed pending
    crashed                 \* a call through a null fLSPProjectWrapper

editor == <<text, saved, contents, selected>>
link == <<fLSPProjectWrapper, fInitialized, registered, wrapper, session, leftover>>
sent == <<copy, copyVersion>>
vars == <<editor, link, fVersion, fChanges, fLastDiagnostics, sent, inFlight, crashed>>

NotOpen == 0            \* the server does not hold the file
Garbled == -1           \* it holds a content the editor never had
NoVersion == -1         \* diagnostics may leave their version out
Fresh == contents + 1

IsInitialized == fInitialized /\ fLSPProjectWrapper # NoServer

Init ==
    /\ text = 1 /\ saved = 1 /\ contents = 1 /\ selected = FALSE
    /\ fLSPProjectWrapper \in Servers \cup {NoServer}
    /\ fInitialized = FALSE /\ fVersion = 0 /\ fChanges = <<>> /\ fLastDiagnostics = 0
    /\ registered = NoServer /\ wrapper = [s \in Servers |-> "none"]
    /\ copy = [s \in Servers |-> NotOpen] /\ copyVersion = [s \in Servers |-> 0]
    /\ inFlight = {} /\ session = 0 /\ leftover = FALSE /\ crashed = FALSE

-----------------------------------------------------------------------------
(* Pieces of handlers.                                                     *)

(* The content changes, and SCN_MODIFIED calls didChange.                  *)
Change(to) ==
    /\ text' = to
    /\ contents' = IF to > contents THEN to ELSE contents
    /\ \/ /\ IsInitialized
          /\ fVersion' = fVersion + 1
          /\ fChanges' = Append(fChanges, <<text, to>>)
       \/ ~IsInitialized /\ UNCHANGED <<fVersion, fChanges>>

(* Each of the changes was made in the content the one before it led to.   *)
Chained(content, changes) ==
    \A i \in 1..Len(changes) :
        changes[i][1] = IF i = 1 THEN content ELSE changes[i - 1][2]

(* What a server makes of changes to the content it holds.                 *)
After(content, changes) ==
    IF changes = <<>> \/ content = NotOpen THEN content
    ELSE IF Chained(content, changes) THEN changes[Len(changes)][2]
    ELSE Garbled

(* Fault: the list of changes is not cleared.                              *)
FlushKeepsChanges ==
    \/ fChanges = <<>> /\ UNCHANGED <<fChanges, sent>>
    \/ /\ fChanges # <<>>
       /\ copy' = [copy EXCEPT ![fLSPProjectWrapper] = After(@, fChanges)]
       /\ copyVersion' = [copyVersion EXCEPT ![fLSPProjectWrapper] = fVersion]
       /\ UNCHANGED fChanges

flushChanges ==
    \/ fChanges = <<>> /\ UNCHANGED <<fChanges, sent>>
    \/ /\ fChanges # <<>>
       /\ copy' = [copy EXCEPT ![fLSPProjectWrapper] = After(@, fChanges)]
       /\ copyVersion' = [copyVersion EXCEPT ![fLSPProjectWrapper] = fVersion]
       /\ fChanges' = <<>>

(* OnInitialize: fInitialized is set for good, and didOpen sends the whole *)
(* content.  copies is what the servers hold before.                       *)
OnInitialize(s, copies) ==
    /\ fInitialized' = TRUE
    /\ copy' = [copies EXCEPT ![s] = text']
    /\ copyVersion' = [copyVersion EXCEPT ![s] = fVersion']
    /\ session' = session + 1

(* Fault: the file stays in the fTextDocs of the server it leaves.         *)
RegisterKeepsEntry(s, copies) ==
    /\ copy' = copies
    /\ \/ /\ s = NoServer
          /\ UNCHANGED <<registered, wrapper, fInitialized, copyVersion, session>>
       \/ /\ s # NoServer
          /\ registered' = s
          /\ wrapper' = [wrapper EXCEPT ![s] = IF @ = "up" THEN @ ELSE "starting"]
          /\ UNCHANGED <<fInitialized, copyVersion, session>>

(* RegisterDocument: the first document of a server starts it.             *)
RegisterDocument(s, copies) ==
    /\ registered' = s
    /\ \/ /\ s = NoServer
          /\ copy' = copies
          /\ UNCHANGED <<wrapper, fInitialized, copyVersion, session>>
       \/ /\ s # NoServer
          /\ wrapper[s] = "up"
          /\ OnInitialize(s, copies)
          /\ UNCHANGED wrapper
       \/ /\ s # NoServer
          /\ wrapper[s] # "up"
          /\ wrapper' = [wrapper EXCEPT ![s] = "starting"]
          /\ copy' = copies
          /\ UNCHANGED <<fInitialized, copyVersion, session>>

(* Fault: UnsetLSPServer does not close the document.                      *)
CopiesNotClosed == copy

(* UnsetLSPServer: what the servers hold after its didClose.               *)
CopiesAfterClose ==
    IF IsInitialized THEN [copy EXCEPT ![fLSPProjectWrapper] = NotOpen] ELSE copy

-----------------------------------------------------------------------------
(* The user and the program edit.                                          *)

Edit ==
    /\ contents < MaxContents
    /\ Change(Fresh)
    /\ UNCHANGED <<saved, selected, link, fLastDiagnostics, sent, inFlight>>

(* Undo back to the save point.                                            *)
Undo ==
    /\ text # saved
    /\ Change(saved)
    /\ UNCHANGED <<saved, selected, link, fLastDiagnostics, sent, inFlight>>

(* Editor::Reload after another program wrote the file.                    *)
Reload ==
    /\ contents < MaxContents
    /\ Change(Fresh)
    /\ saved' = text'
    /\ UNCHANGED <<selected, link, fLastDiagnostics, sent, inFlight>>

(* SaveToFile: the save point moves, then didSave.                         *)
Save ==
    /\ saved' = text
    /\ \/ IsInitialized /\ flushChanges
       \/ ~IsInitialized /\ UNCHANGED <<fChanges, sent>>
    /\ UNCHANGED <<text, contents, selected, link, fVersion, fLastDiagnostics, inFlight>>

(* kIdle, 0.4 s after an edit, and whether or not there is a server.       *)
Idle ==
    /\ fChanges # <<>>
    /\ \/ fLSPProjectWrapper # NoServer /\ flushChanges /\ UNCHANGED crashed
       \/ /\ fLSPProjectWrapper = NoServer
          /\ crashed' = TRUE
          /\ UNCHANGED <<fChanges, sent>>
    /\ UNCHANGED <<editor, link, fVersion, fLastDiagnostics, inFlight>>

-----------------------------------------------------------------------------
(* Opening, closing, moving.                                               *)

(* The tab is shown for the first time.                                    *)
Selected ==
    /\ ~selected
    /\ selected' = TRUE
    /\ UNCHANGED <<text, saved, contents, fVersion, fChanges>>
    /\ RegisterDocument(fLSPProjectWrapper, copy)
    /\ UNCHANGED <<fLSPProjectWrapper, leftover, fLastDiagnostics, inFlight>>

(* _ReloadFileInEditor: UnloadFile takes the file from its server,         *)
(* LoadFromFile reads it while it has none, and _PostFileLoad gives it to  *)
(* the server of its project.  A load that fails has replaced none or some *)
(* of the text, leaves the save point and the file type out, and without a *)
(* type there is no server.  fChanges is not touched.                      *)
ReloadFileInEditor(content, point, target) ==
    /\ session < MaxSessions
    /\ \/ text' = content /\ saved' = content /\ fLSPProjectWrapper' = target
       \/ /\ text' \in {text, Fresh} /\ text' <= MaxContents
          /\ saved' = point /\ fLSPProjectWrapper' = NoServer
    /\ contents' = IF text' > contents THEN text' ELSE contents
    /\ fVersion' = IF IsInitialized THEN 0 ELSE fVersion
    /\ fLastDiagnostics' = IF IsInitialized THEN 0 ELSE fLastDiagnostics
    /\ \/ selected /\ RegisterDocument(fLSPProjectWrapper', CopiesAfterClose)
       \/ /\ ~selected
          /\ registered' = NoServer
          /\ copy' = CopiesAfterClose
          /\ UNCHANGED <<wrapper, fInitialized, copyVersion, session>>
    /\ leftover' = (leftover \/ fChanges' # <<>>)
    /\ UNCHANGED <<selected, inFlight>>

(* An applied AI patch changed the file, and the editor was not modified.  *)
ReloadPatched ==
    /\ text = saved
    /\ contents < MaxContents
    /\ UNCHANGED fChanges
    /\ ReloadFileInEditor(Fresh, saved, fLSPProjectWrapper)

(* Another program moved the file, into any project, and the user chooses  *)
(* Reload.                                                                 *)
ReloadMoved(target) ==
    /\ UNCHANGED fChanges
    /\ ReloadFileInEditor(saved, saved, target)

(* _FileSaveAs: a save that fails has told the server nothing, and its     *)
(* result is not looked at: the editor loads what is at the new path.      *)
SaveAs(target) ==
    \/ /\ fChanges' = IF IsInitialized THEN <<>> ELSE fChanges
       /\ ReloadFileInEditor(text, text, target)
    \/ /\ contents < MaxContents
       /\ UNCHANGED fChanges
       /\ ReloadFileInEditor(Fresh, saved, target)

(* A project is opened after its file: it takes the editors that have no   *)
(* project.                                                                *)
ProjectOpened(s) ==
    /\ fLSPProjectWrapper = NoServer
    /\ session < MaxSessions
    /\ fLSPProjectWrapper' = s
    /\ UNCHANGED <<editor, fVersion, fChanges>>
    /\ \/ selected /\ RegisterDocument(s, copy)
       \/ ~selected /\ UNCHANGED <<registered, wrapper, fInitialized, sent, session>>
    /\ UNCHANGED <<leftover, fLastDiagnostics, inFlight>>

(* The tab is closed, saved or not, and the file opened again: a new       *)
(* Editor under the old URI.                                               *)
Reopen ==
    /\ session < MaxSessions
    /\ text' \in {text, saved}
    /\ saved' = text'
    /\ selected' = FALSE /\ fInitialized' = FALSE /\ fVersion' = 0 /\ fChanges' = <<>>
    /\ fLastDiagnostics' = 0 /\ registered' = NoServer /\ leftover' = FALSE
    /\ copy' = CopiesAfterClose
    /\ UNCHANGED <<contents, fLSPProjectWrapper, wrapper, copyVersion, session, inFlight>>

(* The answer to "initialize".                                             *)
Initialized(s) ==
    /\ wrapper[s] = "starting"
    /\ wrapper' = [wrapper EXCEPT ![s] = "up"]
    /\ UNCHANGED <<editor, fVersion>>
    /\ \/ /\ registered = s
          /\ OnInitialize(s, copy)
          /\ leftover' = (leftover \/ fChanges # <<>>)
       \/ /\ registered # s
          /\ UNCHANGED <<fInitialized, sent, session, leftover>>
    /\ UNCHANGED <<fLSPProjectWrapper, registered, fChanges, fLastDiagnostics, inFlight>>

-----------------------------------------------------------------------------
(* Requests, and what servers send.                                        *)

Message(what, s, version) ==
    [what |-> what, server |-> s, version |-> version, base |-> copy'[s],
     session |-> session]

(* Format and rename; completion asks the same way.  A server that is not  *)
(* up has no capability, and the request is not sent.                      *)
Format ==
    /\ IsInitialized
    /\ Cardinality(inFlight) < MaxInFlight
    /\ flushChanges
    /\ inFlight' = IF wrapper[fLSPProjectWrapper] = "up"
                   THEN inFlight \cup {Message("edits", fLSPProjectWrapper, fVersion)}
                   ELSE inFlight
    /\ UNCHANGED <<editor, link, fVersion, fLastDiagnostics>>

Publish(s) ==
    /\ copy[s] # NotOpen
    /\ Cardinality(inFlight) < MaxInFlight
    /\ UNCHANGED sent
    /\ \E version \in {copyVersion[s], NoVersion} :
          inFlight' = inFlight \cup {Message("diagnostics", s, version)}
    /\ UNCHANGED <<editor, link, fVersion, fChanges, fLastDiagnostics>>

IsNeverStale(version) == FALSE      \* fault: versions are not compared
IsStaleResponse(version) == fVersion # version

(* The edits are put into the text by OnFormat, which drops the            *)
(* diagnostics; a stale answer, or one for a file that is gone, is dropped.*)
OnEdits(m) ==
    /\ m \in inFlight /\ m.what = "edits"
    /\ inFlight' = inFlight \ {m}
    /\ \/ /\ registered # m.server \/ IsStaleResponse(m.version)
          /\ UNCHANGED <<editor, fVersion, fChanges, fLastDiagnostics>>
       \/ /\ registered = m.server /\ ~IsStaleResponse(m.version)
          /\ contents < MaxContents
          /\ Change(Fresh)
          /\ fLastDiagnostics' = 0
          /\ UNCHANGED <<saved, selected>>
    /\ UNCHANGED <<link, sent>>

StaleDiagnostics(version) == version # NoVersion /\ version < fVersion

OnDiagnostics(m) ==
    /\ m \in inFlight /\ m.what = "diagnostics"
    /\ inFlight' = inFlight \ {m}
    /\ fLastDiagnostics' = IF registered = m.server /\ ~StaleDiagnostics(m.version)
                           THEN m.base ELSE fLastDiagnostics
    /\ UNCHANGED <<editor, link, fVersion, fChanges, sent>>

(* A quick fix of the last diagnostics, in the text as it is now.          *)
ApplyFix ==
    /\ fLSPProjectWrapper # NoServer
    /\ fLastDiagnostics # 0
    /\ contents < MaxContents
    /\ Change(Fresh)
    /\ fLastDiagnostics' = 0
    /\ UNCHANGED <<saved, selected, link, sent, inFlight>>

Step ==
    \/ Edit \/ Undo \/ Reload \/ Save
    \/ Selected \/ ReloadPatched \/ Reopen
    \/ \E target \in Servers \cup {NoServer} : ReloadMoved(target) \/ SaveAs(target)
    \/ \E s \in Servers : ProjectOpened(s) \/ Initialized(s) \/ Publish(s)
    \/ Format
    \/ \E m \in inFlight : OnEdits(m) \/ OnDiagnostics(m)
    \/ ApplyFix

Next == ~crashed /\ (Idle \/ (Step /\ UNCHANGED crashed))

(* The timer of kIdle fires; nothing is assumed of users and servers.      *)
Spec == Init /\ [][Next]_vars

-----------------------------------------------------------------------------

TypeOK ==
    /\ contents \in 1..MaxContents /\ text \in 1..contents /\ saved \in 1..contents
    /\ selected \in BOOLEAN /\ fInitialized \in BOOLEAN
    /\ fLSPProjectWrapper \in Servers \cup {NoServer}
    /\ registered \in {NoServer, fLSPProjectWrapper}
    /\ fVersion \in Nat
    /\ fChanges \in Seq((1..contents) \X (1..contents))
    /\ fLastDiagnostics \in Garbled..contents
    /\ wrapper \in [Servers -> {"none", "starting", "up"}]
    /\ copy \in [Servers -> Garbled..contents] /\ copyVersion \in [Servers -> Nat]
    /\ \A m \in inFlight : m.what \in {"edits", "diagnostics"} /\ m.server \in Servers
    /\ session \in 0..MaxSessions
    /\ leftover \in BOOLEAN /\ crashed \in BOOLEAN

(* The server's copy and the edits still to send make up the editor's      *)
(* text, through edits, saves, requests, restarts of the session and a     *)
(* server that comes up late, unless edits of before were left pending:    *)
(* then, and only then, the idle timer may flush through a null server.    *)
ServerFollowsText ==
    /\ \A s \in Servers :
          copy[s] # NotOpen /\ ~leftover => After(copy[s], fChanges) = text
    /\ crashed => leftover

(* A file that moved to another server is not left open in the first.      *)
OpenInItsServerOnly ==
    \A s \in Servers : copy[s] # NotOpen => fLSPProjectWrapper = s /\ registered = s

(* Within one session, what the server answers is used only for the text  *)
(* it was computed for, however many edits and saves came in between: the  *)
(* edits of an answer change that text, diagnostics are taken over for it. *)
(* Diagnostics that leave their version out are not compared, and are      *)
(* taken for whatever text the editor has by then: those are excepted.     *)
AnswersFitSession ==
    [][ \A m \in inFlight \ inFlight' :
            /\ m.session = session
            /\ ~leftover
            /\ \/ m.what = "edits" /\ text' # text
               \/ /\ m.what = "diagnostics" /\ m.version # NoVersion
                  /\ fLastDiagnostics' # fLastDiagnostics
            => m.base = text ]_vars

(* An answer is put only into the text it was computed for: "Discarding    *)
(* stale response" is what IsStaleResponse is there for.                   *)
AnswersFitText ==
    [][ \A m \in inFlight \ inFlight' :
            m.what = "edits" /\ text' # text => m.base = text ]_vars
=============================================================================

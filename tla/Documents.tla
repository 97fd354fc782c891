----------------------------- MODULE Documents -----------------------------
(***************************************************************************)
(* A file in an editor tab and other programs that change it on disk:      *)
(* editor/Editor.cpp (load, reload, save, node monitoring) and the         *)
(* handlers of ui/GenioWindow.cpp for saving, closing and for the          *)
(* messages of the node monitor.                                           *)
(*                                                                         *)
(* The window's looper handles one message at a time; an alert blocks it   *)
(* while other programs go on.  They do not come in between the system     *)
(* calls of one handler.  A content is a number; trimming white space and  *)
(* read-only files are left out.                                           *)
(***************************************************************************)
EXTENDS Integers, Sequences, FiniteSets

CONSTANTS
    Paths,          \* entry_refs the file may have
    NoFile,         \* no entry_ref: the tab is closed
    MaxContents,    \* bound: contents ever made
    MaxNodes,       \* bound: files ever created
    MaxEvents       \* bound: node monitor messages not handled yet

ASSUME DocumentsAssumption ==
    /\ NoFile \notin Paths
    /\ MaxContents \in Nat \ {0} /\ MaxNodes \in Nat \ {0} /\ MaxEvents \in Nat

VARIABLES
    entry,          \* path -> its node, 0 if there is none
    content,        \* node -> its content
    nodes, contents,            \* made so far
    fFileRef, fNodeRef,         \* of the editor
    text, saved,                \* the buffer, and what it was at the save point
    watched,                    \* nodes the kernel watches for the window
    events, checks,             \* node monitor messages; removals to be looked at later
    alert,                      \* the alert the window waits for
    ignored,        \* the user chose to keep the buffer as it is
    failed,         \* the last save or load did not succeed, which no caller looks at
    unmonitored,    \* a load failed, and nothing started the monitoring since
    unseen          \* a file came to fFileRef with no message to be expected

disk == <<entry, content, nodes, contents>>
editor == <<fFileRef, fNodeRef, text, saved, watched>>
monitor == <<events, checks>>
ghosts == <<ignored, failed, unmonitored, unseen>>
vars == <<disk, editor, monitor, alert, ghosts>>

NoAlert == [what |-> "none"]
Asks(what) == [what |-> what]
Short == 0          \* what a write or read that fails on the way leaves

Open == fFileRef # NoFile
IsModified == text # saved
Node == entry[fFileRef]
Fresh == contents + 1
MayChange == contents < MaxContents

Init ==
    /\ \E here \in Paths :
           /\ entry = [p \in Paths |-> IF p = here THEN 1 ELSE 0]
           /\ fFileRef = here
    /\ content = [n \in 1..MaxNodes |-> 1] /\ nodes = 1 /\ contents = 1
    /\ fNodeRef = 1 /\ watched = {1}
    /\ text = 1 /\ saved = 1
    /\ events = <<>> /\ checks = {} /\ alert = NoAlert
    /\ ignored = FALSE /\ failed = FALSE /\ unmonitored = FALSE /\ unseen = FALSE

-----------------------------------------------------------------------------
(* What the editor may still hear of its file.                             *)

IsNews(event) ==
    \/ event.what \in {"stat", "removed"} /\ event.node = fNodeRef
    \/ event.what = "moved" /\ event.from = fFileRef

Expected ==
    \/ alert.what = "stat"      \* its answer starts the monitoring again
    \/ \E i \in DOMAIN events : IsNews(events[i])
    \/ \E c \in checks : c.node = fNodeRef

-----------------------------------------------------------------------------
(* Other programs.                                                         *)

Notify(node, event) ==
    \/ node \in watched /\ Len(events) < MaxEvents /\ events' = Append(events, event)
    \/ node \notin watched /\ UNCHANGED events

OtherWrites(path) ==
    /\ entry[path] # 0 /\ MayChange
    /\ contents' = Fresh
    /\ content' = [content EXCEPT ![entry[path]] = Fresh]
    /\ Notify(entry[path], [what |-> "stat", node |-> entry[path]])
    /\ UNCHANGED <<entry, nodes, editor, checks, alert, ghosts>>

OtherRemoves(path) ==
    /\ entry[path] # 0
    /\ entry' = [entry EXCEPT ![path] = 0]
    /\ Notify(entry[path], [what |-> "removed", node |-> entry[path], path |-> path])
    /\ UNCHANGED <<content, nodes, contents, editor, checks, alert, ghosts>>

OtherMoves(path, to) ==
    /\ entry[path] # 0 /\ entry[to] = 0
    /\ entry' = [entry EXCEPT ![path] = 0, ![to] = entry[path]]
    /\ Notify(entry[path], [what |-> "moved", from |-> path, to |-> to])
    /\ unseen' = (unseen \/ (to = fFileRef /\ ~Expected))
    /\ UNCHANGED <<content, nodes, contents, editor, checks, alert, ignored, failed, unmonitored>>

OtherCreates(path) ==
    /\ entry[path] = 0 /\ nodes < MaxNodes /\ MayChange
    /\ nodes' = nodes + 1
    /\ contents' = Fresh
    /\ entry' = [entry EXCEPT ![path] = nodes + 1]
    /\ content' = [content EXCEPT ![nodes + 1] = Fresh]
    /\ unseen' = (unseen \/ (path = fFileRef /\ ~Expected))
    /\ UNCHANGED <<editor, monitor, alert, ignored, failed, unmonitored>>

-----------------------------------------------------------------------------
(* Pieces of handlers.  Each names the new value of what it changes.       *)

Monitored(path, entries) == IF entries[path] = 0 THEN fNodeRef ELSE entries[path]

(* Fault: monitoring is not started again.                                 *)
NotRestarted(path, entries) ==
    /\ watched' = watched \ {fNodeRef}
    /\ UNCHANGED fNodeRef

(* Fault: a failed GetNodeRef is not looked at.                            *)
RestartedBlindly(path, entries) ==
    /\ watched' = (watched \ {fNodeRef}) \cup {entries[path]}
    /\ fNodeRef' = entries[path]

(* StopMonitoring, then StartMonitoring of whatever path names: it fails   *)
(* if there is nothing, and then fNodeRef stays.                           *)
Restarted(path, entries) ==
    /\ watched' = (watched \ {fNodeRef}) \cup ({entries[path]} \ {0})
    /\ fNodeRef' = Monitored(path, entries)

(* SaveToFile's calls: the file is not opened; it is emptied or made, and  *)
(* only a part of the text gets into it; or all of it does.                *)
Written(path, outcome) ==
    LET node == IF entry[path] = 0 THEN nodes + 1 ELSE entry[path] IN
    IF outcome = "refused" THEN UNCHANGED disk
    ELSE /\ node <= MaxNodes
         /\ nodes' = IF entry[path] = 0 THEN node ELSE nodes
         /\ entry' = [entry EXCEPT ![path] = node]
         /\ content' = [content EXCEPT ![node] = IF outcome = "done" THEN text ELSE Short]
         /\ UNCHANGED contents

Forgotten(loaded) ==
    /\ ignored' = (ignored /\ ~loaded)
    /\ unseen' = (unseen /\ ~loaded)

(* _FileSave: the save point is set only if everything was written.        *)
FileSave(outcome) ==
    /\ Written(fFileRef, outcome)
    /\ saved' = IF outcome = "done" THEN text ELSE saved
    /\ Restarted(fFileRef, entry')
    /\ failed' = (outcome # "done")
    /\ unmonitored' = FALSE
    /\ Forgotten(outcome = "done")
    /\ UNCHANGED <<fFileRef, text>>

(* LoadFromFile behind UnloadFile, which has stopped the monitoring.       *)
Loaded(path, entries, contentOf) ==
    /\ entries[path] # 0
    /\ text' = contentOf[entries[path]]
    /\ saved' = text'
    /\ Restarted(path, entries)
    /\ unmonitored' = FALSE
    /\ Forgotten(TRUE)

(* The file is not there, cannot be opened or locked, or only a part of it *)
(* is read: the save point, at point, stays, and nothing is monitored.     *)
NotLoaded(path, entries, node, point) ==
    /\ text' \in {text} \cup (IF entries[path] = 0 THEN {} ELSE {Short})
    /\ saved' = point
    /\ fNodeRef' = node
    /\ watched' = watched \ {fNodeRef}
    /\ failed' = TRUE /\ unmonitored' = TRUE
    /\ UNCHANGED <<ignored, unseen>>

(* _ReloadFileInEditor, where no one looks at the result of LoadFromFile.  *)
ReloadFileInEditor(path) ==
    /\ fFileRef' = path
    /\ \/ Loaded(path, entry, content) /\ failed' = FALSE
       \/ NotLoaded(path, entry, fNodeRef, saved)

RemoveTab ==
    /\ fFileRef' = NoFile /\ fNodeRef' = 0
    /\ text' = Short /\ saved' = Short
    /\ watched' = watched \ {fNodeRef}
    /\ ignored' = FALSE /\ unmonitored' = FALSE /\ unseen' = FALSE

EditorBy(node) == Open /\ fNodeRef = node

-----------------------------------------------------------------------------
(* The user, while no alert is shown.                                      *)

User == Open /\ alert = NoAlert

Outcomes == {"refused", "short", "done"}

Edit ==
    /\ User /\ MayChange
    /\ contents' = Fresh /\ text' = Fresh
    /\ UNCHANGED <<entry, content, nodes, fFileRef, fNodeRef, saved, watched, monitor, alert, ghosts>>

Undo ==     \* back to the save point
    /\ User /\ IsModified
    /\ text' = saved
    /\ UNCHANGED <<disk, fFileRef, fNodeRef, saved, watched, monitor, alert, ghosts>>

Save ==
    /\ User
    /\ \E outcome \in Outcomes : FileSave(outcome)
    /\ UNCHANGED <<monitor, alert>>

(* The reference is changed for good, the save's result is not looked at,  *)
(* and whatever the new path then names is loaded.                         *)
SaveAs(path) ==
    /\ User
    /\ fFileRef' = path
    /\ \E outcome \in Outcomes :
           /\ Written(path, outcome)
           /\ \/ Loaded(path, entry', content') /\ failed' = (outcome # "done")
              \/ NotLoaded(path, entry', Monitored(path, entry'),
                           IF outcome = "done" THEN text ELSE saved)
    /\ UNCHANGED <<monitor, alert>>

(* _FileRequestClose: an unmodified file is closed, for a modified one the *)
(* user is asked, who may cancel and so go on with a moved file.           *)
FileRequestClose(moved) ==
    \/ /\ IsModified
       /\ alert' = Asks("close")
       /\ ignored' = (ignored \/ moved)
       /\ UNCHANGED <<editor, failed, unmonitored, unseen>>
    \/ /\ ~IsModified
       /\ alert' = NoAlert
       /\ RemoveTab
       /\ UNCHANGED failed

FileClose == User /\ FileRequestClose(FALSE) /\ UNCHANGED <<disk, monitor>>

FileOpen(path) ==
    /\ ~Open /\ alert = NoAlert /\ entry[path] # 0
    /\ ReloadFileInEditor(path)
    /\ UNCHANGED <<disk, monitor, alert>>

(* The AI panel, in the same looper, applies a patch to the file.          *)
PatchApplied(path) ==
    /\ alert = NoAlert /\ entry[path] # 0 /\ MayChange
    /\ contents' = Fresh
    /\ content' = [content EXCEPT ![entry[path]] = Fresh]
    /\ LET stat == IF entry[path] \in watched
                   THEN <<[what |-> "stat", node |-> entry[path]]>> ELSE <<>>
       IN events' = events \o stat \o <<[what |-> "patched", path |-> path]>>
    /\ Len(events') <= MaxEvents
    /\ UNCHANGED <<entry, nodes, editor, checks, alert, ghosts>>

-----------------------------------------------------------------------------
(* Messages to the window.                                                 *)

(* _HandleExternalStatModification: no monitoring while the alert is up.   *)
ExternalStat ==
    /\ alert' = Asks("stat")
    /\ watched' = watched \ {fNodeRef}

(* B_STAT_CHANGED.                                                         *)
StatChanged(event) ==
    /\ event.what = "stat"
    /\ IF EditorBy(event.node) THEN ExternalStat ELSE UNCHANGED <<alert, watched>>
    /\ UNCHANGED <<fFileRef, fNodeRef, text, saved, checks, ghosts>>

(* B_ENTRY_REMOVED: look at it 1.5 seconds later.                          *)
EntryRemoved(event) ==
    /\ event.what = "removed"
    /\ checks' = checks \cup {[node |-> event.node, path |-> event.path]}
    /\ UNCHANGED <<editor, alert, ghosts>>

(* B_ENTRY_MOVED, looked up by the old reference.                          *)
EntryMoved(event) ==
    /\ event.what = "moved"
    /\ alert' = IF event.from = fFileRef THEN [what |-> "moved", to |-> event.to] ELSE alert
    /\ UNCHANGED <<editor, checks, ghosts>>

(* Fault: every buffer of the file is reloaded.                            *)
PatchReloads(event) ==
    /\ event.what = "patched"
    /\ IF event.path = fFileRef THEN ReloadFileInEditor(event.path) ELSE UNCHANGED <<editor, ghosts>>
    /\ UNCHANGED <<checks, alert>>

(* _ReloadChangedFilesFromAI leaves a modified buffer alone.               *)
PatchNotified(event) ==
    /\ event.what = "patched"
    /\ \/ /\ event.path = fFileRef /\ ~IsModified
          /\ ReloadFileInEditor(event.path)
       \/ /\ event.path # fFileRef \/ IsModified
          /\ UNCHANGED <<editor, ghosts>>
    /\ UNCHANGED <<checks, alert>>

NodeMonitor ==
    /\ alert = NoAlert /\ events # <<>>
    /\ LET event == Head(events) IN
           \/ StatChanged(event)
           \/ EntryRemoved(event)
           \/ EntryMoved(event)
           \/ PatchNotified(event)
    /\ events' = Tail(events)
    /\ UNCHANGED disk

(* Fault: the other file is taken for the one that was removed.            *)
ReplacedSilently(check) ==
    /\ fFileRef' = check.path
    /\ Restarted(check.path, entry)
    /\ UNCHANGED <<alert, text, saved>>

(* The path of a removed file names another one by now.                    *)
Replaced(check) ==
    /\ fFileRef' = check.path
    /\ fNodeRef' = entry[check.path]
    /\ watched' = watched \ {fNodeRef}
    /\ alert' = Asks("stat")
    /\ UNCHANGED <<text, saved>>

(* _CheckEntryRemoved.                                                     *)
CheckEntryRemoved(check) ==
    /\ alert = NoAlert
    /\ checks' = checks \ {check}
    /\ IF EditorBy(check.node) /\ entry[check.path] # check.node
       THEN IF entry[check.path] # 0 THEN Replaced(check)
            ELSE alert' = Asks("removed") /\ UNCHANGED editor
       ELSE UNCHANGED <<editor, alert>>
    /\ UNCHANGED <<disk, events, ghosts>>

-----------------------------------------------------------------------------
(* Answers to the alerts.                                                  *)

(* "Ignore", or Reload(), which may read nothing, as when the file is gone,*)
(* or a part only, and sets no save point then.                            *)
AnswerStat ==
    /\ alert.what = "stat"
    /\ alert' = NoAlert
    /\ \/ /\ ignored' = TRUE
          /\ UNCHANGED <<text, saved, failed, unseen>>
       \/ /\ Node # 0
          /\ text' = content[Node]
          /\ saved' = text'
          /\ failed' = FALSE
          /\ Forgotten(TRUE)
       \/ /\ text' \in {text} \cup (IF Node = 0 THEN {} ELSE {Short})
          /\ failed' = TRUE
          /\ UNCHANGED <<saved, ignored, unseen>>
    /\ Restarted(fFileRef, entry)
    /\ unmonitored' = FALSE
    /\ UNCHANGED <<disk, monitor, fFileRef>>

(* "Keep" saves an unmodified buffer, "Discard" closes the tab.            *)
AnswerRemoved ==
    /\ alert.what = "removed"
    /\ alert' = NoAlert
    /\ \/ /\ ~IsModified
          /\ \E outcome \in Outcomes : FileSave(outcome)
       \/ /\ IsModified
          /\ ignored' = TRUE
          /\ UNCHANGED <<disk, editor, failed, unmonitored, unseen>>
       \/ RemoveTab /\ UNCHANGED <<disk, failed>>
    /\ UNCHANGED monitor

AnswerMoved ==
    /\ alert.what = "moved"
    /\ \/ /\ ignored' = TRUE /\ alert' = NoAlert
          /\ UNCHANGED <<editor, failed, unmonitored, unseen>>
       \/ FileRequestClose(TRUE)
       \/ ReloadFileInEditor(alert.to) /\ alert' = NoAlert
    /\ UNCHANGED <<disk, monitor>>

(* "Cancel", "Don't save", or "Save": the tab goes even if saving failed.  *)
AnswerClose ==
    /\ alert.what = "close"
    /\ alert' = NoAlert
    /\ \/ UNCHANGED <<disk, editor, ghosts>>
       \/ RemoveTab /\ UNCHANGED <<disk, failed>>
       \/ /\ \E outcome \in Outcomes :
                 /\ Written(fFileRef, outcome)
                 /\ failed' = (outcome # "done")
          /\ RemoveTab
    /\ UNCHANGED monitor

-----------------------------------------------------------------------------
Others ==
    \E path \in Paths :
        \/ OtherWrites(path) \/ OtherRemoves(path) \/ OtherCreates(path)
        \/ \E to \in Paths : OtherMoves(path, to)

Next ==
    \/ Others
    \/ Edit \/ Undo \/ Save \/ FileClose
    \/ \E path \in Paths : SaveAs(path) \/ FileOpen(path) \/ PatchApplied(path)
    \/ NodeMonitor
    \/ \E check \in checks : CheckEntryRemoved(check)
    \/ AnswerStat \/ AnswerRemoved \/ AnswerMoved \/ AnswerClose

Spec == Init /\ [][Next]_vars

-----------------------------------------------------------------------------
DiskTypes ==
    /\ nodes \in 1..MaxNodes /\ contents \in 1..MaxContents
    /\ entry \in [Paths -> 0..nodes]
    /\ content \in [1..MaxNodes -> 0..contents]

EditorTypes ==
    /\ fFileRef \in Paths \cup {NoFile} /\ fNodeRef \in 0..nodes
    /\ text \in 0..contents /\ saved \in 0..contents
    /\ watched \subseteq 1..nodes

Events ==
    [what : {"stat"}, node : 1..nodes]
        \cup [what : {"removed"}, node : 1..nodes, path : Paths]
        \cup [what : {"moved"}, from : Paths, to : Paths]
        \cup [what : {"patched"}, path : Paths]

Alerts ==
    {NoAlert} \cup [what : {"stat", "removed", "close"}] \cup [what : {"moved"}, to : Paths]

MonitorTypes ==
    /\ events \in Seq(Events)
    /\ checks \subseteq [node : 1..nodes, path : Paths]
    /\ alert \in Alerts

GhostTypes ==
    /\ ignored \in BOOLEAN /\ failed \in BOOLEAN
    /\ unmonitored \in BOOLEAN /\ unseen \in BOOLEAN

(* Everything is well formed.                                              *)
TypeOK == DiskTypes /\ EditorTypes /\ MonitorTypes /\ GhostTypes

(* The window watches no node but its editor's, and none for a closed tab: *)
(* StopMonitoring stops fNodeRef, whatever it was when monitoring started. *)
WatchesOnlyItsFile == watched \subseteq IF Open THEN {fNodeRef} ELSE {}

(* Quiet: nothing more is to be heard of what other programs did, the user *)
(* did not choose to go on with what the buffer holds, and no load that    *)
(* failed has left the file unmonitored.                                   *)
Quiet ==
    /\ Open /\ alert = NoAlert /\ Node # 0
    /\ ~Expected /\ ~unseen /\ ~ignored /\ ~unmonitored

(* When all is quiet, the next change of the file will be seen: every      *)
(* handler that stops the monitoring starts it again, on the right node,   *)
(* but for a load that fails: until the next save, reload or load, other   *)
(* programs' changes are not seen then, and nothing is said of them.       *)
NextChangeIsSeen == Quiet => watched = {Node}

(* When all is quiet and the last save or load went well, the save point   *)
(* is what is on the disk: a buffer shown as unmodified has the file's     *)
(* content.  A failed one is not looked at, and excepted here.             *)
SavePointIsOnDisk == Quiet /\ ~failed => content[Node] = saved

(* Unsaved text is lost only by an edit, an undo, an answer the user gave, *)
(* or a failed save or load: never by a reload nobody asked the user about.*)
EditsSurvive ==
    [][ Open /\ IsModified /\ (text' # text \/ fFileRef' = NoFile)
        => \/ contents' # contents /\ text' = contents'
           \/ text' = saved /\ saved' = saved
           \/ alert # NoAlert
           \/ failed' ]_vars

=============================================================================

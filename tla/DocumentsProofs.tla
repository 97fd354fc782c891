-------------------------- MODULE DocumentsProofs --------------------------
(* Proofs about Documents for any number of paths, files, contents and     *)
(* messages: its typing, what the window watches, that no edit is lost     *)
(* (IInv); and that the editor hears of what other programs do to its file *)
(* and that what it holds for saved is on the disk (MInv).                 *)
EXTENDS Documents, TLAPS, SequenceTheorems

(* No alert is shown for a closed tab: its answer would start monitoring.  *)
AlertsAreOfAFile == alert # NoAlert => Open

IInv == TypeOK /\ WatchesOnlyItsFile /\ AlertsAreOfAFile

-----------------------------------------------------------------------------
(* Monitoring started again watches nothing but the new fNodeRef.          *)
LEMMA RestartedFact ==
    ASSUME TypeOK, WatchesOnlyItsFile,
           NEW path \in Paths, NEW m \in Nat, nodes <= m,
           NEW entries \in [Paths -> 0..m],
           Restarted(path, entries)
    PROVE  /\ fNodeRef' \in 0..m
           /\ watched' \subseteq 1..m
           /\ watched' \subseteq {fNodeRef'}
  <1>1. watched \subseteq {fNodeRef}
    BY DEF WatchesOnlyItsFile
  <1>2. watched' = {entries[path]} \ {0}
    BY <1>1 DEF Restarted
  <1>3. entries[path] \in 0..m
    OBVIOUS
  <1>4. fNodeRef' = IF entries[path] = 0 THEN fNodeRef ELSE entries[path]
    BY DEF Restarted, Monitored
  <1>5. fNodeRef \in 0..m
    BY DocumentsAssumption DEF TypeOK, EditorTypes, DiskTypes
  <1>6. QED
    BY <1>2, <1>3, <1>4, <1>5

(* A write, done or not, keeps the disk well formed; a file it makes is a  *)
(* new node.                                                               *)
LEMMA WrittenFact ==
    ASSUME TypeOK, NEW path \in Paths, NEW outcome, Written(path, outcome)
    PROVE  DiskTypes' /\ nodes <= nodes' /\ contents' = contents
  <1> USE DocumentsAssumption
  <1>1. CASE outcome = "refused"
    BY <1>1 DEF Written, TypeOK, DiskTypes, disk
  <1>2. CASE outcome # "refused"
    <2> DEFINE node == IF entry[path] = 0 THEN nodes + 1 ELSE entry[path]
    <2>1. /\ node <= MaxNodes
          /\ nodes' = IF entry[path] = 0 THEN node ELSE nodes
          /\ entry' = [entry EXCEPT ![path] = node]
          /\ content' = [content EXCEPT ![node] = IF outcome = "done" THEN text ELSE Short]
          /\ contents' = contents
      BY <1>2 DEF Written
    <2>2. entry[path] \in 0..nodes /\ nodes \in 1..MaxNodes
      BY DEF TypeOK, DiskTypes
    <2>3. /\ nodes' \in 1..MaxNodes /\ nodes <= nodes'
          /\ node \in 1..nodes'
      BY <2>1, <2>2
    <2> HIDE DEF node
    <2>4. entry' \in [Paths -> 0..nodes']
      <3>1. entry \in [Paths -> 0..nodes']
        BY <2>2, <2>3 DEF TypeOK, DiskTypes
      <3>2. QED
        BY <3>1, <2>1, <2>3
    <2>5. content' \in [1..MaxNodes -> 0..contents]
      <3>1. /\ text \in 0..contents /\ Short \in 0..contents
            /\ content \in [1..MaxNodes -> 0..contents]
        BY DEF TypeOK, DiskTypes, EditorTypes, Short
      <3>2. QED
        BY <3>1, <2>1
    <2>6. QED
      BY <2>1, <2>3, <2>4, <2>5 DEF TypeOK, DiskTypes
  <1>3. QED
    BY <1>1, <1>2

(* Files only get more, so what is known of a node stays well formed.      *)
LEMMA MonitorKept ==
    ASSUME MonitorTypes, DiskTypes, DiskTypes', nodes <= nodes'
    PROVE  /\ Events \subseteq Events'
           /\ events \in Seq(Events')
           /\ [node : 1..nodes, path : Paths] \subseteq [node : 1..nodes', path : Paths]
  <1>1. 1..nodes \subseteq 1..nodes'
    BY DocumentsAssumption DEF DiskTypes
  <1>2. Events \subseteq Events'
    BY <1>1 DEF Events
  <1>3. events \in Seq(Events')
    BY <1>2 DEF MonitorTypes
  <1>4. QED
    BY <1>1, <1>2, <1>3

(* What the kernel sends is a message.                                     *)
LEMMA NotifyFact ==
    ASSUME MonitorTypes, NEW node, NEW event \in Events, Notify(node, event)
    PROVE  events' \in Seq(Events)
  BY DEF Notify, MonitorTypes

LEMMA ForgottenFact ==
    ASSUME GhostTypes, NEW loaded \in BOOLEAN, Forgotten(loaded)
    PROVE  ignored' \in BOOLEAN /\ unseen' \in BOOLEAN
  BY DEF Forgotten, GhostTypes

(* A load that is done or fails, of a disk that was written to before.     *)
LEMMA LoadedFact ==
    ASSUME TypeOK, WatchesOnlyItsFile, NEW path \in Paths, fFileRef' = path,
           DiskTypes', nodes <= nodes', contents' = contents, failed' \in BOOLEAN,
           Loaded(path, entry', content')
    PROVE  EditorTypes' /\ GhostTypes' /\ WatchesOnlyItsFile' /\ Open'
  <1> USE DocumentsAssumption
  <1>1. /\ nodes' \in 1..MaxNodes /\ entry' \in [Paths -> 0..nodes']
        /\ content' \in [1..MaxNodes -> 0..contents']
    BY DEF DiskTypes
  <1>2. Restarted(path, entry')
    BY DEF Loaded
  <1>3. /\ fNodeRef' \in 0..nodes'
        /\ watched' \subseteq 1..nodes'
        /\ watched' \subseteq {fNodeRef'}
    BY <1>1, <1>2, RestartedFact
  <1>4. text' \in 0..contents' /\ saved' \in 0..contents'
    BY <1>1 DEF Loaded
  <1>5. GhostTypes'
    <2>1. TRUE \in BOOLEAN /\ Forgotten(TRUE) /\ GhostTypes /\ unmonitored' = FALSE
      BY DEF Loaded, TypeOK
    <2>2. QED
      BY <2>1, ForgottenFact DEF GhostTypes
  <1>6. path # NoFile
    OBVIOUS
  <1>7. QED
    BY <1>3, <1>4, <1>5, <1>6 DEF EditorTypes, WatchesOnlyItsFile, Open

LEMMA NotLoadedFact ==
    ASSUME TypeOK, WatchesOnlyItsFile, NEW path \in Paths, fFileRef' = path,
           nodes' \in Nat, nodes <= nodes', contents' = contents,
           NEW node \in 0..nodes', NEW point \in {text, saved}, NEW entries,
           NotLoaded(path, entries, node, point)
    PROVE  EditorTypes' /\ GhostTypes' /\ WatchesOnlyItsFile' /\ Open'
  <1>1. watched' = {}
    BY DEF NotLoaded, WatchesOnlyItsFile
  <1>2. /\ text' \in {text, 0} /\ saved' = point /\ fNodeRef' = node
        /\ failed' = TRUE /\ unmonitored' = TRUE /\ UNCHANGED <<ignored, unseen>>
    BY DEF NotLoaded, Short
  <1>3. text \in 0..contents /\ saved \in 0..contents /\ contents \in Nat /\ GhostTypes
    BY DocumentsAssumption DEF TypeOK, EditorTypes, DiskTypes
  <1>4. text' \in 0..contents' /\ saved' \in 0..contents'
    BY <1>2, <1>3
  <1>5. path # NoFile
    BY DocumentsAssumption
  <1>6. QED
    BY <1>1, <1>2, <1>3, <1>4, <1>5 DEF EditorTypes, GhostTypes, WatchesOnlyItsFile, Open

LEMMA ReloadFact ==
    ASSUME TypeOK, WatchesOnlyItsFile, NEW path \in Paths,
           ReloadFileInEditor(path), UNCHANGED disk
    PROVE  EditorTypes' /\ GhostTypes' /\ WatchesOnlyItsFile' /\ Open'
  <1>1. /\ DiskTypes' /\ nodes' = nodes /\ contents' = contents /\ nodes \in Nat
        /\ entry' = entry /\ content' = content
    BY DocumentsAssumption DEF TypeOK, DiskTypes, disk
  <1>2. fFileRef' = path
    BY DEF ReloadFileInEditor
  <1>3. CASE Loaded(path, entry, content) /\ failed' = FALSE
    <2>0. Loaded(path, entry', content')
      BY <1>1, <1>3 DEF Loaded, Restarted, Monitored
    <2>1. nodes <= nodes'
      BY <1>1
    <2>2. failed' \in BOOLEAN
      BY <1>3, Zenon
    <2>3. QED
      BY <1>1, <1>2, <2>0, <2>1, <2>2, LoadedFact
  <1>4. CASE NotLoaded(path, entry, fNodeRef, saved)
    <2>1. fNodeRef \in 0..nodes' /\ nodes' \in Nat /\ nodes <= nodes' /\ saved \in {text, saved}
      BY <1>1 DEF TypeOK, EditorTypes
    <2>2. QED
      BY <1>1, <1>2, <1>4, <2>1, NotLoadedFact
  <1>5. QED
    BY <1>3, <1>4 DEF ReloadFileInEditor

LEMMA FileSaveFact ==
    ASSUME TypeOK, WatchesOnlyItsFile, Open, NEW outcome, FileSave(outcome)
    PROVE  /\ DiskTypes' /\ nodes <= nodes'
           /\ EditorTypes' /\ GhostTypes' /\ WatchesOnlyItsFile' /\ Open'
  <1> USE DocumentsAssumption
  <1>1. fFileRef \in Paths /\ fFileRef' = fFileRef /\ text' = text
    BY DEF TypeOK, EditorTypes, Open, FileSave
  <1>2. Written(fFileRef, outcome) /\ Restarted(fFileRef, entry')
    BY DEF FileSave
  <1>3. DiskTypes' /\ nodes <= nodes' /\ contents' = contents
    BY <1>1, <1>2, WrittenFact
  <1>4. entry' \in [Paths -> 0..nodes'] /\ nodes' \in Nat
    BY <1>3 DEF DiskTypes
  <1>5. /\ fNodeRef' \in 0..nodes'
        /\ watched' \subseteq 1..nodes'
        /\ watched' \subseteq {fNodeRef'}
    BY <1>1, <1>2, <1>3, <1>4, RestartedFact
  <1>6. text' \in 0..contents' /\ saved' \in 0..contents'
    BY <1>1, <1>3 DEF FileSave, TypeOK, EditorTypes
  <1>7. GhostTypes'
    <2>1. (outcome = "done") \in BOOLEAN /\ Forgotten(outcome = "done") /\ GhostTypes
      BY DEF FileSave, TypeOK
    <2>2. ignored' \in BOOLEAN /\ unseen' \in BOOLEAN
      BY <2>1, ForgottenFact
    <2>3. failed' \in BOOLEAN /\ unmonitored' \in BOOLEAN
      BY DEF FileSave
    <2>4. QED
      BY <2>2, <2>3 DEF GhostTypes
  <1>8. QED
    BY <1>1, <1>3, <1>5, <1>6, <1>7 DEF EditorTypes, WatchesOnlyItsFile, Open

(* Whatever becomes of the disk, a closed tab watches nothing.             *)
LEMMA RemoveTabFact ==
    ASSUME TypeOK, WatchesOnlyItsFile, DiskTypes', RemoveTab, failed' \in BOOLEAN
    PROVE  EditorTypes' /\ GhostTypes' /\ WatchesOnlyItsFile'
  <1>1. /\ fFileRef' = NoFile /\ fNodeRef' = 0 /\ text' = 0 /\ saved' = 0
        /\ ignored' = FALSE /\ unmonitored' = FALSE /\ unseen' = FALSE
    BY DEF RemoveTab, Short
  <1>2. watched' = {}
    BY DEF RemoveTab, WatchesOnlyItsFile
  <1>3. nodes' \in Nat /\ contents' \in Nat
    BY DEF DiskTypes
  <1>4. EditorTypes'
    BY <1>1, <1>2, <1>3 DEF EditorTypes
  <1>5. QED
    BY <1>1, <1>2, <1>4 DEF GhostTypes, WatchesOnlyItsFile, Open

-----------------------------------------------------------------------------
(* One lemma for the actions of each kind.                                 *)

LEMMA InitIInv == Init => IInv
  <1> SUFFICES ASSUME Init
               PROVE  IInv
    OBVIOUS
  <1> USE DocumentsAssumption
  <1>1. DiskTypes
    BY DEF Init, DiskTypes
  <1>2. EditorTypes /\ WatchesOnlyItsFile /\ Open
    BY DEF Init, EditorTypes, WatchesOnlyItsFile, Open
  <1>3. MonitorTypes
    <2>1. events = <<>> /\ checks = {} /\ alert = NoAlert
      BY DEF Init
    <2>2. <<>> \in Seq(Events)
      OBVIOUS
    <2>3. NoAlert \in Alerts
      BY DEF Alerts
    <2>4. QED
      BY <2>1, <2>2, <2>3 DEF MonitorTypes
  <1>4. GhostTypes
    BY DEF Init, GhostTypes
  <1>5. QED
    BY <1>1, <1>2, <1>3, <1>4 DEF IInv, TypeOK, AlertsAreOfAFile

(* What other programs do to the disk changes nothing of the editor's, and *)
(* what they make known are messages.                                      *)
LEMMA OthersIInv == IInv /\ Others => IInv'
  <1> SUFFICES ASSUME IInv, NEW path \in Paths,
                      \/ OtherWrites(path) \/ OtherRemoves(path) \/ OtherCreates(path)
                      \/ \E to \in Paths : OtherMoves(path, to)
               PROVE  IInv'
    BY DEF Others
  <1> USE DocumentsAssumption
  <1>0. /\ TypeOK /\ DiskTypes /\ EditorTypes /\ MonitorTypes /\ GhostTypes
        /\ nodes \in 1..MaxNodes /\ contents \in 1..MaxContents
        /\ entry \in [Paths -> 0..nodes] /\ entry[path] \in 0..nodes
        /\ content \in [1..MaxNodes -> 0..contents]
    BY DEF IInv, TypeOK, DiskTypes
  <1>1. /\ DiskTypes' /\ nodes <= nodes' /\ contents <= contents'
        /\ events' \in Seq(Events')
        /\ GhostTypes'
        /\ UNCHANGED <<editor, checks, alert>>
    <2>1. CASE OtherWrites(path)
      <3>1. nodes' = nodes /\ UNCHANGED <<entry, editor, checks, alert, ghosts>>
        BY <2>1 DEF OtherWrites
      <3>2. contents' \in 1..MaxContents /\ contents <= contents'
        BY <1>0, <2>1 DEF OtherWrites, Fresh, MayChange
      <3>3. content' \in [1..MaxNodes -> 0..contents']
        BY <1>0, <2>1, <3>2 DEF OtherWrites, Fresh
      <3>4. [what |-> "stat", node |-> entry[path]] \in Events
        BY <1>0, <2>1 DEF OtherWrites, Events
      <3>5. events' \in Seq(Events)
        BY <1>0, <2>1, <3>4, NotifyFact DEF OtherWrites
      <3>6. Events' = Events
        BY <3>1 DEF Events
      <3>7. QED
        BY <1>0, <3>1, <3>2, <3>3, <3>5, <3>6 DEF DiskTypes, GhostTypes, ghosts
    <2>2. CASE OtherRemoves(path)
      <3>1. /\ nodes' = nodes /\ contents' = contents /\ content' = content
            /\ UNCHANGED <<editor, checks, alert, ghosts>>
            /\ entry' = [entry EXCEPT ![path] = 0]
        BY <2>2 DEF OtherRemoves
      <3>2. DiskTypes'
        BY <1>0, <3>1 DEF DiskTypes
      <3>3. [what |-> "removed", node |-> entry[path], path |-> path] \in Events
        BY <1>0, <2>2 DEF OtherRemoves, Events
      <3>4. events' \in Seq(Events)
        BY <1>0, <2>2, <3>3, NotifyFact DEF OtherRemoves
      <3>5. Events' = Events
        BY <3>1 DEF Events
      <3>6. QED
        BY <1>0, <3>1, <3>2, <3>4, <3>5 DEF GhostTypes, ghosts
    <2>3. CASE OtherCreates(path)
      <3>1. /\ nodes' = nodes + 1 /\ contents' = contents + 1
            /\ nodes' \in 1..MaxNodes /\ contents' \in 1..MaxContents
            /\ entry' = [entry EXCEPT ![path] = nodes + 1]
            /\ content' = [content EXCEPT ![nodes + 1] = contents + 1]
            /\ UNCHANGED <<editor, monitor, alert>>
        BY <1>0, <2>3 DEF OtherCreates, Fresh, MayChange
      <3>2. entry' \in [Paths -> 0..nodes'] /\ content' \in [1..MaxNodes -> 0..contents']
        BY <1>0, <3>1
      <3>3. DiskTypes'
        BY <3>1, <3>2 DEF DiskTypes
      <3>4. events' \in Seq(Events') /\ UNCHANGED checks
        BY <1>0, <3>1, <3>3, MonitorKept DEF monitor
      <3>5. GhostTypes'
        BY <1>0, <2>3 DEF OtherCreates, GhostTypes
      <3>6. QED
        BY <1>0, <3>1, <3>3, <3>4, <3>5
    <2>4. ASSUME NEW to \in Paths, OtherMoves(path, to)
          PROVE  /\ DiskTypes' /\ nodes <= nodes' /\ contents <= contents'
                 /\ events' \in Seq(Events')
                 /\ GhostTypes'
                 /\ UNCHANGED <<editor, checks, alert>>
      <3>1. /\ nodes' = nodes /\ contents' = contents /\ content' = content
            /\ UNCHANGED <<editor, checks, alert>>
            /\ entry' = [entry EXCEPT ![path] = 0, ![to] = entry[path]]
        BY <2>4 DEF OtherMoves
      <3>2. DiskTypes'
        BY <1>0, <3>1 DEF DiskTypes
      <3>3. [what |-> "moved", from |-> path, to |-> to] \in Events
        BY DEF Events
      <3>4. events' \in Seq(Events)
        BY <1>0, <2>4, <3>3, NotifyFact DEF OtherMoves
      <3>5. Events' = Events
        BY <3>1 DEF Events
      <3>6. GhostTypes'
        BY <1>0, <2>4 DEF OtherMoves, GhostTypes
      <3>7. QED
        BY <1>0, <3>1, <3>2, <3>4, <3>5, <3>6
    <2>5. QED
      BY <2>1, <2>2, <2>3, <2>4
  <1>2. EditorTypes' /\ WatchesOnlyItsFile' /\ AlertsAreOfAFile'
    <2>1. nodes' \in Nat /\ contents' \in Nat
      BY <1>1 DEF DiskTypes
    <2>2. 0..nodes \subseteq 0..nodes' /\ 1..nodes \subseteq 1..nodes'
          /\ 0..contents \subseteq 0..contents'
      BY <1>0, <1>1, <2>1
    <2>3. EditorTypes'
      BY <1>0, <1>1, <2>2 DEF EditorTypes, editor
    <2>4. QED
      BY <1>1, <2>3 DEF IInv, WatchesOnlyItsFile, AlertsAreOfAFile, Open, editor
  <1>3. MonitorTypes'
    <2>1. [node : 1..nodes, path : Paths] \subseteq [node : 1..nodes', path : Paths]
      BY <1>0, <1>1, MonitorKept
    <2>2. Alerts' = Alerts
      BY DEF Alerts, NoAlert
    <2>3. QED
      BY <1>0, <1>1, <2>1, <2>2 DEF MonitorTypes
  <1>4. QED
    BY <1>1, <1>2, <1>3 DEF IInv, TypeOK

(* The disk as it was is well formed still.                                *)
LEMMA SameDisk ==
    ASSUME TypeOK, UNCHANGED disk
    PROVE  /\ DiskTypes' /\ nodes <= nodes' /\ nodes' = nodes /\ contents' = contents
           /\ Events' = Events
  BY DocumentsAssumption DEF TypeOK, DiskTypes, disk, Events

(* What is left to show of an action that takes no message of the monitor. *)
LEMMA SameMonitor ==
    ASSUME IInv, UNCHANGED monitor,
           DiskTypes', nodes <= nodes', EditorTypes', GhostTypes', WatchesOnlyItsFile',
           alert' = NoAlert \/ (alert' \in Alerts /\ Open')
    PROVE  IInv'
  <1>1. events \in Seq(Events') /\ checks \subseteq [node : 1..nodes', path : Paths]
    <2>1. MonitorTypes /\ DiskTypes
      BY DEF IInv, TypeOK
    <2>2. QED
      BY <2>1, MonitorKept DEF MonitorTypes
  <1>2. alert' \in Alerts'
    BY DEF Alerts, NoAlert
  <1>3. MonitorTypes'
    BY <1>1, <1>2 DEF MonitorTypes, monitor
  <1>4. AlertsAreOfAFile'
    BY DEF AlertsAreOfAFile, NoAlert
  <1>5. QED
    BY <1>3, <1>4 DEF IInv, TypeOK

LEMMA UserIInv ==
    IInv /\ (Edit \/ Undo \/ Save \/ FileClose \/ \E path \in Paths : SaveAs(path) \/ FileOpen(path))
        => IInv'
  <1> SUFFICES ASSUME IInv,
                      Edit \/ Undo \/ Save \/ FileClose
                      \/ \E path \in Paths : SaveAs(path) \/ FileOpen(path)
               PROVE  IInv'
    OBVIOUS
  <1> USE DocumentsAssumption
  <1>0. /\ TypeOK /\ DiskTypes /\ EditorTypes /\ GhostTypes /\ WatchesOnlyItsFile
        /\ nodes \in 1..MaxNodes /\ contents \in 1..MaxContents
        /\ entry \in [Paths -> 0..nodes]
        /\ content \in [1..MaxNodes -> 0..contents]
    BY DEF IInv, TypeOK, DiskTypes
  <1>1. CASE Edit
    <2>1. /\ UNCHANGED <<entry, content, nodes, fFileRef, fNodeRef, saved, watched, monitor, alert, ghosts>>
          /\ contents' = contents + 1 /\ text' = contents + 1
          /\ contents' \in 1..MaxContents /\ alert' = NoAlert
      BY <1>0, <1>1 DEF Edit, User, Fresh, MayChange
    <2>2. DiskTypes' /\ nodes <= nodes'
      BY <1>0, <2>1 DEF DiskTypes
    <2>3. EditorTypes'
      BY <1>0, <2>1 DEF EditorTypes
    <2>4. GhostTypes' /\ WatchesOnlyItsFile'
      BY <1>0, <2>1 DEF GhostTypes, ghosts, WatchesOnlyItsFile, Open
    <2>5. QED
      BY <2>1, <2>2, <2>3, <2>4, SameMonitor
  <1>2. CASE Undo
    <2>1. /\ UNCHANGED <<disk, fFileRef, fNodeRef, saved, watched, monitor, alert, ghosts>>
          /\ text' = saved /\ alert' = NoAlert
      BY <1>2 DEF Undo, User
    <2>2. DiskTypes' /\ nodes <= nodes' /\ nodes' = nodes /\ contents' = contents
      BY <1>0, <2>1, SameDisk
    <2>3. EditorTypes' /\ GhostTypes' /\ WatchesOnlyItsFile'
      BY <1>0, <2>1, <2>2 DEF EditorTypes, GhostTypes, ghosts, WatchesOnlyItsFile, Open
    <2>4. QED
      BY <2>1, <2>2, <2>3, SameMonitor
  <1>3. CASE Save
    <2>1. PICK outcome \in Outcomes : FileSave(outcome)
      BY <1>3 DEF Save
    <2>2. Open /\ alert' = NoAlert /\ UNCHANGED monitor
      BY <1>3 DEF Save, User
    <2>3. QED
      BY <1>0, <2>1, <2>2, FileSaveFact, SameMonitor
  <1>4. CASE FileClose
    <2>1. FileRequestClose(FALSE) /\ UNCHANGED <<disk, monitor>> /\ Open
      BY <1>4 DEF FileClose, User
    <2>2. DiskTypes' /\ nodes <= nodes' /\ nodes' = nodes /\ contents' = contents
      BY <1>0, <2>1, SameDisk
    <2>3. CASE alert' = Asks("close") /\ ignored' = ignored
               /\ UNCHANGED <<editor, failed, unmonitored, unseen>>
      <3>1. EditorTypes' /\ GhostTypes' /\ WatchesOnlyItsFile' /\ Open'
        BY <1>0, <2>1, <2>2, <2>3 DEF EditorTypes, GhostTypes, editor, WatchesOnlyItsFile, Open
      <3>2. alert' \in Alerts
        BY <2>3 DEF Asks, Alerts
      <3>3. QED
        BY <2>1, <2>2, <3>1, <3>2, SameMonitor
    <2>4. CASE alert' = NoAlert /\ RemoveTab /\ UNCHANGED failed
      <3>1. failed' \in BOOLEAN
        BY <1>0, <2>4 DEF GhostTypes
      <3>2. EditorTypes' /\ GhostTypes' /\ WatchesOnlyItsFile'
        BY <1>0, <2>2, <2>4, <3>1, RemoveTabFact
      <3>3. QED
        BY <2>1, <2>2, <2>4, <3>2, SameMonitor
    <2>5. QED
      <3>1. (ignored \/ FALSE) = ignored
        BY <1>0 DEF GhostTypes
      <3>2. QED
        BY <2>1, <2>3, <2>4, <3>1 DEF FileRequestClose
  <1>5. ASSUME NEW path \in Paths, SaveAs(path)
        PROVE  IInv'
    <2> DEFINE node == Monitored(path, entry')
    <2>1. PICK outcome \in Outcomes :
              /\ Written(path, outcome)
              /\ \/ Loaded(path, entry', content') /\ failed' = (outcome # "done")
                 \/ NotLoaded(path, entry', node, IF outcome = "done" THEN text ELSE saved)
      BY <1>5 DEF SaveAs
    <2>2. DiskTypes' /\ nodes <= nodes' /\ contents' = contents
      BY <1>0, <2>1, WrittenFact
    <2>3. fFileRef' = path /\ alert' = NoAlert /\ UNCHANGED monitor
      BY <1>5 DEF SaveAs, User
    <2>4. nodes' \in Nat /\ node \in 0..nodes'
      BY <1>0, <2>2 DEF Monitored, DiskTypes, EditorTypes
    <2> HIDE DEF node
    <2>5. EditorTypes' /\ GhostTypes' /\ WatchesOnlyItsFile' /\ Open'
      <3>1. CASE Loaded(path, entry', content') /\ failed' = (outcome # "done")
        BY <1>0, <2>2, <2>3, <3>1, LoadedFact
      <3>2. CASE NotLoaded(path, entry', node, IF outcome = "done" THEN text ELSE saved)
        <4>1. (IF outcome = "done" THEN text ELSE saved) \in {text, saved}
          OBVIOUS
        <4>2. QED
          BY <1>0, <2>2, <2>3, <2>4, <3>2, <4>1, NotLoadedFact
      <3>3. QED
        BY <2>1, <3>1, <3>2
    <2>6. QED
      BY <2>2, <2>3, <2>5, SameMonitor
  <1>6. ASSUME NEW path \in Paths, FileOpen(path)
        PROVE  IInv'
    <2>1. ReloadFileInEditor(path) /\ UNCHANGED <<disk, monitor>> /\ alert' = NoAlert
      BY <1>6 DEF FileOpen
    <2>2. EditorTypes' /\ GhostTypes' /\ WatchesOnlyItsFile'
      BY <1>0, <2>1, ReloadFact
    <2>3. QED
      BY <1>0, <2>1, <2>2, SameDisk, SameMonitor
  <1>7. QED
    BY <1>1, <1>2, <1>3, <1>4, <1>5, <1>6

LEMMA PatchAppliedIInv ==
    ASSUME IInv, NEW path \in Paths, PatchApplied(path)
    PROVE  IInv'
  <1> USE DocumentsAssumption
  <1>0. /\ TypeOK /\ DiskTypes /\ EditorTypes /\ MonitorTypes /\ GhostTypes /\ WatchesOnlyItsFile
        /\ nodes \in 1..MaxNodes /\ contents \in 1..MaxContents
        /\ entry \in [Paths -> 0..nodes]
        /\ content \in [1..MaxNodes -> 0..contents]
        /\ events \in Seq(Events)
    BY DEF IInv, TypeOK, DiskTypes, MonitorTypes
  <1>1. /\ UNCHANGED <<entry, nodes, editor, checks, alert, ghosts>>
        /\ contents' = contents + 1 /\ contents' \in 1..MaxContents
        /\ content' = [content EXCEPT ![entry[path]] = contents + 1]
        /\ entry[path] \in 1..nodes
    BY <1>0 DEF PatchApplied, Fresh, MayChange
  <1>2. DiskTypes'
    BY <1>0, <1>1 DEF DiskTypes
  <1>3. EditorTypes'
    BY <1>0, <1>1 DEF EditorTypes, editor
  <1>4. GhostTypes' /\ WatchesOnlyItsFile' /\ AlertsAreOfAFile'
    BY <1>0, <1>1
    DEF IInv, GhostTypes, ghosts, WatchesOnlyItsFile, AlertsAreOfAFile, Open, editor
  <1>5. MonitorTypes'
    <2> DEFINE stat == IF entry[path] \in watched
                       THEN <<[what |-> "stat", node |-> entry[path]]>> ELSE <<>>
               patched == [what |-> "patched", path |-> path]
    <2>1. patched \in Events
      BY DEF Events
    <2>2. [what |-> "stat", node |-> entry[path]] \in Events
      BY <1>1 DEF Events
    <2>3. stat \in Seq(Events)
      BY <2>2
    <2>4. events' = events \o stat \o <<patched>>
      BY DEF PatchApplied
    <2> HIDE DEF stat, patched
    <2>5. events' \in Seq(Events)
      BY <1>0, <2>1, <2>3, <2>4
    <2>6. Events' = Events /\ Alerts' = Alerts
      BY <1>1 DEF Events, Alerts, NoAlert
    <2>7. QED
      BY <1>0, <1>1, <2>5, <2>6 DEF MonitorTypes
  <1>6. QED
    BY <1>2, <1>3, <1>4, <1>5 DEF IInv, TypeOK

(* What is left to show of an action that leaves the disk and only removes *)
(* events, adds a check of a known node, or takes one away.                *)
LEMMA SameDiskIInv ==
    ASSUME IInv, UNCHANGED disk,
           events' \in Seq(Events), checks' \subseteq [node : 1..nodes, path : Paths],
           EditorTypes', GhostTypes', WatchesOnlyItsFile',
           alert' = NoAlert \/ (alert' \in Alerts /\ Open')
    PROVE  IInv'
  <1>1. DiskTypes' /\ nodes' = nodes /\ Events' = Events
    BY SameDisk DEF IInv
  <1>2. alert' \in Alerts'
    BY DEF Alerts, NoAlert
  <1>3. MonitorTypes'
    BY <1>1, <1>2 DEF MonitorTypes
  <1>4. AlertsAreOfAFile'
    BY DEF AlertsAreOfAFile, NoAlert
  <1>5. QED
    BY <1>1, <1>3, <1>4 DEF IInv, TypeOK

LEMMA NodeMonitorIInv == IInv /\ NodeMonitor => IInv'
  <1> SUFFICES ASSUME IInv, NodeMonitor
               PROVE  IInv'
    OBVIOUS
  <1> USE DocumentsAssumption
  <1> DEFINE event == Head(events)
  <1>0. /\ TypeOK /\ EditorTypes /\ MonitorTypes /\ GhostTypes /\ WatchesOnlyItsFile
        /\ events \in Seq(Events) /\ checks \subseteq [node : 1..nodes, path : Paths]
        /\ alert = NoAlert
    BY DEF IInv, TypeOK, MonitorTypes, NodeMonitor
  <1>1. event \in Events /\ events' \in Seq(Events) /\ UNCHANGED disk
    BY <1>0 DEF NodeMonitor
  <1>2. nodes' = nodes /\ contents' = contents
    BY <1>1 DEF disk
  <1>3. StatChanged(event) \/ EntryRemoved(event) \/ EntryMoved(event) \/ PatchNotified(event)
    BY DEF NodeMonitor
  <1> HIDE DEF event
  <1>4. ASSUME UNCHANGED editor
        PROVE  EditorTypes' /\ WatchesOnlyItsFile' /\ (Open' <=> Open)
    BY <1>0, <1>2, <1>4 DEF EditorTypes, editor, WatchesOnlyItsFile, Open
  <1>5. CASE StatChanged(event)
    <2>1. /\ UNCHANGED <<fFileRef, fNodeRef, text, saved, checks, ghosts>>
          /\ watched' \subseteq watched
          /\ UNCHANGED alert \/ (alert' = Asks("stat") /\ Open)
      BY <1>5 DEF StatChanged, ExternalStat, EditorBy
    <2>2. EditorTypes' /\ GhostTypes' /\ WatchesOnlyItsFile' /\ (Open' <=> Open)
      BY <1>0, <1>2, <2>1 DEF EditorTypes, GhostTypes, ghosts, WatchesOnlyItsFile, Open
    <2>3. alert' = NoAlert \/ (alert' \in Alerts /\ Open')
      BY <1>0, <2>1, <2>2 DEF Asks, Alerts
    <2>4. QED
      BY <1>0, <1>1, <2>1, <2>2, <2>3, SameDiskIInv
  <1>6. CASE EntryRemoved(event)
    <2>1. /\ UNCHANGED <<editor, alert, ghosts>> /\ event.what = "removed"
          /\ checks' = checks \cup {[node |-> event.node, path |-> event.path]}
      BY <1>6 DEF EntryRemoved
    <2>2. event \in [what : {"removed"}, node : 1..nodes, path : Paths]
      BY <1>1, <2>1 DEF Events
    <2>3. checks' \subseteq [node : 1..nodes, path : Paths]
      BY <1>0, <2>1, <2>2
    <2>4. GhostTypes'
      BY <1>0, <2>1 DEF GhostTypes, ghosts
    <2>5. QED
      BY <1>0, <1>1, <1>4, <2>1, <2>3, <2>4, SameDiskIInv
  <1>7. CASE EntryMoved(event)
    <2>1. /\ UNCHANGED <<editor, checks, ghosts>> /\ event.what = "moved"
          /\ alert' = IF event.from = fFileRef THEN [what |-> "moved", to |-> event.to] ELSE alert
      BY <1>7 DEF EntryMoved
    <2>2. event \in [what : {"moved"}, from : Paths, to : Paths]
      BY <1>1, <2>1 DEF Events
    <2>3. GhostTypes'
      BY <1>0, <2>1 DEF GhostTypes, ghosts
    <2>4. alert' = NoAlert \/ (alert' \in Alerts /\ Open')
      <3>1. CASE event.from = fFileRef
        <4>1. Open
          BY <2>2, <3>1 DEF Open
        <4>2. alert' \in Alerts
          BY <2>1, <2>2, <3>1 DEF Alerts
        <4>3. QED
          BY <1>4, <2>1, <4>1, <4>2
      <3>2. CASE event.from # fFileRef
        BY <1>0, <2>1, <3>2
      <3>3. QED
        BY <3>1, <3>2
    <2>5. QED
      BY <1>0, <1>1, <1>4, <2>1, <2>3, <2>4, SameDiskIInv
  <1>8. CASE PatchNotified(event)
    <2>1. UNCHANGED <<checks, alert>> /\ event.what = "patched"
      BY <1>8 DEF PatchNotified
    <2>2. event.path \in Paths
      BY <1>1, <2>1 DEF Events
    <2>3. CASE ReloadFileInEditor(event.path)
      <3>1. EditorTypes' /\ GhostTypes' /\ WatchesOnlyItsFile'
        BY <1>0, <1>1, <2>2, <2>3, ReloadFact
      <3>2. QED
        BY <1>0, <1>1, <2>1, <3>1, SameDiskIInv
    <2>4. CASE UNCHANGED <<editor, ghosts>>
      <3>1. GhostTypes'
        BY <1>0, <2>4 DEF GhostTypes, ghosts
      <3>2. QED
        BY <1>0, <1>1, <1>4, <2>1, <2>4, <3>1, SameDiskIInv
    <2>5. QED
      BY <1>8, <2>3, <2>4 DEF PatchNotified
  <1>9. QED
    BY <1>3, <1>5, <1>6, <1>7, <1>8

(* The file that took the place of the removed one is not watched before   *)
(* the user has answered.                                                  *)
LEMMA CheckEntryRemovedIInv ==
    ASSUME IInv, NEW check \in checks, CheckEntryRemoved(check)
    PROVE  IInv'
  <1> USE DocumentsAssumption
  <1>0. /\ TypeOK /\ EditorTypes /\ GhostTypes /\ WatchesOnlyItsFile
        /\ events \in Seq(Events) /\ checks \subseteq [node : 1..nodes, path : Paths]
        /\ entry \in [Paths -> 0..nodes]
        /\ check.path \in Paths
    BY DEF IInv, TypeOK, MonitorTypes, DiskTypes
  <1>1. /\ alert = NoAlert /\ checks' = checks \ {check}
        /\ UNCHANGED <<disk, events, ghosts>>
    BY DEF CheckEntryRemoved
  <1>2. /\ events' \in Seq(Events) /\ checks' \subseteq [node : 1..nodes, path : Paths]
        /\ UNCHANGED disk /\ GhostTypes'
        /\ nodes' = nodes /\ contents' = contents
    BY <1>0, <1>1 DEF GhostTypes, ghosts, disk
  <1>3. CASE Replaced(check)
    <2>1. /\ fFileRef' = check.path /\ fNodeRef' = entry[check.path]
          /\ watched' = {} /\ UNCHANGED <<text, saved>>
          /\ alert' = Asks("stat")
      BY <1>0, <1>3 DEF Replaced, WatchesOnlyItsFile
    <2>2. EditorTypes' /\ WatchesOnlyItsFile' /\ Open'
      BY <1>0, <1>2, <2>1 DEF EditorTypes, WatchesOnlyItsFile, Open
    <2>3. alert' \in Alerts
      BY <2>1 DEF Asks, Alerts
    <2>4. QED
      BY <1>2, <2>2, <2>3, SameDiskIInv
  <1>4. CASE UNCHANGED editor /\ (UNCHANGED alert \/ (alert' = Asks("removed") /\ Open))
    <2>1. EditorTypes' /\ WatchesOnlyItsFile' /\ (Open' <=> Open)
      BY <1>0, <1>2, <1>4 DEF EditorTypes, editor, WatchesOnlyItsFile, Open
    <2>2. alert' = NoAlert \/ (alert' \in Alerts /\ Open')
      BY <1>1, <1>4, <2>1 DEF Asks, Alerts
    <2>3. QED
      BY <1>2, <2>1, <2>2, SameDiskIInv
  <1>5. QED
    BY <1>3, <1>4 DEF CheckEntryRemoved, EditorBy

LEMMA AnswersIInv ==
    IInv /\ (AnswerStat \/ AnswerRemoved \/ AnswerMoved \/ AnswerClose) => IInv'
  <1> SUFFICES ASSUME IInv,
                      AnswerStat \/ AnswerRemoved \/ AnswerMoved \/ AnswerClose
               PROVE  IInv'
    OBVIOUS
  <1> USE DocumentsAssumption
  <1>0. /\ TypeOK /\ DiskTypes /\ EditorTypes /\ GhostTypes /\ WatchesOnlyItsFile
        /\ nodes \in 1..MaxNodes /\ contents \in 1..MaxContents
        /\ entry \in [Paths -> 0..nodes]
        /\ content \in [1..MaxNodes -> 0..contents]
        /\ alert \in Alerts
    BY DEF IInv, TypeOK, DiskTypes, MonitorTypes
  <1>1. Open /\ fFileRef \in Paths
    <2>1. alert.what \in {"stat", "removed", "moved", "close"}
      <3>1. CASE AnswerStat
        BY <3>1 DEF AnswerStat
      <3>2. CASE AnswerRemoved
        BY <3>2 DEF AnswerRemoved
      <3>3. CASE AnswerMoved
        BY <3>3 DEF AnswerMoved
      <3>4. CASE AnswerClose
        BY <3>4 DEF AnswerClose
      <3>5. QED
        BY <3>1, <3>2, <3>3, <3>4
    <2>2. alert # NoAlert
      BY <2>1 DEF NoAlert
    <2>3. QED
      BY <1>0, <2>2 DEF IInv, AlertsAreOfAFile, Open, EditorTypes
  <1>2. ASSUME UNCHANGED disk
        PROVE  DiskTypes' /\ nodes <= nodes' /\ nodes' = nodes /\ contents' = contents
    BY <1>0, <1>2, SameDisk
  <1>3. ASSUME UNCHANGED <<disk, editor>>, ignored' \in BOOLEAN, UNCHANGED <<failed, unmonitored, unseen>>
        PROVE  EditorTypes' /\ GhostTypes' /\ WatchesOnlyItsFile' /\ Open'
    BY <1>0, <1>1, <1>2, <1>3 DEF EditorTypes, editor, GhostTypes, WatchesOnlyItsFile, Open
  <1>4. ASSUME DiskTypes', nodes <= nodes', RemoveTab, failed' \in BOOLEAN,
               UNCHANGED monitor, alert' = NoAlert
        PROVE  IInv'
    BY <1>0, <1>4, RemoveTabFact, SameMonitor
  <1>5. CASE AnswerStat
    <2>1. /\ UNCHANGED <<disk, monitor, fFileRef>> /\ alert' = NoAlert
          /\ Restarted(fFileRef, entry)
      BY <1>5 DEF AnswerStat
    <2>2. DiskTypes' /\ nodes <= nodes' /\ nodes' = nodes /\ contents' = contents
      BY <1>2, <2>1
    <2>3. /\ fNodeRef' \in 0..nodes
          /\ watched' \subseteq 1..nodes
          /\ watched' \subseteq {fNodeRef'}
      BY <1>0, <1>1, <2>1, RestartedFact
    <2>4. /\ text' \in 0..contents /\ saved' \in 0..contents
          /\ GhostTypes'
      <3>0. unmonitored' = FALSE
        BY <1>5 DEF AnswerStat
      <3>1. CASE ignored' = TRUE /\ UNCHANGED <<text, saved, failed, unseen>>
        BY <1>0, <3>0, <3>1 DEF EditorTypes, GhostTypes
      <3>2. CASE /\ Node # 0 /\ text' = content[Node] /\ saved' = text'
                 /\ failed' = FALSE /\ Forgotten(TRUE)
        <4>1. Node \in 1..nodes
          BY <1>0, <1>1, <3>2 DEF Node
        <4>2. text' \in 0..contents /\ saved' \in 0..contents
          BY <1>0, <3>2, <4>1
        <4>3. ignored' \in BOOLEAN /\ unseen' \in BOOLEAN
          BY <1>0, <3>2, ForgottenFact
        <4>4. QED
          BY <3>0, <3>2, <4>2, <4>3 DEF GhostTypes
      <3>3. CASE text' \in {text, Short} /\ failed' = TRUE /\ UNCHANGED <<saved, ignored, unseen>>
        <4>1. text' \in 0..contents /\ saved' \in 0..contents
          BY <1>0, <3>3 DEF EditorTypes, Short
        <4>2. GhostTypes'
          BY <1>0, <3>0, <3>3 DEF GhostTypes
        <4>3. QED
          BY <4>1, <4>2
      <3>4. QED
        BY <1>5, <3>1, <3>2, <3>3 DEF AnswerStat
    <2>5. EditorTypes' /\ WatchesOnlyItsFile'
      BY <1>1, <2>1, <2>2, <2>3, <2>4 DEF EditorTypes, WatchesOnlyItsFile, Open
    <2>6. QED
      BY <2>1, <2>2, <2>4, <2>5, SameMonitor
  <1>6. CASE AnswerRemoved
    <2>1. UNCHANGED monitor /\ alert' = NoAlert
      BY <1>6 DEF AnswerRemoved
    <2>2. ASSUME NEW outcome \in Outcomes, FileSave(outcome)
          PROVE  IInv'
      BY <1>0, <1>1, <2>1, <2>2, FileSaveFact, SameMonitor
    <2>3. CASE ignored' = TRUE /\ UNCHANGED <<disk, editor, failed, unmonitored, unseen>>
      <3>1. ignored' \in BOOLEAN /\ UNCHANGED <<disk, editor>> /\ UNCHANGED <<failed, unmonitored, unseen>>
        BY <2>3
      <3>2. UNCHANGED disk
        BY <2>3
      <3>3. EditorTypes' /\ GhostTypes' /\ WatchesOnlyItsFile'
        BY <1>3, <3>1
      <3>4. DiskTypes' /\ nodes <= nodes'
        BY <1>2, <3>2
      <3>5. QED
        BY <2>1, <3>3, <3>4, SameMonitor
    <2>4. CASE RemoveTab /\ UNCHANGED <<disk, failed>>
      <3>1. failed' \in BOOLEAN /\ UNCHANGED disk
        BY <1>0, <2>4 DEF GhostTypes
      <3>2. QED
        BY <1>2, <1>4, <2>1, <2>4, <3>1
    <2>5. QED
      BY <1>6, <2>2, <2>3, <2>4 DEF AnswerRemoved
  <1>7. CASE AnswerMoved
    <2>1. UNCHANGED disk /\ UNCHANGED monitor /\ alert.what = "moved"
      BY <1>7 DEF AnswerMoved
    <2>2. DiskTypes' /\ nodes <= nodes'
      BY <1>2, <2>1
    <2>3. CASE /\ ignored' = TRUE /\ UNCHANGED <<editor, failed, unmonitored, unseen>>
               /\ alert' = NoAlert \/ alert' = Asks("close")
      <3>1. ignored' \in BOOLEAN /\ UNCHANGED <<disk, editor>> /\ UNCHANGED <<failed, unmonitored, unseen>>
        BY <2>1, <2>3
      <3>2. EditorTypes' /\ GhostTypes' /\ WatchesOnlyItsFile' /\ Open'
        BY <1>3, <3>1
      <3>3. alert' = NoAlert \/ (alert' \in Alerts /\ Open')
        BY <2>3, <3>2 DEF Asks, Alerts
      <3>4. QED
        BY <2>1, <2>2, <3>2, <3>3, SameMonitor
    <2>4. CASE alert' = NoAlert /\ RemoveTab /\ UNCHANGED failed
      <3>1. failed' \in BOOLEAN
        BY <1>0, <2>4 DEF GhostTypes
      <3>2. QED
        BY <1>4, <2>1, <2>2, <2>4, <3>1
    <2>5. CASE ReloadFileInEditor(alert.to) /\ alert' = NoAlert
      <3>1. alert.to \in Paths
        BY <1>0, <2>1 DEF Alerts, NoAlert
      <3>2. EditorTypes' /\ GhostTypes' /\ WatchesOnlyItsFile'
        BY <1>0, <2>1, <2>5, <3>1, ReloadFact
      <3>3. QED
        BY <2>1, <2>2, <2>5, <3>2, SameMonitor
    <2>6. QED
      BY <1>7, <2>3, <2>4, <2>5 DEF AnswerMoved, FileRequestClose
  <1>8. CASE AnswerClose
    <2>1. UNCHANGED monitor /\ alert' = NoAlert
      BY <1>8 DEF AnswerClose
    <2>2. CASE UNCHANGED <<disk, editor, ghosts>>
      <3>1. ignored' \in BOOLEAN /\ UNCHANGED <<disk, editor>> /\ UNCHANGED <<failed, unmonitored, unseen>>
        BY <1>0, <2>2 DEF GhostTypes, ghosts
      <3>2. EditorTypes' /\ GhostTypes' /\ WatchesOnlyItsFile'
        BY <1>3, <3>1
      <3>3. UNCHANGED disk
        BY <2>2
      <3>4. DiskTypes' /\ nodes <= nodes'
        BY <1>2, <3>3
      <3>5. QED
        BY <2>1, <3>2, <3>4, SameMonitor
    <2>3. CASE RemoveTab /\ UNCHANGED <<disk, failed>>
      <3>1. failed' \in BOOLEAN /\ UNCHANGED disk
        BY <1>0, <2>3 DEF GhostTypes
      <3>2. QED
        BY <1>2, <1>4, <2>1, <2>3, <3>1
    <2>4. ASSUME NEW outcome \in Outcomes, Written(fFileRef, outcome),
                 failed' = (outcome # "done"), RemoveTab
          PROVE  IInv'
      <3>1. DiskTypes' /\ nodes <= nodes'
        BY <1>0, <1>1, <2>4, WrittenFact
      <3>2. failed' \in BOOLEAN
        BY <2>4
      <3>3. QED
        BY <1>4, <2>1, <2>4, <3>1, <3>2
    <2>5. QED
      BY <1>8, <2>2, <2>3, <2>4 DEF AnswerClose
  <1>9. QED
    BY <1>5, <1>6, <1>7, <1>8

LEMMA NextIInv == IInv /\ [Next]_vars => IInv'
  <1> SUFFICES ASSUME IInv, [Next]_vars
               PROVE  IInv'
    OBVIOUS
  <1>1. CASE Others
    BY <1>1, OthersIInv
  <1>2. CASE Edit \/ Undo \/ Save \/ FileClose
             \/ \E path \in Paths : SaveAs(path) \/ FileOpen(path)
    BY <1>2, UserIInv
  <1>3. ASSUME NEW path \in Paths, PatchApplied(path)
        PROVE  IInv'
    BY <1>3, PatchAppliedIInv
  <1>4. CASE NodeMonitor
    BY <1>4, NodeMonitorIInv
  <1>5. ASSUME NEW check \in checks, CheckEntryRemoved(check)
        PROVE  IInv'
    BY <1>5, CheckEntryRemovedIInv
  <1>6. CASE AnswerStat \/ AnswerRemoved \/ AnswerMoved \/ AnswerClose
    BY <1>6, AnswersIInv
  <1>7. CASE UNCHANGED vars
    BY <1>7
    DEF vars, disk, editor, monitor, ghosts, IInv, TypeOK, DiskTypes, EditorTypes,
        MonitorTypes, GhostTypes, Events, Alerts, NoAlert, WatchesOnlyItsFile,
        AlertsAreOfAFile, Open
  <1>8. QED
    BY <1>1, <1>2, <1>3, <1>4, <1>5, <1>6, <1>7 DEF Next

-----------------------------------------------------------------------------
(* The disk, the editor and the messages under way stay well formed, with  *)
(* any number of handlers that fail half-way.                              *)
THEOREM TypeCorrect == Spec => []TypeOK
  <1>1. Init => IInv
    BY InitIInv
  <1>2. IInv /\ [Next]_vars => IInv'
    BY NextIInv
  <1>3. IInv => TypeOK
    BY DEF IInv
  <1>4. QED
    BY <1>1, <1>2, <1>3, PTL DEF Spec

(* No handler of GenioWindow.cpp leaves the window watching a node that is *)
(* not its editor's: StopMonitoring always stops what was started.         *)
THEOREM OneNodeWatched == Spec => []WatchesOnlyItsFile
  <1>1. Init => IInv
    BY InitIInv
  <1>2. IInv /\ [Next]_vars => IInv'
    BY NextIInv
  <1>3. IInv => WatchesOnlyItsFile
    BY DEF IInv
  <1>4. QED
    BY <1>1, <1>2, <1>3, PTL DEF Spec

-----------------------------------------------------------------------------
(* What EditsSurvive says of one step.                                     *)
Survives ==
    Open /\ IsModified /\ (text' # text \/ fFileRef' = NoFile)
    => \/ contents' # contents /\ text' = contents'
       \/ text' = saved /\ saved' = saved
       \/ alert # NoAlert
       \/ failed'

(* Saved under another name and read back, the text is what was written.   *)
LEMMA SaveAsSurvives ==
    ASSUME IInv, NEW path \in Paths, SaveAs(path)
    PROVE  Survives
  <1> USE DocumentsAssumption
  <1>1. PICK outcome \in Outcomes :
            /\ Written(path, outcome)
            /\ \/ Loaded(path, entry', content') /\ failed' = (outcome # "done")
               \/ failed' = TRUE
    BY DEF SaveAs, NotLoaded
  <1>2. fFileRef' # NoFile
    BY DEF SaveAs
  <1>3. CASE outcome = "done" /\ Loaded(path, entry', content')
    <2> DEFINE node == IF entry[path] = 0 THEN nodes + 1 ELSE entry[path]
    <2>1. /\ node <= MaxNodes
          /\ entry' = [entry EXCEPT ![path] = node]
          /\ content' = [content EXCEPT ![node] = text]
      BY <1>1, <1>3 DEF Written
    <2>2. /\ entry \in [Paths -> 0..nodes] /\ nodes \in 1..MaxNodes
          /\ content \in [1..MaxNodes -> 0..contents]
      BY DEF IInv, TypeOK, DiskTypes
    <2>3. node \in 1..MaxNodes
      BY <2>1, <2>2
    <2> HIDE DEF node
    <2>4. entry'[path] = node /\ content'[node] = text
      BY <2>1, <2>2, <2>3
    <2>5. text' = text
      BY <1>3, <2>4 DEF Loaded
    <2>6. QED
      BY <1>2, <2>5 DEF Survives
  <1>4. CASE failed' = TRUE
    BY <1>1, <1>4 DEF Survives
  <1>5. QED
    BY <1>1, <1>3, <1>4

LEMMA NextSurvives == IInv /\ [Next]_vars => Survives
  <1> SUFFICES ASSUME IInv, [Next]_vars, Open, IsModified, alert = NoAlert
               PROVE  Survives
    BY DEF Survives
  <1> USE DocumentsAssumption
  <1>1. ASSUME text' = text, fFileRef' = fFileRef
        PROVE  Survives
    BY <1>1 DEF Survives, Open
  <1>2. CASE Others
    BY <1>1, <1>2
    DEF Others, OtherWrites, OtherRemoves, OtherMoves, OtherCreates, editor
  <1>3. CASE Edit
    <2>1. contents' = contents + 1 /\ text' = contents' /\ contents \in Nat
      BY <1>3 DEF Edit, Fresh, IInv, TypeOK, DiskTypes
    <2>2. QED
      BY <2>1 DEF Survives
  <1>4. CASE Undo
    BY <1>4 DEF Undo, Survives
  <1>5. CASE Save
    BY <1>1, <1>5 DEF Save, FileSave
  <1>6. CASE FileClose
    BY <1>1, <1>6 DEF FileClose, FileRequestClose, editor
  <1>7. ASSUME NEW path \in Paths, SaveAs(path)
        PROVE  Survives
    BY <1>7, SaveAsSurvives
  <1>8. ASSUME NEW path \in Paths, FileOpen(path)
        PROVE  Survives
    BY <1>8 DEF FileOpen
  <1>9. ASSUME NEW path \in Paths, PatchApplied(path)
        PROVE  Survives
    BY <1>1, <1>9 DEF PatchApplied, editor
  <1>10. CASE NodeMonitor
    <2> DEFINE event == Head(events)
    <2>1. StatChanged(event) \/ EntryRemoved(event) \/ EntryMoved(event) \/ PatchNotified(event)
      BY <1>10 DEF NodeMonitor
    <2> HIDE DEF event
    <2>2. text' = text /\ fFileRef' = fFileRef
      BY <2>1 DEF StatChanged, EntryRemoved, EntryMoved, PatchNotified, editor
    <2>3. QED
      BY <1>1, <2>2
  <1>11. ASSUME NEW check \in checks, CheckEntryRemoved(check)
         PROVE  Survives
    <2>1. check.path # NoFile
      BY DEF IInv, TypeOK, MonitorTypes
    <2>2. text' = text /\ (fFileRef' = fFileRef \/ fFileRef' = check.path)
      BY <1>11 DEF CheckEntryRemoved, Replaced, editor
    <2>3. QED
      BY <2>1, <2>2 DEF Survives, Open
  <1>12. CASE AnswerStat \/ AnswerRemoved \/ AnswerMoved \/ AnswerClose
    BY <1>12 DEF AnswerStat, AnswerRemoved, AnswerMoved, AnswerClose, NoAlert
  <1>13. CASE UNCHANGED vars
    BY <1>1, <1>13 DEF vars, editor
  <1>14. QED
    BY <1>2, <1>3, <1>4, <1>5, <1>6, <1>7, <1>8, <1>9, <1>10, <1>11, <1>12, <1>13 DEF Next

(* Unsaved text never goes by a reload the user was not asked about: the   *)
(* handlers of patches, of moved and of replaced files leave a modified    *)
(* buffer to the user.                                                     *)
THEOREM NoEditIsLost == Spec => EditsSurvive
  <1>1. Init => IInv
    BY InitIInv
  <1>2. IInv /\ [Next]_vars => IInv'
    BY NextIInv
  <1>3. IInv /\ [Next]_vars => Survives
    BY NextSurvives
  <1>4. QED
    BY <1>1, <1>2, <1>3, PTL DEF Spec, EditsSurvive, Survives

-----------------------------------------------------------------------------
(* What other programs do to the file.                                     *)

(* Quiet, but for an alert that is not the last word on its file.          *)
Unheard ==
    /\ Open /\ ~Expected /\ ~unseen /\ ~ignored /\ ~unmonitored
    /\ alert.what \notin {"moved", "removed"}
    /\ Node # 0

(* A file has one name: there are no hard links.                           *)
OneEntry == \A p, q \in Paths : entry[p] = entry[q] /\ entry[p] # 0 => p = q

(* A removed file does not come back; another one may take its name.       *)
IsGone(node) == \A p \in Paths : entry[p] # node

RemovedStayGone ==
    /\ \A i \in DOMAIN events : events[i].what = "removed" => IsGone(events[i].node)
    /\ \A c \in checks : IsGone(c.node)

Attentive == Unheard => fNodeRef = Node /\ watched = {Node}

OnDisk == Unheard /\ ~failed => content[Node] = saved

MInv == IInv /\ OneEntry /\ RemovedStayGone /\ Attentive /\ OnDisk

-----------------------------------------------------------------------------
(* Monitoring started again is the monitoring of what is there.            *)
LEMMA RestartedSees ==
    ASSUME WatchesOnlyItsFile, NEW path, NEW entries,
           Restarted(path, entries), entries[path] # 0
    PROVE  fNodeRef' = entries[path] /\ watched' = {entries[path]}
  BY DEF Restarted, Monitored, WatchesOnlyItsFile

(* Messages that come are behind those that are there, none of which goes. *)
LEMMA NewsKept ==
    ASSUME events \in Seq(Events), NEW more \in Seq(Events),
           events' = events \o more, checks \subseteq checks',
           UNCHANGED <<fNodeRef, fFileRef, alert>>
    PROVE  /\ Expected => Expected'
           /\ \A i \in DOMAIN more : IsNews(more[i]) => Expected'
  <1>1. \A i \in DOMAIN events : i \in DOMAIN events' /\ events'[i] = events[i]
    OBVIOUS
  <1>2. \A i \in DOMAIN more :
            Len(events) + i \in DOMAIN events' /\ events'[Len(events) + i] = more[i]
    OBVIOUS
  <1>3. \A i \in DOMAIN more : IsNews(more[i]) => Expected'
    <2> SUFFICES ASSUME NEW i \in DOMAIN more, IsNews(more[i])
                 PROVE  Expected'
      OBVIOUS
    <2> DEFINE j == Len(events) + i
    <2>1. j \in DOMAIN events' /\ events'[j] = more[i]
      BY <1>2
    <2> HIDE DEF j
    <2>2. \/ events'[j].what \in {"stat", "removed"} /\ events'[j].node = fNodeRef'
          \/ events'[j].what = "moved" /\ events'[j].from = fFileRef'
      BY <2>1 DEF IsNews
    <2>3. QED
      BY <2>1, <2>2 DEF Expected, IsNews
  <1>4. ASSUME NEW i \in DOMAIN events, IsNews(events[i])
        PROVE  Expected'
    <2>1. \/ events'[i].what \in {"stat", "removed"} /\ events'[i].node = fNodeRef'
          \/ events'[i].what = "moved" /\ events'[i].from = fFileRef'
      BY <1>1, <1>4 DEF IsNews
    <2>2. QED
      BY <1>1, <2>1 DEF Expected, IsNews
  <1>5. Expected => Expected'
    BY <1>4 DEF Expected
  <1>6. QED
    BY <1>3, <1>5

(* Nothing more is heard, and the file and what is known of it stay.       *)
LEMMA SameFile ==
    ASSUME Attentive, OnDisk, Unheard' => Unheard,
           UNCHANGED <<fNodeRef, watched, saved>>,
           Unheard' => Node' = Node /\ content'[Node] = content[Node],
           failed' = failed
    PROVE  Attentive' /\ OnDisk'
  BY DEF Attentive, OnDisk

(* The checks and removals under way are of nodes that stay gone.          *)
LEMMA SameRemovals ==
    ASSUME MonitorTypes, RemovedStayGone, NEW more \in Seq(Events),
           events' = events \o more, checks' = checks,
           \A i \in DOMAIN more :
               more[i].what = "removed" => \A p \in Paths : entry'[p] # more[i].node,
           \A p \in Paths : entry'[p] \in 1..nodes => \E q \in Paths : entry[q] = entry'[p]
    PROVE  RemovedStayGone'
  <1>0. events \in Seq(Events) /\ checks \subseteq [node : 1..nodes, path : Paths]
    BY DEF MonitorTypes
  <1>1. ASSUME NEW node \in 1..nodes, IsGone(node)
        PROVE  \A p \in Paths : entry'[p] # node
    BY <1>1 DEF IsGone
  <1>2. \A c \in checks' : \A p \in Paths : entry'[p] # c.node
    <2> SUFFICES ASSUME NEW c \in checks
                 PROVE  \A p \in Paths : entry'[p] # c.node
      OBVIOUS
    <2>1. c.node \in 1..nodes /\ IsGone(c.node)
      BY <1>0 DEF RemovedStayGone
    <2>2. QED
      BY <1>1, <2>1
  <1>3. \A i \in DOMAIN events' :
            events'[i].what = "removed" => \A p \in Paths : entry'[p] # events'[i].node
    <2> SUFFICES ASSUME NEW i \in DOMAIN events', events'[i].what = "removed"
                 PROVE  \A p \in Paths : entry'[p] # events'[i].node
      OBVIOUS
    <2>1. CASE i \in DOMAIN events
      <3>1. events'[i] = events[i] /\ events[i] \in Events
        BY <1>0, <2>1
      <3>2. events[i].node \in 1..nodes /\ IsGone(events[i].node)
        BY <2>1, <3>1 DEF Events, RemovedStayGone
      <3>3. QED
        BY <1>1, <3>1, <3>2
    <2>2. CASE i \notin DOMAIN events
      <3>1. i - Len(events) \in DOMAIN more /\ events'[i] = more[i - Len(events)]
        BY <1>0, <2>2
      <3>2. QED
        BY <3>1
    <2>3. QED
      BY <2>1, <2>2
  <1>4. QED
    BY <1>2, <1>3 DEF RemovedStayGone, IsGone

LEMMA NotifyIsMore ==
    ASSUME MonitorTypes, NEW node, NEW event \in Events, Notify(node, event)
    PROVE  \E more \in Seq(Events) :
               /\ events' = events \o more
               /\ more = <<>> \/ more = <<event>>
               /\ node \in watched => more = <<event>>
  <1>0. events \in Seq(Events)
    BY DEF MonitorTypes
  <1>1. CASE node \in watched
    <2>1. <<event>> \in Seq(Events) /\ events' = events \o <<event>>
      BY <1>0, <1>1 DEF Notify
    <2>2. QED
      BY <2>1
  <1>2. CASE node \notin watched
    <2>1. <<>> \in Seq(Events) /\ events' = events \o <<>>
      BY <1>0, <1>2 DEF Notify
    <2>2. QED
      BY <1>2, <2>1
  <1>3. QED
    BY <1>1, <1>2

LEMMA MInvParts ==
    ASSUME MInv
    PROVE  /\ IInv /\ TypeOK /\ MonitorTypes /\ GhostTypes /\ WatchesOnlyItsFile
           /\ OneEntry /\ RemovedStayGone /\ Attentive /\ OnDisk
           /\ nodes \in 1..MaxNodes /\ contents \in 1..MaxContents
           /\ entry \in [Paths -> 0..nodes]
           /\ content \in [1..MaxNodes -> 0..contents]
           /\ events \in Seq(Events) /\ checks \subseteq [node : 1..nodes, path : Paths]
           /\ fFileRef \in Paths \cup {NoFile}
  BY DEF MInv, IInv, TypeOK, DiskTypes, MonitorTypes, EditorTypes

LEMMA UnheardNode ==
    ASSUME MInv, Unheard
    PROVE  fFileRef \in Paths /\ Node \in 1..nodes /\ Node \in 1..MaxNodes
  BY MInvParts, DocumentsAssumption DEF Unheard, Open, Node

-----------------------------------------------------------------------------
(* Other programs: what they do to the file is made known, unless it is    *)
(* that a file appears under the name when nothing more is expected.       *)

LEMMA OtherWritesMInv ==
    ASSUME MInv, IInv', NEW path \in Paths, OtherWrites(path)
    PROVE  MInv'
  <1> USE MInvParts
  <1> DEFINE node == entry[path]
             event == [what |-> "stat", node |-> node]
  <1>1. /\ node \in 1..nodes /\ UNCHANGED <<entry, nodes, editor, checks, alert, ghosts>>
        /\ content' = [content EXCEPT ![node] = contents + 1]
        /\ Notify(node, event)
    BY DEF OtherWrites, Fresh
  <1>2. event \in Events
    BY <1>1 DEF Events
  <1>3. PICK more \in Seq(Events) :
            /\ events' = events \o more
            /\ more = <<>> \/ more = <<event>>
            /\ node \in watched => more = <<event>>
    BY <1>1, <1>2, NotifyIsMore
  <1>4. \A i \in DOMAIN more : more[i].what # "removed"
    BY <1>3
  <1>5. RemovedStayGone' /\ OneEntry'
    BY <1>1, <1>3, <1>4, SameRemovals DEF OneEntry
  <1>6. Expected => Expected'
    BY <1>1, <1>3, NewsKept DEF editor
  <1>7. Unheard' => Unheard
    BY <1>1, <1>6 DEF Unheard, ghosts, editor, Open, Node
  <1>8. Unheard' => node # Node
    <2> SUFFICES ASSUME Unheard', node = Node
                 PROVE  FALSE
      OBVIOUS
    <2>1. fNodeRef = node /\ node \in watched
      BY <1>7 DEF Attentive
    <2>2. IsNews(event)
      BY <2>1 DEF IsNews
    <2>3. 1 \in DOMAIN more /\ more[1] = event
      BY <1>3, <2>1
    <2>4. Expected'
      BY <1>1, <1>3, <2>2, <2>3, NewsKept DEF editor
    <2>5. QED
      BY <2>4 DEF Unheard
  <1>9. Unheard' => Node' = Node /\ content'[Node] = content[Node]
    <2>1. ASSUME Unheard'
          PROVE  Node \in 1..MaxNodes
      BY <1>7, <2>1, UnheardNode
    <2>2. QED
      BY <1>1, <1>8, <2>1 DEF Node, editor
  <1>10. Attentive' /\ OnDisk'
    BY <1>1, <1>7, <1>9, SameFile DEF editor, ghosts
  <1>11. QED
    BY <1>5, <1>10 DEF MInv

LEMMA OtherRemovesMInv ==
    ASSUME MInv, IInv', NEW path \in Paths, OtherRemoves(path)
    PROVE  MInv'
  <1> USE MInvParts
  <1> DEFINE node == entry[path]
             event == [what |-> "removed", node |-> node, path |-> path]
  <1>1. /\ node \in 1..nodes
        /\ UNCHANGED <<content, nodes, contents, editor, checks, alert, ghosts>>
        /\ entry' = [entry EXCEPT ![path] = 0]
        /\ Notify(node, event)
    BY DEF OtherRemoves
  <1>2. event \in Events
    BY <1>1 DEF Events
  <1>3. PICK more \in Seq(Events) :
            /\ events' = events \o more
            /\ more = <<>> \/ more = <<event>>
    BY <1>1, <1>2, NotifyIsMore
  <1>4. \A p \in Paths : entry'[p] # node
    BY <1>1 DEF OneEntry
  <1>5. \A p \in Paths : entry'[p] \in 1..nodes => \E q \in Paths : entry[q] = entry'[p]
    <2>1. \A p \in Paths : entry'[p] \in 1..nodes => entry[p] = entry'[p]
      BY <1>1
    <2>2. QED
      BY <2>1
  <1>6. OneEntry'
    BY <1>1 DEF OneEntry
  <1>7. RemovedStayGone'
    <2>1. \A i \in DOMAIN more :
              more[i].what = "removed" => \A p \in Paths : entry'[p] # more[i].node
      BY <1>3, <1>4
    <2>2. checks' = checks
      BY <1>1
    <2>3. QED
      BY <1>3, <1>5, <2>1, <2>2, SameRemovals
  <1>8. Expected => Expected'
    BY <1>1, <1>3, NewsKept DEF editor
  <1>9. Unheard' => path # fFileRef
    BY <1>1 DEF Unheard, Node, editor
  <1>10. Unheard' => Unheard /\ Node' = Node
    BY <1>1, <1>8, <1>9 DEF Unheard, ghosts, editor, Open, Node
  <1>11. Attentive' /\ OnDisk'
    BY <1>1, <1>10, SameFile DEF editor, ghosts
  <1>12. QED
    BY <1>6, <1>7, <1>11 DEF MInv

LEMMA OtherCreatesMInv ==
    ASSUME MInv, IInv', NEW path \in Paths, OtherCreates(path)
    PROVE  MInv'
  <1> USE MInvParts
  <1>1. /\ entry[path] = 0 /\ UNCHANGED <<editor, monitor, alert, ignored, failed, unmonitored>>
        /\ entry' = [entry EXCEPT ![path] = nodes + 1]
        /\ content' = [content EXCEPT ![nodes + 1] = contents + 1]
        /\ unseen' = (unseen \/ (path = fFileRef /\ ~Expected))
    BY DEF OtherCreates, Fresh
  <1>2. \A p \in Paths : entry[p] \in 0..nodes
    OBVIOUS
  <1>3. OneEntry'
    BY <1>1, <1>2 DEF OneEntry
  <1>4. RemovedStayGone'
    <2>1. <<>> \in Seq(Events) /\ events' = events \o <<>> /\ checks' = checks
      BY <1>1 DEF monitor
    <2>2. \A p \in Paths : entry'[p] \in 1..nodes => entry[p] = entry'[p]
      BY <1>1
    <2>3. \A p \in Paths : entry'[p] \in 1..nodes => \E q \in Paths : entry[q] = entry'[p]
      BY <2>2
    <2>4. \A i \in DOMAIN <<>> :
              <<>>[i].what = "removed" => \A p \in Paths : entry'[p] # <<>>[i].node
      OBVIOUS
    <2>5. QED
      BY <2>1, <2>3, <2>4, SameRemovals
  <1>5. Expected' <=> Expected
    BY <1>1 DEF Expected, IsNews, editor, monitor
  <1>6. Unheard' => path # fFileRef /\ ~unseen
    BY <1>1, <1>5 DEF Unheard
  <1>7. Unheard' => Unheard /\ Node' = Node
    BY <1>1, <1>5, <1>6 DEF Unheard, editor, Open, Node
  <1>8. Unheard' => content'[Node] = content[Node]
    <2>1. ASSUME Unheard'
          PROVE  Node \in 1..nodes
      BY <1>7, <2>1, UnheardNode
    <2>2. QED
      BY <1>1, <2>1
  <1>9. Attentive' /\ OnDisk'
    BY <1>1, <1>7, <1>8, SameFile DEF editor
  <1>10. QED
    BY <1>3, <1>4, <1>9 DEF MInv

LEMMA OtherMovesMInv ==
    ASSUME MInv, IInv', NEW path \in Paths, NEW to \in Paths, OtherMoves(path, to)
    PROVE  MInv'
  <1> USE MInvParts
  <1> DEFINE node == entry[path]
             event == [what |-> "moved", from |-> path, to |-> to]
  <1>1. /\ node \in 1..nodes /\ entry[to] = 0 /\ path # to
        /\ UNCHANGED <<content, nodes, contents, editor, checks, alert, ignored, failed, unmonitored>>
        /\ entry' = [entry EXCEPT ![path] = 0, ![to] = node]
        /\ Notify(node, event)
        /\ unseen' = (unseen \/ (to = fFileRef /\ ~Expected))
    BY DEF OtherMoves
  <1>2. event \in Events
    BY DEF Events
  <1>3. PICK more \in Seq(Events) :
            /\ events' = events \o more
            /\ more = <<>> \/ more = <<event>>
    BY <1>1, <1>2, NotifyIsMore
  <1>4. \A i \in DOMAIN more : more[i].what # "removed"
    BY <1>3
  <1>5. \A p \in Paths : entry'[p] = IF p = to THEN node ELSE IF p = path THEN 0 ELSE entry[p]
    BY <1>1
  <1> HIDE DEF node, event
  <1>6. OneEntry'
    BY <1>1, <1>5 DEF OneEntry, node
  <1>7. RemovedStayGone'
    <2>1. \A p \in Paths : entry'[p] \in 1..nodes => \E q \in Paths : entry[q] = entry'[p]
      BY <1>1, <1>5 DEF node
    <2>2. \A i \in DOMAIN more :
              more[i].what = "removed" => \A p \in Paths : entry'[p] # more[i].node
      BY <1>4
    <2>3. checks' = checks
      BY <1>1
    <2>4. QED
      BY <1>3, <2>1, <2>2, <2>3, SameRemovals
  <1>8. Expected => Expected'
    BY <1>1, <1>3, NewsKept DEF editor
  <1>9. Unheard' => to # fFileRef /\ path # fFileRef /\ ~unseen
    BY <1>1, <1>5, <1>8 DEF Unheard, Node, editor
  <1>10. Unheard' => Unheard /\ Node' = Node
    BY <1>1, <1>5, <1>8, <1>9 DEF Unheard, editor, Open, Node
  <1>11. Attentive' /\ OnDisk'
    BY <1>1, <1>10, SameFile DEF editor
  <1>12. QED
    BY <1>6, <1>7, <1>11 DEF MInv

-----------------------------------------------------------------------------
(* The user's actions.                                                     *)

(* Monitoring started on what the file reference names, and the save point *)
(* made or read there.                                                     *)
LEMMA RestartedSettles ==
    ASSUME WatchesOnlyItsFile, Restarted(fFileRef', entry'),
           Node' # 0 /\ ~failed' => content'[Node'] = saved'
    PROVE  Attentive' /\ OnDisk'
  <1>1. Unheard' => entry'[fFileRef'] # 0 /\ Node' = entry'[fFileRef']
    BY DEF Unheard, Node
  <1>2. Attentive'
    BY <1>1, RestartedSees DEF Attentive
  <1>3. OnDisk'
    BY DEF OnDisk, Unheard
  <1>4. QED
    BY <1>2, <1>3

(* A closed tab has nothing to hear.                                       *)
LEMMA ClosedSettles ==
    ASSUME fFileRef' = NoFile
    PROVE  Attentive' /\ OnDisk'
  BY DEF Attentive, OnDisk, Unheard, Open

(* A load that fails leaves nothing monitored.                             *)
LEMMA UnmonitoredSettles ==
    ASSUME unmonitored' = TRUE
    PROVE  Attentive' /\ OnDisk'
  BY DEF Attentive, OnDisk, Unheard

LEMMA SameEntries ==
    ASSUME OneEntry, RemovedStayGone, UNCHANGED <<disk, monitor>>
    PROVE  OneEntry' /\ RemovedStayGone'
  BY DEF OneEntry, RemovedStayGone, IsGone, disk, monitor

(* A write makes no second name for a file, and brings back none.          *)
LEMMA WrittenEntries ==
    ASSUME MInv, NEW path \in Paths, NEW outcome, Written(path, outcome), UNCHANGED monitor
    PROVE  OneEntry' /\ RemovedStayGone'
  <1> USE MInvParts
  <1>1. CASE UNCHANGED disk
    BY <1>1, SameEntries
  <1>2. CASE outcome # "refused"
    <2> DEFINE node == IF entry[path] = 0 THEN nodes + 1 ELSE entry[path]
    <2>1. entry' = [entry EXCEPT ![path] = node]
      BY <1>2 DEF Written
    <2>2. \A p \in Paths : entry'[p] = entry[p] \/ (p = path /\ entry'[p] = nodes + 1)
      BY <2>1
    <2>3. \A p \in Paths : entry[p] \in 0..nodes
      OBVIOUS
    <2>4. OneEntry'
      BY <2>2, <2>3 DEF OneEntry
    <2>5. \A p \in Paths : entry'[p] \in 1..nodes => \E q \in Paths : entry[q] = entry'[p]
      BY <2>2
    <2>6. \A i \in DOMAIN <<>> :
              <<>>[i].what = "removed" => \A p \in Paths : entry'[p] # <<>>[i].node
      OBVIOUS
    <2>7. <<>> \in Seq(Events) /\ events' = events \o <<>> /\ checks' = checks
      BY DEF monitor
    <2>8. RemovedStayGone'
      BY <2>5, <2>6, <2>7, SameRemovals
    <2>9. QED
      BY <2>4, <2>8
  <1>3. QED
    BY <1>1, <1>2 DEF Written

(* All of the text was written: it is what the file holds.                 *)
LEMMA WrittenDone ==
    ASSUME MInv, NEW path \in Paths, Written(path, "done")
    PROVE  content'[entry'[path]] = text
  <1> USE MInvParts, DocumentsAssumption
  <1> DEFINE node == IF entry[path] = 0 THEN nodes + 1 ELSE entry[path]
  <1>1. /\ node <= MaxNodes
        /\ entry' = [entry EXCEPT ![path] = node]
        /\ content' = [content EXCEPT ![node] = text]
    BY DEF Written
  <1>2. node \in 1..MaxNodes
    BY <1>1
  <1> HIDE DEF node
  <1>3. QED
    BY <1>1, <1>2

LEMMA FileSaveMInv ==
    ASSUME MInv, IInv', Open, NEW outcome, FileSave(outcome), UNCHANGED monitor
    PROVE  MInv'
  <1> USE MInvParts
  <1>1. /\ fFileRef \in Paths /\ fFileRef' = fFileRef
        /\ Written(fFileRef, outcome)
        /\ Restarted(fFileRef', entry')
        /\ failed' = (outcome # "done")
    BY DEF FileSave, Open
  <1>2. OneEntry' /\ RemovedStayGone'
    BY <1>1, WrittenEntries
  <1>3. outcome = "done" => content'[Node'] = saved'
    <2> SUFFICES ASSUME outcome = "done"
                 PROVE  content'[Node'] = saved'
      OBVIOUS
    <2>1. saved' = text /\ Node' = entry'[fFileRef]
      BY <1>1 DEF FileSave, Node
    <2>2. QED
      BY <1>1, <2>1, WrittenDone
  <1>4. Attentive' /\ OnDisk'
    BY <1>1, <1>3, RestartedSettles
  <1>5. QED
    BY <1>2, <1>4 DEF MInv

LEMMA LoadSettles ==
    ASSUME WatchesOnlyItsFile, NEW path, fFileRef' = path, Loaded(path, entry', content')
    PROVE  Attentive' /\ OnDisk'
  <1>1. Restarted(fFileRef', entry') /\ saved' = content'[entry'[path]]
    BY DEF Loaded
  <1>2. Node' # 0 => content'[Node'] = saved'
    BY <1>1 DEF Node
  <1>3. QED
    BY <1>1, <1>2, RestartedSettles

LEMMA SaveAsMInv ==
    ASSUME MInv, IInv', NEW path \in Paths, SaveAs(path)
    PROVE  MInv'
  <1> USE MInvParts
  <1>1. PICK outcome \in Outcomes :
            Written(path, outcome) /\ (Loaded(path, entry', content') \/ unmonitored' = TRUE)
    BY DEF SaveAs, NotLoaded
  <1>2. fFileRef' = path /\ UNCHANGED monitor
    BY DEF SaveAs
  <1>3. OneEntry' /\ RemovedStayGone'
    BY <1>1, <1>2, WrittenEntries
  <1>4. CASE Loaded(path, entry', content')
    BY <1>2, <1>3, <1>4, LoadSettles DEF MInv
  <1>5. CASE unmonitored' = TRUE
    BY <1>3, <1>5, UnmonitoredSettles DEF MInv
  <1>6. QED
    BY <1>1, <1>4, <1>5

LEMMA ReloadSettles ==
    ASSUME MInv, NEW path \in Paths, ReloadFileInEditor(path), UNCHANGED disk
    PROVE  Attentive' /\ OnDisk'
  <1> USE MInvParts
  <1>1. fFileRef' = path /\ entry' = entry /\ content' = content
    BY DEF ReloadFileInEditor, disk
  <1>2. CASE Loaded(path, entry, content)
    <2>1. Loaded(path, entry', content')
      BY <1>1, <1>2
    <2>2. QED
      BY <1>1, <2>1, LoadSettles
  <1>3. CASE NotLoaded(path, entry, fNodeRef, saved)
    BY <1>3, UnmonitoredSettles DEF NotLoaded
  <1>4. QED
    BY <1>2, <1>3 DEF ReloadFileInEditor

(* An alert asking whether to close the tab, or its answer "Cancel", leaves *)
(* the editor as it is.                                                     *)
LEMMA SameEditor ==
    ASSUME MInv, UNCHANGED <<disk, editor, monitor, failed>>,
           (Unheard' => Unheard)
    PROVE  Attentive' /\ OnDisk'
  <1>1. Node' = Node /\ content' = content /\ UNCHANGED <<fNodeRef, watched, saved>>
    BY DEF Node, disk, editor
  <1>2. QED
    BY <1>1, MInvParts, SameFile

LEMMA UserMInv ==
    ASSUME MInv, IInv',
           Edit \/ Undo \/ Save \/ FileClose \/ \E path \in Paths : SaveAs(path) \/ FileOpen(path)
    PROVE  MInv'
  <1> USE MInvParts
  <1>1. CASE Edit
    <2>1. UNCHANGED <<entry, content, fFileRef, fNodeRef, saved, watched, monitor, alert, ghosts>>
      BY <1>1 DEF Edit
    <2>2. (Unheard' => Unheard) /\ Node' = Node
      BY <2>1 DEF Unheard, Expected, IsNews, Open, Node, monitor, ghosts
    <2>3. OneEntry' /\ RemovedStayGone'
      BY <2>1 DEF OneEntry, RemovedStayGone, IsGone, monitor
    <2>4. Attentive' /\ OnDisk'
      BY <2>1, <2>2, SameFile DEF ghosts
    <2>5. QED
      BY <2>3, <2>4 DEF MInv
  <1>2. CASE Undo
    <2>1. UNCHANGED <<disk, fFileRef, fNodeRef, saved, watched, monitor, alert, ghosts>>
      BY <1>2 DEF Undo
    <2>2. (Unheard' => Unheard) /\ Node' = Node /\ content' = content
      BY <2>1 DEF Unheard, Expected, IsNews, Open, Node, monitor, ghosts, disk
    <2>3. OneEntry' /\ RemovedStayGone'
      BY <2>1, SameEntries
    <2>4. Attentive' /\ OnDisk'
      BY <2>1, <2>2, SameFile DEF ghosts
    <2>5. QED
      BY <2>3, <2>4 DEF MInv
  <1>3. CASE Save
    BY <1>3, FileSaveMInv DEF Save, User
  <1>4. CASE FileClose
    <2>1. UNCHANGED <<disk, monitor>> /\ FileRequestClose(FALSE) /\ alert = NoAlert
      BY <1>4 DEF FileClose, User
    <2>2. OneEntry' /\ RemovedStayGone'
      BY <2>1, SameEntries
    <2>3. CASE alert' = Asks("close") /\ ignored' = ignored
               /\ UNCHANGED <<editor, failed, unmonitored, unseen>>
      <3>1. alert.what = "none" /\ alert'.what = "close"
        BY <2>1, <2>3 DEF NoAlert, Asks
      <3>2. Unheard' => Unheard
        BY <2>1, <2>3, <3>1
        DEF Unheard, Expected, IsNews, Open, Node, monitor, disk, editor
      <3>3. Attentive' /\ OnDisk'
        BY <2>1, <2>3, <3>2, SameEditor
      <3>4. QED
        BY <2>2, <3>3 DEF MInv
    <2>4. CASE RemoveTab
      BY <2>2, <2>4, ClosedSettles DEF RemoveTab, MInv
    <2>5. QED
      <3>1. (ignored \/ FALSE) = ignored
        BY DEF GhostTypes
      <3>2. QED
        BY <2>1, <2>3, <2>4, <3>1 DEF FileRequestClose
  <1>5. ASSUME NEW path \in Paths, SaveAs(path)
        PROVE  MInv'
    BY <1>5, SaveAsMInv
  <1>6. ASSUME NEW path \in Paths, FileOpen(path)
        PROVE  MInv'
    <2>1. ReloadFileInEditor(path) /\ UNCHANGED <<disk, monitor>>
      BY <1>6 DEF FileOpen
    <2>2. Attentive' /\ OnDisk'
      BY <2>1, ReloadSettles
    <2>3. QED
      BY <2>1, <2>2, SameEntries DEF MInv
  <1>7. QED
    BY <1>1, <1>2, <1>3, <1>4, <1>5, <1>6

-----------------------------------------------------------------------------
(* Messages to the window.                                                 *)

(* A patch to the watched file is made known like a write of others.       *)
LEMMA PatchAppliedMInv ==
    ASSUME MInv, IInv', NEW path \in Paths, PatchApplied(path)
    PROVE  MInv'
  <1> USE MInvParts
  <1> DEFINE node == entry[path]
             event == [what |-> "stat", node |-> node]
             patched == [what |-> "patched", path |-> path]
             more == (IF node \in watched THEN <<event>> ELSE <<>>) \o <<patched>>
  <1>1. /\ node \in 1..nodes /\ UNCHANGED <<entry, nodes, editor, checks, alert, ghosts>>
        /\ content' = [content EXCEPT ![node] = contents + 1]
    BY DEF PatchApplied, Fresh
  <1>2. event \in Events /\ patched \in Events
    BY <1>1 DEF Events
  <1>3. more \in Seq(Events) /\ events' = events \o more
    <2> DEFINE stat == IF node \in watched THEN <<event>> ELSE <<>>
    <2>1. stat \in Seq(Events) /\ <<patched>> \in Seq(Events)
      BY <1>2
    <2>2. events' = (events \o stat) \o <<patched>> /\ more = stat \o <<patched>>
      BY DEF PatchApplied
    <2> HIDE DEF event, patched, node, stat, more
    <2>3. more \in Seq(Events)
      BY <2>1, <2>2
    <2>4. events' = events \o more
      BY <2>1, <2>2, ConcatAssociative
    <2>5. QED
      BY <2>3, <2>4
  <1>4. /\ \A i \in DOMAIN more : more[i].what # "removed"
        /\ node \in watched => 1 \in DOMAIN more /\ more[1] = event
    OBVIOUS
  <1> HIDE DEF more, event, patched
  <1>5. RemovedStayGone' /\ OneEntry'
    <2>1. \A p \in Paths : entry'[p] \in 1..nodes => \E q \in Paths : entry[q] = entry'[p]
      BY <1>1
    <2>2. \A i \in DOMAIN more :
              more[i].what = "removed" => \A p \in Paths : entry'[p] # more[i].node
      BY <1>4
    <2>3. checks' = checks
      BY <1>1
    <2>4. RemovedStayGone'
      BY <1>3, <2>1, <2>2, <2>3, SameRemovals
    <2>5. QED
      BY <1>1, <2>4 DEF OneEntry
  <1>6. Expected => Expected'
    BY <1>1, <1>3, NewsKept DEF editor
  <1>7. Unheard' => Unheard
    BY <1>1, <1>6 DEF Unheard, ghosts, editor, Open, Node
  <1>8. Unheard' => node # Node
    <2> SUFFICES ASSUME Unheard', node = Node
                 PROVE  FALSE
      OBVIOUS
    <2>1. fNodeRef = node /\ node \in watched
      BY <1>7 DEF Attentive
    <2>2. IsNews(event)
      BY <2>1 DEF IsNews, event
    <2>3. Expected'
      BY <1>1, <1>3, <1>4, <2>1, <2>2, NewsKept DEF editor
    <2>4. QED
      BY <2>3 DEF Unheard
  <1>9. Unheard' => Node' = Node /\ content'[Node] = content[Node]
    <2>1. ASSUME Unheard'
          PROVE  Node \in 1..MaxNodes
      BY <1>7, <2>1, UnheardNode
    <2>2. QED
      BY <1>1, <1>8, <2>1 DEF Node, editor
  <1>10. Attentive' /\ OnDisk'
    BY <1>1, <1>7, <1>9, SameFile DEF editor, ghosts
  <1>11. QED
    BY <1>5, <1>10 DEF MInv

(* Of what is expected, handling the first message settles only that one.  *)
LEMMA TailNews ==
    ASSUME events \in Seq(Events), events # <<>>, events' = Tail(events),
           checks \subseteq checks', UNCHANGED <<fNodeRef, fFileRef>>, alert = NoAlert
    PROVE  Expected => IsNews(Head(events)) \/ Expected'
  <1>1. \A i \in DOMAIN events :
            i = 1 \/ (i - 1 \in DOMAIN events' /\ events'[i - 1] = events[i])
    OBVIOUS
  <1>2. events[1] = Head(events)
    OBVIOUS
  <1>3. alert.what # "stat"
    BY DEF NoAlert
  <1>4. ASSUME NEW i \in DOMAIN events, IsNews(events[i]), i # 1
        PROVE  Expected'
    <2>1. i - 1 \in DOMAIN events' /\ events'[i - 1] = events[i]
      BY <1>1, <1>4
    <2> DEFINE j == i - 1
    <2>2. j \in DOMAIN events' /\ events'[j] = events[i]
      BY <2>1
    <2> HIDE DEF j
    <2>3. \/ events'[j].what \in {"stat", "removed"} /\ events'[j].node = fNodeRef'
          \/ events'[j].what = "moved" /\ events'[j].from = fFileRef'
      BY <1>4, <2>2 DEF IsNews
    <2>4. QED
      BY <2>2, <2>3 DEF Expected, IsNews
  <1>5. ASSUME NEW c \in checks, c.node = fNodeRef
        PROVE  Expected'
    BY <1>5 DEF Expected
  <1>6. QED
    BY <1>2, <1>3, <1>4, <1>5 DEF Expected

LEMMA NodeMonitorMInv ==
    ASSUME MInv, IInv', NodeMonitor
    PROVE  MInv'
  <1> USE MInvParts
  <1> DEFINE event == Head(events)
  <1>1. /\ alert = NoAlert /\ events # <<>> /\ events' = Tail(events) /\ UNCHANGED disk
        /\ StatChanged(event) \/ EntryRemoved(event) \/ EntryMoved(event) \/ PatchNotified(event)
    BY DEF NodeMonitor
  <1>2. event \in Events /\ (event.what = "removed" => IsGone(event.node))
    <2>1. 1 \in DOMAIN events /\ event = events[1]
      BY <1>1
    <2>2. QED
      BY <1>1, <2>1 DEF RemovedStayGone
  <1>3. checks \subseteq checks' /\ \A c \in checks' : IsGone(c.node)
    <2> HIDE DEF event
    <2>1. CASE checks' = checks
      BY <2>1 DEF RemovedStayGone
    <2>2. CASE EntryRemoved(event)
      BY <1>2, <2>2 DEF EntryRemoved, RemovedStayGone
    <2>3. QED
      BY <1>1, <2>1, <2>2 DEF StatChanged, EntryMoved, PatchNotified
  <1>4. OneEntry' /\ RemovedStayGone'
    <2>1. \A i \in DOMAIN events' : i + 1 \in DOMAIN events /\ events'[i] = events[i + 1]
      BY <1>1
    <2>2. entry' = entry
      BY <1>1 DEF disk
    <2>3. \A i \in DOMAIN events' : events'[i].what = "removed" => IsGone(events'[i].node)
      BY <2>1 DEF RemovedStayGone
    <2>4. QED
      BY <1>3, <2>2, <2>3 DEF OneEntry, RemovedStayGone, IsGone
  <1>5. UNCHANGED <<fNodeRef, fFileRef>> => (Expected => IsNews(event) \/ Expected')
    BY <1>1, <1>3, TailNews
  <1> HIDE DEF event
  <1>6. ASSUME UNCHANGED <<fFileRef, fNodeRef, saved, ghosts>>,
               Unheard' => ~IsNews(event) /\ watched' = watched
        PROVE  Attentive' /\ OnDisk'
    <2>1. alert.what = "none" /\ Node' = Node /\ content' = content
      BY <1>1, <1>6 DEF NoAlert, Node, disk
    <2>2. Unheard' => Unheard
      BY <1>5, <1>6, <2>1 DEF Unheard, Open, ghosts
    <2>3. Attentive'
      BY <1>6, <2>1, <2>2 DEF Attentive
    <2>4. OnDisk'
      BY <1>6, <2>1, <2>2 DEF OnDisk, ghosts
    <2>5. QED
      BY <2>3, <2>4
  <1>7. CASE StatChanged(event)
    <2>1. UNCHANGED <<fFileRef, fNodeRef, text, saved, checks, ghosts>> /\ event.what = "stat"
      BY <1>7 DEF StatChanged
    <2>2. CASE EditorBy(event.node)
      <3>1. alert'.what = "stat"
        BY <1>7, <2>2 DEF StatChanged, ExternalStat, Asks
      <3>2. ~Unheard'
        BY <3>1 DEF Unheard, Expected
      <3>3. QED
        BY <1>4, <3>2 DEF MInv, Attentive, OnDisk
    <2>3. CASE ~EditorBy(event.node)
      <3>1. watched' = watched
        BY <1>7, <2>3 DEF StatChanged
      <3>2. Unheard' => ~IsNews(event)
        BY <2>1, <2>3 DEF Unheard, Open, EditorBy, IsNews
      <3>3. QED
        BY <1>4, <1>6, <2>1, <3>1, <3>2 DEF MInv
    <2>4. QED
      BY <2>2, <2>3
  <1>8. CASE EntryRemoved(event)
    <2>1. /\ UNCHANGED <<editor, alert, ghosts>> /\ event.what = "removed"
          /\ checks' = checks \cup {[node |-> event.node, path |-> event.path]}
      BY <1>8 DEF EntryRemoved
    <2>2. IsNews(event) => Expected'
      <3>1. SUFFICES ASSUME IsNews(event)
                     PROVE  Expected'
        OBVIOUS
      <3>2. event.node = fNodeRef'
        BY <2>1, <3>1 DEF IsNews, editor
      <3> DEFINE check == [node |-> event.node, path |-> event.path]
      <3>3. check \in checks' /\ check.node = fNodeRef'
        BY <2>1, <3>2
      <3> HIDE DEF check
      <3>4. QED
        BY <3>3 DEF Expected
    <2>3. Unheard' => ~IsNews(event)
      BY <2>2 DEF Unheard
    <2>4. QED
      BY <1>4, <1>6, <2>1, <2>3 DEF MInv, editor
  <1>9. CASE EntryMoved(event)
    <2>1. /\ UNCHANGED <<editor, checks, ghosts>> /\ event.what = "moved"
          /\ alert' = IF event.from = fFileRef THEN [what |-> "moved", to |-> event.to] ELSE alert
      BY <1>9 DEF EntryMoved
    <2>2. Unheard' => ~IsNews(event)
      BY <2>1 DEF Unheard, IsNews
    <2>3. QED
      BY <1>4, <1>6, <2>1, <2>2 DEF MInv, editor
  <1>10. CASE PatchNotified(event)
    <2>1. event.what = "patched" /\ event.path \in Paths
      BY <1>2, <1>10 DEF PatchNotified, Events
    <2>2. CASE ReloadFileInEditor(event.path)
      BY <1>1, <1>4, <2>1, <2>2, ReloadSettles DEF MInv
    <2>3. CASE UNCHANGED <<editor, ghosts>>
      <3>1. ~IsNews(event)
        BY <2>1 DEF IsNews
      <3>2. QED
        BY <1>4, <1>6, <2>3, <3>1 DEF MInv, editor
    <2>4. QED
      BY <1>10, <2>2, <2>3 DEF PatchNotified
  <1>11. QED
    BY <1>1, <1>7, <1>8, <1>9, <1>10

(* A removed file that is the editor's is never found in place: it is gone *)
(* or another one has its name, and the user is asked.                     *)
LEMMA CheckEntryRemovedMInv ==
    ASSUME MInv, IInv', NEW check \in checks, CheckEntryRemoved(check)
    PROVE  MInv'
  <1> USE MInvParts
  <1>1. /\ alert = NoAlert /\ checks' = checks \ {check}
        /\ UNCHANGED <<disk, events, ghosts>>
    BY DEF CheckEntryRemoved
  <1>2. OneEntry' /\ RemovedStayGone'
    BY <1>1 DEF OneEntry, RemovedStayGone, IsGone, disk
  <1>3. entry[check.path] # check.node
    BY DEF RemovedStayGone, IsGone
  <1>4. CASE EditorBy(check.node)
    <2>1. alert'.what \in {"stat", "removed"}
      BY <1>3, <1>4 DEF CheckEntryRemoved, Replaced, Asks
    <2>2. ~Unheard'
      BY <2>1 DEF Unheard, Expected
    <2>3. QED
      BY <1>2, <2>2 DEF MInv, Attentive, OnDisk
  <1>5. CASE ~EditorBy(check.node)
    <2>1. UNCHANGED <<editor, alert>>
      BY <1>5 DEF CheckEntryRemoved
    <2>2. Open /\ Expected => Expected'
      BY <1>1, <1>5, <2>1 DEF EditorBy, Expected, IsNews, editor
    <2>3. Unheard' => Unheard
      BY <1>1, <2>1, <2>2 DEF Unheard, Open, Node, editor, disk, ghosts
    <2>4. Node' = Node /\ content' = content
      BY <1>1, <2>1 DEF Node, disk, editor
    <2>5. Attentive' /\ OnDisk'
      BY <1>1, <2>1, <2>3, <2>4, SameFile DEF editor, ghosts
    <2>6. QED
      BY <1>2, <2>5 DEF MInv
  <1>6. QED
    BY <1>4, <1>5

-----------------------------------------------------------------------------
(* Answers: the monitoring is started again, or the user goes on with what *)
(* the buffer holds, or the tab is closed.                                 *)

LEMMA GoingOnSettles ==
    ASSUME ignored' = TRUE
    PROVE  Attentive' /\ OnDisk'
  BY DEF Attentive, OnDisk, Unheard

LEMMA AnswersMInv ==
    ASSUME MInv, IInv', AnswerStat \/ AnswerRemoved \/ AnswerMoved \/ AnswerClose
    PROVE  MInv'
  <1> USE MInvParts
  <1>1. CASE AnswerStat
    <2>1. /\ UNCHANGED <<disk, monitor, fFileRef>>
          /\ Restarted(fFileRef', entry')
          /\ Node' = Node /\ content' = content
      BY <1>1 DEF AnswerStat, disk, Node
    <2>2. OneEntry' /\ RemovedStayGone'
      BY <2>1, SameEntries
    <2>3. CASE ignored' = TRUE
      BY <2>2, <2>3, GoingOnSettles DEF MInv
    <2>4. CASE failed' = TRUE \/ (saved' = text' /\ text' = content[Node])
      <3>1. Node' # 0 /\ ~failed' => content'[Node'] = saved'
        BY <2>1, <2>4
      <3>2. Attentive' /\ OnDisk'
        BY <2>1, <3>1, RestartedSettles
      <3>3. QED
        BY <2>2, <3>2 DEF MInv
    <2>5. QED
      BY <1>1, <2>3, <2>4 DEF AnswerStat
  <1>2. CASE AnswerRemoved
    <2>1. UNCHANGED monitor
      BY <1>2 DEF AnswerRemoved
    <2>2. ASSUME NEW outcome \in Outcomes, FileSave(outcome)
          PROVE  MInv'
      <3>1. alert # NoAlert
        BY <1>2 DEF AnswerRemoved, NoAlert
      <3>2. Open
        BY <3>1 DEF IInv, AlertsAreOfAFile
      <3>3. QED
        BY <2>1, <2>2, <3>2, FileSaveMInv
    <2>3. CASE ignored' = TRUE /\ UNCHANGED disk
      BY <2>1, <2>3, SameEntries, GoingOnSettles DEF MInv
    <2>4. CASE RemoveTab /\ UNCHANGED disk
      BY <2>1, <2>4, SameEntries, ClosedSettles DEF MInv, RemoveTab
    <2>5. QED
      BY <1>2, <2>2, <2>3, <2>4 DEF AnswerRemoved
  <1>3. CASE AnswerMoved
    <2>1. UNCHANGED <<disk, monitor>> /\ alert.what = "moved"
      BY <1>3 DEF AnswerMoved
    <2>2. OneEntry' /\ RemovedStayGone'
      BY <2>1, SameEntries
    <2>3. CASE ignored' = TRUE
      BY <2>2, <2>3, GoingOnSettles DEF MInv
    <2>4. CASE RemoveTab
      BY <2>2, <2>4, ClosedSettles DEF MInv, RemoveTab
    <2>5. CASE ReloadFileInEditor(alert.to)
      <3>1. alert.to \in Paths
        BY <2>1 DEF MonitorTypes, Alerts, NoAlert
      <3>2. QED
        BY <2>1, <2>2, <2>5, <3>1, ReloadSettles DEF MInv
    <2>6. QED
      BY <1>3, <2>3, <2>4, <2>5 DEF AnswerMoved, FileRequestClose
  <1>4. CASE AnswerClose
    <2>1. UNCHANGED monitor /\ alert.what = "close" /\ alert' = NoAlert
      BY <1>4 DEF AnswerClose
    <2>2. CASE UNCHANGED <<disk, editor, ghosts>>
      <3>1. alert'.what = "none"
        BY <2>1 DEF NoAlert
      <3>2. Unheard' => Unheard
        BY <2>1, <2>2, <3>1
        DEF Unheard, Expected, IsNews, Open, Node, monitor, disk, editor, ghosts
      <3>3. Attentive' /\ OnDisk'
        BY <2>1, <2>2, <3>2, SameEditor DEF ghosts
      <3>4. QED
        BY <2>1, <2>2, <3>3, SameEntries DEF MInv
    <2>3. CASE RemoveTab /\ UNCHANGED disk
      BY <2>1, <2>3, SameEntries, ClosedSettles DEF MInv, RemoveTab
    <2>4. ASSUME NEW outcome \in Outcomes, Written(fFileRef, outcome), RemoveTab
          PROVE  MInv'
      <3>1. alert # NoAlert
        BY <2>1 DEF NoAlert
      <3>2. fFileRef \in Paths
        BY <3>1 DEF IInv, AlertsAreOfAFile, Open
      <3>3. QED
        BY <2>1, <2>4, <3>2, WrittenEntries, ClosedSettles DEF MInv, RemoveTab
    <2>5. QED
      BY <1>4, <2>2, <2>3, <2>4 DEF AnswerClose
  <1>5. QED
    BY <1>1, <1>2, <1>3, <1>4

LEMMA InitMInv == Init => MInv
  <1> SUFFICES ASSUME Init
               PROVE  MInv
    OBVIOUS
  <1>1. PICK here \in Paths :
            entry = [p \in Paths |-> IF p = here THEN 1 ELSE 0] /\ fFileRef = here
    BY DEF Init
  <1>2. OneEntry
    BY <1>1 DEF OneEntry
  <1>3. RemovedStayGone
    BY DEF Init, RemovedStayGone
  <1>4. Node = 1 /\ fNodeRef = 1 /\ watched = {1} /\ content[1] = saved
    BY <1>1, DocumentsAssumption DEF Init, Node
  <1>5. Attentive /\ OnDisk
    BY <1>4 DEF Attentive, OnDisk
  <1>6. QED
    BY <1>2, <1>3, <1>5, InitIInv DEF MInv

LEMMA NextMInv == MInv /\ [Next]_vars => MInv'
  <1> SUFFICES ASSUME MInv, [Next]_vars
               PROVE  MInv'
    OBVIOUS
  <1>0. IInv'
    BY NextIInv DEF MInv
  <1>1. CASE Others
    BY <1>0, <1>1, OtherWritesMInv, OtherRemovesMInv, OtherCreatesMInv, OtherMovesMInv DEF Others
  <1>2. CASE Edit \/ Undo \/ Save \/ FileClose
             \/ \E path \in Paths : SaveAs(path) \/ FileOpen(path)
    BY <1>0, <1>2, UserMInv
  <1>3. ASSUME NEW path \in Paths, PatchApplied(path)
        PROVE  MInv'
    BY <1>0, <1>3, PatchAppliedMInv
  <1>4. CASE NodeMonitor
    BY <1>0, <1>4, NodeMonitorMInv
  <1>5. ASSUME NEW check \in checks, CheckEntryRemoved(check)
        PROVE  MInv'
    BY <1>0, <1>5, CheckEntryRemovedMInv
  <1>6. CASE AnswerStat \/ AnswerRemoved \/ AnswerMoved \/ AnswerClose
    BY <1>0, <1>6, AnswersMInv
  <1>7. CASE UNCHANGED vars
    BY <1>0, <1>7
    DEF vars, disk, editor, monitor, ghosts, MInv, OneEntry, RemovedStayGone, IsGone,
        Attentive, OnDisk, Unheard, Expected, IsNews, Open, Node
  <1>8. QED
    BY <1>1, <1>2, <1>3, <1>4, <1>5, <1>6, <1>7 DEF Next

-----------------------------------------------------------------------------
(* When all is quiet the window watches the file that the tab's name names *)
(* now: no order of messages, alerts, answers, failed saves and reloads    *)
(* leaves a file unwatched, or the wrong one watched, but a LoadFromFile   *)
(* that fails behind UnloadFile, until the next save, reload or load.      *)
THEOREM AlwaysListening == Spec => []NextChangeIsSeen
  <1>1. Init => MInv
    BY InitMInv
  <1>2. MInv /\ [Next]_vars => MInv'
    BY NextMInv
  <1>3. MInv => NextChangeIsSeen
    <2>1. Quiet => Unheard
      BY DEF Quiet, Unheard, NoAlert
    <2>2. QED
      BY <2>1 DEF MInv, Attentive, NextChangeIsSeen
  <1>4. QED
    BY <1>1, <1>2, <1>3, PTL DEF Spec

(* When all is quiet and the last save, load or reload went well, a buffer *)
(* shown as unmodified is what the file holds.                             *)
THEOREM UnmodifiedIsOnDisk == Spec => []SavePointIsOnDisk
  <1>1. Init => MInv
    BY InitMInv
  <1>2. MInv /\ [Next]_vars => MInv'
    BY NextMInv
  <1>3. MInv => SavePointIsOnDisk
    <2>1. Quiet => Unheard
      BY DEF Quiet, Unheard, NoAlert
    <2>2. QED
      BY <2>1 DEF MInv, OnDisk, SavePointIsOnDisk
  <1>4. QED
    BY <1>1, <1>2, <1>3, PTL DEF Spec

=============================================================================

---------------------------- MODULE ProjectTree ----------------------------
(***************************************************************************)
(* The tree of one project and the folder it shows (ui/ProjectBrowser.cpp).*)
(*                                                                         *)
(* A thread scans the folder entry by entry into the tree.  When it is     *)
(* done it starts the path monitor, whose events the window handles one    *)
(* after the other, later than what they tell.  An event holds paths; the  *)
(* item is looked up by what the path leads to when it is handled, that    *)
(* is by the directory's node and the name in it.                          *)
(*                                                                         *)
(* The folder holds directories, each of which may hold one file.          *)
(***************************************************************************)
EXTENDS Integers, Sequences, SequencesExt

CONSTANTS
    Dirs,           \* names a directory in the folder may have
    MaxNodes,       \* bound: directories made
    MaxEvents,      \* bound: events not handled yet
    MaxItems,       \* bound: items of the tree while the disk still changes
    MaxOpens        \* bound: times the project is opened

(* The bounds leave room for one directory.                                *)
ASSUME ProjectTreeAssumption ==
    MaxNodes \in Nat \ {0} /\ MaxEvents \in Nat /\ MaxItems \in Nat /\ MaxOpens \in Nat

Nothing == 0            \* no directory has the name
Nodes == 1 .. MaxNodes
NoRef == -1             \* an entry_ref that was never set

VARIABLES
    disk,           \* name -> the node of the directory, or Nothing
    holds,          \* the nodes with the file in them
    made,           \* nodes so far
    tree,           \* items: a directory's name and the nodes its files' refs name
    phase,          \* of the project
    opens,          \* times it was opened
    scanned,        \* names the scan has come by
    inside,         \* <<name, node>> of the directory the scan reads, or <<>>
    events,         \* events not handled yet
    blind,          \* something happened during the opening, and once the
                    \* monitor is started: the tree missed some of it
    renamedEarly,   \* a directory was renamed while events about either of
                    \* its names waited
    crashed         \* an item was to be added to a null parent

onDisk == <<disk, holds, made>>
scan == <<phase, opens, scanned, inside>>
ghosts == <<blind, renamedEarly>>
treeVars == <<onDisk, tree, scan, events, ghosts, crashed>>

Phases == {"closed", "scans", "listed", "open"}
Refs == Nodes \cup {NoRef}
Items == [name : Dirs, kids : Seq(Refs)]
Item(d, kids) == [name |-> d, kids |-> kids]
EventSet == [what : {"created", "removed", "renamed",
                     "file created", "file removed", "file moved"},
             dir : Dirs, to : Dirs]

FilesIn(node) == IF node \in holds THEN <<node>> ELSE <<>>

(* The tree shows what is on the disk, each entry once.                    *)
Matches ==
    /\ \A i, j \in DOMAIN tree : tree[i].name = tree[j].name => i = j
    /\ \A i \in DOMAIN tree :
           LET node == disk[tree[i].name]
           IN  node # Nothing /\ tree[i].kids = FilesIn(node)
    /\ \A d \in Dirs : disk[d] # Nothing => \E i \in DOMAIN tree : tree[i].name = d

ItemsShown == FoldLeft(LAMBDA n, item : n + 1 + Len(item.kids), 0, tree)

TreeInit ==
    /\ \/ disk = [d \in Dirs |-> Nothing] /\ made = 0
       \/ \E e \in Dirs : disk = [d \in Dirs |-> IF d = e THEN 1 ELSE Nothing] /\ made = 1
    /\ holds \in SUBSET (1 .. made)
    /\ tree = <<>> /\ phase = "closed" /\ opens = 0 /\ scanned = {} /\ inside = <<>>
    /\ events = <<>> /\ blind = FALSE /\ renamedEarly = FALSE /\ crashed = FALSE

-----------------------------------------------------------------------------
(* The disk.  Each change is told in one event if the folder is watched.   *)

Event(what, d, to) == [what |-> what, dir |-> d, to |-> to]
About(d) == {i \in DOMAIN events : d \in {events[i].dir, events[i].to}}

Tell(event) ==
    /\ Len(events) < MaxEvents /\ ItemsShown <= MaxItems
    /\ events' = IF phase = "open" THEN Append(events, event) ELSE events
    /\ blind' = (blind \/ phase \in {"scans", "listed"})
    /\ UNCHANGED <<tree, scan, crashed>>

(* A directory is made, or moved in with its file.                         *)
AddDir(d) ==
    /\ disk[d] = Nothing /\ made < MaxNodes
    /\ made' = made + 1
    /\ disk' = [disk EXCEPT ![d] = made']
    /\ holds' \in {holds, holds \cup {made'}}
    /\ Tell(Event("created", d, d))
    /\ UNCHANGED renamedEarly

(* A directory is removed, or moved out with its file.                     *)
RemoveDir(d) ==
    /\ disk[d] # Nothing
    /\ disk' = [disk EXCEPT ![d] = Nothing]
    /\ holds' = holds \ {disk[d]}
    /\ Tell(Event("removed", d, d))
    /\ UNCHANGED <<made, renamedEarly>>

RenameDir(d, e) ==
    /\ disk[d] # Nothing /\ disk[e] = Nothing
    /\ disk' = [disk EXCEPT ![d] = Nothing, ![e] = disk[d]]
    /\ Tell(Event("renamed", d, e))
    /\ renamedEarly' = (renamedEarly \/ About(d) \cup About(e) # {})
    /\ UNCHANGED <<holds, made>>

AddFile(d) ==
    /\ disk[d] # Nothing /\ disk[d] \notin holds
    /\ holds' = holds \cup {disk[d]}
    /\ Tell(Event("file created", d, d))
    /\ UNCHANGED <<disk, made, renamedEarly>>

RemoveFile(d) ==
    /\ disk[d] \in holds
    /\ holds' = holds \ {disk[d]}
    /\ Tell(Event("file removed", d, d))
    /\ UNCHANGED <<disk, made, renamedEarly>>

MoveFile(d, e) ==
    /\ disk[d] \in holds /\ disk[e] # Nothing /\ disk[e] \notin holds
    /\ holds' = (holds \ {disk[d]}) \cup {disk[e]}
    /\ Tell(Event("file moved", d, e))
    /\ UNCHANGED <<disk, made, renamedEarly>>

FolderChanges ==
    \/ \E d \in Dirs : AddDir(d) \/ RemoveDir(d) \/ AddFile(d) \/ RemoveFile(d)
    \/ \E d, e \in Dirs : RenameDir(d, e) \/ MoveFile(d, e)

-----------------------------------------------------------------------------
(* Opening and closing.                                                    *)

Open ==
    /\ phase = "closed" /\ opens < MaxOpens
    /\ phase' = "scans" /\ opens' = opens + 1 /\ scanned' = {} /\ inside' = <<>>
    /\ tree' = <<>> /\ blind' = FALSE
    /\ UNCHANGED <<onDisk, events, renamedEarly, crashed>>

(* GetNextRef comes by the name d: an item is added if it is there, and    *)
(* the directory is opened.                                                *)
ScanEntry(d) ==
    /\ phase = "scans" /\ inside = <<>> /\ d \notin scanned
    /\ scanned' = scanned \cup {d}
    /\ tree' = IF disk[d] = Nothing THEN tree ELSE Append(tree, Item(d, <<>>))
    /\ inside' = IF disk[d] = Nothing THEN <<>> ELSE <<d, disk[d]>>
    /\ UNCHANGED <<onDisk, phase, opens, events, ghosts, crashed>>

(* The directory is read.  An event of an earlier watch may have removed   *)
(* its item meanwhile, or added one of that name.                          *)
ScanInside ==
    /\ phase = "scans" /\ inside # <<>>
    /\ inside' = <<>>
    /\ LET items == {i \in DOMAIN tree : tree[i].name = inside[1]}
       IN  tree' = [i \in DOMAIN tree |->
                       IF i \in items /\ \A k \in items : k <= i
                       THEN Item(tree[i].name, tree[i].kids \o FilesIn(inside[2]))
                       ELSE tree[i]]
    /\ UNCHANGED <<onDisk, phase, opens, scanned, events, ghosts, crashed>>

ScanEnds ==
    /\ phase = "scans" /\ inside = <<>> /\ scanned = Dirs
    /\ phase' = "listed"
    /\ UNCHANGED <<onDisk, tree, opens, scanned, inside, events, ghosts, crashed>>

StartMonitor ==
    /\ phase = "listed"
    /\ phase' = "open"
    /\ blind' = ((blind /\ ~Matches) \/ events # <<>>)
    /\ renamedEarly' = FALSE
    /\ UNCHANGED <<onDisk, tree, opens, scanned, inside, events, crashed>>

(* ProjectFolderDepopulate: what is queued stays there.                    *)
Depopulate ==
    /\ phase = "open"
    /\ phase' = "closed" /\ tree' = <<>>
    /\ UNCHANGED <<onDisk, opens, scanned, inside, events, ghosts, crashed>>

-----------------------------------------------------------------------------
(* The handlers of the monitor's events.                                   *)

(* GetProjectItemByPath of a directory and of its file: the path must lead *)
(* to a node now, and an item must have that ref.  A place is an index of  *)
(* the tree, and of the kids of the item there.                            *)
DirItems(d) == {i \in DOMAIN tree : tree[i].name = d}
Places == UNION {{i} \X DOMAIN tree[i].kids : i \in DOMAIN tree}
FileItems(d) ==
    {p \in Places : disk[d] # Nothing /\ tree[p[1]].kids[p[2]] = disk[d]}

(* The items with other kids under the one at i.                           *)
WithKids(items, i, kids) == [items EXCEPT ![i] = Item(items[i].name, kids)]

(* _CreateItemForPath of a directory, which is scanned if it is there.     *)
CreateDir(d) ==
    \/ DirItems(d) # {} /\ UNCHANGED <<tree, crashed>>
    \/ /\ DirItems(d) = {} /\ phase # "closed"
       /\ tree' = Append(tree, Item(d, FilesIn(disk[d])))
       /\ UNCHANGED crashed
    \/ DirItems(d) = {} /\ phase = "closed" /\ crashed' = TRUE /\ UNCHANGED tree

(* Fault: that the path leads nowhere is not noticed.                      *)
CreateFileUnchecked(d, shown) ==
    \/ FileItems(d) # {} /\ tree' = shown /\ UNCHANGED crashed
    \/ /\ FileItems(d) = {} /\ DirItems(d) # {}
       /\ \E i \in DirItems(d) :
              tree' = WithKids(shown, i, Append(shown[i].kids, disk[d]))
       /\ UNCHANGED crashed
    \/ FileItems(d) = {} /\ DirItems(d) = {} /\ crashed' = TRUE /\ UNCHANGED tree

(* _CreateItemForPath of the file in d, into the tree as shown.  A path    *)
(* that leads nowhere any more gives an item without a ref.                *)
RefOf(d) == IF disk[d] = Nothing THEN NoRef ELSE disk[d]
CreateFile(d, shown) ==
    \/ FileItems(d) # {} /\ tree' = shown /\ UNCHANGED crashed
    \/ /\ FileItems(d) = {} /\ DirItems(d) # {}
       /\ \E i \in DirItems(d) :
              tree' = WithKids(shown, i, Append(shown[i].kids, RefOf(d)))
       /\ UNCHANGED crashed
    \/ FileItems(d) = {} /\ DirItems(d) = {} /\ crashed' = TRUE /\ UNCHANGED tree

(* _RemoveItemForPath: an item goes with the items under it.               *)
WithoutDir(d) ==
    IF DirItems(d) = {} THEN {tree} ELSE {RemoveAt(tree, i) : i \in DirItems(d)}
WithoutFile(d) ==
    IF FileItems(d) = {} THEN {tree}
    ELSE {WithKids(tree, p[1], RemoveAt(tree[p[1]].kids, p[2])) : p \in FileItems(d)}

Shows(what) ==
    /\ events # <<>> /\ Head(events).what = what
    /\ events' = Tail(events)
    /\ blind' = (blind \/ phase # "open")
    /\ UNCHANGED <<onDisk, scan, renamedEarly>>

EntryCreated ==
    \/ Shows("created") /\ CreateDir(Head(events).dir)
    \/ Shows("file created") /\ CreateFile(Head(events).dir, tree)

EntryRemoved ==
    /\ \/ Shows("removed") /\ tree' \in WithoutDir(Head(events).dir)
       \/ Shows("file removed") /\ tree' \in WithoutFile(Head(events).dir)
    /\ UNCHANGED crashed

(* Fault: a renamed entry is taken for one that was moved out.             *)
RenameRemovesItem ==
    /\ Shows("renamed")
    /\ tree' \in WithoutDir(Head(events).dir)
    /\ UNCHANGED crashed

(* _HandleEntryMoved within one directory: the item gets the new name, and *)
(* its children keep their refs.                                           *)
Renamed ==
    /\ Shows("renamed")
    /\ LET d == Head(events).dir
       IN  \/ DirItems(d) = {} /\ UNCHANGED tree
           \/ \E i \in DirItems(d) :
                  tree' = [tree EXCEPT ![i] = Item(Head(events).to, tree[i].kids)]
    /\ UNCHANGED crashed

(* Fault: the item of the old path stays.                                  *)
MovedCopies ==
    /\ Shows("file moved")
    /\ CreateFile(Head(events).to, tree)

(* _HandleEntryMoved from one directory to another.                        *)
Moved ==
    /\ Shows("file moved")
    /\ \E shown \in WithoutFile(Head(events).dir) : CreateFile(Head(events).to, shown)

HandleEvent == EntryCreated \/ EntryRemoved \/ Renamed \/ Moved

TreeNext ==
    /\ ~crashed
    /\ \/ FolderChanges \/ HandleEvent \/ Open \/ Depopulate
       \/ ScanEnds \/ StartMonitor \/ ScanInside \/ \E d \in Dirs : ScanEntry(d)

TreeSpec == TreeInit /\ [][TreeNext]_treeVars

-----------------------------------------------------------------------------
(* Properties.                                                             *)

TreeTypeOK ==
    /\ disk \in [Dirs -> Nodes \cup {Nothing}] /\ holds \subseteq Nodes
    /\ made \in 0 .. MaxNodes
    /\ tree \in Seq(Items)
    /\ phase \in Phases /\ opens \in 0 .. MaxOpens /\ scanned \subseteq Dirs
    /\ inside \in {<<>>} \cup (Dirs \X Nodes)
    /\ events \in Seq(EventSet)
    /\ blind \in BOOLEAN /\ renamedEarly \in BOOLEAN /\ crashed \in BOOLEAN

(* When every event is handled the tree of an open project shows what is   *)
(* on the disk, in spite of the events being handled late and by paths     *)
(* that may lead elsewhere by then.  Two things break it for good: what    *)
(* changed between the scan and the start of the monitor, and a directory  *)
(* renamed while events about it waited.                                   *)
SettledTreeIsDisk ==
    phase = "open" /\ events = <<>> /\ ~blind /\ ~renamedEarly /\ ~crashed => Matches

(* An event never finds its parent item missing, except after the project  *)
(* was closed with events left, or when the tree missed something before   *)
(* the monitor was started.                                                *)
ParentIsThere == crashed => phase # "open" \/ blind
=============================================================================

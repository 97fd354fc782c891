----------------------------- MODULE PanelTabs -----------------------------
(***************************************************************************)
(* The panels of the window: src/src/ui/PanelTabManager.cpp over the tab   *)
(* views of src/src/helpers/gtab.                                          *)
(*                                                                         *)
(* Each tab view keeps its tabs in a TabsContainer and the panels          *)
(* themselves in a card view, and finds one from the other by index.  A    *)
(* closed panel waits in a tab view that is never shown, and remembers the *)
(* group it came from.  Showing and closing a panel are messages to the    *)
(* view that held the panel when the message was made: by the Panels menu, *)
(* filled when it opens, or by a handler of the window that wants a panel  *)
(* in front (ShowTab).  The window's queue lies between the two.           *)
(*                                                                         *)
(* Everything here runs in the window's thread; an action is the handling  *)
(* of one message or of one gesture of the user.  Sizes, scrolling of the  *)
(* tab strip and drawing are left out.  Which group is visible is set at   *)
(* will (SetShown): it stands for the settings, the View menu and the full *)
(* screen and focus modes, which all end in ShowPanelTabView.              *)
(***************************************************************************)
EXTENDS Integers, Sequences, SequencesExt

CONSTANTS
    Groups,     \* the tab views that can be shown: bottom, left and right
    Bottom,     \* kTabViewBottom
    Hidden,     \* kTabViewHidden, the tab view of the closed panels
    NoView,     \* an empty previous owner
    AddOrder,   \* the panels, in the order _InitTabViews adds them
    DefaultGroup, \* DefaultConfig: the group of each panel
    NoPanel,    \* a null tab
    MaxQueue,   \* bound: messages that wait in the window's queue
    UseExposed  \* bound: does the user go on while the closed panels' view
                \* is shown, or only restart

ASSUME PanelTabsAssumption ==
    /\ Bottom \in Groups
    /\ Hidden \notin Groups
    /\ NoView \notin Groups \cup {Hidden}
    /\ AddOrder \in Seq(ToSet(AddOrder)) /\ IsInjective(AddOrder)
    /\ DefaultGroup \in [ToSet(AddOrder) -> Groups]
    /\ NoPanel \notin ToSet(AddOrder)
    /\ MaxQueue \in Nat \ {0}
    /\ UseExposed \in BOOLEAN

Panels == ToSet(AddOrder)

Views == Groups \cup {Hidden}

VARIABLES
    layout,     \* view -> its tabs, its cards, the tab in front, the visible card
    shown,      \* the views that are not IsHidden()
    owner,      \* the PreviousOwner of each panel's tab
    menu,       \* the items of the open Panels menu, {} when it is closed
    queue,      \* show and close messages on their way to a tab view
    crashed     \* a null tab was dereferenced

vars == <<layout, shown, owner, menu, queue, crashed>>

-----------------------------------------------------------------------------
(* A tab view t: TabsContainer and GTabView.  Positions count from 1.      *)

PosOf(s, e) == CHOOSE i \in 1 .. Len(s) : s[i] = e

Holds(t, p) == \E i \in 1 .. Len(t.tabs) : t.tabs[i] = p

(* SelectTab shows the card that has the tab's index.                      *)
Select(t, p) == [t EXCEPT !.front = p, !.visible = t.cards[PosOf(t.tabs, p)]]

(* RemoveTab brings a neighbour to the front when the front tab goes.      *)
RemoveTab(t, p) ==
    LET i == PosOf(t.tabs, p)
        rest == RemoveAt(t.tabs, i)
        t1 == [t EXCEPT !.tabs = rest]
    IN  IF t.front # p THEN t1
        ELSE IF rest = <<>> THEN [t1 EXCEPT !.front = NoPanel]
        ELSE Select(t1, rest[IF i > Len(rest) THEN Len(rest) ELSE i])

(* The card view drops the card; a card that was visible leaves none.      *)
RemoveCard(t, i) ==
    [t EXCEPT !.cards = RemoveAt(@, i),
              !.visible = IF @ = t.cards[i] THEN NoPanel ELSE @]

(* Fault: the card is added without the index.                             *)
AddTabCardLast(t, p, card, index) ==
    LET n == Len(t.tabs)
        i == IF index = 0 \/ index > n + 1 THEN n + 1 ELSE index
        t1 == [t EXCEPT !.cards = Append(@, card), !.tabs = InsertAt(@, i, p)]
    IN  IF n = 0 THEN Select(t1, p) ELSE t1

(* AddTab puts card and tab at one index, the end if it is beyond it, and  *)
(* selects the first tab of a view.                                        *)
AddTab(t, p, card, index) ==
    LET n == Len(t.tabs)
        i == IF index = 0 \/ index > n + 1 THEN n + 1 ELSE index
        t1 == [t EXCEPT !.cards = InsertAt(@, i, card), !.tabs = InsertAt(@, i, p)]
    IN  IF n = 0 THEN Select(t1, p) ELSE t1

-----------------------------------------------------------------------------
(* A layout L: the tab views.                                              *)

HasTab(L, v, p) == Holds(L[v], p)

HolderOf(L, p) == CHOOSE v \in Views : HasTab(L, v, p)

(* The tab p goes from one view to another, with the card at its index.    *)
Give(L, from, to, p, toIndex) ==
    LET i == PosOf(L[from].tabs, p)
        L1 == [L EXCEPT ![from] = RemoveTab(RemoveCard(@, i), p)]
    IN  [L1 EXCEPT ![to] = Select(AddTab(@, p, L[from].cards[i], toIndex), p)]

(* Fault: with no tab to drop on, the moved tab comes first.               *)
MoveTabsFirst(L, from, to, p, toTab) ==
    Give(L, from, to, p,
         IF toTab = NoPanel THEN 1 ELSE PosOf(L[to].tabs, toTab))

(* MoveTabs of the view "to": the tab comes at the index toTab had, or at  *)
(* the end.                                                                *)
MoveTabs(L, from, to, p, toTab) ==
    LET n == Len(L[to].tabs)
    IN  Give(L, from, to, p,
             IF toTab # NoPanel THEN PosOf(L[to].tabs, toTab)
             ELSE IF from = to THEN n ELSE n + 1)

-----------------------------------------------------------------------------
(* The settings: SaveTabsConfiguration writes group, previous owner, index *)
(* and "in front" of every tab; AddPanelByConfig reads them back, one      *)
(* panel at a time in the order of _InitTabViews.  A panel that was not    *)
(* saved goes to the end of its default group.                             *)

EmptyView == [tabs |-> <<>>, cards |-> <<>>, front |-> NoPanel, visible |-> NoPanel]

NoTabs == [v \in Views |-> EmptyView]

AddPanelByDefault(L, p) ==
    [L EXCEPT ![DefaultGroup[p]] = AddTab(@, p, p, 0)]

AddPanelByConfig(saved, L, p) ==
    LET v == HolderOf(saved, p)
        t == AddTab(L[v], p, p, PosOf(saved[v].tabs, p))
    IN  IF \A w \in Views : ~HasTab(saved, w, p)
        THEN AddPanelByDefault(L, p)
        ELSE [L EXCEPT ![v] = IF saved[v].front = p THEN Select(t, p) ELSE t]

InitTabViews(saved) ==
    LET after[n \in 0 .. Len(AddOrder)] ==
            IF n = 0 THEN NoTabs
            ELSE AddPanelByConfig(saved, after[n - 1], AddOrder[n])
    IN  after[Len(AddOrder)]

Init ==
    /\ layout = InitTabViews(NoTabs)
    /\ \E g \in SUBSET Groups : shown = g
    /\ owner = [p \in Panels |-> NoView]
    /\ menu = {}
    /\ queue = <<>>
    /\ crashed = FALSE

-----------------------------------------------------------------------------
(* Messages.  "about" is the panel the sender meant; "fresh" says that,    *)
(* when the message was sent, the panel was in the view it is sent to and  *)
(* nothing else about the panel was waiting.  The code reads neither for a *)
(* close, whose target is an index.                                        *)

Fresh(v, p) ==
    /\ HasTab(layout, v, p)
    /\ \A i \in 1 .. Len(queue) : queue[i].about # p

ShowMessage(v, p, selected) ==
    [kind |-> "Show", view |-> v, about |-> p, index |-> 0,
     selected |-> selected, fresh |-> Fresh(v, p)]

CloseMessage(v, p, index) ==
    [kind |-> "Close", view |-> v, about |-> p, index |-> index,
     selected |-> FALSE, fresh |-> Fresh(v, p)]

(* FillPanelsMenu: a closed panel's item shows it, the others close.       *)
MenuItems ==
    UNION { { [view |-> v, about |-> layout[v].tabs[i], index |-> i,
               selected |-> layout[v].front = layout[v].tabs[i]] :
              i \in 1 .. Len(layout[v].tabs) } : v \in Views }

(* Input is handled in order: a gesture comes after what the previous one  *)
(* sent.  The user's messages are the closes and the shows of the menu.    *)
UserIsFree ==
    /\ ~crashed
    /\ menu = {}
    /\ \A i \in 1 .. Len(queue) : queue[i].kind # "Close"

MenusBeginning ==
    /\ UserIsFree
    /\ menu' = MenuItems
    /\ UNCHANGED <<layout, shown, owner, queue, crashed>>

Choose(item) ==
    /\ ~crashed
    /\ item \in menu
    /\ Len(queue) < MaxQueue
    /\ menu' = {}
    /\ queue' = Append(queue,
           IF item.view = Hidden
           THEN ShowMessage(Hidden, item.about, item.selected)
           ELSE CloseMessage(item.view, item.about, item.index))
    /\ UNCHANGED <<layout, shown, owner, crashed>>

MenusEnded ==
    /\ ~crashed
    /\ menu # {}
    /\ menu' = {}
    /\ UNCHANGED <<layout, shown, owner, queue, crashed>>

(* ShowTab: a handler of the window (a build, a run, a search, an opened   *)
(* project, the AI command) asks the view that holds the panel; two of     *)
(* them show a group first.                                                *)
ShowTab(p, g) ==
    /\ ~crashed
    /\ Len(queue) < MaxQueue
    /\ queue' = Append(queue, ShowMessage(HolderOf(layout, p), p, FALSE))
    /\ shown' = shown \cup (g \ {Hidden})
    /\ UNCHANGED <<layout, owner, menu, crashed>>

-----------------------------------------------------------------------------
(* The tab view receives a message.                                        *)

(* Fault: the tab moves first and its clone keeps the owner it had.        *)
HandleCloseForgetsOwner(m) ==
    /\ queue' = Tail(queue)
    /\ layout' = IF m.index <= Len(layout[m.view].tabs)
                 THEN MoveTabs(layout, m.view, Hidden,
                               layout[m.view].tabs[m.index], NoPanel)
                 ELSE layout
    /\ UNCHANGED <<shown, owner, menu, crashed>>

(* Fault: the owner is the view the tab moves to.                          *)
HandleCloseNamesHidden(m) ==
    /\ queue' = Tail(queue)
    /\ LET tab == layout[m.view].tabs[m.index]
       IN  /\ owner' = [owner EXCEPT ![tab] = Hidden]
           /\ layout' = MoveTabs(layout, m.view, Hidden, tab, NoPanel)
    /\ UNCHANGED <<shown, menu, crashed>>

(* kTVCloseTab: the tab at the message's index, whichever it is by now.    *)
HandleClose(m) ==
    /\ queue' = Tail(queue)
    /\ IF m.index <= Len(layout[m.view].tabs)
       THEN LET tab == layout[m.view].tabs[m.index]
            IN  /\ owner' = [owner EXCEPT ![tab] = m.view]
                /\ layout' = MoveTabs(layout, m.view, Hidden, tab, NoPanel)
       ELSE UNCHANGED <<owner, layout>>
    /\ UNCHANGED <<shown, menu, crashed>>

(* ShowPanelByTab shows the view that holds the panel, whichever it is,    *)
(* and selects the panel.                                                  *)
ShowPanelByTab(L, p) ==
    /\ layout' = [L EXCEPT ![HolderOf(L, p)] = Select(@, p)]
    /\ shown' = shown \cup {HolderOf(L, p)}

(* kShowPanelMessage: the hidden view first gives the panel back, unless   *)
(* the panel has no previous owner; it does not ask whether it has the     *)
(* panel at all.                                                           *)
HandleShow(m) ==
    LET p == m.about
        ignored == \/ m.view \in shown /\ m.selected
                   \/ /\ m.view = Hidden
                      /\ HasTab(layout, Hidden, p)
                      /\ owner[p] = NoView
    IN  /\ queue' = Tail(queue)
        /\ UNCHANGED menu
        /\ \/ /\ ignored
              /\ UNCHANGED <<layout, shown, owner, crashed>>
           \/ /\ ~ignored
              /\ m.view # Hidden
              /\ ShowPanelByTab(layout, p)
              /\ UNCHANGED <<owner, crashed>>
           \/ /\ ~ignored
              /\ m.view = Hidden
              /\ ~HasTab(layout, Hidden, p)
              /\ crashed' = TRUE
              /\ UNCHANGED <<layout, shown, owner>>
           \/ /\ ~ignored
              /\ m.view = Hidden
              /\ HasTab(layout, Hidden, p)
              /\ owner' = [owner EXCEPT ![p] = NoView]
              /\ ShowPanelByTab(
                     MoveTabs(layout, Hidden, owner[p], p, NoPanel), p)
              /\ UNCHANGED crashed

Receive ==
    /\ ~crashed
    /\ queue # <<>>
    /\ LET m == Head(queue)
       IN  \/ m.kind = "Close" /\ HandleClose(m)
           \/ m.kind = "Show" /\ HandleShow(m)

-----------------------------------------------------------------------------
(* Gestures on a visible tab view, and its visibility.                     *)

ClickTab(v, p) ==
    /\ UserIsFree
    /\ v \in shown
    /\ HasTab(layout, v, p)
    /\ layout' = [layout EXCEPT ![v] = Select(@, p)]
    /\ UNCHANGED <<shown, owner, menu, queue, crashed>>

(* OnDropTab: a tab is dragged onto another one, or onto the cards or the  *)
(* empty part of a strip.  The new tab is a clone, with the same owner.    *)
DropTab(from, to, p, toTab) ==
    /\ UserIsFree
    /\ from \in shown
    /\ to \in shown
    /\ HasTab(layout, from, p)
    /\ toTab # p
    /\ toTab = NoPanel \/ HasTab(layout, to, toTab)
    /\ layout' = MoveTabs(layout, from, to, p, toTab)
    /\ UNCHANGED <<shown, owner, menu, queue, crashed>>

(* ShowPanelTabView, called for the groups only.                           *)
SetShown(g, show) ==
    /\ ~crashed
    /\ shown' = IF show THEN shown \cup {g} ELSE shown \ {g}
    /\ shown' # shown
    /\ UNCHANGED <<layout, owner, menu, queue, crashed>>

(* QuitRequested saves, the next start loads.  A panel found among the     *)
(* closed ones without a previous owner is given the bottom group.         *)
Restart ==
    /\ UserIsFree
    /\ layout' = InitTabViews(layout)
    /\ owner' = [p \in Panels |->
                   IF HasTab(layout, Hidden, p) /\ owner[p] = NoView
                   THEN Bottom ELSE owner[p]]
    /\ shown' = shown \ {Hidden}
    /\ queue' = <<>>
    /\ UNCHANGED <<menu, crashed>>

Use ==
    \/ MenusBeginning
    \/ \E item \in menu : Choose(item)
    \/ \E p \in Panels, g \in {{}, {Bottom}} : ShowTab(p, g)
    \/ \E v \in Views, p \in Panels : ClickTab(v, p)
    \/ \E from, to \in Views, p \in Panels, toTab \in Panels \cup {NoPanel} :
           DropTab(from, to, p, toTab)
    \/ \E g \in Groups, show \in BOOLEAN : SetShown(g, show)

Next ==
    \/ (Hidden \in shown => UseExposed) /\ Use
    \/ MenusEnded
    \/ Receive
    \/ Restart

Spec == Init /\ [][Next]_vars

-----------------------------------------------------------------------------
(* Types.  Every panel has one tab, in one view.                           *)
TypeOK ==
    /\ \A v \in Views :
          /\ \A i \in 1 .. Len(layout[v].tabs) : layout[v].tabs[i] \in Panels
          /\ layout[v].front \in Panels \cup {NoPanel}
          /\ layout[v].visible \in Panels \cup {NoPanel}
    /\ \A p \in Panels :
          \E v \in Views : \E i \in 1 .. Len(layout[v].tabs) :
              /\ layout[v].tabs[i] = p
              /\ \A w \in Views : \A j \in 1 .. Len(layout[w].tabs) :
                     layout[w].tabs[j] = p => w = v /\ j = i
    /\ shown \subseteq Views
    /\ owner \in [Panels -> Groups \cup {NoView}]
    /\ Len(queue) <= MaxQueue
    /\ crashed \in BOOLEAN

(* Tabs and cards are two lists that are matched by index.  Whatever is    *)
(* moved, closed and shown, they hold the same panels in the same order,   *)
(* and a view that has tabs shows the card of the tab in front, so that    *)
(* the panel the user sees is the one whose tab is lit.                    *)
CardsFollowTabs ==
    \A v \in Views :
        /\ layout[v].cards = layout[v].tabs
        /\ layout[v].visible = layout[v].front
        /\ layout[v].front = NoPanel <=> layout[v].tabs = <<>>

(* A closed panel can come back: it remembers the group it came from, and  *)
(* without one showing it would do nothing.  True as long as the view of   *)
(* the closed panels is not shown.                                         *)
ClosedCanReturn ==
    Hidden \notin shown =>
        \A p \in Panels : HasTab(layout, Hidden, p) => owner[p] \in Groups

(* A panel among the closed ones has a previous owner.  AddPanelByConfig   *)
(* says of a panel that has none: "This should never happen".              *)
ClosedHasOwner ==
    \A p \in Panels : HasTab(layout, Hidden, p) => owner[p] \in Groups

(* What a message asks is what its handling does, however late it comes,   *)
(* if it was sent to the view that held the panel and nothing else about   *)
(* that panel was waiting: a show ends with the panel in front of a        *)
(* visible group, a close with the panel among the closed ones, though a   *)
(* close only has an index; and the closed panels' view stays hidden.      *)
AskedIsDone ==
    [][Receive /\ Head(queue).fresh /\ Hidden \notin shown =>
         LET m == Head(queue)
             v == HolderOf(layout', m.about)
         IN  /\ ~crashed'
             /\ Hidden \notin shown'
             /\ m.kind = "Close" => v = Hidden
             /\ m.kind = "Show" => /\ v \in Groups \cap shown'
                                   /\ layout'[v].front = m.about]_vars

=============================================================================

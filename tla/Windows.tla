------------------------------- MODULE Windows -------------------------------
(* The floating windows of the play page: the store (client/src/state/         *)
(* ui.svelte.ts) and the TabbedWindow component mounted for every group.       *)
(* Every component listens to the mouse on the whole browser window, so one    *)
(* mouse event is a series of handlers, in the order the components mounted.   *)
(* Coordinates are left out: where the cursor is decides only which header it  *)
(* is over and whether a tab was pulled far enough, and both are any outcome.  *)
EXTENDS Integers, FiniteSets, SequencesExt

CONSTANTS MaxSeq,      \* bound: ids handed out by nextSeq
          MaxZ,        \* bound: the highest zIndex given
          MaxLost      \* bound: releases of the mouse that no listener hears

ASSUME WindowsAssumption == MaxSeq \in Nat /\ MaxZ \in Nat /\ MaxLost \in Nat

VARIABLES openWindows,        \* the ids of the windows with metadata
          windowGroups,       \* group id -> its zIndex, activeTabId and tabs
          windowGroupMap,     \* window id -> group id
          nextSeq,
          dropTargetGroupId,  \* a group id, or None
          local,              \* group id -> the state of its component
          event,              \* the mouse event being delivered and its listeners still to run
          pressed,            \* the primary button is held
          lost                \* releases lost so far

winVars == <<openWindows, windowGroups, windowGroupMap, nextSeq,
             dropTargetGroupId, local, event, pressed, lost>>

None == 0    \* ids start at 1
NoEvent == [type |-> "none", left |-> {}]
Fresh == [isDragging |-> FALSE, isResizing |-> FALSE, tabDragWindowId |-> None,
          menuOpen |-> FALSE, menuTab |-> None]

Tabs(g) == windowGroups[g].tabs

(* filter(id => id !== x): what is left keeps its order.                       *)
Without(seq, x) ==
  LET kept[i \in 0..Len(seq)] == IF i = 0 THEN << >>
                                 ELSE IF seq[i] = x THEN kept[i - 1] ELSE Append(kept[i - 1], seq[i])
  IN kept[Len(seq)]

Drop(f, k) == [x \in DOMAIN f \ {k} |-> f[x]]
Put(f, k, v) == [x \in DOMAIN f \cup {k} |-> IF x = k THEN v ELSE f[x]]

getMaxZIndex(groups) == Max({0} \cup {groups[g].zIndex : g \in DOMAIN groups})
CanRaise == getMaxZIndex(windowGroups) + 2 <= MaxZ

(* A component lives as long as its group is listed; a new one starts afresh.  *)
Mounted(loc, groups) == [g \in DOMAIN groups |-> IF g \in DOMAIN loc THEN loc[g] ELSE Fresh]
Here(g, field, value) == [local EXCEPT ![g][field] = value]

Quiet == event = NoEvent

------------------------------------------------------------------------------
(* The methods of the store, on a value of windowGroups.                       *)

Raised(groups, g) == [groups EXCEPT ![g].zIndex = getMaxZIndex(groups) + 1]

(* The tab next to the closed one becomes active if the closed one was.        *)
TabGone(group, w) ==
  LET rest == Without(group.tabs, w)
      index == CHOOSE i \in DOMAIN group.tabs : group.tabs[i] = w
  IN [group EXCEPT !.tabs = rest,
                   !.activeTabId = IF @ # w THEN @
                                   ELSE rest[IF index <= Len(rest) THEN index ELSE Len(rest)]]

Leaves(groups, g, w) ==
  IF Tabs(g) = <<w>> THEN Drop(groups, g)
  ELSE [groups EXCEPT ![g] = TabGone(@, w)]

Merged(groups, source, target) ==
  [Drop(groups, source) EXCEPT ![target].tabs = @ \o groups[source].tabs]

(* A plausible bug: the window dragged is not told apart from its target.      *)
mergeGroupsAnyTarget(source, target) ==
  IF target \notin DOMAIN windowGroups THEN UNCHANGED <<windowGroups, windowGroupMap>>
  ELSE /\ windowGroups' = Merged(windowGroups, source, target)
       /\ windowGroupMap' = [w \in DOMAIN windowGroupMap |->
                               IF windowGroupMap[w] = source THEN target ELSE windowGroupMap[w]]

mergeGroups(source, target) ==
  IF source = target \/ target \notin DOMAIN windowGroups
  THEN UNCHANGED <<windowGroups, windowGroupMap>>
  ELSE /\ windowGroups' = Merged(windowGroups, source, target)
       /\ windowGroupMap' = [w \in DOMAIN windowGroupMap |->
                               IF windowGroupMap[w] = source THEN target ELSE windowGroupMap[w]]

Alone(w, z) == [zIndex |-> z, activeTabId |-> w, tabs |-> <<w>>]

(* detachTab: the tab leaves its group for a new one on top.                   *)
detachTab(w) ==
  LET rest == Leaves(windowGroups, windowGroupMap[w], w)
      new  == nextSeq + 1
  IN /\ windowGroups' = Put(rest, new, Alone(w, getMaxZIndex(rest) + 1))
     /\ windowGroupMap' = [windowGroupMap EXCEPT ![w] = new]
     /\ nextSeq' = new

CanDetach(w) == nextSeq < MaxSeq /\ CanRaise /\ w \in DOMAIN windowGroupMap
------------------------------------------------------------------------------
(* A click on an actor's pill or in the toolbar opens a window on top.         *)
OpenWindow ==
  LET w == nextSeq + 1
      g == nextSeq + 2
  IN /\ Quiet /\ g <= MaxSeq /\ CanRaise
     /\ nextSeq' = g
     /\ openWindows' = openWindows \cup {w}
     /\ windowGroups' = Put(windowGroups, g, Alone(w, getMaxZIndex(windowGroups) + 1))
     /\ windowGroupMap' = Put(windowGroupMap, w, g)
     /\ local' = Mounted(local, windowGroups')
     /\ UNCHANGED <<dropTargetGroupId, event, pressed, lost>>

(* The close button of a tab or of the title bar, by mouse or by keyboard; the *)
(* keyboard works while the mouse is dragging.                                 *)
CloseTab(w) ==
  /\ Quiet /\ w \in DOMAIN windowGroupMap
  /\ windowGroups' = Leaves(windowGroups, windowGroupMap[w], w)
  /\ windowGroupMap' = Drop(windowGroupMap, w)
  /\ openWindows' = openWindows \ {w}
  /\ local' = Mounted(local, windowGroups')
  /\ UNCHANGED <<nextSeq, dropTargetGroupId, event, pressed, lost>>

SetActiveTab(g, w) ==
  /\ Quiet /\ Len(Tabs(g)) > 1 /\ w \in ToSet(Tabs(g))
  /\ windowGroups' = [windowGroups EXCEPT ![g].activeTabId = w]
  /\ UNCHANGED <<openWindows, windowGroupMap, nextSeq, dropTargetGroupId, local, event, pressed, lost>>

(* Pressing on a header, a resize handle or the body raises the group; on a    *)
(* tab of a strip it only remembers the tab.                                   *)
Press(g, loc) ==
  /\ Quiet /\ ~pressed /\ CanRaise
  /\ pressed' = TRUE
  /\ local' = loc
  /\ windowGroups' = Raised(windowGroups, g)
  /\ UNCHANGED <<openWindows, windowGroupMap, nextSeq, dropTargetGroupId, event, lost>>

HeaderMouseDown(g) == Press(g, Here(g, "isDragging", TRUE))
ResizeMouseDown(g) == Press(g, Here(g, "isResizing", TRUE))
WindowMouseDown(g) == Press(g, local)

TabMouseDown(g, w) ==
  /\ Quiet /\ ~pressed
  /\ Len(Tabs(g)) > 1 /\ w \in ToSet(Tabs(g))
  /\ pressed' = TRUE
  /\ local' = Here(g, "tabDragWindowId", w)
  /\ UNCHANGED <<openWindows, windowGroups, windowGroupMap, nextSeq, dropTargetGroupId, event, lost>>

------------------------------------------------------------------------------
(* A move or a release of the mouse is heard by every component in turn; a     *)
(* component mounted meanwhile does not hear it, and one unmounted no longer.  *)
Deliver(type) == event' = [type |-> type, left |-> DOMAIN windowGroups]

Listening(type, g) ==
  /\ event.type = type /\ event.left # {}
  /\ g = Min(event.left)

Heard(g) ==
  LET left == (event.left \ {g}) \cap DOMAIN windowGroups'
  IN event' = IF left = {} THEN NoEvent ELSE [event EXCEPT !.left = left]

(* Only moves that some component reacts to are worth a series of handlers.    *)
MouseMoves ==
  /\ Quiet
  /\ \E g \in DOMAIN local : local[g].isDragging \/ local[g].tabDragWindowId # None
  /\ Deliver("move")
  /\ UNCHANGED <<openWindows, windowGroups, windowGroupMap, nextSeq, dropTargetGroupId, local, pressed, lost>>

MouseReleased ==
  /\ Quiet /\ pressed
  /\ pressed' = FALSE
  /\ IF DOMAIN windowGroups = {} THEN UNCHANGED event ELSE Deliver("up")
  /\ UNCHANGED <<openWindows, windowGroups, windowGroupMap, nextSeq, dropTargetGroupId, local, lost>>

(* The button comes up where the page does not hear it (another application,   *)
(* a dialog of the browser).                                                   *)
ReleaseLost ==
  /\ Quiet /\ pressed /\ lost < MaxLost
  /\ pressed' = FALSE
  /\ lost' = lost + 1
  /\ UNCHANGED <<openWindows, windowGroups, windowGroupMap, nextSeq, dropTargetGroupId, local, event>>

(* A tab pulled past the threshold is detached, and the component of its new   *)
(* group takes over the drag (pendingDragCapture) when it mounts, before the   *)
(* next listener runs.                                                         *)
PullTab(g) ==
  LET w   == local[g].tabDragWindowId
      new == nextSeq + 1
      z   == getMaxZIndex(Leaves(windowGroups, windowGroupMap[w], w)) + 2
  IN /\ CanDetach(w)
     /\ windowGroups' = Put(Leaves(windowGroups, windowGroupMap[w], w), new, Alone(w, z))
     /\ windowGroupMap' = [windowGroupMap EXCEPT ![w] = new]
     /\ nextSeq' = new
     /\ local' = [Mounted(Here(g, "tabDragWindowId", None), windowGroups')
                    EXCEPT ![new].isDragging = TRUE]
     /\ UNCHANGED dropTargetGroupId

(* The tab was closed by keyboard while it was pulled: detachTab returns null. *)
PullClosedTab(g) ==
  /\ local[g].tabDragWindowId \notin DOMAIN windowGroupMap
  /\ local' = Here(g, "tabDragWindowId", None)
  /\ UNCHANGED <<windowGroups, windowGroupMap, nextSeq, dropTargetGroupId>>

TracksTab(g) == local[g].tabDragWindowId # None /\ ~local[g].isDragging

(* findDropTarget: the header under the cursor, never the component's own.     *)
DropTargets(g) == {None} \cup (DOMAIN windowGroups \ {g})

WindowMouseMove(g) ==
  /\ Listening("move", g)
  /\ \/ /\ ~local[g].isResizing /\ TracksTab(g)
        /\ PullTab(g) \/ PullClosedTab(g)
     \/ /\ ~local[g].isResizing /\ ~TracksTab(g) /\ local[g].isDragging
        /\ dropTargetGroupId' \in DropTargets(g)
        /\ UNCHANGED <<windowGroups, windowGroupMap, nextSeq, local>>
     \/ /\ local[g].isResizing \/ TracksTab(g) \/ ~local[g].isDragging
        /\ UNCHANGED <<windowGroups, windowGroupMap, nextSeq, dropTargetGroupId, local>>
  /\ Heard(g)
  /\ UNCHANGED <<openWindows, pressed, lost>>

(* A resize ends first; otherwise a drag ends on its target or where it is.    *)
WindowMouseUp(g) ==
  LET still == Here(g, "tabDragWindowId", None)
  IN /\ Listening("up", g)
     /\ \/ /\ local[g].isResizing
           /\ local' = [still EXCEPT ![g].isResizing = FALSE]
           /\ UNCHANGED <<windowGroups, windowGroupMap, dropTargetGroupId>>
        \/ /\ ~local[g].isResizing /\ ~local[g].isDragging
           /\ local' = still
           /\ UNCHANGED <<windowGroups, windowGroupMap, dropTargetGroupId>>
        \/ /\ ~local[g].isResizing /\ local[g].isDragging
           /\ mergeGroups(g, dropTargetGroupId)
           /\ dropTargetGroupId' = None
           /\ local' = Mounted([still EXCEPT ![g].isDragging = FALSE], windowGroups')
     /\ Heard(g)
     /\ UNCHANGED <<openWindows, nextSeq, pressed, lost>>

(* Escape reaches every component: menus, pulls, resizes and drags end.        *)
Escape ==
  /\ Quiet
  /\ local' = [g \in DOMAIN local |-> Fresh]
  /\ dropTargetGroupId' = IF \E g \in DOMAIN local : local[g].isDragging THEN None
                          ELSE dropTargetGroupId
  /\ UNCHANGED <<openWindows, windowGroups, windowGroupMap, nextSeq, event, pressed, lost>>

------------------------------------------------------------------------------
(* The menu of a header or of a tab. It stays open until a click elsewhere, so *)
(* what it was opened for may be gone when an item is chosen.                  *)
OpenMenu(g, w) ==
  /\ Quiet
  /\ w = None \/ (Len(Tabs(g)) > 1 /\ w \in ToSet(Tabs(g)))
  /\ local' = [local EXCEPT ![g].menuOpen = TRUE, ![g].menuTab = w]
  /\ UNCHANGED <<openWindows, windowGroups, windowGroupMap, nextSeq, dropTargetGroupId, event, pressed, lost>>

ClickElsewhere ==
  /\ Quiet
  /\ local' = [g \in DOMAIN local |-> [local[g] EXCEPT !.menuOpen = FALSE, !.menuTab = None]]
  /\ UNCHANGED <<openWindows, windowGroups, windowGroupMap, nextSeq, dropTargetGroupId, event, pressed, lost>>

MenuClosed(g) == [local EXCEPT ![g].menuOpen = FALSE, ![g].menuTab = None]

MenuMerge(g, target) ==
  /\ Quiet /\ local[g].menuOpen /\ target # g
  /\ mergeGroups(g, target)
  /\ local' = Mounted(MenuClosed(g), windowGroups')
  /\ UNCHANGED <<openWindows, nextSeq, dropTargetGroupId, event, pressed, lost>>

MenuDetach(g) ==
  /\ Quiet /\ local[g].menuOpen /\ local[g].menuTab # None
  /\ \/ CanDetach(local[g].menuTab) /\ detachTab(local[g].menuTab)
     \/ /\ local[g].menuTab \notin DOMAIN windowGroupMap
        /\ UNCHANGED <<windowGroups, windowGroupMap, nextSeq>>
  /\ local' = Mounted(MenuClosed(g), windowGroups')
  /\ UNCHANGED <<openWindows, dropTargetGroupId, event, pressed, lost>>

(* The user leaves the play page and comes back: the components mount afresh,  *)
(* the store, which nothing resets, is what it was.                            *)
LeaveAndReturn ==
  /\ Quiet
  /\ local' = [g \in DOMAIN local |-> Fresh]
  /\ pressed' = FALSE
  /\ UNCHANGED <<openWindows, windowGroups, windowGroupMap, nextSeq, dropTargetGroupId, event, lost>>

------------------------------------------------------------------------------
WindowsInit ==
  /\ openWindows = {}
  /\ windowGroups = << >> /\ windowGroupMap = << >> /\ local = << >>
  /\ nextSeq = 0
  /\ dropTargetGroupId = None
  /\ event = NoEvent
  /\ pressed = FALSE
  /\ lost = 0

WindowsNext ==
  \/ OpenWindow \/ MouseMoves \/ MouseReleased \/ ReleaseLost
  \/ Escape \/ ClickElsewhere \/ LeaveAndReturn
  \/ \E w \in openWindows : CloseTab(w)
  \/ \E g \in DOMAIN windowGroups :
       \/ HeaderMouseDown(g) \/ ResizeMouseDown(g) \/ WindowMouseDown(g)
       \/ WindowMouseMove(g) \/ WindowMouseUp(g) \/ MenuDetach(g)
       \/ \E w \in openWindows : SetActiveTab(g, w) \/ TabMouseDown(g, w)
       \/ \E w \in openWindows \cup {None} : OpenMenu(g, w)
       \/ \E target \in DOMAIN windowGroups : MenuMerge(g, target)

WindowsSpec == WindowsInit /\ [][WindowsNext]_winVars

------------------------------------------------------------------------------
(* PROPERTIES                                                                  *)

(* Whatever gestures overlap, every open window is a tab of exactly one group, *)
(* once, and windowGroupMap names that group; no group is empty, the tab it    *)
(* shows is one of its own, and no two groups share a level, so the one raised *)
(* last lies on top. A drag, a pull and a menu each hold an id that another    *)
(* gesture may have merged or closed meanwhile (ui.svelte.ts:357-536).         *)
EachWindowHasOneHome ==
  /\ DOMAIN windowGroupMap = openWindows
  /\ Range(windowGroupMap) = DOMAIN windowGroups
  /\ \A w \in openWindows, g \in DOMAIN windowGroups :
       Cardinality({i \in DOMAIN Tabs(g) : Tabs(g)[i] = w}) = (IF windowGroupMap[w] = g THEN 1 ELSE 0)
  /\ \A g \in DOMAIN windowGroups :
       ToSet(Tabs(g)) \subseteq openWindows /\ windowGroups[g].activeTabId \in ToSet(Tabs(g))
  /\ \A g, h \in DOMAIN windowGroups : g # h => windowGroups[g].zIndex # windowGroups[h].zIndex
==============================================================================

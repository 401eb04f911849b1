------------------------------- MODULE Session -------------------------------
(***************************************************************************)
(* One daemon session: the logical windows, the tabs in them, the focus,   *)
(* the reuse labels and the topology revision (internal/daemon/session.go, *)
(* type Session).  Every method of Session holds s.mu while it touches     *)
(* this state, so each is one action here.  The two that are not atomic,   *)
(* FindOrCreateTab and EnsureInitialTab, check under s.mu, drop it to      *)
(* start the shell, and take it again in NewTab; initMu is held throughout *)
(* and is what the calls in `pending' hold.                                *)
(*                                                                         *)
(* Left out: geometry, titles, the terminal itself.  What a method does    *)
(* after it has released s.mu (broadcasts, supervisor messages) is in      *)
(* Funnel and CrashRestore.                                                *)
(***************************************************************************)
EXTENDS Integers, SequencesExt

CONSTANTS Names,        \* reuse labels a client or an agent may pick
          NoName,       \* the empty label
          RenameTo,     \* labels MsgTabRename carries (may include NoName)
          Callers,      \* goroutines that find or create tabs
          ShellsExit,   \* whether a shell may end by itself
          MaxTabID,     \* bound on nextTabID
          MaxWinID,     \* bound on nextWinID
          MaxRevision   \* bound on revision

ASSUME SessionConstants ==
  /\ NoName \notin Names
  /\ RenameTo \subseteq Names \cup {NoName}
  /\ ShellsExit \in BOOLEAN
  /\ MaxTabID \in Nat /\ MaxWinID \in Nat /\ MaxRevision \in Nat

VARIABLES
  windows,      \* ids of the open windows, in creation order
  tabIDs,       \* tab bar of each window, left to right
  winFocus,     \* tab in front in each window, NoTab when it has none
  tabs,         \* ids of the tabs in the session
  name,         \* label of each tab
  exited,       \* tabs whose shell has been reaped
  tabsByName,   \* reuse index: label -> tab id, NoTab when absent
  focusedTabID, \* application-wide focused tab
  revision,     \* topology revision
  nextTabID,
  nextWinID,
  pending       \* calls between check and spawn, holding initMu

layout == <<windows, tabIDs, winFocus, focusedTabID>>
labels == <<name, tabsByName>>
vars == <<windows, tabIDs, winFocus, tabs, name, exited, tabsByName,
          focusedTabID, revision, nextTabID, nextWinID, pending>>

NoTab == 0
TabID == 1..MaxTabID
WinID == 1..MaxWinID
Labels == Names \cup {NoName}
AnyWindow == 0..MaxWinID     \* a window id a client may send, 0 = default
Call == [caller : Callers, name : Labels, win : AnyWindow]

TypeOK ==
  /\ windows \in Seq(WinID)
  /\ tabIDs \in [WinID -> Seq(TabID)]
  /\ winFocus \in [WinID -> TabID \cup {NoTab}]
  /\ tabs \subseteq TabID
  /\ name \in [TabID -> Labels]
  /\ exited \subseteq TabID
  /\ tabsByName \in [Names -> TabID \cup {NoTab}]
  /\ focusedTabID \in TabID \cup {NoTab}
  /\ revision \in 0..MaxRevision
  /\ nextTabID \in 1..(MaxTabID + 1)
  /\ nextWinID \in 1..(MaxWinID + 1)
  /\ pending \subseteq Call

Init ==
  /\ windows = <<>>
  /\ tabIDs = [w \in WinID |-> <<>>]
  /\ winFocus = [w \in WinID |-> NoTab]
  /\ tabs = {}
  /\ name = [t \in TabID |-> NoName]
  /\ exited = {}
  /\ tabsByName = [n \in Names |-> NoTab]
  /\ focusedTabID = NoTab
  /\ revision = 0
  /\ nextTabID = 1
  /\ nextWinID = 1
  /\ pending = {}

-----------------------------------------------------------------------------
(* Helpers.                                                                *)

OpenWindows == Range(windows)

\* The window whose tab bar holds tab t (windowOfLocked).
HasTab(w, t) == \E i \in DOMAIN tabIDs[w] : tabIDs[w][i] = t
WindowOf(t) == CHOOSE w \in OpenWindows : HasTab(w, t)

\* s without its first element equal to e.
Without(s, e) == RemoveAt(s, CHOOSE i \in DOMAIN s : s[i] = e)

\* Mutant: a window whose front tab left has no tab in front.
FocusNothing(bar, f, t) == IF f # t THEN f ELSE NoTab

\* The tab in front of a bar that lost tab t while tab f was in front.
FocusAfterLoss(bar, f, t) ==
  IF f # t THEN f ELSE IF bar = <<>> THEN NoTab ELSE Head(bar)

\* Mutant: a label outlives its tab.
KeepLabel(index, n) == index

\* The index without the entry of label n, whichever tab it points at.
Unlabel(index, n) == IF n = NoName THEN index ELSE [index EXCEPT ![n] = NoTab]

\* The index with label n pointing at tab t.
Relabel(index, n, t) == IF n = NoName THEN index ELSE [index EXCEPT ![n] = t]

\* Mutant: a change that takes no new revision.
NoStamp == UNCHANGED revision

\* revision++
Stamp == revision < MaxRevision /\ revision' = revision + 1

-----------------------------------------------------------------------------
(* Windows.                                                                *)

\* Mutant: opening a window drops the empty ones.
NewWindowAlone ==
  /\ nextWinID <= MaxWinID
  /\ windows' = Append(SelectSeq(windows, LAMBDA w : tabIDs[w] # <<>>), nextWinID)
  /\ nextWinID' = nextWinID + 1
  /\ Stamp
  /\ UNCHANGED <<tabIDs, winFocus, focusedTabID, tabs, labels, exited,
                 nextTabID, pending>>

NewWindow ==
  /\ nextWinID <= MaxWinID
  /\ windows' = Append(windows, nextWinID)
  /\ nextWinID' = nextWinID + 1
  /\ Stamp
  /\ UNCHANGED <<tabIDs, winFocus, focusedTabID, tabs, labels, exited,
                 nextTabID, pending>>

\* Mutants: the first of all windows, the one being closed included; window
\* ids counted from 0, which means "the default window" to NewTab.
HeirOfAll(left) == IF windows = <<>> THEN nextWinID ELSE windows[1]
HeirFromZero(left) == IF left = <<>> THEN nextWinID - 1 ELSE left[1]

\* The window that inherits the tabs of window id: the first of those left,
\* or a fresh default window (id nextWinID) when there is none.
Heir(left) == IF left = <<>> THEN nextWinID ELSE left[1]

CloseWindow(id) ==
  LET left == Without(windows, id)
      heir == Heir(left)
      bar == tabIDs[heir] \o tabIDs[id]
  IN /\ id \in OpenWindows
     /\ Stamp
     /\ \/ /\ tabIDs[id] = <<>>
           /\ windows' = left
           /\ UNCHANGED <<tabIDs, winFocus, nextWinID>>
        \/ /\ tabIDs[id] # <<>>
           /\ left = <<>> => nextWinID <= MaxWinID
           /\ windows' = IF left = <<>> THEN <<heir>> ELSE left
           /\ nextWinID' = IF left = <<>> THEN nextWinID + 1 ELSE nextWinID
           /\ tabIDs' = [tabIDs EXCEPT ![heir] = bar, ![id] = <<>>]
           /\ winFocus' = [winFocus EXCEPT ![id] = NoTab,
                             ![heir] = IF @ = NoTab THEN bar[1] ELSE @]
     /\ UNCHANGED <<focusedTabID, tabs, labels, exited, nextTabID, pending>>

-----------------------------------------------------------------------------
(* Creating tabs.                                                          *)

\* The locked part of NewTab: tab nextTabID joins window w, the default
\* window (created when there is none) if w is not an open window.
NewTab(w, n) ==
  LET t == nextTabID
      fresh == w \notin OpenWindows /\ windows = <<>>
      home == IF w \in OpenWindows THEN w ELSE Heir(windows)
  IN /\ t <= MaxTabID
     /\ fresh => nextWinID <= MaxWinID
     /\ nextTabID' = t + 1
     /\ tabs' = tabs \cup {t}
     /\ name' = [name EXCEPT ![t] = n]
     /\ tabsByName' = Relabel(tabsByName, n, t)
     /\ windows' = IF fresh THEN <<home>> ELSE windows
     /\ nextWinID' = IF fresh THEN nextWinID + 1 ELSE nextWinID
     /\ tabIDs' = [tabIDs EXCEPT ![home] = Append(@, t)]
     /\ winFocus' = [winFocus EXCEPT ![home] = IF @ = NoTab THEN t ELSE @]
     /\ focusedTabID' = IF focusedTabID = NoTab THEN t ELSE focusedTabID
     /\ Stamp
     /\ UNCHANGED exited

\* FindOrCreateTab("", w): no label, no initMu.
CreateUnnamed(w) == NewTab(w, NoName) /\ UNCHANGED pending

\* The tab FindOrCreateTab(n) would hand back instead of spawning one.
Reusable(n) == tabsByName[n] \in tabs \ exited

\* Mutant: check and spawn without initMu.
BeginUnlocked(c, n, w) ==
  /\ \A call \in pending : call.caller # c
  /\ ~Reusable(n)
  /\ tabsByName' = Unlabel(tabsByName, n)
  /\ pending' = pending \cup {[caller |-> c, name |-> n, win |-> w]}
  /\ UNCHANGED <<layout, tabs, name, exited, revision, nextTabID, nextWinID>>

\* FindOrCreateTab(n, w), n a label, up to the unlock before NewTab: no live
\* tab is indexed under n, a stale entry is dropped.  (When Reusable(n) holds
\* the call returns that tab and changes nothing.)
BeginFindOrCreate(c, n, w) ==
  /\ pending = {}
  /\ ~Reusable(n)
  /\ tabsByName' = Unlabel(tabsByName, n)
  /\ pending' = pending \cup {[caller |-> c, name |-> n, win |-> w]}
  /\ UNCHANGED <<layout, tabs, name, exited, revision, nextTabID, nextWinID>>

\* EnsureInitialTab up to the unlock before NewTab.
BeginEnsureInitial(c) ==
  /\ pending = {}
  /\ tabs = {}
  /\ pending' = pending \cup {[caller |-> c, name |-> NoName, win |-> 0]}
  /\ UNCHANGED <<layout, tabs, labels, exited, revision, nextTabID, nextWinID>>

\* The shell started: NewTab, then initMu is released.
FinishSpawn(call) == NewTab(call.win, call.name) /\ pending' = pending \ {call}

\* The shell did not start: NewTab returns its error before taking s.mu.
FailSpawn(call) ==
  /\ pending' = pending \ {call}
  /\ UNCHANGED <<layout, tabs, labels, exited, revision, nextTabID, nextWinID>>

-----------------------------------------------------------------------------
(* Existing tabs.                                                          *)

\* The child-exit callback latches the corpse; the tab stays in the session.
ChildExit(t) ==
  /\ ShellsExit
  /\ t \in tabs \ exited
  /\ exited' = exited \cup {t}
  /\ UNCHANGED <<layout, tabs, labels, revision, nextTabID, nextWinID, pending>>

MoveTab(t, w, i) ==
  LET src == WindowOf(t)
      bar == Without(tabIDs[src], t)
      left == [tabIDs EXCEPT ![src] = bar]
      front == [winFocus EXCEPT ![src] = FocusAfterLoss(bar, @, t)]
      dst == IF w \in OpenWindows THEN w ELSE src
      at == IF w \in OpenWindows /\ i \in 0..Len(left[w])
            THEN i ELSE Len(left[dst])
  IN /\ \E v \in OpenWindows : HasTab(v, t)
     /\ tabIDs' = [left EXCEPT ![dst] = InsertAt(@, at + 1, t)]
     /\ winFocus' = [front EXCEPT ![dst] = IF @ = NoTab THEN t ELSE @]
     /\ IF w \in OpenWindows THEN Stamp ELSE UNCHANGED revision
     /\ UNCHANGED <<windows, focusedTabID, tabs, labels, exited, nextTabID,
                    nextWinID, pending>>

\* The first window with a tab in front decides where a lost focus goes.
NextFocus(front) ==
  LET shown == {i \in DOMAIN windows : front[windows[i]] # NoTab}
  IN IF shown = {} THEN NoTab ELSE front[windows[Min(shown)]]

CloseTab(t) ==
  LET holds(w) == w \in OpenWindows /\ HasTab(w, t)
      bars == [w \in WinID |->
                 IF holds(w) THEN Without(tabIDs[w], t) ELSE tabIDs[w]]
      front == [w \in WinID |->
                 IF holds(w) THEN FocusAfterLoss(bars[w], winFocus[w], t)
                             ELSE winFocus[w]]
  IN /\ t \in tabs
     /\ tabs' = tabs \ {t}
     /\ tabsByName' = Unlabel(tabsByName, name[t])
     /\ tabIDs' = bars
     /\ winFocus' = front
     /\ focusedTabID' = IF focusedTabID = t THEN NextFocus(front)
                                            ELSE focusedTabID
     /\ Stamp
     /\ UNCHANGED <<windows, name, exited, nextTabID, nextWinID, pending>>

RenameTab(t, n) ==
  /\ t \in tabs
  /\ n # NoName => tabsByName[n] \in {NoTab, t}
  /\ tabsByName' = Relabel(Unlabel(tabsByName, name[t]), n, t)
  /\ name' = [name EXCEPT ![t] = n]
  /\ UNCHANGED <<layout, tabs, exited, revision, nextTabID, nextWinID, pending>>

SetFocusedTab(t) ==
  /\ t \in tabs
  /\ focusedTabID' = t
  /\ UNCHANGED <<windows, tabIDs, winFocus, tabs, labels, exited, revision,
                 nextTabID, nextWinID, pending>>

SetWindowFocusedTab(w, t) ==
  /\ w \in OpenWindows /\ HasTab(w, t)
  /\ winFocus' = [winFocus EXCEPT ![w] = t]
  /\ UNCHANGED <<windows, tabIDs, focusedTabID, tabs, labels, exited, revision,
                 nextTabID, nextWinID, pending>>

-----------------------------------------------------------------------------
\* An index a client may send with MsgMoveTab: -1 is the tail, an index beyond
\* the bar too.
MoveIndex == -1..(MaxTabID - 1)

Next ==
  \/ NewWindow
  \/ \E w \in WinID : CloseWindow(w)
  \/ \E w \in AnyWindow : CreateUnnamed(w)
  \/ \E c \in Callers, n \in Names, w \in AnyWindow : BeginFindOrCreate(c, n, w)
  \/ \E c \in Callers : BeginEnsureInitial(c)
  \/ \E call \in pending : FinishSpawn(call) \/ FailSpawn(call)
  \/ \E t \in TabID : ChildExit(t) \/ CloseTab(t) \/ SetFocusedTab(t)
  \/ \E t \in TabID, w \in AnyWindow, i \in MoveIndex : MoveTab(t, w, i)
  \/ \E t \in TabID, n \in RenameTo : RenameTab(t, n)
  \/ \E w \in WinID, t \in TabID : SetWindowFocusedTab(w, t)

Spec == Init /\ [][Next]_vars

-----------------------------------------------------------------------------
(* Properties.                                                             *)

\* Every tab of the session sits in exactly one place of one open window's
\* tab bar, and the bars hold nothing else.  orderedTabsLocked and the tab
\* bars of every client rest on it; NewTab, MoveTab, CloseTab and CloseWindow
\* each edit two windows to keep it.
EveryTabInOneWindow ==
  /\ \A t \in tabs : \E w \in OpenWindows : HasTab(w, t)
  /\ \A w \in WinID : \A i \in DOMAIN tabIDs[w] :
       /\ w \in OpenWindows
       /\ tabIDs[w][i] \in tabs
       /\ \A v \in WinID : \A j \in DOMAIN tabIDs[v] :
            tabIDs[v][j] = tabIDs[w][i] => v = w /\ j = i
  /\ \A i, j \in DOMAIN windows : windows[i] = windows[j] => i = j

\* Focus never dangles and is never lost while there is something to show:
\* a window with tabs has one of them in front, and a session with tabs has
\* one of them focused, whatever was closed, moved or inherited before.
FocusNeverDangles ==
  /\ \A w \in OpenWindows :
       IF tabIDs[w] = <<>> THEN winFocus[w] = NoTab ELSE HasTab(w, winFocus[w])
  /\ IF tabs = {} THEN focusedTabID = NoTab ELSE focusedTabID \in tabs

\* The reuse index never resolves a label to a closed tab or to a tab that
\* carries another label: CloseTab and RenameTab keep tabsByName in lockstep
\* with the tabs even for corpses that lost their label to a newer tab.
IndexInLockstep ==
  \A n \in Names : tabsByName[n] # NoTab =>
    /\ tabsByName[n] \in tabs
    /\ name[tabsByName[n]] = n

\* No two tabs with a running shell carry the same label: labels are what
\* find-or-create and agents identify tabs by, and initMu plus the check in
\* RenameTab are there to keep it so.
LiveLabelsUnique ==
  \A s, t \in tabs \ exited :
    name[s] # NoName /\ name[s] = name[t] => s = t

\* The window that shows each tab.
Home == [t \in TabID |-> IF t \in tabs THEN WindowOf(t) ELSE NoTab]

\* Clients apply a snapshot only if its revision is newer than the last one,
\* so a step that changes which windows there are or which window shows a tab
\* must take a new revision, once.
MembershipStamped ==
  [][ <<OpenWindows, Home>>' # <<OpenWindows, Home>>
        => revision' = revision + 1 ]_vars

\* The session keeps the placement promises of Placement.
Placed == INSTANCE Placement WITH
  Tab <- TabID, Win <- WinID, Nowhere <- NoTab,
  open <- OpenWindows, home <- Home, used <- 1..(nextTabID - 1)

\* Windows and tabs as a user sees them never get lost, split or duplicated
\* by the way the tab bars are edited.
ImplementsPlacement == Placed!PSpec

=============================================================================

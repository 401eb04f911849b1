---------------------------- MODULE SessionProofs ----------------------------
(***************************************************************************)
(* What holds of a session for any number of tabs, windows, labels and     *)
(* callers: its types, the lockstep of the reuse index with the tabs,      *)
(* where the tabs are (each in one place of one bar, one of them in front  *)
(* wherever there is one to show, every change of a window's tabs          *)
(* stamped), and the whole of it an implementation of Placement.           *)
(***************************************************************************)
EXTENDS Session, SeqLemmas

USE SessionConstants

-----------------------------------------------------------------------------
(* Facts about the helpers.                                                *)

\* The elements of the window list are windows.
LEMMA OpenWindowsTyped ==
  ASSUME windows \in Seq(WinID)
  PROVE  OpenWindows \subseteq WinID
BY LenProperties, ElementOfSeq DEF OpenWindows, Range

\* Removing an element that is there leaves a sequence of the same kind.
LEMMA WithoutTyped ==
  ASSUME NEW S, NEW s \in Seq(S), NEW e, \E i \in DOMAIN s : s[i] = e
  PROVE  Without(s, e) \in Seq(S)
<1> DEFINE k == CHOOSE i \in DOMAIN s : s[i] = e
<1>1. k \in 1..Len(s)
  BY LenProperties
<1> HIDE DEF k
<1> QED BY <1>1, RemoveAtFacts DEF Without, k

\* The tab in front after a loss is one of the bar or none.
LEMMA FocusAfterLossTyped ==
  ASSUME NEW bar \in Seq(TabID), NEW f \in TabID \cup {NoTab}, NEW t
  PROVE  FocusAfterLoss(bar, f, t) \in TabID \cup {NoTab}
BY HeadTailProperties DEF FocusAfterLoss

\* The index keeps its type when a label is dropped or redirected.
LEMMA IndexTyped ==
  ASSUME NEW index \in [Names -> TabID \cup {NoTab}], NEW n \in Labels,
         NEW t \in TabID
  PROVE  /\ Unlabel(index, n) \in [Names -> TabID \cup {NoTab}]
         /\ Relabel(index, n, t) \in [Names -> TabID \cup {NoTab}]
BY DEF Unlabel, Relabel, Labels, NoTab

\* A lost application focus goes to the front tab of a window or nowhere.
LEMMA NextFocusTyped ==
  ASSUME windows \in Seq(WinID),
         NEW front \in [WinID -> TabID \cup {NoTab}]
  PROVE  NextFocus(front) \in TabID \cup {NoTab}
<1> DEFINE shown == {i \in DOMAIN windows : front[windows[i]] # NoTab}
<1>1. shown \subseteq 1..Len(windows) /\ 1..Len(windows) \subseteq Nat
  BY LenProperties
<1>2. CASE shown = {}
  BY <1>2 DEF NextFocus
<1>3. CASE shown # {}
  <2>1. Min(shown) \in 1..Len(windows)
    <3> HIDE DEF shown
    <3> QED BY <1>1, <1>3, MinFacts
  <2>2. windows[Min(shown)] \in WinID
    <3> HIDE DEF shown
    <3> QED BY <2>1, ElementOfSeq
  <2> QED BY <1>3, <2>2 DEF NextFocus
<1> QED BY <1>2, <1>3

-----------------------------------------------------------------------------
(* Types.                                                                  *)

\* The first state is well typed.
LEMMA InitTyped == Init => TypeOK
BY EmptySeq DEF Init, TypeOK, NoTab, TabID, WinID, Labels

\* Opening a window keeps the types.
LEMMA NewWindowTyped ==
  ASSUME TypeOK, NewWindow
  PROVE  TypeOK'
<1>1. windows' \in Seq(WinID)
  <2>1. nextWinID \in WinID
    BY DEF NewWindow, TypeOK, WinID
  <2> QED BY <2>1, AppendProperties DEF NewWindow, TypeOK
<1> QED BY <1>1 DEF NewWindow, TypeOK, Stamp, layout, labels, WinID

\* Closing a window keeps the types, an heir made on the spot included.
LEMMA CloseWindowTyped ==
  ASSUME TypeOK, NEW id \in WinID, CloseWindow(id)
  PROVE  TypeOK'
<1> DEFINE left == Without(windows, id)
           heir == Heir(left)
           bar == tabIDs[heir] \o tabIDs[id]
<1>1. left \in Seq(WinID)
  BY WithoutTyped DEF CloseWindow, TypeOK, OpenWindows, Range
<1>2. CASE tabIDs[id] = <<>>
  BY <1>1, <1>2 DEF CloseWindow, TypeOK, Stamp, labels
<1>3. CASE tabIDs[id] # <<>>
  <2>1. heir \in WinID
    <3>1. CASE left = <<>>
      BY <1>3, <3>1 DEF CloseWindow, TypeOK, Heir, WinID
    <3>2. CASE left # <<>>
      <4>1. 1 \in 1..Len(left)
        BY <1>1, <3>2, EmptySeq
      <4> QED BY <1>1, <3>2, <4>1, ElementOfSeq DEF Heir
    <3> QED BY <3>1, <3>2
  <2> HIDE DEF left, heir
  <2>2. bar \in Seq(TabID) /\ bar # <<>>
    BY <1>3, <2>1, ConcatProperties, ConcatEqualIffEmpty DEF TypeOK
  <2>3. bar[1] \in TabID
    <3> HIDE DEF bar
    <3>1. 1 \in 1..Len(bar)
      BY <2>2, EmptySeq
    <3> QED BY <2>2, <3>1, ElementOfSeq
  <2>4. /\ windows' = IF left = <<>> THEN <<heir>> ELSE left
        /\ nextWinID' = IF left = <<>> THEN nextWinID + 1 ELSE nextWinID
        /\ left = <<>> => nextWinID <= MaxWinID
        /\ tabIDs' = [tabIDs EXCEPT ![heir] = bar, ![id] = <<>>]
        /\ winFocus' = [winFocus EXCEPT ![id] = NoTab,
                          ![heir] = IF @ = NoTab THEN bar[1] ELSE @]
        /\ Stamp
        /\ UNCHANGED <<focusedTabID, tabs, labels, exited, nextTabID, pending>>
    BY <1>3 DEF CloseWindow, left, heir
  <2> HIDE DEF bar
  <2>5. windows' \in Seq(WinID)
    BY <1>1, <2>1, <2>4
  <2>6. nextWinID' \in 1..(MaxWinID + 1)
    BY <2>4 DEF TypeOK
  <2>7. tabIDs' \in [WinID -> Seq(TabID)]
    BY <2>1, <2>2, <2>4, EmptySeq DEF TypeOK
  <2>8. winFocus' \in [WinID -> TabID \cup {NoTab}]
    BY <2>1, <2>3, <2>4 DEF TypeOK
  <2>9. /\ revision' \in 0..MaxRevision
        /\ UNCHANGED <<focusedTabID, tabs, name, tabsByName, exited, nextTabID,
                       pending>>
    BY <2>4 DEF TypeOK, Stamp, labels
  <2> QED BY <2>5, <2>6, <2>7, <2>8, <2>9 DEF TypeOK
<1> QED BY <1>2, <1>3

\* A tab joining the session keeps the types.
LEMMA NewTabTyped ==
  ASSUME TypeOK, NEW w \in AnyWindow, NEW n \in Labels, NewTab(w, n),
         pending' \subseteq Call
  PROVE  TypeOK'
<1> DEFINE t == nextTabID
           fresh == w \notin OpenWindows /\ windows = <<>>
           home == IF w \in OpenWindows THEN w ELSE Heir(windows)
<1>1. t \in TabID
  BY DEF NewTab, TypeOK, TabID
<1>2. home \in WinID
  <2>1. CASE w \in OpenWindows
    BY <2>1, OpenWindowsTyped DEF TypeOK
  <2>2. CASE w \notin OpenWindows /\ windows = <<>>
    BY <2>2 DEF NewTab, TypeOK, Heir, WinID
  <2>3. CASE w \notin OpenWindows /\ windows # <<>>
    <3>1. 1 \in 1..Len(windows)
      BY <2>3, EmptySeq DEF TypeOK
    <3> QED BY <2>3, <3>1, ElementOfSeq DEF TypeOK, Heir
  <2> QED BY <2>1, <2>2, <2>3
<1>3. fresh => nextWinID <= MaxWinID
  BY DEF NewTab
<1>4. /\ nextTabID' = t + 1
      /\ tabs' = tabs \cup {t}
      /\ name' = [name EXCEPT ![t] = n]
      /\ tabsByName' = Relabel(tabsByName, n, t)
      /\ windows' = IF fresh THEN <<home>> ELSE windows
      /\ nextWinID' = IF fresh THEN nextWinID + 1 ELSE nextWinID
      /\ tabIDs' = [tabIDs EXCEPT ![home] = Append(@, t)]
      /\ winFocus' = [winFocus EXCEPT ![home] = IF @ = NoTab THEN t ELSE @]
      /\ focusedTabID' = IF focusedTabID = NoTab THEN t ELSE focusedTabID
      /\ Stamp
      /\ UNCHANGED exited
  BY DEF NewTab
<1> HIDE DEF home, fresh
<1>5. tabIDs' \in [WinID -> Seq(TabID)]
  <2>1. Append(tabIDs[home], t) \in Seq(TabID)
    BY <1>1, <1>2, AppendProperties DEF TypeOK
  <2> QED BY <1>2, <1>4, <2>1 DEF TypeOK
<1>6. windows' \in Seq(WinID)
  BY <1>2, <1>4 DEF TypeOK
<1>7. nextWinID' \in 1..(MaxWinID + 1) /\ nextTabID' \in 1..(MaxTabID + 1)
  BY <1>1, <1>3, <1>4 DEF TypeOK, TabID
<1>8. tabsByName' \in [Names -> TabID \cup {NoTab}]
  BY <1>1, <1>4, IndexTyped DEF TypeOK
<1>9. winFocus' \in [WinID -> TabID \cup {NoTab}]
  BY <1>1, <1>2, <1>4 DEF TypeOK
<1> QED BY <1>1, <1>4, <1>5, <1>6, <1>7, <1>8, <1>9 DEF TypeOK, Stamp

\* Moving a tab keeps the types: the tab is on the bar it is taken from, and
\* it is put inside the bar it goes to.
LEMMA MoveTabTyped ==
  ASSUME TypeOK, NEW t \in TabID, NEW w \in AnyWindow, NEW i \in MoveIndex,
         MoveTab(t, w, i)
  PROVE  TypeOK'
<1> DEFINE src == WindowOf(t)
           bar == Without(tabIDs[src], t)
           left == [tabIDs EXCEPT ![src] = bar]
           front == [winFocus EXCEPT ![src] = FocusAfterLoss(bar, @, t)]
           dst == IF w \in OpenWindows THEN w ELSE src
           at == IF w \in OpenWindows /\ i \in 0..Len(left[w])
                 THEN i ELSE Len(left[dst])
<1>1. src \in OpenWindows /\ HasTab(src, t)
  BY DEF MoveTab, WindowOf
<1>2. src \in WinID /\ dst \in WinID
  BY <1>1, OpenWindowsTyped DEF TypeOK
<1>3. bar \in Seq(TabID)
  BY <1>1, <1>2, WithoutTyped DEF HasTab, TypeOK
<1>4. /\ tabIDs' = [left EXCEPT ![dst] = InsertAt(@, at + 1, t)]
      /\ winFocus' = [front EXCEPT ![dst] = IF @ = NoTab THEN t ELSE @]
      /\ w \in OpenWindows \/ UNCHANGED revision
      /\ w \in OpenWindows => Stamp
      /\ UNCHANGED <<windows, focusedTabID, tabs, labels, exited, nextTabID,
                     nextWinID, pending>>
  BY DEF MoveTab
<1> HIDE DEF src, bar
<1>5. left \in [WinID -> Seq(TabID)]
  BY <1>2, <1>3 DEF TypeOK
<1>6. front \in [WinID -> TabID \cup {NoTab}]
  BY <1>2, <1>3, FocusAfterLossTyped DEF TypeOK
<1>7. at + 1 \in 1..(Len(left[dst]) + 1)
  <2>1. Len(left[dst]) \in Nat
    BY <1>2, <1>5, LenProperties
  <2>2. CASE w \in OpenWindows
    <3>1. dst = w
      BY <2>2
    <3> HIDE DEF left, dst
    <3> QED BY <2>1, <2>2, <3>1
  <2>3. CASE w \notin OpenWindows
    <3>1. at = Len(left[dst])
      BY <2>3
    <3> HIDE DEF left, dst, at
    <3> QED BY <2>1, <3>1
  <2> QED BY <2>2, <2>3
<1> HIDE DEF left, front, dst, at
<1>8. tabIDs' \in [WinID -> Seq(TabID)]
  <2>1. InsertAt(left[dst], at + 1, t) \in Seq(TabID)
    <3>1. left[dst] \in Seq(TabID)
      BY <1>2, <1>5
    <3> QED BY <1>7, <3>1, InsertAtFacts
  <2> QED BY <1>2, <1>4, <1>5, <2>1
<1>9. winFocus' \in [WinID -> TabID \cup {NoTab}]
  BY <1>2, <1>4, <1>6
<1> QED BY <1>4, <1>8, <1>9 DEF TypeOK, Stamp, labels

\* Closing a tab keeps the types.
LEMMA CloseTabTyped ==
  ASSUME TypeOK, NEW t \in TabID, CloseTab(t)
  PROVE  TypeOK'
<1> DEFINE holds(w) == w \in OpenWindows /\ HasTab(w, t)
           bars == [w \in WinID |->
                      IF holds(w) THEN Without(tabIDs[w], t) ELSE tabIDs[w]]
           front == [w \in WinID |->
                      IF holds(w) THEN FocusAfterLoss(bars[w], winFocus[w], t)
                                  ELSE winFocus[w]]
<1>1. bars \in [WinID -> Seq(TabID)]
  <2>1. ASSUME NEW w \in WinID, holds(w)
        PROVE  Without(tabIDs[w], t) \in Seq(TabID)
    BY <2>1, WithoutTyped DEF HasTab, TypeOK
  <2> QED BY <2>1 DEF TypeOK
<1>2. /\ tabIDs' = bars
      /\ winFocus' = front
      /\ focusedTabID' = IF focusedTabID = t THEN NextFocus(front)
                                             ELSE focusedTabID
      /\ tabs' = tabs \ {t}
      /\ tabsByName' = Unlabel(tabsByName, name[t])
      /\ Stamp
      /\ UNCHANGED <<windows, name, exited, nextTabID, nextWinID, pending>>
  BY DEF CloseTab
<1>3. front \in [WinID -> TabID \cup {NoTab}]
  <2> HIDE DEF bars
  <2>1. ASSUME NEW w \in WinID
        PROVE  FocusAfterLoss(bars[w], winFocus[w], t) \in TabID \cup {NoTab}
    BY <1>1, FocusAfterLossTyped DEF TypeOK
  <2> QED BY <2>1 DEF TypeOK
<1> HIDE DEF bars, front
<1>4. focusedTabID' \in TabID \cup {NoTab}
  BY <1>2, <1>3, NextFocusTyped DEF TypeOK
<1>5. tabsByName' \in [Names -> TabID \cup {NoTab}]
  <2>1. name[t] \in Labels
    BY DEF TypeOK
  <2> QED BY <1>2, <2>1, IndexTyped DEF TypeOK
<1> QED BY <1>1, <1>2, <1>3, <1>4, <1>5 DEF TypeOK, Stamp

\* The steps that touch neither tab bars nor windows keep the types.
LEMMA LabelStepsTyped ==
  ASSUME TypeOK
  PROVE  /\ \A c \in Callers, n \in Names, w \in AnyWindow :
              BeginFindOrCreate(c, n, w) => TypeOK'
         /\ \A c \in Callers : BeginEnsureInitial(c) => TypeOK'
         /\ \A call \in pending : FailSpawn(call) => TypeOK'
         /\ \A t \in TabID, n \in RenameTo : RenameTab(t, n) => TypeOK'
<1>1. ASSUME NEW c \in Callers, NEW n \in Names, NEW w \in AnyWindow,
             BeginFindOrCreate(c, n, w)
      PROVE  TypeOK'
  <2>1. tabsByName' \in [Names -> TabID \cup {NoTab}]
    BY <1>1 DEF BeginFindOrCreate, Unlabel, TypeOK
  <2>2. pending' \subseteq Call
    BY <1>1 DEF BeginFindOrCreate, TypeOK, Call, Labels
  <2> QED BY <1>1, <2>1, <2>2 DEF BeginFindOrCreate, TypeOK, layout
<1>2. ASSUME NEW c \in Callers, BeginEnsureInitial(c)
      PROVE  TypeOK'
  <2>1. pending' \subseteq Call
    BY <1>2 DEF BeginEnsureInitial, TypeOK, Call, Labels, AnyWindow
  <2> QED BY <1>2, <2>1 DEF BeginEnsureInitial, TypeOK, layout, labels
<1>3. ASSUME NEW call \in pending, FailSpawn(call)
      PROVE  TypeOK'
  BY <1>3 DEF FailSpawn, TypeOK, layout, labels
<1>4. ASSUME NEW t \in TabID, NEW n \in RenameTo, RenameTab(t, n)
      PROVE  TypeOK'
  <2>1. n \in Labels /\ name[t] \in Labels
    BY DEF TypeOK, Labels
  <2>2. Unlabel(tabsByName, name[t]) \in [Names -> TabID \cup {NoTab}]
    BY <2>1, IndexTyped DEF TypeOK
  <2>3. tabsByName' \in [Names -> TabID \cup {NoTab}]
    BY <1>4, <2>1, <2>2, IndexTyped DEF RenameTab
  <2>4. name' \in [TabID -> Labels]
    BY <1>4, <2>1 DEF RenameTab, TypeOK
  <2> QED BY <1>4, <2>3, <2>4 DEF RenameTab, TypeOK, layout
<1> QED BY <1>1, <1>2, <1>3, <1>4

\* Every step keeps the types.
LEMMA NextTyped == TypeOK /\ [Next]_vars => TypeOK'
<1> SUFFICES ASSUME TypeOK, [Next]_vars PROVE TypeOK'
  OBVIOUS
<1>1. CASE NewWindow
  BY <1>1, NewWindowTyped
<1>2. CASE \E w \in WinID : CloseWindow(w)
  BY <1>2, CloseWindowTyped
<1>3. CASE \E w \in AnyWindow : CreateUnnamed(w)
  <2>1. PICK w \in AnyWindow : CreateUnnamed(w)
    BY <1>3
  <2>2. NewTab(w, NoName) /\ pending' \subseteq Call /\ NoName \in Labels
    BY <2>1 DEF CreateUnnamed, TypeOK, Labels
  <2> QED BY <2>2, NewTabTyped
<1>4. CASE \/ \E c \in Callers, n \in Names, w \in AnyWindow :
                BeginFindOrCreate(c, n, w)
           \/ \E c \in Callers : BeginEnsureInitial(c)
           \/ \E call \in pending : FailSpawn(call)
           \/ \E t \in TabID, n \in RenameTo : RenameTab(t, n)
  BY <1>4, LabelStepsTyped
<1>5. CASE \E call \in pending : FinishSpawn(call)
  <2>1. PICK call \in pending : FinishSpawn(call)
    BY <1>5
  <2>2. call.win \in AnyWindow /\ call.name \in Labels /\ pending' \subseteq Call
    BY <2>1 DEF FinishSpawn, TypeOK, Call
  <2> QED BY <2>1, <2>2, NewTabTyped DEF FinishSpawn
<1>6. CASE \E t \in TabID : ChildExit(t) \/ SetFocusedTab(t)
  BY <1>6 DEF ChildExit, SetFocusedTab, TypeOK, layout, labels
<1>7. CASE \E t \in TabID : CloseTab(t)
  BY <1>7, CloseTabTyped
<1>8. CASE \E t \in TabID, w \in AnyWindow, i \in MoveIndex : MoveTab(t, w, i)
  BY <1>8, MoveTabTyped
<1>9. CASE \E w \in WinID, t \in TabID : SetWindowFocusedTab(w, t)
  BY <1>9 DEF SetWindowFocusedTab, TypeOK, labels
<1>10. CASE UNCHANGED vars
  BY <1>10 DEF vars, TypeOK
<1> QED BY <1>1, <1>2, <1>3, <1>4, <1>5, <1>6, <1>7, <1>8, <1>9, <1>10 DEF Next

\* A session is well typed in every reachable state: ids stay within what was
\* handed out, every bar holds tab ids, every label resolves to a tab id or to
\* none.
THEOREM TypeCorrect == Spec => []TypeOK
<1>1. Init => TypeOK
  BY InitTyped
<1>2. TypeOK /\ [Next]_vars => TypeOK'
  BY NextTyped
<1> QED BY <1>1, <1>2, PTL DEF Spec

-----------------------------------------------------------------------------
(* The reuse index.                                                        *)

\* Ids are handed out once: no tab has an id still to be given.
IdsSpent == \A t \in tabs : t < nextTabID

\* The lockstep is kept because a tab that joins has an id no entry holds.
IndexInv == TypeOK /\ IdsSpent /\ IndexInLockstep

\* A tab that joins takes over its label, and no other entry.
LEMMA NewTabIndexed ==
  ASSUME IndexInv, NEW w \in AnyWindow, NEW n \in Labels, NewTab(w, n)
  PROVE  IdsSpent' /\ IndexInLockstep'
<1> DEFINE t == nextTabID
<1>1. /\ t \in TabID /\ t \notin tabs
      /\ nextTabID' = t + 1
      /\ tabs' = tabs \cup {t}
      /\ name' = [name EXCEPT ![t] = n]
      /\ tabsByName' = Relabel(tabsByName, n, t)
  BY DEF NewTab, IndexInv, IdsSpent, TypeOK, TabID
<1>2. IdsSpent'
  BY <1>1 DEF IndexInv, IdsSpent, TypeOK, TabID
<1>3. ASSUME NEW m \in Names, tabsByName'[m] # NoTab
      PROVE  tabsByName'[m] \in tabs' /\ name'[tabsByName'[m]] = m
  <2>1. CASE m = n
    BY <1>1, <2>1 DEF Relabel, IndexInv, TypeOK
  <2>2. CASE m # n
    <3>1. tabsByName'[m] = tabsByName[m]
      BY <1>1, <2>2 DEF Relabel, IndexInv, TypeOK, Labels
    <3>2. tabsByName[m] \in tabs /\ name[tabsByName[m]] = m
      BY <1>3, <3>1 DEF IndexInv, IndexInLockstep
    <3> QED BY <1>1, <3>1, <3>2 DEF IndexInv, TypeOK
  <2> QED BY <2>1, <2>2
<1> QED BY <1>2, <1>3 DEF IndexInLockstep

\* A closed tab takes the entry of its label with it.
LEMMA CloseTabIndexed ==
  ASSUME IndexInv, NEW t \in TabID, CloseTab(t)
  PROVE  IdsSpent' /\ IndexInLockstep'
<1>1. /\ tabs' = tabs \ {t} /\ name' = name /\ nextTabID' = nextTabID
      /\ tabsByName' = Unlabel(tabsByName, name[t])
      /\ name[t] \in Labels
  BY DEF CloseTab, IndexInv, TypeOK
<1>2. ASSUME NEW m \in Names, tabsByName'[m] # NoTab
      PROVE  tabsByName'[m] \in tabs' /\ name'[tabsByName'[m]] = m
  <2>1. tabsByName'[m] = tabsByName[m] /\ m # name[t]
    BY <1>1, <1>2 DEF Unlabel, IndexInv, TypeOK, Labels
  <2>2. tabsByName[m] \in tabs /\ name[tabsByName[m]] = m
    BY <1>2, <2>1 DEF IndexInv, IndexInLockstep
  <2> QED BY <1>1, <2>1, <2>2
<1> QED BY <1>1, <1>2 DEF IndexInLockstep, IndexInv, IdsSpent

\* A renamed tab leaves its old entry and owns the new one.
LEMMA RenameTabIndexed ==
  ASSUME IndexInv, NEW t \in TabID, NEW n \in RenameTo, RenameTab(t, n)
  PROVE  IdsSpent' /\ IndexInLockstep'
<1> DEFINE dropped == Unlabel(tabsByName, name[t])
<1>1. /\ t \in tabs /\ tabs' = tabs /\ nextTabID' = nextTabID
      /\ name' = [name EXCEPT ![t] = n]
      /\ tabsByName' = Relabel(dropped, n, t)
      /\ name[t] \in Labels /\ n \in Labels
      /\ dropped \in [Names -> TabID \cup {NoTab}]
  BY IndexTyped DEF RenameTab, IndexInv, TypeOK, Labels
<1>2. \A m \in Names : dropped[m] # NoTab => dropped[m] = tabsByName[m] /\ m # name[t]
  BY <1>1 DEF Unlabel, IndexInv, TypeOK, Labels
<1> HIDE DEF dropped
<1>3. ASSUME NEW m \in Names, tabsByName'[m] # NoTab
      PROVE  tabsByName'[m] \in tabs' /\ name'[tabsByName'[m]] = m
  <2>1. CASE m = n
    BY <1>1, <2>1 DEF Relabel, IndexInv, TypeOK
  <2>2. CASE m # n
    <3>1. tabsByName'[m] = dropped[m]
      BY <1>1, <2>2 DEF Relabel, Labels
    <3>2. /\ tabsByName'[m] = tabsByName[m] /\ m # name[t]
          /\ tabsByName[m] \in tabs /\ name[tabsByName[m]] = m
      BY <1>2, <1>3, <3>1 DEF IndexInv, IndexInLockstep
    <3> QED BY <1>1, <3>2 DEF IndexInv, TypeOK
  <2> QED BY <2>1, <2>2
<1> QED BY <1>1, <1>3 DEF IndexInLockstep, IndexInv, IdsSpent

\* The steps that may change the index, and the rest.
LEMMA NextIndexed == IndexInv /\ [Next]_vars => IndexInv'
<1> SUFFICES ASSUME IndexInv, [Next]_vars PROVE IdsSpent' /\ IndexInLockstep'
  BY NextTyped DEF IndexInv
<1>1. CASE \E w \in AnyWindow : CreateUnnamed(w)
  BY <1>1, NewTabIndexed DEF CreateUnnamed, Labels
<1>2. CASE \E call \in pending : FinishSpawn(call)
  <2>1. PICK call \in pending : FinishSpawn(call)
    BY <1>2
  <2>2. call.win \in AnyWindow /\ call.name \in Labels
    BY <2>1 DEF IndexInv, TypeOK, Call
  <2> QED BY <2>1, <2>2, NewTabIndexed DEF FinishSpawn
<1>3. CASE \E t \in TabID : CloseTab(t)
  BY <1>3, CloseTabIndexed
<1>4. CASE \E t \in TabID, n \in RenameTo : RenameTab(t, n)
  BY <1>4, RenameTabIndexed
<1>5. CASE \E c \in Callers, n \in Names, w \in AnyWindow :
             BeginFindOrCreate(c, n, w)
  <2>1. PICK n \in Names : tabsByName' = Unlabel(tabsByName, n)
    BY <1>5 DEF BeginFindOrCreate
  <2>2. \A m \in Names : tabsByName'[m] # NoTab => tabsByName'[m] = tabsByName[m]
    BY <2>1 DEF Unlabel, IndexInv, TypeOK
  <2>3. UNCHANGED <<tabs, name, nextTabID>>
    BY <1>5 DEF BeginFindOrCreate
  <2> QED BY <2>2, <2>3 DEF IndexInv, IndexInLockstep, IdsSpent
<1>6. CASE UNCHANGED <<tabs, name, tabsByName, nextTabID>>
  BY <1>6 DEF IndexInv, IndexInLockstep, IdsSpent
<1>7. ASSUME NEW id \in WinID, CloseWindow(id)
      PROVE  UNCHANGED <<tabs, name, tabsByName, nextTabID>>
  BY <1>7 DEF CloseWindow, labels
<1>8. ASSUME NEW t \in TabID, NEW w \in AnyWindow, NEW i \in MoveIndex,
             MoveTab(t, w, i)
      PROVE  UNCHANGED <<tabs, name, tabsByName, nextTabID>>
  BY <1>8 DEF MoveTab, labels
<1>9. CASE \/ NewWindow
           \/ \E c \in Callers : BeginEnsureInitial(c)
           \/ \E call \in pending : FailSpawn(call)
           \/ \E t \in TabID : ChildExit(t) \/ SetFocusedTab(t)
           \/ \E w \in WinID, t \in TabID : SetWindowFocusedTab(w, t)
           \/ UNCHANGED vars
  <2>1. UNCHANGED <<tabs, name, tabsByName, nextTabID>>
    BY <1>9 DEF NewWindow, BeginEnsureInitial, FailSpawn, ChildExit,
                SetFocusedTab, SetWindowFocusedTab, vars, labels
  <2> QED BY <1>6, <2>1
<1> QED BY <1>1, <1>2, <1>3, <1>4, <1>5, <1>6, <1>7, <1>8, <1>9 DEF Next

\* A label never resolves to a closed tab or to a tab called otherwise
\* (Session.tabsByName), whatever shells exit and whatever is renamed.
THEOREM IndexCorrect == Spec => []IndexInLockstep
<1>1. Init => IndexInv
  BY InitTyped DEF Init, IndexInv, IdsSpent, IndexInLockstep
<1>2. IndexInv /\ [Next]_vars => IndexInv'
  BY NextIndexed
<1>3. IndexInv => IndexInLockstep
  BY DEF IndexInv
<1> QED BY <1>1, <1>2, <1>3, PTL DEF Spec

-----------------------------------------------------------------------------
(* Labels of running shells.                                               *)

\* The label a call that holds initMu checked is still free, only one call
\* holds initMu, and every labelled tab is the one its label resolves to.
LabelInv ==
  /\ IndexInv
  /\ exited = {}
  /\ \A c, d \in pending : c = d
  /\ \A c \in pending : c.name # NoName => tabsByName[c.name] = NoTab
  /\ \A t \in tabs : name[t] # NoName => tabsByName[name[t]] = t

\* A tab that joins with a free label keeps every labelled tab reachable.
LEMMA NewTabReachable ==
  ASSUME LabelInv, NEW w \in AnyWindow, NEW n \in Labels, NewTab(w, n),
         n # NoName => tabsByName[n] = NoTab
  PROVE  /\ exited' = {}
         /\ \A t \in tabs' : name'[t] # NoName => tabsByName'[name'[t]] = t
<1> DEFINE t == nextTabID
<1>1. /\ t \in TabID /\ t \notin tabs /\ tabs \subseteq TabID
      /\ tabs' = tabs \cup {t}
      /\ name' = [name EXCEPT ![t] = n]
      /\ name \in [TabID -> Labels]
      /\ tabsByName' = Relabel(tabsByName, n, t)
      /\ tabsByName \in [Names -> TabID \cup {NoTab}]
      /\ exited' = {}
  BY DEF NewTab, LabelInv, IndexInv, IdsSpent, TypeOK, TabID
<1>2. ASSUME NEW s \in tabs', name'[s] # NoName
      PROVE  tabsByName'[name'[s]] = s
  <2>1. CASE s = t
    BY <1>1, <1>2, <2>1 DEF Relabel, Labels
  <2>2. CASE s # t
    <3>1. s \in tabs /\ name'[s] = name[s] /\ name[s] \in Names
      BY <1>1, <1>2, <2>2 DEF Labels
    <3>2. tabsByName[name[s]] = s /\ s # NoTab
      BY <1>1, <1>2, <3>1 DEF LabelInv, TabID, NoTab
    <3>3. name[s] # n
      BY <1>2, <3>1, <3>2
    <3> QED BY <1>1, <3>1, <3>2, <3>3 DEF Relabel
  <2> QED BY <2>1, <2>2
<1> QED BY <1>1, <1>2

\* Every step keeps it as long as shells live and no label is handed to a tab
\* that exists.
LEMMA NextLabelled ==
  ASSUME ~ShellsExit, RenameTo \subseteq {NoName}
  PROVE  LabelInv /\ [Next]_vars => LabelInv'
<1> DEFINE OneCall == \A c, d \in pending : c = d
           Free == \A c \in pending : c.name # NoName => tabsByName[c.name] = NoTab
           Reach == \A t \in tabs : name[t] # NoName => tabsByName[name[t]] = t
<1> SUFFICES ASSUME LabelInv, [Next]_vars
             PROVE  exited' = {} /\ OneCall' /\ Free' /\ Reach'
  BY NextIndexed DEF LabelInv
<1>0. TypeOK /\ exited = {} /\ OneCall /\ Free /\ Reach
  BY DEF LabelInv, IndexInv
<1>1. CASE \E w \in AnyWindow : CreateUnnamed(w)
  <2>1. PICK w \in AnyWindow : NewTab(w, NoName)
    BY <1>1 DEF CreateUnnamed
  <2>2. pending' = pending /\ tabsByName' = tabsByName /\ NoName \in Labels
    BY <1>1 DEF CreateUnnamed, NewTab, Relabel, Labels
  <2>3. exited' = {} /\ Reach'
    BY <2>1, <2>2, NewTabReachable
  <2> QED BY <1>0, <2>2, <2>3
<1>2. CASE \E call \in pending : FinishSpawn(call)
  <2>1. PICK call \in pending : FinishSpawn(call)
    BY <1>2
  <2>2. /\ call.win \in AnyWindow /\ call.name \in Labels
        /\ call.name # NoName => tabsByName[call.name] = NoTab
        /\ pending' = {}
    BY <1>0, <2>1 DEF FinishSpawn, TypeOK, Call
  <2>3. exited' = {} /\ Reach'
    BY <2>1, <2>2, NewTabReachable DEF FinishSpawn
  <2> QED BY <2>2, <2>3
<1>3. CASE \E c \in Callers, n \in Names, w \in AnyWindow :
             BeginFindOrCreate(c, n, w)
  <2>1. PICK c \in Callers, n \in Names, w \in AnyWindow :
          BeginFindOrCreate(c, n, w)
    BY <1>3
  <2>2. tabsByName[n] = NoTab
    BY <1>0, <2>1 DEF BeginFindOrCreate, Reusable, LabelInv, IndexInv,
                      IndexInLockstep
  <2>3. tabsByName' = tabsByName
    BY <1>0, <2>1, <2>2 DEF BeginFindOrCreate, Unlabel, TypeOK
  <2>4. pending' = {[caller |-> c, name |-> n, win |-> w]}
    BY <2>1 DEF BeginFindOrCreate
  <2>5. UNCHANGED <<tabs, name, exited>>
    BY <2>1 DEF BeginFindOrCreate
  <2> QED BY <1>0, <2>2, <2>3, <2>4, <2>5
<1>4. CASE \E c \in Callers : BeginEnsureInitial(c)
  <2>1. PICK c \in Callers : BeginEnsureInitial(c)
    BY <1>4
  <2>2. pending' = {[caller |-> c, name |-> NoName, win |-> 0]}
    BY <2>1 DEF BeginEnsureInitial
  <2>3. UNCHANGED <<tabs, name, tabsByName, exited>>
    BY <2>1 DEF BeginEnsureInitial, labels
  <2> QED BY <1>0, <2>2, <2>3
<1>5. CASE \E call \in pending : FailSpawn(call)
  BY <1>0, <1>5 DEF FailSpawn, labels
<1>6. CASE \E t \in TabID : CloseTab(t)
  <2>1. PICK t \in TabID : CloseTab(t)
    BY <1>6
  <2>2. /\ tabs' = tabs \ {t} /\ name' = name /\ exited' = exited
        /\ pending' = pending /\ tabsByName' = Unlabel(tabsByName, name[t])
        /\ t \in tabs
    BY <2>1 DEF CloseTab
  <2>3. ASSUME NEW s \in tabs', name[s] # NoName
        PROVE  tabsByName'[name[s]] = s
    <3>1. tabsByName[name[s]] = s /\ name[s] \in Names
      BY <1>0, <2>2, <2>3 DEF TypeOK, Labels
    <3>2. name[s] # name[t]
      BY <1>0, <2>2, <2>3, <3>1
    <3> QED BY <1>0, <2>2, <3>1, <3>2 DEF Unlabel, TypeOK
  <2>4. \A m \in Names : tabsByName[m] = NoTab => tabsByName'[m] = NoTab
    BY <1>0, <2>2 DEF Unlabel, TypeOK
  <2>5. \A c \in pending : c.name \in Labels
    BY <1>0 DEF TypeOK, Call
  <2> QED BY <1>0, <2>2, <2>3, <2>4, <2>5 DEF Labels
<1>7. CASE \E t \in TabID, n \in RenameTo : RenameTab(t, n)
  <2>1. PICK t \in TabID : RenameTab(t, NoName)
    BY <1>7
  <2>2. /\ tabs' = tabs /\ name' = [name EXCEPT ![t] = NoName]
        /\ exited' = exited /\ pending' = pending /\ t \in tabs
        /\ tabsByName' = Unlabel(tabsByName, name[t])
    BY <2>1 DEF RenameTab, Relabel
  <2>3. ASSUME NEW s \in tabs', name'[s] # NoName
        PROVE  tabsByName'[name'[s]] = s
    <3>1. s # t /\ name'[s] = name[s] /\ name[s] \in Names
      BY <1>0, <2>2, <2>3 DEF TypeOK, Labels
    <3>2. tabsByName[name[s]] = s /\ name[s] # name[t]
      BY <1>0, <2>2, <2>3, <3>1
    <3> QED BY <1>0, <2>2, <3>1, <3>2 DEF Unlabel, TypeOK
  <2>4. \A m \in Names : tabsByName[m] = NoTab => tabsByName'[m] = NoTab
    BY <1>0, <2>2 DEF Unlabel, TypeOK
  <2>5. \A c \in pending : c.name \in Labels
    BY <1>0 DEF TypeOK, Call
  <2> QED BY <1>0, <2>2, <2>3, <2>4, <2>5 DEF Labels
<1>8. CASE UNCHANGED <<tabs, name, tabsByName, exited, pending>>
  BY <1>0, <1>8
<1>9. ASSUME NEW id \in WinID, CloseWindow(id)
      PROVE  UNCHANGED <<tabs, name, tabsByName, exited, pending>>
  BY <1>9 DEF CloseWindow, labels
<1>10. ASSUME NEW t \in TabID, NEW w \in AnyWindow, NEW i \in MoveIndex,
              MoveTab(t, w, i)
       PROVE  UNCHANGED <<tabs, name, tabsByName, exited, pending>>
  BY <1>10 DEF MoveTab, labels
<1>11. CASE \/ NewWindow
            \/ \E t \in TabID : SetFocusedTab(t)
            \/ \E w \in WinID, t \in TabID : SetWindowFocusedTab(w, t)
            \/ UNCHANGED vars
  <2>1. UNCHANGED <<tabs, name, tabsByName, exited, pending>>
    BY <1>11 DEF NewWindow, SetFocusedTab, SetWindowFocusedTab, vars, labels
  <2> QED BY <1>8, <2>1
<1>12. CASE \E t \in TabID : ChildExit(t)
  BY <1>12 DEF ChildExit
<1> QED BY <1>1, <1>2, <1>3, <1>4, <1>5, <1>6, <1>7, <1>8, <1>9, <1>10, <1>11,
           <1>12 DEF Next

\* However many callers find or create tabs at once, no two running shells
\* carry the same label: initMu closes the gap between the check in
\* FindOrCreateTab and the tab it creates.  (With shells that exit it fails: see
\* the run MCSessionCorpse; and a rename can give a label to a second tab.)
THEOREM InitMuClosesTheRace ==
  ASSUME ~ShellsExit, RenameTo \subseteq {NoName}
  PROVE  Spec => []LiveLabelsUnique
<1>1. Init => LabelInv
  BY InitTyped DEF Init, LabelInv, IndexInv, IdsSpent, IndexInLockstep
<1>2. LabelInv /\ [Next]_vars => LabelInv'
  BY NextLabelled
<1>3. LabelInv => LiveLabelsUnique
  BY DEF LabelInv, LiveLabelsUnique
<1> QED BY <1>1, <1>2, <1>3, PTL DEF Spec

-----------------------------------------------------------------------------
(* Where the tabs are.                                                     *)


\* The tabs on the bar of window w.
Held(w) == Range(tabIDs[w])

\* The bars hold tabs of the session, each in one place.  It needs the window
\* ids too: the heir CloseWindow and NewTab open on the spot is none of the
\* windows there are.
Tidy ==
  /\ IsInjective(windows)
  /\ \A w \in OpenWindows : w < nextWinID
  /\ \A w \in WinID : IsInjective(tabIDs[w])
  /\ \A w \in WinID \ OpenWindows : Held(w) = {}
  /\ \A w, v \in WinID : \A t : t \in Held(w) /\ t \in Held(v) => w = v
  /\ \A w \in WinID : Held(w) \subseteq tabs

\* Every tab is on a bar.  A session that resumed after a crash may have tabs
\* the last snapshot placed nowhere, so the steps keep the two apart.
AllShown == \A t \in tabs : \E w \in WinID : t \in Held(w)

\* The invariant behind EveryTabInOneWindow, in terms of the sets of tabs the
\* bars hold.
Bars == Tidy /\ AllShown

TidyInv == IndexInv /\ Tidy
BarInv == IndexInv /\ Bars

LEMMA BarsAreTidy == BarInv => TidyInv /\ AllShown
BY DEF BarInv, Bars, TidyInv

-----------------------------------------------------------------------------
(* Facts about the helpers.                                                *)

LEMMA HeldIsHasTab ==
  ASSUME NEW w, NEW t
  PROVE  HasTab(w, t) <=> t \in Held(w)
BY DEF HasTab, Held, Range

\* What a bar without one of its tabs holds.
LEMMA WithoutElements ==
  ASSUME NEW S, NEW s \in Seq(S), NEW e \in Range(s), IsInjective(s)
  PROVE  /\ Without(s, e) \in Seq(S)
         /\ Range(Without(s, e)) = Range(s) \ {e}
         /\ IsInjective(Without(s, e))
<1> DEFINE k == CHOOSE i \in DOMAIN s : s[i] = e
<1>1. k \in 1..Len(s) /\ s[k] = e
  BY LenProperties DEF Range
<1>2. Without(s, e) = RemoveAt(s, k)
  BY DEF Without
<1> HIDE DEF k
<1> QED BY <1>1, <1>2, RemoveAtFacts, RemoveAtElements

\* A bar is empty when it holds nothing.
LEMMA EmptyBar ==
  ASSUME NEW S, NEW s \in Seq(S)
  PROVE  s = <<>> <=> Range(s) = {}
<1>1. CASE s = <<>>
  BY <1>1, EmptySeq DEF Range
<1>2. CASE s # <<>>
  <2>1. 1 \in DOMAIN s
    BY <1>2, EmptySeq, LenProperties
  <2> QED BY <1>2, <2>1 DEF Range
<1> QED BY <1>1, <1>2

\* The first of a sequence is one of its elements.
LEMMA FirstHeld ==
  ASSUME NEW S, NEW s \in Seq(S), s # <<>>
  PROVE  s[1] \in Range(s) /\ Head(s) \in Range(s) /\ s[1] \in S
<1>1. 1 \in DOMAIN s /\ DOMAIN s = 1..Len(s)
  BY EmptySeq, LenProperties
<1>2. Head(s) = s[1]
  OBVIOUS
<1> QED BY <1>1, <1>2, ElementOfSeq DEF Range

\* The heir of a closed window is another window: an open one, or one that has
\* never been open when none is left.
LEMMA HeirIsOther ==
  ASSUME TidyInv, NEW id \in OpenWindows,
         Without(windows, id) = <<>> => nextWinID <= MaxWinID
  PROVE  LET left == Without(windows, id)
             heir == Heir(left)
         IN /\ left \in Seq(WinID) /\ Range(left) = OpenWindows \ {id}
            /\ IsInjective(left)
            /\ heir \in WinID \ {id}
            /\ IF left = <<>> THEN OpenWindows = {id} /\ heir = nextWinID
                              ELSE heir \in OpenWindows
<1> DEFINE left == Without(windows, id)
           heir == Heir(left)
<1>1. windows \in Seq(WinID) /\ IsInjective(windows)
      /\ (\A w \in OpenWindows : w < nextWinID) /\ nextWinID \in 1..(MaxWinID + 1)
      /\ OpenWindows \subseteq WinID
  BY OpenWindowsTyped DEF TidyInv, Tidy, IndexInv, TypeOK
<1>2. left \in Seq(WinID) /\ Range(left) = OpenWindows \ {id} /\ IsInjective(left)
  BY <1>1, WithoutElements DEF OpenWindows
<1> HIDE DEF left
<1>3. CASE left = <<>>
  <2>1. OpenWindows = {id}
    BY <1>2, <1>3, EmptyBar
  <2>2. heir = nextWinID
    BY <1>3 DEF Heir
  <2>3. heir \in WinID /\ heir # id
    BY <1>1, <1>3, <2>2 DEF WinID, left
  <2> QED BY <1>2, <1>3, <2>1, <2>2, <2>3 DEF left
<1>4. CASE left # <<>>
  <2>1. heir \in Range(left)
    BY <1>2, <1>4, FirstHeld DEF Heir
  <2> QED BY <1>1, <1>2, <1>4, <2>1 DEF left
<1> QED BY <1>3, <1>4

-----------------------------------------------------------------------------
(* What each operation does to the bars.                                   *)

LEMMA NewWindowBars ==
  ASSUME TidyInv, TypeOK', NewWindow
  PROVE  /\ Tidy' /\ (AllShown => AllShown')
         /\ nextWinID \in WinID \ OpenWindows
         /\ OpenWindows' = OpenWindows \cup {nextWinID}
         /\ UNCHANGED <<tabIDs, tabs>>
<1>1. /\ windows' = Append(windows, nextWinID)
      /\ nextWinID' = nextWinID + 1
      /\ UNCHANGED <<tabIDs, tabs>>
      /\ nextWinID \in WinID
  BY DEF NewWindow, TidyInv, IndexInv, TypeOK, WinID
<1>2. windows \in Seq(WinID) /\ IsInjective(windows) /\ OpenWindows \subseteq WinID
      /\ nextWinID \notin OpenWindows
  BY OpenWindowsTyped DEF TidyInv, Tidy, IndexInv, TypeOK, WinID
<1>3. OpenWindows' = OpenWindows \cup {nextWinID} /\ IsInjective(windows')
  BY <1>1, <1>2, AppendElements DEF OpenWindows
<1>4. \A w : Held(w)' = Held(w)
  BY <1>1 DEF Held
<1>5. \A w \in OpenWindows' : w < nextWinID'
  BY <1>1, <1>2, <1>3 DEF TidyInv, Tidy, WinID
<1>6. Tidy' /\ (AllShown => AllShown')
  BY <1>1, <1>2, <1>3, <1>4, <1>5 DEF TidyInv, Tidy, AllShown
<1> QED BY <1>1, <1>2, <1>3, <1>6

LEMMA CloseWindowBars ==
  ASSUME TidyInv, TypeOK', NEW id \in WinID, CloseWindow(id)
  PROVE  /\ Tidy' /\ (AllShown => AllShown')
         /\ tabs' = tabs
         /\ \/ /\ Held(id) = {}
               /\ OpenWindows' = OpenWindows \ {id}
               /\ UNCHANGED tabIDs
            \/ /\ Held(id) # {}
               /\ \E heir \in WinID \ {id} :
                    /\ heir \in OpenWindows \/ OpenWindows = {id}
                    /\ OpenWindows' = (OpenWindows \ {id}) \cup {heir}
                    /\ Held(heir)' = Held(heir) \cup Held(id)
                    /\ Held(id)' = {}
                    /\ \A w \in WinID \ {heir, id} : Held(w)' = Held(w)
                    /\ winFocus' = [winFocus EXCEPT ![id] = NoTab,
                          ![heir] = IF @ = NoTab THEN (tabIDs[heir] \o tabIDs[id])[1]
                                                 ELSE @]
                    /\ tabIDs'[heir] = tabIDs[heir] \o tabIDs[id]
<1> DEFINE left == Without(windows, id)
           heir == Heir(left)
           bar == tabIDs[heir] \o tabIDs[id]
<1>1. id \in OpenWindows /\ tabs' = tabs
  BY DEF CloseWindow
<1>2. CASE tabIDs[id] = <<>>
  <2>1. windows' = left /\ UNCHANGED <<tabIDs, nextWinID>>
    BY <1>2 DEF CloseWindow
  <2>2. windows \in Seq(WinID) /\ IsInjective(windows) /\ id \in Range(windows)
    BY <1>1 DEF TidyInv, Tidy, IndexInv, TypeOK, OpenWindows
  <2>3. OpenWindows' = OpenWindows \ {id} /\ IsInjective(windows')
    BY <2>1, <2>2, WithoutElements DEF OpenWindows
  <2>4. Held(id) = {}
    BY <1>2, EmptySeq DEF Held, Range
  <2>5. Tidy' /\ (AllShown => AllShown')
    BY <1>1, <2>1, <2>3, <2>4 DEF TidyInv, Tidy, AllShown, Held
  <2> QED BY <1>1, <2>1, <2>3, <2>4, <2>5
<1>3. CASE tabIDs[id] # <<>>
  <2>1. /\ left = <<>> => nextWinID <= MaxWinID
        /\ windows' = IF left = <<>> THEN <<heir>> ELSE left
        /\ nextWinID' = IF left = <<>> THEN nextWinID + 1 ELSE nextWinID
        /\ tabIDs' = [tabIDs EXCEPT ![heir] = bar, ![id] = <<>>]
        /\ winFocus' = [winFocus EXCEPT ![id] = NoTab,
                          ![heir] = IF @ = NoTab THEN bar[1] ELSE @]
    BY <1>3 DEF CloseWindow
  <2>2. /\ left \in Seq(WinID) /\ Range(left) = OpenWindows \ {id}
        /\ IsInjective(left)
        /\ heir \in WinID \ {id}
        /\ IF left = <<>> THEN OpenWindows = {id} /\ heir = nextWinID
                          ELSE heir \in OpenWindows
    BY <1>1, <2>1, HeirIsOther
  <2> HIDE DEF left, heir
  <2>3. PICK h \in WinID \ {id} : h = heir
    BY <2>2
  <2>4. /\ tabIDs \in [WinID -> Seq(TabID)] /\ nextWinID \in 1..(MaxWinID + 1)
        /\ OpenWindows \subseteq WinID
    BY OpenWindowsTyped DEF TidyInv, IndexInv, TypeOK
  <2>5. tabIDs'[h] = bar /\ tabIDs'[id] = <<>>
        /\ \A w \in WinID \ {h, id} : tabIDs'[w] = tabIDs[w]
    BY <2>1, <2>3, <2>4
  <2>6. Held(h) \cap Held(id) = {}
    BY <2>3 DEF TidyInv, Tidy
  <2>7. Range(bar) = Held(h) \cup Held(id) /\ IsInjective(bar)
    <3>1. bar = tabIDs[h] \o tabIDs[id]
      BY <2>3
    <3> HIDE DEF bar
    <3> QED BY <2>4, <2>6, <3>1, ConcatElements DEF TidyInv, Tidy, Held
  <2> HIDE DEF bar
  <2>8. /\ Held(h)' = Held(h) \cup Held(id)
        /\ Held(id)' = {}
        /\ \A w \in WinID \ {h, id} : Held(w)' = Held(w)
    <3>1. Range(<<>>) = {}
      BY DEF Range
    <3> QED BY <2>5, <2>7, <3>1 DEF Held
  <2>9. OpenWindows' = (OpenWindows \ {id}) \cup {h} /\ IsInjective(windows')
    <3>1. CASE left = <<>>
      <4>1. windows' = <<h>>
        BY <2>1, <2>3, <3>1
      <4>2. DOMAIN <<h>> = {1} /\ <<h>>[1] = h
        OBVIOUS
      <4>3. Range(<<h>>) = {h} /\ IsInjective(<<h>>)
        BY <4>2 DEF Range, IsInjective
      <4> QED BY <2>2, <3>1, <4>1, <4>3 DEF OpenWindows
    <3>2. CASE left # <<>>
      BY <2>1, <2>2, <2>3, <3>2 DEF OpenWindows
    <3> QED BY <3>1, <3>2
  <2>10. \A w \in OpenWindows' : w < nextWinID'
    <3>1. CASE left = <<>>
      BY <2>1, <2>2, <2>3, <2>4, <2>9, <3>1
    <3>2. CASE left # <<>>
      BY <2>1, <2>2, <2>3, <2>9, <3>2 DEF TidyInv, Tidy
    <3> QED BY <3>1, <3>2
  <2>11. \A w \in WinID : IsInjective(tabIDs'[w])
    <3>1. IsInjective(<<>>)
      BY DEF IsInjective
    <3> QED BY <2>5, <2>7, <3>1 DEF TidyInv, Tidy
  <2>12. Held(id) # {}
    BY <1>3, <2>4, EmptyBar DEF Held
  <2>13. \A w \in WinID \ OpenWindows' : Held(w)' = {}
    BY <1>1, <2>8, <2>9 DEF TidyInv, Tidy
  <2>14. \A w, v \in WinID : \A t : t \in Held(w)' /\ t \in Held(v)' => w = v
    BY <2>8 DEF TidyInv, Tidy
  <2>15. /\ \A w \in WinID : Held(w)' \subseteq tabs'
         /\ AllShown => AllShown'
    BY <1>1, <2>8 DEF TidyInv, Tidy, AllShown
  <2>16. Tidy' /\ (AllShown => AllShown')
    BY <2>9, <2>10, <2>11, <2>13, <2>14, <2>15 DEF Tidy
  <2>17. h \in OpenWindows \/ OpenWindows = {id}
    BY <2>2, <2>3
  <2>18. /\ tabIDs'[h] = tabIDs[h] \o tabIDs[id]
         /\ winFocus' = [winFocus EXCEPT ![id] = NoTab,
               ![h] = IF @ = NoTab THEN (tabIDs[h] \o tabIDs[id])[1] ELSE @]
    BY <2>1, <2>3, <2>5 DEF bar
  <2> QED BY <1>1, <2>8, <2>9, <2>12, <2>16, <2>17, <2>18
<1> QED BY <1>2, <1>3

\* A tab joins the bar of one window, open already or the only one there is.
LEMMA NewTabBars ==
  ASSUME TidyInv, TypeOK', NEW w \in AnyWindow, NEW n \in Labels, NewTab(w, n)
  PROVE  /\ Tidy' /\ (AllShown => AllShown')
         /\ nextTabID \in TabID \ tabs
         /\ tabs' = tabs \cup {nextTabID}
         /\ \E home \in WinID :
              /\ home \in OpenWindows \/ OpenWindows = {}
              /\ OpenWindows' = OpenWindows \cup {home}
              /\ Held(home)' = Held(home) \cup {nextTabID}
              /\ \A v \in WinID \ {home} : Held(v)' = Held(v)
              /\ winFocus' = [winFocus EXCEPT ![home] = IF @ = NoTab THEN nextTabID ELSE @]
<1> DEFINE t == nextTabID
           fresh == w \notin OpenWindows /\ windows = <<>>
           home == IF w \in OpenWindows THEN w ELSE Heir(windows)
<1>1. /\ fresh => nextWinID <= MaxWinID
      /\ tabs' = tabs \cup {t}
      /\ windows' = IF fresh THEN <<home>> ELSE windows
      /\ nextWinID' = IF fresh THEN nextWinID + 1 ELSE nextWinID
      /\ tabIDs' = [tabIDs EXCEPT ![home] = Append(@, t)]
      /\ winFocus' = [winFocus EXCEPT ![home] = IF @ = NoTab THEN t ELSE @]
  BY DEF NewTab
<1>2. t \in TabID /\ t \notin tabs
  BY DEF NewTab, TidyInv, IndexInv, IdsSpent, TypeOK, TabID
<1>3. /\ windows \in Seq(WinID) /\ OpenWindows \subseteq WinID
      /\ nextWinID \in 1..(MaxWinID + 1)
      /\ tabIDs \in [WinID -> Seq(TabID)]
      /\ windows = <<>> <=> OpenWindows = {}
  BY OpenWindowsTyped, EmptyBar DEF TidyInv, IndexInv, TypeOK, OpenWindows
<1>4. /\ home \in WinID
      /\ IF fresh THEN OpenWindows = {} /\ home = nextWinID ELSE home \in OpenWindows
  <2>1. CASE w \in OpenWindows
    BY <1>3, <2>1
  <2>2. CASE fresh
    BY <1>1, <1>3, <2>2 DEF Heir, WinID
  <2>3. CASE w \notin OpenWindows /\ windows # <<>>
    BY <1>3, <2>3, FirstHeld DEF Heir, OpenWindows
  <2> QED BY <2>1, <2>2, <2>3
<1> HIDE DEF home, fresh
<1>5. PICK h \in WinID : h = home
  BY <1>4
<1>6. OpenWindows' = OpenWindows \cup {h} /\ IsInjective(windows')
  <2>1. CASE fresh
    <3>1. DOMAIN <<h>> = {1} /\ <<h>>[1] = h
      OBVIOUS
    <3>2. Range(<<h>>) = {h} /\ IsInjective(<<h>>)
      BY <3>1 DEF Range, IsInjective
    <3> QED BY <1>1, <1>4, <1>5, <2>1, <3>2 DEF OpenWindows
  <2>2. CASE ~fresh
    BY <1>1, <1>4, <1>5, <2>2 DEF OpenWindows, TidyInv, Tidy
  <2> QED BY <2>1, <2>2
<1>7. \A v \in OpenWindows' : v < nextWinID'
  <2>1. CASE fresh
    BY <1>1, <1>3, <1>4, <1>5, <1>6, <2>1
  <2>2. CASE ~fresh
    BY <1>1, <1>4, <1>5, <1>6, <2>2 DEF TidyInv, Tidy
  <2> QED BY <2>1, <2>2
<1>8. tabIDs'[h] = Append(tabIDs[h], t) /\ \A v \in WinID \ {h} : tabIDs'[v] = tabIDs[v]
  BY <1>1, <1>3, <1>5
<1>9. t \notin Held(h)
  BY <1>2 DEF TidyInv, Tidy
<1>10. Range(tabIDs'[h]) = Held(h) \cup {t} /\ IsInjective(tabIDs'[h])
  BY <1>2, <1>3, <1>8, <1>9, AppendElements DEF TidyInv, Tidy, Held
<1>11. Held(h)' = Held(h) \cup {t} /\ \A v \in WinID \ {h} : Held(v)' = Held(v)
  BY <1>8, <1>10 DEF Held
<1>12. \A v \in WinID : IsInjective(tabIDs'[v])
  BY <1>8, <1>10 DEF TidyInv, Tidy
<1>13. \A v \in WinID \ OpenWindows' : Held(v)' = {}
  BY <1>6, <1>11 DEF TidyInv, Tidy
<1>14. \A u, v \in WinID : \A s : s \in Held(u)' /\ s \in Held(v)' => u = v
  BY <1>2, <1>11 DEF TidyInv, Tidy
<1>15. /\ \A v \in WinID : Held(v)' \subseteq tabs'
       /\ AllShown => AllShown'
  BY <1>1, <1>11 DEF TidyInv, Tidy, AllShown
<1>16. Tidy' /\ (AllShown => AllShown')
  BY <1>6, <1>7, <1>12, <1>13, <1>14, <1>15 DEF Tidy
<1>17. /\ h \in OpenWindows \/ OpenWindows = {}
       /\ winFocus' = [winFocus EXCEPT ![h] = IF @ = NoTab THEN nextTabID ELSE @]
  BY <1>1, <1>4, <1>5
<1> QED BY <1>1, <1>2, <1>6, <1>11, <1>16, <1>17

\* A moved tab leaves one bar and joins one, perhaps the same; without a stamp
\* it stays in its window.
LEMMA MoveTabBars ==
  ASSUME TidyInv, TypeOK', NEW t \in TabID, NEW w \in AnyWindow, NEW i \in MoveIndex,
         MoveTab(t, w, i)
  PROVE  /\ Tidy' /\ (AllShown => AllShown')
         /\ t \in tabs
         /\ UNCHANGED <<tabs, windows, focusedTabID>>
         /\ \E src, dst \in OpenWindows :
              /\ t \in Held(src)
              /\ dst = src \/ (dst = w /\ Stamp)
              /\ Held(src)' = IF dst = src THEN Held(src) ELSE Held(src) \ {t}
              /\ Held(dst)' = Held(dst) \cup {t}
              /\ \A v \in WinID \ {src, dst} : Held(v)' = Held(v)
              /\ winFocus' = [[winFocus EXCEPT ![src] =
                                 FocusAfterLoss(Without(tabIDs[src], t), @, t)]
                               EXCEPT ![dst] = IF @ = NoTab THEN t ELSE @]
<1> DEFINE src == WindowOf(t)
           bar == Without(tabIDs[src], t)
           left == [tabIDs EXCEPT ![src] = bar]
           front == [winFocus EXCEPT ![src] = FocusAfterLoss(bar, @, t)]
           dst == IF w \in OpenWindows THEN w ELSE src
           at == IF w \in OpenWindows /\ i \in 0..Len(left[w])
                 THEN i ELSE Len(left[dst])
<1>1. /\ tabIDs' = [left EXCEPT ![dst] = InsertAt(@, at + 1, t)]
      /\ winFocus' = [front EXCEPT ![dst] = IF @ = NoTab THEN t ELSE @]
      /\ w \in OpenWindows => Stamp
      /\ UNCHANGED <<windows, focusedTabID, tabs, nextWinID>>
  BY DEF MoveTab
<1>2. src \in OpenWindows /\ t \in Held(src) /\ dst \in OpenWindows
  BY HeldIsHasTab DEF MoveTab, WindowOf
<1> HIDE DEF src
<1>3. PICK s \in OpenWindows, d \in OpenWindows : s = src /\ d = dst
  BY <1>2
<1>4. /\ tabIDs \in [WinID -> Seq(TabID)] /\ OpenWindows \subseteq WinID
      /\ winFocus \in [WinID -> TabID \cup {NoTab}]
  BY OpenWindowsTyped DEF TidyInv, IndexInv, TypeOK
<1>5. bar \in Seq(TabID) /\ Range(bar) = Held(s) \ {t} /\ IsInjective(bar)
  <2>1. tabIDs[s] \in Seq(TabID) /\ t \in Range(tabIDs[s]) /\ IsInjective(tabIDs[s])
        /\ bar = Without(tabIDs[s], t)
    BY <1>2, <1>3, <1>4 DEF TidyInv, Tidy, Held
  <2> HIDE DEF bar
  <2> QED BY <2>1, WithoutElements DEF Held
<1>6. winFocus' = [[winFocus EXCEPT ![s] = FocusAfterLoss(Without(tabIDs[s], t), @, t)]
                    EXCEPT ![d] = IF @ = NoTab THEN t ELSE @]
  BY <1>1, <1>3
<1>7. d = s \/ (d = w /\ Stamp)
  BY <1>1, <1>3
<1> HIDE DEF bar, front
<1>8. left \in [WinID -> Seq(TabID)] /\ left[s] = bar
      /\ \A v \in WinID \ {s} : left[v] = tabIDs[v]
  BY <1>3, <1>4, <1>5
<1>9. at + 1 \in 1..(Len(left[d]) + 1)
  <2>1. Len(left[d]) \in Nat
    BY <1>4, <1>8, LenProperties
  <2>2. CASE w \in OpenWindows
    <3>1. d = w
      BY <1>3, <2>2
    <3> HIDE DEF left
    <3> QED BY <1>3, <2>1, <2>2, <3>1
  <2>3. CASE w \notin OpenWindows
    <3>1. at = Len(left[d])
      BY <1>3, <2>3
    <3> HIDE DEF left, at
    <3> QED BY <2>1, <3>1
  <2> QED BY <2>2, <2>3
<1>10. tabIDs' = [left EXCEPT ![d] = InsertAt(@, at + 1, t)]
  BY <1>1, <1>3
<1> HIDE DEF left, dst, at
<1>11. t \notin Range(left[d]) /\ IsInjective(left[d])
  BY <1>2, <1>3, <1>4, <1>5, <1>8 DEF TidyInv, Tidy, Held
<1>12. /\ Range(tabIDs'[d]) = Range(left[d]) \cup {t}
       /\ IsInjective(tabIDs'[d])
       /\ \A v \in WinID \ {d} : tabIDs'[v] = left[v]
  BY <1>4, <1>8, <1>9, <1>10, <1>11, InsertAtElements
<1>13. /\ Held(s)' = IF d = s THEN Held(s) ELSE Held(s) \ {t}
       /\ Held(d)' = Held(d) \cup {t}
       /\ \A v \in WinID \ {s, d} : Held(v)' = Held(v)
  <2>1. \A v \in WinID \ {s, d} : tabIDs'[v] = tabIDs[v]
    BY <1>8, <1>12
  <2>2. CASE d = s
    <3>1. Range(tabIDs'[s]) = Held(s)
      BY <1>2, <1>3, <1>5, <1>8, <1>12, <2>2 DEF Held
    <3> QED BY <1>2, <1>3, <2>1, <2>2, <3>1 DEF Held
  <2>3. CASE d # s
    <3>1. tabIDs'[s] = bar /\ Range(tabIDs'[d]) = Held(d) \cup {t}
      BY <1>4, <1>8, <1>12, <2>3 DEF Held
    <3> QED BY <1>5, <2>1, <2>3, <3>1 DEF Held
  <2> QED BY <2>2, <2>3
<1>14. t \in tabs /\ OpenWindows' = OpenWindows
  BY <1>1, <1>2, <1>3, <1>4 DEF TidyInv, Tidy, OpenWindows
<1>15. \A v \in WinID : IsInjective(tabIDs'[v])
  BY <1>5, <1>8, <1>12 DEF TidyInv, Tidy
<1>16. \A v \in WinID \ OpenWindows' : Held(v)' = {}
  BY <1>13, <1>14 DEF TidyInv, Tidy
<1>17. \A u, v \in WinID : \A x : x \in Held(u)' /\ x \in Held(v)' => u = v
  <2>1. \A v \in WinID : t \in Held(v) => v = s
    BY <1>2, <1>3, <1>4 DEF TidyInv, Tidy
  <2>2. ASSUME NEW v \in WinID, NEW x
        PROVE  x \in Held(v)' <=> IF x = t THEN v = d ELSE x \in Held(v)
    BY <1>13, <2>1
  <2> QED BY <2>2 DEF TidyInv, Tidy
<1>18. \A v \in WinID : Held(v)' \subseteq tabs
  BY <1>13, <1>14 DEF TidyInv, Tidy
<1>19. ASSUME NEW x \in tabs, AllShown PROVE \E v \in WinID : x \in Held(v)'
  <2>1. CASE x = t
    BY <1>4, <1>13, <2>1
  <2>2. CASE x # t
    BY <1>13, <1>19, <2>2 DEF AllShown
  <2> QED BY <2>1, <2>2
<1>20. Tidy' /\ (AllShown => AllShown')
  BY <1>1, <1>14, <1>15, <1>16, <1>17, <1>18, <1>19 DEF TidyInv, Tidy, AllShown
<1> QED BY <1>1, <1>2, <1>3, <1>6, <1>7, <1>13, <1>14, <1>20

\* A closed tab leaves its bar, and nothing else moves.
LEMMA CloseTabBars ==
  ASSUME TidyInv, TypeOK', NEW t \in TabID, CloseTab(t)
  PROVE  /\ Tidy' /\ (AllShown => AllShown')
         /\ t \in tabs /\ tabs' = tabs \ {t}
         /\ windows' = windows
         /\ \A v \in WinID : Held(v)' = Held(v) \ {t}
         /\ \A v \in WinID :
              winFocus'[v] = IF t \in Held(v)
                             THEN FocusAfterLoss(tabIDs'[v], winFocus[v], t)
                             ELSE winFocus[v]
         /\ focusedTabID' = IF focusedTabID = t THEN NextFocus(winFocus')
                                                ELSE focusedTabID
<1> DEFINE holds(w) == w \in OpenWindows /\ HasTab(w, t)
           bars == [w \in WinID |->
                      IF holds(w) THEN Without(tabIDs[w], t) ELSE tabIDs[w]]
           front == [w \in WinID |->
                      IF holds(w) THEN FocusAfterLoss(bars[w], winFocus[w], t)
                                  ELSE winFocus[w]]
<1>1. /\ t \in tabs /\ tabs' = tabs \ {t}
      /\ tabIDs' = bars /\ winFocus' = front
      /\ focusedTabID' = IF focusedTabID = t THEN NextFocus(front) ELSE focusedTabID
      /\ UNCHANGED <<windows, nextWinID>>
  BY DEF CloseTab
<1>2. \A v \in WinID : holds(v) <=> t \in Held(v)
  BY HeldIsHasTab DEF TidyInv, Tidy
<1>3. ASSUME NEW v \in WinID
      PROVE  Range(bars[v]) = Held(v) \ {t} /\ IsInjective(bars[v])
  <2>1. tabIDs[v] \in Seq(TabID) /\ IsInjective(tabIDs[v])
    BY DEF TidyInv, Tidy, IndexInv, TypeOK
  <2>2. CASE holds(v)
    <3>1. bars[v] = Without(tabIDs[v], t) /\ t \in Range(tabIDs[v])
      BY <1>2, <2>2 DEF Held
    <3> HIDE DEF bars, holds
    <3> QED BY <2>1, <3>1, WithoutElements DEF Held
  <2>3. CASE ~holds(v)
    BY <1>2, <2>1, <2>3 DEF Held
  <2> QED BY <2>2, <2>3
<1>4. \A v \in WinID :
        front[v] = IF t \in Held(v) THEN FocusAfterLoss(bars[v], winFocus[v], t)
                                    ELSE winFocus[v]
  BY <1>2
<1> HIDE DEF bars, front
<1>5. \A v \in WinID : Held(v)' = Held(v) \ {t}
  BY <1>1, <1>3 DEF Held
<1>6. /\ \A v \in WinID : IsInjective(tabIDs'[v])
      /\ OpenWindows' = OpenWindows
  BY <1>1, <1>3 DEF OpenWindows
<1>7. /\ \A v \in WinID : Held(v)' \subseteq tabs'
      /\ AllShown => AllShown'
      /\ \A v \in WinID \ OpenWindows' : Held(v)' = {}
  BY <1>1, <1>5, <1>6 DEF TidyInv, Tidy, AllShown
<1>8. \A u, v \in WinID : \A s : s \in Held(u)' /\ s \in Held(v)' => u = v
  BY <1>5 DEF TidyInv, Tidy
<1>9. Tidy' /\ (AllShown => AllShown')
  BY <1>1, <1>6, <1>7, <1>8 DEF TidyInv, Tidy
<1> QED BY <1>1, <1>4, <1>5, <1>9

\* Only the steps above edit windows, bars or tabs.
editable == <<windows, tabIDs, tabs>>
LEMMA OthersLeaveBars ==
  ASSUME [Next]_vars,
         ~NewWindow, ~\E w \in WinID : CloseWindow(w),
         ~\E w \in AnyWindow, n \in Labels : NewTab(w, n),
         ~\E t \in TabID : CloseTab(t),
         ~\E t \in TabID, w \in AnyWindow, i \in MoveIndex : MoveTab(t, w, i),
         TypeOK
  PROVE  UNCHANGED <<editable, nextWinID, nextTabID>>
<1>1. ASSUME NEW w \in AnyWindow, CreateUnnamed(w) PROVE FALSE
  BY <1>1 DEF CreateUnnamed, Labels
<1>2. ASSUME NEW call \in pending, FinishSpawn(call) PROVE FALSE
  BY <1>2 DEF FinishSpawn, TypeOK, Call
<1>3. CASE \E c \in Callers, n \in Names, w \in AnyWindow : BeginFindOrCreate(c, n, w)
  BY <1>3 DEF BeginFindOrCreate, layout, editable
<1>4. CASE \E c \in Callers : BeginEnsureInitial(c)
  BY <1>4 DEF BeginEnsureInitial, layout, editable
<1>5. CASE \E call \in pending : FailSpawn(call)
  BY <1>5 DEF FailSpawn, layout, editable
<1>6. CASE \E t \in TabID : ChildExit(t) \/ SetFocusedTab(t)
  BY <1>6 DEF ChildExit, SetFocusedTab, layout, editable
<1>7. CASE \E t \in TabID, n \in RenameTo : RenameTab(t, n)
  BY <1>7 DEF RenameTab, layout, editable
<1>8. CASE \E w \in WinID, t \in TabID : SetWindowFocusedTab(w, t)
  BY <1>8 DEF SetWindowFocusedTab, editable
<1>9. CASE UNCHANGED vars
  BY <1>9 DEF vars, editable
<1> QED BY <1>1, <1>2, <1>3, <1>4, <1>5, <1>6, <1>7, <1>8, <1>9 DEF Next

LEMMA InitBars == Init => BarInv
<1> SUFFICES ASSUME Init PROVE BarInv
  OBVIOUS
<1>1. IndexInv
  BY InitTyped DEF Init, IndexInv, IdsSpent, IndexInLockstep
<1>2. DOMAIN <<>> = {} /\ Range(<<>>) = {} /\ IsInjective(<<>>)
  BY DEF Range, IsInjective
<1>3. OpenWindows = {} /\ \A w \in WinID : tabIDs[w] = <<>> /\ Held(w) = {}
  BY <1>2 DEF Init, OpenWindows, Held
<1> QED BY <1>1, <1>2, <1>3 DEF Init, BarInv, Bars, Tidy, AllShown

LEMMA NextTidy == TidyInv /\ [Next]_vars => TidyInv' /\ (AllShown => AllShown')
<1> SUFFICES ASSUME TidyInv, [Next]_vars PROVE Tidy' /\ (AllShown => AllShown')
  BY NextIndexed DEF TidyInv
<1>0. TypeOK /\ TypeOK'
  BY NextTyped DEF TidyInv, IndexInv
<1>1. CASE NewWindow
  BY <1>0, <1>1, NewWindowBars
<1>2. CASE \E w \in WinID : CloseWindow(w)
  BY <1>0, <1>2, CloseWindowBars
<1>3. CASE \E w \in AnyWindow, n \in Labels : NewTab(w, n)
  BY <1>0, <1>3, NewTabBars
<1>4. CASE \E t \in TabID : CloseTab(t)
  BY <1>0, <1>4, CloseTabBars
<1>5. CASE \E t \in TabID, w \in AnyWindow, i \in MoveIndex : MoveTab(t, w, i)
  BY <1>0, <1>5, MoveTabBars
<1>6. CASE UNCHANGED <<editable, nextWinID>>
  BY <1>6 DEF editable, TidyInv, Tidy, AllShown, Held, OpenWindows
<1> QED BY <1>0, <1>1, <1>2, <1>3, <1>4, <1>5, <1>6, OthersLeaveBars

LEMMA NextBars == BarInv /\ [Next]_vars => BarInv'
BY NextTidy, BarsAreTidy DEF BarInv, Bars, TidyInv

LEMMA BarsSound == BarInv => EveryTabInOneWindow
<1> SUFFICES ASSUME BarInv PROVE EveryTabInOneWindow
  OBVIOUS
<1>1. ASSUME NEW t \in tabs PROVE \E w \in OpenWindows : HasTab(w, t)
  BY HeldIsHasTab DEF BarInv, Bars, Tidy, AllShown
<1>2. ASSUME NEW w \in WinID, NEW i \in DOMAIN tabIDs[w]
      PROVE  /\ w \in OpenWindows
             /\ tabIDs[w][i] \in tabs
             /\ \A v \in WinID : \A j \in DOMAIN tabIDs[v] :
                  tabIDs[v][j] = tabIDs[w][i] => v = w /\ j = i
  <2>1. tabIDs[w][i] \in Held(w)
    BY DEF Held, Range
  <2>2. ASSUME NEW v \in WinID, NEW j \in DOMAIN tabIDs[v], tabIDs[v][j] = tabIDs[w][i]
        PROVE  v = w /\ j = i
    <3>1. v = w
      BY <2>1, <2>2 DEF BarInv, Bars, Tidy, AllShown, Held, Range
    <3> QED BY <2>2, <3>1 DEF BarInv, Bars, Tidy, AllShown, IsInjective
  <2> QED BY <2>1, <2>2 DEF BarInv, Bars, Tidy, AllShown
<1>3. \A i, j \in DOMAIN windows : windows[i] = windows[j] => i = j
  BY DEF BarInv, Bars, Tidy, AllShown, IsInjective
<1> QED BY <1>1, <1>2, <1>3 DEF EveryTabInOneWindow

\* However tabs are created, moved between bars, closed and inherited by the
\* heir of a closed window, every tab sits in one place of one open window's
\* bar and the bars hold nothing else (NewTab, MoveTab, CloseTab, CloseWindow).
THEOREM TabsArePlacedOnce == Spec => []EveryTabInOneWindow
<1>1. Init => BarInv
  BY InitBars
<1>2. BarInv /\ [Next]_vars => BarInv'
  BY NextBars
<1>3. BarInv => EveryTabInOneWindow
  BY BarsSound
<1> QED BY <1>1, <1>2, <1>3, PTL DEF Spec

-----------------------------------------------------------------------------
(* Focus.                                                                  *)

\* A window that is not open has nothing in front either, for it may be opened.
FrontInv ==
  \A w \in WinID : IF Held(w) = {} THEN winFocus[w] = NoTab ELSE winFocus[w] \in Held(w)

FocusInv == FrontInv /\ IF tabs = {} THEN focusedTabID = NoTab ELSE focusedTabID \in tabs

\* A bar that lost the tab in front shows another one if it has any.
LEMMA FocusMovesOn ==
  ASSUME NEW bar \in Seq(TabID), NEW f, NEW t, f = t \/ f \in Range(bar)
  PROVE  IF Range(bar) = {} THEN FocusAfterLoss(bar, f, t) = NoTab \/ f # t
                            ELSE FocusAfterLoss(bar, f, t) \in Range(bar)
<1>1. CASE f # t
  BY <1>1 DEF FocusAfterLoss
<1>2. CASE f = t /\ bar = <<>>
  BY <1>2, EmptyBar DEF FocusAfterLoss
<1>3. CASE f = t /\ bar # <<>>
  BY <1>3, EmptyBar, FirstHeld DEF FocusAfterLoss
<1> QED BY <1>1, <1>2, <1>3

\* Where there is a tab in front of some window, that is where focus goes.
LEMMA NextFocusIsShown ==
  ASSUME windows \in Seq(WinID), NEW front \in [WinID -> TabID \cup {NoTab}]
  PROVE  \/ /\ NextFocus(front) = NoTab
            /\ \A w \in OpenWindows : front[w] = NoTab
         \/ \E w \in OpenWindows : NextFocus(front) = front[w] /\ front[w] # NoTab
<1> DEFINE shown == {i \in DOMAIN windows : front[windows[i]] # NoTab}
<1>1. shown \subseteq Nat
  BY LenProperties
<1>2. CASE shown = {}
  BY <1>2 DEF NextFocus, OpenWindows, Range
<1>3. CASE shown # {}
  <2>1. Min(shown) \in shown
    <3> HIDE DEF shown
    <3> QED BY <1>1, <1>3, MinFacts
  <2>2. NextFocus(front) = front[windows[Min(shown)]]
    BY <1>3 DEF NextFocus
  <2> QED BY <2>1, <2>2 DEF OpenWindows, Range
<1> QED BY <1>2, <1>3

LEMMA NewTabFront ==
  ASSUME TidyInv, TypeOK', FrontInv, NEW w \in AnyWindow, NEW n \in Labels, NewTab(w, n)
  PROVE  FrontInv'
<1>1. /\ nextTabID \in TabID \ tabs
      /\ tabs' = tabs \cup {nextTabID}
  BY NewTabBars
<1>2. PICK home \in WinID :
              /\ Held(home)' = Held(home) \cup {nextTabID}
              /\ \A v \in WinID \ {home} : Held(v)' = Held(v)
              /\ winFocus' = [winFocus EXCEPT ![home] = IF @ = NoTab THEN nextTabID ELSE @]
  BY NewTabBars
<1>3. winFocus \in [WinID -> TabID \cup {NoTab}] /\ NoTab \notin TabID /\ tabs \subseteq TabID
  BY DEF TidyInv, IndexInv, TypeOK, TabID, NoTab
<1>4. ASSUME NEW v \in WinID
      PROVE  IF Held(v)' = {} THEN winFocus'[v] = NoTab ELSE winFocus'[v] \in Held(v)'
  <2>1. CASE v = home
    <3>1. winFocus'[v] = IF winFocus[v] = NoTab THEN nextTabID ELSE winFocus[v]
      BY <1>2, <1>3, <2>1
    <3> QED BY <1>2, <2>1, <3>1 DEF FrontInv
  <2>2. CASE v # home
    <3>1. winFocus'[v] = winFocus[v] /\ Held(v)' = Held(v)
      BY <1>2, <1>3, <2>2
    <3> QED BY <3>1 DEF FrontInv
  <2> QED BY <2>1, <2>2
<1> QED BY <1>4 DEF FrontInv

LEMMA CloseWindowFront ==
  ASSUME TidyInv, TypeOK', FrontInv, NEW id \in WinID, CloseWindow(id)
  PROVE  FrontInv'
<1>1. CASE Held(id) = {}
  <2>1. tabIDs[id] = <<>> /\ UNCHANGED tabIDs
    BY <1>1, CloseWindowBars, EmptyBar DEF TidyInv, IndexInv, TypeOK, Held
  <2>2. winFocus' = winFocus
    BY <2>1 DEF CloseWindow
  <2> QED BY <2>1, <2>2 DEF FrontInv, Held
<1>2. CASE Held(id) # {}
  <2>1. PICK heir \in WinID \ {id} :
                    /\ Held(heir)' = Held(heir) \cup Held(id)
                    /\ Held(id)' = {}
                    /\ \A w \in WinID \ {heir, id} : Held(w)' = Held(w)
                    /\ winFocus' = [winFocus EXCEPT ![id] = NoTab,
                          ![heir] = IF @ = NoTab THEN (tabIDs[heir] \o tabIDs[id])[1]
                                                 ELSE @]
                    /\ tabIDs'[heir] = tabIDs[heir] \o tabIDs[id]
    BY <1>2, CloseWindowBars
  <2>2. winFocus \in [WinID -> TabID \cup {NoTab}] /\ tabIDs' \in [WinID -> Seq(TabID)]
    BY DEF TidyInv, IndexInv, TypeOK
  <2>3. tabIDs'[heir][1] \in Held(heir)'
    <3>1. tabIDs'[heir] \in Seq(TabID) /\ Range(tabIDs'[heir]) # {}
      BY <1>2, <2>1, <2>2 DEF Held
    <3> QED BY <3>1, EmptyBar, FirstHeld DEF Held
  <2>4. ASSUME NEW v \in WinID
        PROVE  IF Held(v)' = {} THEN winFocus'[v] = NoTab ELSE winFocus'[v] \in Held(v)'
    <3>1. CASE v = heir
      <4>1. winFocus'[v] = IF winFocus[v] = NoTab THEN tabIDs'[heir][1] ELSE winFocus[v]
        BY <2>1, <2>2, <3>1
      <4> QED BY <2>1, <2>2, <2>3, <3>1, <4>1 DEF FrontInv
    <3>2. CASE v = id
      BY <2>1, <2>2, <3>2
    <3>3. CASE v \notin {heir, id}
      <4>1. winFocus'[v] = winFocus[v] /\ Held(v)' = Held(v)
        BY <2>1, <2>2, <3>3
      <4> QED BY <4>1 DEF FrontInv
    <3> QED BY <3>1, <3>2, <3>3
  <2> QED BY <2>4 DEF FrontInv
<1> QED BY <1>1, <1>2

LEMMA CloseTabFront ==
  ASSUME TidyInv, TypeOK', FrontInv, NEW t \in TabID, CloseTab(t)
  PROVE  FrontInv'
<1>1. /\ t \in tabs /\ tabs' = tabs \ {t} /\ windows' = windows
      /\ \A v \in WinID : Held(v)' = Held(v) \ {t}
      /\ \A v \in WinID :
           winFocus'[v] = IF t \in Held(v)
                          THEN FocusAfterLoss(tabIDs'[v], winFocus[v], t)
                          ELSE winFocus[v]
  BY CloseTabBars
<1>2. /\ tabIDs' \in [WinID -> Seq(TabID)] /\ winFocus' \in [WinID -> TabID \cup {NoTab}]
      /\ NoTab \notin TabID /\ tabs \subseteq TabID
  BY DEF TidyInv, IndexInv, TypeOK, TabID, NoTab
<1>3. ASSUME NEW v \in WinID
      PROVE  IF Held(v)' = {} THEN winFocus'[v] = NoTab ELSE winFocus'[v] \in Held(v)'
  <2>1. CASE t \in Held(v)
    <3>1. winFocus[v] = t \/ winFocus[v] \in Held(v)'
      BY <1>1, <2>1 DEF FrontInv
    <3>2. tabIDs'[v] \in Seq(TabID) /\ Held(v)' = Range(tabIDs'[v])
      BY <1>2 DEF Held
    <3>3. IF Held(v)' = {} THEN winFocus'[v] = NoTab \/ winFocus[v] # t
                           ELSE winFocus'[v] \in Held(v)'
      BY <1>1, <2>1, <3>1, <3>2, FocusMovesOn
    <3> QED BY <3>1, <3>3
  <2>2. CASE t \notin Held(v)
    <3>1. winFocus'[v] = winFocus[v] /\ Held(v)' = Held(v)
      BY <1>1, <2>2
    <3> QED BY <3>1 DEF FrontInv
  <2> QED BY <2>1, <2>2
<1> QED BY <1>3 DEF FrontInv

LEMMA CloseTabFocus ==
  ASSUME BarInv, TypeOK', FocusInv, NEW t \in TabID, CloseTab(t)
  PROVE  FocusInv'
<1>1. /\ t \in tabs /\ tabs' = tabs \ {t} /\ windows' = windows
      /\ \A v \in WinID : Held(v)' = Held(v) \ {t}
      /\ \A v \in WinID :
           winFocus'[v] = IF t \in Held(v)
                          THEN FocusAfterLoss(tabIDs'[v], winFocus[v], t)
                          ELSE winFocus[v]
      /\ focusedTabID' = IF focusedTabID = t THEN NextFocus(winFocus') ELSE focusedTabID
      /\ Bars'
  BY CloseTabBars, BarsAreTidy DEF Bars
<1>2. /\ tabIDs' \in [WinID -> Seq(TabID)] /\ winFocus' \in [WinID -> TabID \cup {NoTab}]
      /\ NoTab \notin TabID /\ tabs \subseteq TabID
  BY DEF BarInv, IndexInv, TypeOK, TabID, NoTab
<1>3. FrontInv'
  BY CloseTabFront, BarsAreTidy DEF FocusInv
<1>4. IF tabs' = {} THEN focusedTabID' = NoTab ELSE focusedTabID' \in tabs'
  <2>1. CASE focusedTabID # t
    BY <1>1, <2>1 DEF FocusInv
  <2>2. CASE focusedTabID = t
    <3>1. \/ /\ focusedTabID' = NoTab
             /\ \A w \in OpenWindows : winFocus'[w] = NoTab
          \/ \E w \in OpenWindows : focusedTabID' = winFocus'[w] /\ winFocus'[w] # NoTab
      <4>1. windows \in Seq(WinID)
        BY DEF BarInv, IndexInv, TypeOK
      <4> QED BY <1>1, <1>2, <2>2, <4>1, NextFocusIsShown
    <3>2. OpenWindows \subseteq WinID /\ OpenWindows' = OpenWindows
      BY <1>1, OpenWindowsTyped DEF BarInv, IndexInv, TypeOK, OpenWindows
    <3>3. /\ \A v \in WinID : Held(v)' \subseteq tabs'
          /\ \A s \in tabs' : \E v \in OpenWindows : s \in Held(v)'
      BY <1>1, <3>2 DEF Bars, Tidy, AllShown
    <3>4. CASE \E w \in OpenWindows : focusedTabID' = winFocus'[w] /\ winFocus'[w] # NoTab
      BY <1>3, <3>2, <3>3, <3>4 DEF FrontInv
    <3>5. CASE /\ focusedTabID' = NoTab
               /\ \A w \in OpenWindows : winFocus'[w] = NoTab
      <4>1. ASSUME NEW s \in tabs' PROVE FALSE
        <5>1. PICK v \in OpenWindows : s \in Held(v)'
          BY <3>3
        <5>2. winFocus'[v] \in Held(v)' /\ winFocus'[v] = NoTab
          BY <1>3, <3>2, <3>5, <5>1 DEF FrontInv
        <5>3. Held(v)' \subseteq tabs
          BY <1>1, <3>2, <3>3
        <5> QED BY <1>2, <5>2, <5>3
      <4> QED BY <3>5, <4>1
    <3> QED BY <3>1, <3>4, <3>5
  <2> QED BY <2>1, <2>2
<1> QED BY <1>3, <1>4 DEF FocusInv

LEMMA MoveTabFront ==
  ASSUME TidyInv, TypeOK', FrontInv, NEW t \in TabID, NEW w \in AnyWindow,
         NEW i \in MoveIndex, MoveTab(t, w, i)
  PROVE  FrontInv'
<1>1. PICK src \in OpenWindows, dst \in OpenWindows :
              /\ t \in Held(src)
              /\ Held(src)' = IF dst = src THEN Held(src) ELSE Held(src) \ {t}
              /\ Held(dst)' = Held(dst) \cup {t}
              /\ \A v \in WinID \ {src, dst} : Held(v)' = Held(v)
              /\ winFocus' = [[winFocus EXCEPT ![src] =
                                 FocusAfterLoss(Without(tabIDs[src], t), @, t)]
                               EXCEPT ![dst] = IF @ = NoTab THEN t ELSE @]
  BY MoveTabBars
<1>2. /\ winFocus \in [WinID -> TabID \cup {NoTab}] /\ OpenWindows \subseteq WinID
      /\ NoTab \notin TabID /\ tabIDs[src] \in Seq(TabID) /\ IsInjective(tabIDs[src])
  BY OpenWindowsTyped DEF TidyInv, Tidy, IndexInv, TypeOK, TabID, NoTab
<1> DEFINE bar == Without(tabIDs[src], t)
           kept == FocusAfterLoss(bar, winFocus[src], t)
<1>3. bar \in Seq(TabID) /\ Range(bar) = Held(src) \ {t}
  BY <1>1, <1>2, WithoutElements DEF Held
<1>4. IF Held(src) \ {t} = {} THEN kept = NoTab ELSE kept \in Held(src) \ {t}
  <2>1. winFocus[src] = t \/ winFocus[src] \in Range(bar)
    BY <1>1, <1>2, <1>3 DEF FrontInv
  <2> HIDE DEF bar
  <2> QED BY <1>3, <2>1, FocusMovesOn
<1> HIDE DEF bar, kept
<1>5. /\ winFocus'[dst] = LET f == IF dst = src THEN kept ELSE winFocus[dst]
                          IN IF f = NoTab THEN t ELSE f
      /\ dst # src => winFocus'[src] = kept
      /\ \A v \in WinID \ {src, dst} : winFocus'[v] = winFocus[v]
  <2>1. winFocus' = [[winFocus EXCEPT ![src] = kept]
                      EXCEPT ![dst] = IF @ = NoTab THEN t ELSE @]
    BY <1>1 DEF kept, bar
  <2> QED BY <1>2, <2>1
<1>6. ASSUME NEW v \in WinID
      PROVE  IF Held(v)' = {} THEN winFocus'[v] = NoTab ELSE winFocus'[v] \in Held(v)'
  <2>1. CASE v = dst
    BY <1>1, <1>2, <1>4, <1>5, <2>1 DEF FrontInv
  <2>2. CASE v = src /\ v # dst
    BY <1>1, <1>4, <1>5, <2>2
  <2>3. CASE v \notin {src, dst}
    BY <1>1, <1>5, <2>3 DEF FrontInv
  <2> QED BY <2>1, <2>2, <2>3
<1> QED BY <1>6 DEF FrontInv

LEMMA NextFront == TidyInv /\ FrontInv /\ [Next]_vars => FrontInv'
<1> SUFFICES ASSUME TidyInv, FrontInv, [Next]_vars PROVE FrontInv'
  OBVIOUS
<1>0. TypeOK /\ TypeOK'
  BY NextTyped DEF TidyInv, IndexInv
<1>1. CASE NewWindow
  BY <1>1 DEF NewWindow, FrontInv, Held
<1>2. CASE \E w \in WinID : CloseWindow(w)
  BY <1>0, <1>2, CloseWindowFront
<1>3. CASE \E w \in AnyWindow, n \in Labels : NewTab(w, n)
  BY <1>0, <1>3, NewTabFront
<1>4. CASE \E t \in TabID : CloseTab(t)
  BY <1>0, <1>4, CloseTabFront
<1>5. CASE \E t \in TabID, w \in AnyWindow, i \in MoveIndex : MoveTab(t, w, i)
  BY <1>0, <1>5, MoveTabFront
<1>6. CASE \E w \in WinID, t \in TabID : SetWindowFocusedTab(w, t)
  BY <1>0, <1>6, HeldIsHasTab DEF SetWindowFocusedTab, FrontInv, Held, TypeOK
<1>7. CASE UNCHANGED <<tabIDs, winFocus>>
  BY <1>7 DEF FrontInv, Held
<1>8. CASE \/ \E c \in Callers, n \in Names, w \in AnyWindow : BeginFindOrCreate(c, n, w)
           \/ \E c \in Callers : BeginEnsureInitial(c)
           \/ \E call \in pending : FailSpawn(call)
           \/ \E t \in TabID : ChildExit(t) \/ SetFocusedTab(t)
           \/ \E t \in TabID, n \in RenameTo : RenameTab(t, n)
           \/ UNCHANGED vars
  BY <1>7, <1>8 DEF BeginFindOrCreate, BeginEnsureInitial, FailSpawn, ChildExit, SetFocusedTab,
                    RenameTab, vars, layout
<1>9. ASSUME NEW w \in AnyWindow, CreateUnnamed(w)
      PROVE  \E n \in Labels : NewTab(w, n)
  BY <1>9 DEF CreateUnnamed, Labels
<1>10. ASSUME NEW call \in pending, FinishSpawn(call)
       PROVE  \E w \in AnyWindow, n \in Labels : NewTab(w, n)
  BY <1>0, <1>10 DEF FinishSpawn, TypeOK, Call
<1> QED BY <1>1, <1>2, <1>3, <1>4, <1>5, <1>6, <1>8, <1>9, <1>10 DEF Next

LEMMA NextFocused == BarInv /\ FocusInv /\ [Next]_vars => FocusInv'
<1> SUFFICES ASSUME BarInv, FocusInv, [Next]_vars PROVE FocusInv'
  OBVIOUS
<1>0. TypeOK /\ TypeOK' /\ FrontInv'
  BY NextTyped, NextFront, BarsAreTidy DEF BarInv, IndexInv, FocusInv
<1>1. CASE \E t \in TabID : CloseTab(t)
  BY <1>0, <1>1, CloseTabFocus
<1>2. CASE \E w \in AnyWindow, n \in Labels : NewTab(w, n)
  <2>1. /\ nextTabID \in TabID \ tabs /\ tabs' = tabs \cup {nextTabID}
        /\ focusedTabID' = IF focusedTabID = NoTab THEN nextTabID ELSE focusedTabID
    BY <1>0, <1>2, NewTabBars, BarsAreTidy DEF NewTab
  <2>2. focusedTabID' \in tabs'
    BY <2>1 DEF FocusInv
  <2> QED BY <1>0, <2>1, <2>2 DEF FocusInv
<1>3. CASE \E t \in TabID : SetFocusedTab(t)
  BY <1>0, <1>3 DEF SetFocusedTab, FocusInv
<1>4. CASE UNCHANGED <<tabs, focusedTabID>>
  BY <1>0, <1>4 DEF FocusInv
<1>5. ASSUME NEW id \in WinID, CloseWindow(id)
      PROVE  UNCHANGED <<tabs, focusedTabID>>
  BY <1>5 DEF CloseWindow
<1>6. ASSUME NEW t \in TabID, NEW w \in AnyWindow, NEW i \in MoveIndex, MoveTab(t, w, i)
      PROVE  UNCHANGED <<tabs, focusedTabID>>
  BY <1>6 DEF MoveTab
<1>7. CASE \/ NewWindow
           \/ \E c \in Callers, n \in Names, w \in AnyWindow : BeginFindOrCreate(c, n, w)
           \/ \E c \in Callers : BeginEnsureInitial(c)
           \/ \E call \in pending : FailSpawn(call)
           \/ \E t \in TabID : ChildExit(t)
           \/ \E t \in TabID, n \in RenameTo : RenameTab(t, n)
           \/ \E w \in WinID, t \in TabID : SetWindowFocusedTab(w, t)
           \/ UNCHANGED vars
  BY <1>4, <1>7 DEF NewWindow, BeginFindOrCreate, BeginEnsureInitial, FailSpawn, ChildExit,
                    RenameTab, SetWindowFocusedTab, vars, layout
<1>8. ASSUME NEW w \in AnyWindow, CreateUnnamed(w)
      PROVE  \E n \in Labels : NewTab(w, n)
  BY <1>8 DEF CreateUnnamed, Labels
<1>9. ASSUME NEW call \in pending, FinishSpawn(call)
      PROVE  \E w \in AnyWindow, n \in Labels : NewTab(w, n)
  BY <1>0, <1>9 DEF FinishSpawn, TypeOK, Call
<1> QED BY <1>1, <1>2, <1>3, <1>4, <1>5, <1>6, <1>7, <1>8, <1>9 DEF Next

\* Whatever was closed, moved or inherited before, a window with tabs has one
\* of them in front and a session with tabs has one of them focused (focus
\* repair in CloseTab, MoveTab and CloseWindow, session.go).
THEOREM FocusIsSound == Spec => []FocusNeverDangles
<1>1. Init => BarInv /\ FocusInv
  <2>1. DOMAIN <<>> = {} /\ Range(<<>>) = {}
    BY DEF Range
  <2> QED BY <2>1, InitBars DEF Init, FocusInv, FrontInv, Held
<1>2. BarInv /\ FocusInv /\ [Next]_vars => BarInv' /\ FocusInv'
  BY NextBars, NextFocused
<1>3. BarInv /\ FocusInv => FocusNeverDangles
  <2> SUFFICES ASSUME BarInv, FocusInv PROVE FocusNeverDangles
    OBVIOUS
  <2>1. ASSUME NEW w \in OpenWindows
        PROVE  IF tabIDs[w] = <<>> THEN winFocus[w] = NoTab ELSE HasTab(w, winFocus[w])
    <3>1. w \in WinID /\ tabIDs[w] \in Seq(TabID)
      BY OpenWindowsTyped DEF BarInv, IndexInv, TypeOK
    <3> QED BY <3>1, EmptyBar, HeldIsHasTab DEF FocusInv, FrontInv, Held
  <2> QED BY <2>1 DEF FocusInv, FocusNeverDangles
<1> QED BY <1>1, <1>2, <1>3, PTL DEF Spec

-----------------------------------------------------------------------------
(* Which window shows each tab.                                            *)

\* A tab's home is the window whose bar holds it.
HomeIsBar ==
  /\ Home \in [TabID -> WinID \cup {NoTab}]
  /\ \A t \in TabID, w \in WinID : Home[t] = w <=> t \in Held(w)

LEMMA HomeIsHeld ==
  ASSUME BarInv
  PROVE  HomeIsBar /\ \A t \in TabID : Home[t] = NoTab <=> t \notin tabs
<1>1. OpenWindows \subseteq WinID /\ NoTab \notin WinID /\ tabs \subseteq TabID
  BY OpenWindowsTyped DEF BarInv, IndexInv, TypeOK, WinID, NoTab
<1>2. ASSUME NEW t \in tabs
      PROVE  WindowOf(t) \in OpenWindows /\ t \in Held(WindowOf(t))
  <2>1. \E w \in OpenWindows : HasTab(w, t)
    BY HeldIsHasTab DEF BarInv, Bars, Tidy, AllShown
  <2>2. WindowOf(t) \in OpenWindows /\ HasTab(WindowOf(t), t)
    BY <2>1 DEF WindowOf
  <2> QED BY <2>2, HeldIsHasTab
<1>3. \A t \in TabID : Home[t] = IF t \in tabs THEN WindowOf(t) ELSE NoTab
  BY DEF Home
<1>4. DOMAIN Home = TabID /\ Home = [t \in TabID |-> Home[t]]
  BY DEF Home
<1>5. ASSUME NEW t \in TabID, NEW w \in WinID
      PROVE  Home[t] = w <=> t \in Held(w)
  <2>1. CASE t \in tabs
    <3>1. Home[t] \in WinID /\ t \in Held(Home[t])
      BY <1>1, <1>2, <1>3, <2>1
    <3> QED BY <3>1 DEF BarInv, Bars, Tidy, AllShown
  <2>2. CASE t \notin tabs
    BY <1>1, <1>3, <2>2 DEF BarInv, Bars, Tidy, AllShown
  <2> QED BY <2>1, <2>2
<1>6. \A t \in TabID : Home[t] \in WinID \cup {NoTab} /\ (Home[t] = NoTab <=> t \notin tabs)
  BY <1>1, <1>2, <1>3
<1> HIDE DEF Home
<1> QED BY <1>4, <1>5, <1>6 DEF HomeIsBar

\* Two functions that agree on every window they show are the same.
LEMMA SameHome ==
  ASSUME NEW f \in [TabID -> WinID \cup {NoTab}], NEW g \in [TabID -> WinID \cup {NoTab}],
         \A t \in TabID, w \in WinID : f[t] = w <=> g[t] = w
  PROVE  f = g
<1>1. ASSUME NEW t \in TabID PROVE f[t] = g[t]
  <2>1. CASE f[t] \in WinID
    BY <2>1
  <2>2. CASE g[t] \in WinID
    BY <2>2
  <2>3. CASE f[t] = NoTab /\ g[t] = NoTab
    BY <2>3
  <2> QED BY <2>1, <2>2, <2>3
<1> QED BY <1>1

\* A step that leaves the bars alone leaves every tab where it is.
LEMMA SameBarsSameHome ==
  ASSUME BarInv, BarInv', \A w \in WinID : Held(w)' = Held(w)
  PROVE  Home' = Home
<1>1. /\ Home \in [TabID -> WinID \cup {NoTab}]
      /\ \A t \in TabID, w \in WinID : Home[t] = w <=> t \in Held(w)
  BY HomeIsHeld DEF HomeIsBar
<1>2. /\ Home' \in [TabID -> WinID \cup {NoTab}]
      /\ \A t \in TabID, w \in WinID : Home'[t] = w <=> t \in Held(w)'
  <2>1. HomeIsBar'
    BY HomeIsHeld, PTL
  <2> QED BY <2>1 DEF HomeIsBar
<1>3. \A t \in TabID, w \in WinID : Home'[t] = w <=> Home[t] = w
  BY <1>1, <1>2
<1> HIDE DEF Home
<1> QED BY <1>1, <1>2, <1>3, SameHome

\* A window opened by itself.
LEMMA NewWindowPlaced ==
  ASSUME BarInv, BarInv', NewWindow
  PROVE  Home' = Home /\ \E w \in WinID : Placed!Open(w)
<1>1. /\ nextWinID \in WinID \ OpenWindows
      /\ OpenWindows' = OpenWindows \cup {nextWinID}
      /\ UNCHANGED tabIDs
  BY NewWindowBars, BarsAreTidy DEF BarInv, IndexInv
<1>2. Home' = Home
  BY <1>1, SameBarsSameHome DEF Held
<1>3. UNCHANGED nextTabID
  BY DEF NewWindow
<1> HIDE DEF OpenWindows, Home
<1> QED BY <1>1, <1>2, <1>3 DEF Placed!Open

\* A closed window: its tabs, if any, to the bar of one other window.
LEMMA CloseWindowPlaced ==
  ASSUME BarInv, BarInv', NEW id \in WinID, CloseWindow(id)
  PROVE  Placed!Shut(id)
<1>1. id \in OpenWindows /\ UNCHANGED nextTabID
  BY DEF CloseWindow
<1>2. /\ Home \in [TabID -> WinID \cup {NoTab}]
      /\ \A t \in TabID, w \in WinID : Home[t] = w <=> t \in Held(w)
  BY HomeIsHeld DEF HomeIsBar
<1>3. /\ Home' \in [TabID -> WinID \cup {NoTab}]
      /\ \A t \in TabID, w \in WinID : Home'[t] = w <=> t \in Held(w)'
  <2>1. HomeIsBar'
    BY HomeIsHeld, PTL
  <2> QED BY <2>1 DEF HomeIsBar
<1>4. TypeOK' /\ \A w \in WinID : Held(w) \subseteq TabID
  BY DEF BarInv, Bars, Tidy, AllShown, IndexInv, TypeOK
<1>5. CASE /\ Held(id) = {}
           /\ OpenWindows' = OpenWindows \ {id}
           /\ UNCHANGED tabIDs
  <2>1. Home' = Home
    BY <1>5, SameBarsSameHome DEF Held
  <2>2. \A t \in TabID : Home[t] # id
    BY <1>2, <1>5
  <2> HIDE DEF OpenWindows, Home
  <2> QED BY <1>1, <1>5, <2>1, <2>2 DEF Placed!Shut
<1>6. CASE /\ Held(id) # {}
           /\ \E heir \in WinID \ {id} :
                /\ heir \in OpenWindows \/ OpenWindows = {id}
                /\ OpenWindows' = (OpenWindows \ {id}) \cup {heir}
                /\ Held(heir)' = Held(heir) \cup Held(id)
                /\ Held(id)' = {}
                /\ \A w \in WinID \ {heir, id} : Held(w)' = Held(w)
  <2>1. PICK heir \in WinID \ {id} :
                /\ heir \in OpenWindows \/ OpenWindows = {id}
                /\ OpenWindows' = (OpenWindows \ {id}) \cup {heir}
                /\ Held(heir)' = Held(heir) \cup Held(id)
                /\ Held(id)' = {}
                /\ \A w \in WinID \ {heir, id} : Held(w)' = Held(w)
    BY <1>6
  <2> DEFINE moved == [t \in TabID |-> IF Home[t] = id THEN heir ELSE Home[t]]
  <2> HIDE DEF OpenWindows, Home
  <2>2. moved \in [TabID -> WinID \cup {NoTab}]
    BY <1>2
  <2>3. ASSUME NEW t \in TabID, NEW w \in WinID
        PROVE  Home'[t] = w <=> moved[t] = w
    <3>1. moved[t] = w <=> \/ w # id /\ t \in Held(w)
                           \/ w = heir /\ t \in Held(id)
      BY <1>2, <2>1
    <3> QED BY <1>3, <2>1, <3>1
  <2>4. Home' = moved
    <3> HIDE DEF moved
    <3> QED BY <1>3, <2>2, <2>3, SameHome
  <2>5. \E t \in TabID : Home[t] = id
    BY <1>2, <1>4, <1>6
  <2> QED BY <1>1, <2>1, <2>4, <2>5 DEF Placed!Shut
<1>7. \/ /\ Held(id) = {}
         /\ OpenWindows' = OpenWindows \ {id}
         /\ UNCHANGED tabIDs
      \/ /\ Held(id) # {}
         /\ \E heir \in WinID \ {id} :
              /\ heir \in OpenWindows \/ OpenWindows = {id}
              /\ OpenWindows' = (OpenWindows \ {id}) \cup {heir}
              /\ Held(heir)' = Held(heir) \cup Held(id)
              /\ Held(id)' = {}
              /\ \A w \in WinID \ {heir, id} : Held(w)' = Held(w)
  BY <1>4, CloseWindowBars, BarsAreTidy
<1> QED BY <1>5, <1>6, <1>7

\* A new tab, under an id no tab had.
LEMMA NewTabPlaced ==
  ASSUME BarInv, BarInv', NEW w \in AnyWindow, NEW n \in Labels, NewTab(w, n)
  PROVE  \E t \in TabID, v \in WinID : Placed!Create(t, v)
<1>1. PICK v \in WinID :
         /\ v \in OpenWindows \/ OpenWindows = {}
         /\ OpenWindows' = OpenWindows \cup {v}
         /\ Held(v)' = Held(v) \cup {nextTabID}
         /\ \A u \in WinID \ {v} : Held(u)' = Held(u)
  BY NewTabBars, BarsAreTidy DEF BarInv, IndexInv
<1>2. nextTabID \in TabID \ tabs /\ nextTabID' = nextTabID + 1
  BY NewTabBars, BarsAreTidy DEF BarInv, IndexInv, NewTab
<1>3. /\ Home \in [TabID -> WinID \cup {NoTab}]
      /\ \A t \in TabID, u \in WinID : Home[t] = u <=> t \in Held(u)
  BY HomeIsHeld DEF HomeIsBar
<1>4. /\ Home' \in [TabID -> WinID \cup {NoTab}]
      /\ \A t \in TabID, u \in WinID : Home'[t] = u <=> t \in Held(u)'
  <2>1. HomeIsBar'
    BY HomeIsHeld, PTL
  <2> QED BY <2>1 DEF HomeIsBar
<1>5. \A u \in WinID : nextTabID \notin Held(u)
  BY <1>2 DEF BarInv, Bars, Tidy, AllShown
<1>6. PICK t \in TabID : t = nextTabID
  BY <1>2
<1> DEFINE moved == [Home EXCEPT ![t] = v]
<1> HIDE DEF OpenWindows, Home
<1>7. moved \in [TabID -> WinID \cup {NoTab}]
  BY <1>3
<1>8. ASSUME NEW x \in TabID, NEW u \in WinID
      PROVE  Home'[x] = u <=> moved[x] = u
  BY <1>1, <1>3, <1>4, <1>5, <1>6
<1>9. Home' = moved
  <2> HIDE DEF moved
  <2> QED BY <1>4, <1>7, <1>8, SameHome
<1>10. /\ t \in TabID \ (1..(nextTabID - 1))
       /\ 1..(nextTabID' - 1) = (1..(nextTabID - 1)) \cup {t}
  BY <1>2, <1>6 DEF TabID
<1> QED BY <1>1, <1>9, <1>10 DEF Placed!Create

\* A moved tab; to a window that is not open it stays where it is.
LEMMA MoveTabPlaced ==
  ASSUME BarInv, BarInv', NEW t \in TabID, NEW w \in AnyWindow, NEW i \in MoveIndex,
         MoveTab(t, w, i)
  PROVE  /\ \E v \in WinID : Placed!Move(t, v)
         /\ Stamp \/ <<OpenWindows, Home>>' = <<OpenWindows, Home>>
<1>1. /\ t \in tabs
      /\ UNCHANGED <<tabs, windows>>
      /\ \E src, dst \in OpenWindows :
              /\ t \in Held(src)
              /\ dst = src \/ (dst = w /\ Stamp)
              /\ Held(src)' = IF dst = src THEN Held(src) ELSE Held(src) \ {t}
              /\ Held(dst)' = Held(dst) \cup {t}
              /\ \A v \in WinID \ {src, dst} : Held(v)' = Held(v)
  BY MoveTabBars, BarsAreTidy DEF BarInv, IndexInv
<1>2. PICK src \in OpenWindows, dst \in OpenWindows :
              /\ t \in Held(src)
              /\ dst = src \/ (dst = w /\ Stamp)
              /\ Held(src)' = IF dst = src THEN Held(src) ELSE Held(src) \ {t}
              /\ Held(dst)' = Held(dst) \cup {t}
              /\ \A v \in WinID \ {src, dst} : Held(v)' = Held(v)
  BY <1>1
<1>3. /\ Home \in [TabID -> WinID \cup {NoTab}]
      /\ \A x \in TabID, u \in WinID : Home[x] = u <=> x \in Held(u)
      /\ Home[t] # NoTab
  BY <1>1, HomeIsHeld DEF HomeIsBar
<1>4. /\ Home' \in [TabID -> WinID \cup {NoTab}]
      /\ \A x \in TabID, u \in WinID : Home'[x] = u <=> x \in Held(u)'
  <2>1. HomeIsBar'
    BY HomeIsHeld, PTL
  <2> QED BY <2>1 DEF HomeIsBar
<1>5. /\ OpenWindows' = OpenWindows /\ OpenWindows \subseteq WinID
      /\ UNCHANGED nextTabID
  BY <1>1, OpenWindowsTyped DEF BarInv, IndexInv, TypeOK, OpenWindows, MoveTab
<1> DEFINE moved == [Home EXCEPT ![t] = dst]
<1> HIDE DEF OpenWindows, Home
<1>6. moved \in [TabID -> WinID \cup {NoTab}]
  BY <1>3, <1>5
<1>7. ASSUME NEW x \in TabID, NEW u \in WinID
      PROVE  Home'[x] = u <=> moved[x] = u
  <2>1. \A v \in WinID : t \in Held(v) => v = src
    BY <1>2, <1>5 DEF BarInv, Bars, Tidy, AllShown
  <2>2. Home'[x] = u <=> IF x = t THEN u = dst ELSE x \in Held(u)
    BY <1>2, <1>4, <1>5, <2>1
  <2>3. moved[x] = u <=> IF x = t THEN u = dst ELSE x \in Held(u)
    BY <1>3, <1>5
  <2> QED BY <2>2, <2>3
<1>8. Home' = moved
  <2> HIDE DEF moved
  <2> QED BY <1>4, <1>6, <1>7, SameHome
<1>9. Placed!Move(t, dst)
  BY <1>2, <1>3, <1>5, <1>8 DEF Placed!Move
<1>10. ASSUME dst = src PROVE Home' = Home
  <2>1. Home[t] = dst
    BY <1>2, <1>3, <1>5, <1>10
  <2> QED BY <1>3, <1>8, <2>1
<1> QED BY <1>2, <1>5, <1>9, <1>10

\* A closed tab is shown nowhere.
LEMMA CloseTabPlaced ==
  ASSUME BarInv, BarInv', NEW t \in TabID, CloseTab(t)
  PROVE  Placed!Remove(t)
<1>1. /\ t \in tabs
      /\ windows' = windows
      /\ \A v \in WinID : Held(v)' = Held(v) \ {t}
  BY CloseTabBars, BarsAreTidy DEF BarInv, IndexInv
<1>2. OpenWindows' = OpenWindows /\ UNCHANGED nextTabID
  BY <1>1 DEF OpenWindows, CloseTab
<1>3. /\ Home \in [TabID -> WinID \cup {NoTab}]
      /\ \A x \in TabID, u \in WinID : Home[x] = u <=> x \in Held(u)
      /\ Home[t] # NoTab
  BY <1>1, HomeIsHeld DEF HomeIsBar
<1>4. /\ Home' \in [TabID -> WinID \cup {NoTab}]
      /\ \A x \in TabID, u \in WinID : Home'[x] = u <=> x \in Held(u)'
  <2>1. HomeIsBar'
    BY HomeIsHeld, PTL
  <2> QED BY <2>1 DEF HomeIsBar
<1>5. NoTab \notin WinID
  BY DEF NoTab, WinID
<1> DEFINE moved == [Home EXCEPT ![t] = NoTab]
<1> HIDE DEF OpenWindows, Home
<1>6. moved \in [TabID -> WinID \cup {NoTab}]
  BY <1>3
<1>7. ASSUME NEW x \in TabID, NEW u \in WinID
      PROVE  Home'[x] = u <=> moved[x] = u
  BY <1>1, <1>3, <1>4, <1>5
<1>8. Home' = moved
  <2> HIDE DEF moved
  <2> QED BY <1>4, <1>6, <1>7, SameHome
<1> QED BY <1>2, <1>3, <1>8 DEF Placed!Remove

\* The other steps leave every tab where it is.
LEMMA OthersPlaced ==
  ASSUME BarInv, BarInv', UNCHANGED <<editable, nextTabID>>
  PROVE  <<OpenWindows, Home, 1..(nextTabID - 1)>>' = <<OpenWindows, Home, 1..(nextTabID - 1)>>
<1>1. OpenWindows' = OpenWindows /\ Home' = Home
  BY SameBarsSameHome DEF editable, OpenWindows, Held
<1> QED BY <1>1

-----------------------------------------------------------------------------
(* What users and other clients rely on.                                   *)

\* Every step that changes which windows there are or which window shows a tab
\* takes exactly one new revision, the only thing clients tell snapshots apart
\* by; a move to a window that is gone takes none and moves nothing.
THEOREM MembershipIsStamped == Spec => MembershipStamped
<1>1. ASSUME BarInv, [Next]_vars
      PROVE  <<OpenWindows, Home>>' # <<OpenWindows, Home>> => revision' = revision + 1
  <2>1. TypeOK /\ TypeOK' /\ BarInv'
    BY <1>1, NextBars, NextTyped DEF BarInv, IndexInv
  <2>2. CASE NewWindow \/ (\E w \in WinID : CloseWindow(w)) \/ \E t \in TabID : CloseTab(t)
    BY <2>2 DEF NewWindow, CloseWindow, CloseTab, Stamp
  <2>3. CASE \E w \in AnyWindow, n \in Labels : NewTab(w, n)
    BY <2>3 DEF NewTab, Stamp
  <2>4. CASE \E t \in TabID, w \in AnyWindow, i \in MoveIndex : MoveTab(t, w, i)
    BY <1>1, <2>1, <2>4, MoveTabPlaced DEF Stamp
  <2>5. CASE UNCHANGED <<editable, nextTabID>>
    BY <1>1, <2>1, <2>5, OthersPlaced
  <2> QED BY <1>1, <2>1, <2>2, <2>3, <2>4, <2>5, OthersLeaveBars
<1>2. Init => BarInv
  BY InitBars
<1>3. BarInv /\ [Next]_vars => BarInv'
  BY NextBars
<1>4. BarInv /\ [Next]_vars
        => [<<OpenWindows, Home>>' # <<OpenWindows, Home>> => revision' = revision + 1]_vars
  BY <1>1
<1> QED BY <1>2, <1>3, <1>4, PTL DEF Spec, MembershipStamped

\* The tab bars implement Placement: as a user sees them, tabs are created in
\* one window, move between open windows, go to one heir when their window is
\* closed, are removed only by being closed, and an id is never used again.
THEOREM BarsImplementPlacement == Spec => ImplementsPlacement
<1>1. Init => BarInv
  BY InitBars
<1>2. BarInv /\ [Next]_vars => BarInv'
  BY NextBars
<1>3. Init => Placed!PInit
  <2> SUFFICES ASSUME Init PROVE Placed!PInit
    OBVIOUS
  <2>1. Range(<<>>) = {}
    BY DEF Range
  <2>2. OpenWindows = {} /\ 1..(nextTabID - 1) = {}
    BY <2>1 DEF Init, OpenWindows
  <2>3. Home = [t \in TabID |-> NoTab]
    BY DEF Init, Home
  <2> QED BY <2>2, <2>3 DEF Placed!PInit
<1>4. BarInv /\ [Next]_vars
        => [Placed!PNext]_<<OpenWindows, Home, 1..(nextTabID - 1)>>
  <2> SUFFICES ASSUME BarInv, [Next]_vars
               PROVE  [Placed!PNext]_<<OpenWindows, Home, 1..(nextTabID - 1)>>
    OBVIOUS
  <2>1. TypeOK /\ BarInv'
    BY NextBars DEF BarInv, IndexInv
  <2>2. CASE NewWindow
    BY <2>1, <2>2, NewWindowPlaced DEF Placed!PNext
  <2>3. CASE \E w \in WinID : CloseWindow(w)
    BY <2>1, <2>3, CloseWindowPlaced DEF Placed!PNext
  <2>4. CASE \E w \in AnyWindow, n \in Labels : NewTab(w, n)
    BY <2>1, <2>4, NewTabPlaced DEF Placed!PNext
  <2>5. CASE \E t \in TabID : CloseTab(t)
    BY <2>1, <2>5, CloseTabPlaced DEF Placed!PNext
  <2>6. CASE \E t \in TabID, w \in AnyWindow, i \in MoveIndex : MoveTab(t, w, i)
    BY <2>1, <2>6, MoveTabPlaced DEF Placed!PNext
  <2>7. CASE UNCHANGED <<editable, nextTabID>>
    BY <2>1, <2>7, OthersPlaced
  <2> QED BY <2>1, <2>2, <2>3, <2>4, <2>5, <2>6, <2>7, OthersLeaveBars
<1> QED BY <1>1, <1>2, <1>3, <1>4, PTL DEF Spec, ImplementsPlacement, Placed!PSpec

=============================================================================

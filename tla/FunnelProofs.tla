----------------------------- MODULE FunnelProofs -----------------------------
(***************************************************************************)
(* What holds of the daemon's funnel for any number of viewers, agents,    *)
(* tabs and windows, whatever order its goroutines take their locks in:    *)
(* it makes the steps of one Session, every viewer comes to show what the  *)
(* session has, and has a publish loop for each of its tabs.               *)
(***************************************************************************)
EXTENDS Funnel, SessionProofs

\* A snapshot was taken earlier, or shows the membership there is now.
Accurate(s, now) ==
  \/ s = NoSnap
  \/ /\ s.rev \in Nat /\ s.rev <= now.rev
     /\ s.rev = now.rev => SameMembership(s, now)

\* A connection that has yet to be sent Attached.
Attaching(t) == t.at \in {"accept", "ensure", "reply"} \/ (t.at = "spawn" /\ t.attach)

Shape(t) ==
  /\ t.at = "fan" => t = [at |-> "fan", tabs |-> t.tabs, tab |-> t.tab, todo |-> t.todo]
  /\ t.at = "unsub" => t = [at |-> "unsub", tab |-> t.tab, todo |-> t.todo]
  /\ t.at = "cast" => t = [at |-> "cast", snap |-> t.snap, todo |-> t.todo]
  /\ t.at \in {"fan", "unsub", "cast"} => t.todo \subseteq Clients
  /\ t.at = "own" => t = [at |-> "own", created |-> t.created, todo |-> t.todo]

\* A goroutine at t is yet to leave a snapshot of revision r or later in the
\* slot of client c.
TellsAll(t) == t.at \in {"snapshot", "fan"} \/ (t.at \in {"reply", "tabs", "own"} /\ t.created)
Tells(t, c, r) ==
  \/ TellsAll(t)
  \/ t.at = "list" /\ t.snap.rev = r
  \/ t.at = "cast" /\ t.snap.rev = r /\ c \in t.todo

\* Goroutine a at t is yet to subscribe client c to tab u, or to close u.
Covers(t, a, c, u) ==
  \/ t.at = "fan" /\ (u \in t.tabs \/ (u = t.tab /\ c \in t.todo))
  \/ t.at \in {"reply", "tabs", "own"} /\ t.created
  \/ t.at = "unsub" /\ t.tab = u
  \/ a = c /\ t.at = "tabs"
  \/ a = c /\ t.at = "own" /\ u \in t.todo

Shows(c) == view[c] # NoSnap \/ outCh[c] # NoSnap

TaskInv ==
  /\ task = [a \in Callers |-> task[a]]
  /\ \A a \in Callers : Shape(task[a])
  /\ \A a \in Callers : task[a].at \in {"list", "cast"} => Accurate(task[a].snap, Snapshot)
  /\ \A call \in pending : task[call.caller].at = "spawn"
  /\ \A p, q \in pending : p = q

ConnTypes ==
  /\ conn \in [Clients -> {"off", "open", "closing"}]
  /\ sessionName \in [Clients -> BOOLEAN] /\ subSession \in [Clients -> BOOLEAN]
  /\ attachedSent \in [Clients -> BOOLEAN]
  /\ subs = [c \in Clients |-> subs[c]]
  /\ outCh = [c \in Clients |-> outCh[c]] /\ slot = [c \in Clients |-> slot[c]]
  /\ view = [c \in Clients |-> view[c]]

\* A handler of a connection runs while it is open and attached; Attached comes
\* before any topology; an attached connection accepts subscriptions.
ConnState(c) ==
  /\ conn[c] = "off" => ~sessionName[c]
  /\ task[c].at # "idle" => conn[c] = "open" /\ sessionName[c]
  /\ Attaching(task[c]) => ~Shows(c) /\ ~attachedSent[c]
  /\ ~sessionName[c] => ~Shows(c) /\ ~attachedSent[c]
  /\ outCh[c] # NoSnap => view[c] = NoSnap
  /\ attachedSent[c] <=> view[c] # NoSnap
  /\ conn[c] = "open" /\ sessionName[c] => subSession[c] \/ task[c].at = "accept"
  /\ Accurate(view[c], Snapshot) /\ Accurate(outCh[c], Snapshot) /\ Accurate(slot[c], Snapshot)
ConnInv == \A c \in Clients : ConnState(c)

\* The newest revision is shown by a client, is on its way to it, or somebody
\* is yet to send it.
Told(c) ==
  \/ revision = view[c].rev \/ revision = outCh[c].rev \/ revision = slot[c].rev
  \/ \E a \in Callers : Tells(task[a], c, revision)
TellInv == \A c \in Clients : Shows(c) => Told(c)

\* A client has a publish loop for a tab, or somebody is yet to start it.
Covered(c, u) == u \in subs[c] \/ \E a \in Callers : Covers(task[a], a, c, u)
CoverInv == \A c \in Clients : conn[c] = "open" /\ Shows(c) => \A u \in tabs : Covered(c, u)

FunnelInv == BarInv /\ TaskInv /\ ConnTypes /\ ConnInv /\ TellInv /\ CoverInv

-----------------------------------------------------------------------------
(* The session under the funnel.                                           *)

LEMMA SnapshotFields ==
  /\ Snapshot.rev = revision /\ Snapshot.windows = windows /\ Snapshot.bars = tabIDs
  /\ NoSnap.rev = -1
BY DEF Snapshot, NoSnap

LEMMA SameMembershipIs ==
  ASSUME NEW s, NEW r
  PROVE  SameMembership(s, r) <=>
           s.windows = r.windows /\ \A w \in WinID : Range(s.bars[w]) = Range(r.bars[w])
BY DEF SameMembership, ToSet, Range

LEMMA Unstamped ==
  ASSUME BarInv, [Next]_vars
  PROVE  /\ BarInv'
         /\ \/ revision' = revision + 1
            \/ /\ revision' = revision /\ windows' = windows
               /\ \A w \in WinID : Held(w)' = Held(w)
<1>1. TypeOK /\ TypeOK' /\ BarInv'
  BY NextBars, NextTyped DEF BarInv, IndexInv
<1>2. CASE NewWindow \/ (\E w \in WinID : CloseWindow(w)) \/ \E t \in TabID : CloseTab(t)
  BY <1>1, <1>2 DEF NewWindow, CloseWindow, CloseTab, Stamp
<1>3. CASE \E w \in AnyWindow, n \in Labels : NewTab(w, n)
  BY <1>1, <1>3 DEF NewTab, Stamp
<1>4. ASSUME NEW t \in TabID, NEW w \in AnyWindow, NEW i \in MoveIndex, MoveTab(t, w, i)
      PROVE  \/ revision' = revision + 1
             \/ /\ revision' = revision /\ windows' = windows
                /\ \A v \in WinID : Held(v)' = Held(v)
  <2>1. CASE w \in OpenWindows
    BY <1>4, <2>1 DEF MoveTab, Stamp
  <2>2. CASE w \notin OpenWindows
    <3>1. revision' = revision
      BY <1>4, <2>2 DEF MoveTab
    <3>2. revision \in Nat
      BY <1>1 DEF TypeOK
    <3>3. ~Stamp
      BY <3>1, <3>2 DEF Stamp
    <3> QED BY <1>1, <1>4, <3>1, <3>3, MoveTabBars, BarsAreTidy
  <2> QED BY <2>1, <2>2
<1>5. CASE \E t \in TabID, w \in AnyWindow, i \in MoveIndex : MoveTab(t, w, i)
  BY <1>1, <1>4, <1>5
<1>6. CASE ~(\/ NewWindow \/ (\E w \in WinID : CloseWindow(w))
             \/ (\E w \in AnyWindow, n \in Labels : NewTab(w, n))
             \/ (\E t \in TabID : CloseTab(t))
             \/ (\E t \in TabID, w \in AnyWindow, i \in MoveIndex : MoveTab(t, w, i)))
  <2>1. UNCHANGED editable
    BY <1>1, <1>6, OthersLeaveBars
  <2>2. revision' = revision
    <3>1. ASSUME NEW w \in AnyWindow, CreateUnnamed(w) PROVE FALSE
      BY <1>6, <3>1 DEF CreateUnnamed, Labels
    <3>2. ASSUME NEW call \in pending, FinishSpawn(call) PROVE FALSE
      BY <1>1, <1>6, <3>2 DEF FinishSpawn, TypeOK, Call
    <3>3. CASE \/ \E c \in Callers, n \in Names, w \in AnyWindow : BeginFindOrCreate(c, n, w)
               \/ \E c \in Callers : BeginEnsureInitial(c)
               \/ \E call \in pending : FailSpawn(call)
      BY <3>3 DEF BeginFindOrCreate, BeginEnsureInitial, FailSpawn
    <3>4. CASE \/ \E t \in TabID : ChildExit(t) \/ SetFocusedTab(t)
               \/ \E t \in TabID, n \in RenameTo : RenameTab(t, n)
               \/ \E w \in WinID, t \in TabID : SetWindowFocusedTab(w, t)
      BY <3>4 DEF ChildExit, SetFocusedTab, RenameTab, SetWindowFocusedTab
    <3>5. CASE UNCHANGED vars
      BY <3>5 DEF vars
    <3> QED BY <1>6, <3>1, <3>2, <3>3, <3>4, <3>5 DEF Next
  <2> QED BY <1>1, <2>1, <2>2 DEF editable, Held
<1> QED BY <1>1, <1>2, <1>3, <1>5, <1>6
\* A snapshot stays accurate: what it does not show any more has a newer revision.
LEMMA AccurateStays ==
  ASSUME BarInv, [Next]_vars, NEW s, Accurate(s, Snapshot)
  PROVE  Accurate(s, Snapshot')
<1>1. revision \in Nat
  BY DEF BarInv, IndexInv, TypeOK
<1>2. CASE s = NoSnap
  BY <1>2 DEF Accurate
<1>3. CASE s # NoSnap
  <2>1. s.rev \in Nat /\ s.rev <= revision /\ (s.rev = revision => SameMembership(s, Snapshot))
    BY <1>3, SnapshotFields DEF Accurate
  <2>2. Snapshot'.rev = revision' /\ Snapshot'.windows = windows' /\ Snapshot'.bars = tabIDs'
    BY DEF Snapshot
  <2>3. CASE revision' = revision + 1
    <3>1. s.rev <= revision' /\ s.rev # revision'
      BY <1>1, <2>1, <2>3
    <3> QED BY <2>1, <2>2, <3>1 DEF Accurate
  <2>4. CASE /\ revision' = revision /\ windows' = windows
             /\ \A w \in WinID : Held(w)' = Held(w)
    <3>1. s.rev = revision => s.windows = windows'
                              /\ \A w \in WinID : Range(s.bars[w]) = Range(tabIDs'[w])
      BY <2>1, <2>4, SameMembershipIs, SnapshotFields DEF Held
    <3>2. s.rev = revision => SameMembership(s, Snapshot')
      BY <2>2, <3>1, SameMembershipIs
    <3> QED BY <2>1, <2>2, <2>4, <3>2 DEF Accurate
  <2> QED BY <2>3, <2>4, Unstamped
<1> QED BY <1>2, <1>3

LEMMA SnapshotAccurate == ASSUME BarInv PROVE Accurate(Snapshot, Snapshot)
<1>1. revision \in Nat
  BY DEF BarInv, IndexInv, TypeOK
<1> QED BY <1>1, SnapshotFields DEF Accurate, SameMembership

-----------------------------------------------------------------------------
(* A goroutine goes on to t, the connections staying as they are.           *)

Turn(a, t) == task' = [task EXCEPT ![a] = t]

LEMMA TurnIs ==
  ASSUME TaskInv, NEW a \in Callers, NEW t, Turn(a, t)
  PROVE  /\ task' = [b \in Callers |-> task'[b]]
         /\ task'[a] = t /\ \A b \in Callers \ {a} : task'[b] = task[b]
         /\ \A b \in Callers : task'[b] = IF b = a THEN t ELSE task[b]
BY DEF TaskInv, Turn

LEMMA TaskTurns ==
  ASSUME FunnelInv, [Next]_vars, NEW a \in Callers, NEW t, Turn(a, t), Shape(t),
         t.at \in {"list", "cast"} => Accurate(t.snap, Snapshot'),
         \A call \in pending' : IF call.caller = a THEN t.at = "spawn" ELSE call \in pending,
         \A p, q \in pending' : p = q
  PROVE  TaskInv'
<1>1. TaskInv /\ BarInv
  BY DEF FunnelInv
<1>2. /\ task' = [b \in Callers |-> task'[b]]
      /\ task'[a] = t /\ \A b \in Callers \ {a} : task'[b] = task[b]
  BY <1>1, TurnIs
<1>3. \A b \in Callers : Shape(task'[b])
  BY <1>1, <1>2 DEF TaskInv
<1>4. \A b \in Callers : task'[b].at \in {"list", "cast"} => Accurate(task'[b].snap, Snapshot')
  BY <1>1, <1>2, AccurateStays DEF TaskInv
<1>5. \A call \in pending' : call.caller \in Callers
  BY <1>1, NextTyped DEF BarInv, IndexInv, TypeOK, Call
<1>6. \A call \in pending' : task'[call.caller].at = "spawn"
  BY <1>1, <1>2, <1>5 DEF TaskInv
<1> QED BY <1>2, <1>3, <1>4, <1>6 DEF TaskInv
\* What a handler may go on to: it runs while its connection is attached, it
\* owes a broadcast after a change, and drops none of what it owed.
GoesOn(a, t) ==
  /\ a \in Clients =>
       /\ t.at # "idle" => conn[a] = "open" /\ sessionName[a]
       /\ Attaching(t) => ~Shows(a) /\ ~attachedSent[a]
       /\ task[a].at = "accept" => t.at = "accept"
  /\ IF revision' # revision
     THEN TellsAll(t)
     ELSE \A c \in Clients :
            Shows(c) /\ Tells(task[a], c, revision) => Tells(t, c, revision)
  /\ \A c \in Clients : conn[c] = "open" /\ Shows(c) =>
       \A u \in tabs' : \/ u \in tabs /\ ~Covers(task[a], a, c, u)
                        \/ Covers(t, a, c, u)

LEMMA HandlerStep ==
  ASSUME FunnelInv, [Next]_vars, UNCHANGED connVars,
         NEW a \in Callers, NEW t, Turn(a, t), Shape(t), GoesOn(a, t),
         t.at \in {"list", "cast"} => Accurate(t.snap, Snapshot'),
         \A call \in pending' : IF call.caller = a THEN t.at = "spawn" ELSE call \in pending,
         \A p, q \in pending' : p = q
  PROVE  FunnelInv'
<1>1. BarInv' /\ TaskInv'
  BY Unstamped, TaskTurns DEF FunnelInv
<1>2. /\ task'[a] = t /\ \A b \in Callers \ {a} : task'[b] = task[b]
  BY TurnIs DEF FunnelInv
<1>3. UNCHANGED <<conn, sessionName, subSession, subs, outCh, slot, attachedSent, view>>
  BY DEF connVars
<1>4. ConnTypes'
  BY <1>3 DEF FunnelInv, ConnTypes
<1>5. \A c : Shows(c)' <=> Shows(c)
  BY <1>3 DEF Shows
<1>6. ConnInv'
  <2>1. ASSUME NEW c \in Clients PROVE ConnState(c)'
    <3>1. c \in Callers /\ ConnState(c) /\ BarInv
      BY FunnelConstants DEF FunnelInv, ConnInv
    <3>2. /\ Accurate(view[c], Snapshot') /\ Accurate(outCh[c], Snapshot')
          /\ Accurate(slot[c], Snapshot')
      BY <3>1, AccurateStays DEF ConnState
    <3>3. /\ task'[c].at # "idle" => conn[c] = "open" /\ sessionName[c]
          /\ Attaching(task'[c]) => ~Shows(c) /\ ~attachedSent[c]
          /\ task[c].at = "accept" => task'[c].at = "accept"
      BY <1>2, <3>1 DEF ConnState, GoesOn
    <3> QED BY <1>3, <1>5, <3>1, <3>2, <3>3 DEF ConnState
  <2> QED BY <2>1 DEF ConnInv
<1>7. TellInv'
  <2>1. ASSUME NEW c \in Clients, Shows(c) PROVE Told(c)'
    <3>1. CASE revision' # revision
      BY <1>2, <3>1 DEF GoesOn, Told, Tells
    <3>2. CASE revision' = revision /\ \E b \in Callers : Tells(task[b], c, revision)
      <4>1. PICK b \in Callers : Tells(task[b], c, revision)
        BY <3>2
      <4>2. Tells(task'[b], c, revision')
        BY <1>2, <2>1, <3>2, <4>1 DEF GoesOn
      <4> QED BY <4>2 DEF Told
    <3>3. CASE revision' = revision /\ revision \in {view[c].rev, outCh[c].rev, slot[c].rev}
      BY <1>3, <3>3 DEF Told
    <3> QED BY <2>1, <3>1, <3>2, <3>3 DEF FunnelInv, TellInv, Told
  <2> QED BY <1>5, <2>1 DEF TellInv
<1>8. CoverInv'
  <2>1. ASSUME NEW c \in Clients, conn[c] = "open", Shows(c), NEW u \in tabs'
        PROVE  Covered(c, u)'
    <3>1. CASE Covers(t, a, c, u)
      BY <1>2, <3>1 DEF Covered
    <3>2. CASE u \in tabs /\ ~Covers(task[a], a, c, u)
      <4>1. Covered(c, u)
        BY <2>1, <3>2 DEF FunnelInv, CoverInv
      <4> QED BY <1>2, <1>3, <3>2, <4>1 DEF Covered
    <3> QED BY <2>1, <3>1, <3>2 DEF GoesOn
  <2> QED BY <1>3, <1>5, <2>1 DEF CoverInv
<1> QED BY <1>1, <1>4, <1>6, <1>7, <1>8 DEF FunnelInv

\* The same where the session does not change.
LEMMA QuietStep ==
  ASSUME FunnelInv, UNCHANGED <<vars, connVars>>,
         NEW a \in Callers, NEW t, Turn(a, t), Shape(t), GoesOn(a, t),
         t.at \in {"list", "cast"} => Accurate(t.snap, Snapshot),
         task[a].at # "spawn"
  PROVE  FunnelInv'
<1>1. pending' = pending /\ [Next]_vars /\ Snapshot' = Snapshot
  BY DEF vars, Snapshot
<1>2. \A call \in pending : call.caller # a
  BY DEF FunnelInv, TaskInv
<1>3. \A p, q \in pending : p = q
  BY DEF FunnelInv, TaskInv
<1> QED BY <1>1, <1>2, <1>3, HandlerStep
-----------------------------------------------------------------------------
(* The handlers that change the session, or wait to.                       *)

LEMMA IdleOwes ==
  ASSUME NEW t, t.at \in {"idle", "spawn", "accept", "ensure"}, NEW a, NEW c, NEW u, NEW r
  PROVE  ~Tells(t, c, r) /\ ~Covers(t, a, c, u)
BY DEF Tells, TellsAll, Covers

LEMMA NoneSpawns ==
  ASSUME TaskInv, NEW a \in Callers, task[a].at # "spawn"
  PROVE  (\A call \in pending : call.caller # a) /\ (\A p, q \in pending : p = q)
BY DEF TaskInv

LEMMA RestructureKeeps ==
  ASSUME FunnelInv, NEW c \in Clients, Restructure(c)
  PROVE  FunnelInv'
<1>1. /\ conn[c] = "open" /\ sessionName[c] /\ task[c].at = "idle"
      /\ Turn(c, Broadcast) /\ UNCHANGED connVars /\ c \in Callers
  BY FunnelConstants DEF Restructure, Free, At, Goto, Turn
<1>2. [Next]_vars /\ UNCHANGED <<tabs, pending>>
  <2>1. CASE NewWindow
    BY <2>1 DEF NewWindow, Next
  <2>2. CASE \E w \in WinID : CloseWindow(w)
    BY <2>2 DEF CloseWindow, Next
  <2>3. CASE \E t \in TabID, w \in AnyWindow, i \in MoveIndex : MoveTab(t, w, i)
    BY <2>3 DEF MoveTab, Next
  <2> QED BY <2>1, <2>2, <2>3 DEF Restructure
<1>3. Broadcast.at = "snapshot" /\ Shape(Broadcast) /\ TellsAll(Broadcast) /\ ~Attaching(Broadcast)
  BY DEF Broadcast, Shape, TellsAll, Attaching
<1>4. GoesOn(c, Broadcast)
  <2>1. \A d, u : ~Covers(task[c], c, d, u)
    BY <1>1, IdleOwes
  <2> QED BY <1>1, <1>2, <1>3, <2>1 DEF GoesOn, Tells
<1>5. \A call \in pending : call.caller # c
  BY <1>1, NoneSpawns DEF FunnelInv
<1>6. \A p, q \in pending : p = q
  BY DEF FunnelInv, TaskInv
<1> QED BY <1>1, <1>2, <1>3, <1>4, <1>5, <1>6, HandlerStep

LEMMA SubscribeAllIs ==
  ASSUME NEW ts
  PROVE  /\ SubscribeAll(ts).at = "fan" /\ SubscribeAll(ts).tabs = ts
         /\ Shape(SubscribeAll(ts)) /\ TellsAll(SubscribeAll(ts)) /\ ~Attaching(SubscribeAll(ts))
         /\ \A a, c, u : u \in ts => Covers(SubscribeAll(ts), a, c, u)
BY DEF SubscribeAll, Shape, TellsAll, Attaching, Covers

LEMMA CreateKeeps ==
  ASSUME FunnelInv, NEW a \in Callers, Create(a)
  PROVE  FunnelInv'
<1> DEFINE t == SubscribeAll({nextTabID})
<1>1. /\ a \in Clients => conn[a] = "open" /\ sessionName[a]
      /\ task[a].at = "idle" /\ Turn(a, t) /\ UNCHANGED connVars
  BY DEF Create, Free, At, Goto, Turn
<1>2. [Next]_vars /\ tabs' = tabs \cup {nextTabID} /\ UNCHANGED pending
  BY DEF Create, CreateUnnamed, NewTab, Next
<1>3. /\ t.at = "fan" /\ Shape(t) /\ TellsAll(t) /\ ~Attaching(t)
      /\ \A c, u : u \in {nextTabID} => Covers(t, a, c, u)
  BY SubscribeAllIs
<1> HIDE DEF t
<1>4. GoesOn(a, t)
  <2>1. \A d, u : ~Covers(task[a], a, d, u)
    BY <1>1, IdleOwes
  <2> QED BY <1>1, <1>2, <1>3, <2>1 DEF GoesOn, Tells
<1>5. \A call \in pending : call.caller # a
  BY <1>1, NoneSpawns DEF FunnelInv
<1>6. \A p, q \in pending : p = q
  BY DEF FunnelInv, TaskInv
<1> QED BY <1>1, <1>2, <1>3, <1>4, <1>5, <1>6, HandlerStep

LEMMA CreateNamedKeeps ==
  ASSUME FunnelInv, NEW a \in Callers, CreateNamed(a)
  PROVE  FunnelInv'
<1> DEFINE t == [at |-> "spawn", attach |-> FALSE]
<1>1. /\ a \in Clients => conn[a] = "open" /\ sessionName[a]
      /\ task[a].at = "idle" /\ Turn(a, t) /\ UNCHANGED connVars
  BY DEF CreateNamed, Free, At, Goto, Turn
<1>2. PICK n \in Names, w \in AnyWindow : BeginFindOrCreate(a, n, w)
  BY DEF CreateNamed
<1>3. /\ [Next]_vars /\ UNCHANGED <<tabs, revision>>
      /\ pending' = {[caller |-> a, name |-> n, win |-> w]}
  BY <1>2 DEF BeginFindOrCreate, Next
<1>4. t.at = "spawn" /\ Shape(t) /\ ~Attaching(t)
  BY DEF Shape, Attaching
<1> HIDE DEF t
<1>5. GoesOn(a, t)
  <2>1. \A d, u, r : ~Covers(task[a], a, d, u) /\ ~Tells(task[a], d, r)
    BY <1>1, IdleOwes
  <2> QED BY <1>1, <1>3, <1>4, <2>1 DEF GoesOn
<1> QED BY <1>1, <1>3, <1>4, <1>5, HandlerStep

LEMMA SpawnedKeeps ==
  ASSUME FunnelInv, NEW call \in pending, Spawned(call)
  PROVE  FunnelInv'
<1> DEFINE a == call.caller
           t == IF task[a].attach THEN [at |-> "reply", created |-> TRUE]
                ELSE SubscribeAll({nextTabID})
<1>1. /\ a \in Callers /\ task[a].at = "spawn" /\ Turn(a, t) /\ UNCHANGED connVars
      /\ call.win \in AnyWindow /\ call.name \in Labels
  BY DEF Spawned, Goto, Turn, FunnelInv, TaskInv, BarInv, IndexInv, TypeOK, Call
<1>2. [Next]_vars /\ tabs' = tabs \cup {nextTabID} /\ pending' = {}
  <2>1. pending' = pending \ {call} /\ tabs' = tabs \cup {nextTabID}
    BY DEF Spawned, FinishSpawn, NewTab
  <2>2. [Next]_vars
    BY DEF Spawned, Next
  <2> QED BY <2>1, <2>2 DEF FunnelInv, TaskInv
<1>3. /\ t.at \notin {"idle", "list", "cast", "accept"} /\ Shape(t) /\ TellsAll(t)
      /\ Attaching(t) => task[a].attach
      /\ \A c : Covers(t, a, c, nextTabID)
  <2>1. CASE task[a].attach
    BY <2>1 DEF Shape, TellsAll, Attaching, Covers
  <2>2. CASE ~task[a].attach
    BY <2>2, SubscribeAllIs
  <2> QED BY <2>1, <2>2
<1> HIDE DEF t
<1>4. GoesOn(a, t)
  <2>1. \A d, u : ~Covers(task[a], a, d, u)
    BY <1>1, IdleOwes
  <2>2. a \in Clients => ConnState(a)
    BY DEF FunnelInv, ConnInv
  <2>3. a \in Clients => /\ conn[a] = "open" /\ sessionName[a]
                         /\ task[a].attach => ~Shows(a) /\ ~attachedSent[a]
    BY <1>1, <2>2 DEF ConnState, Attaching
  <2> QED BY <1>1, <1>2, <1>3, <2>1, <2>3 DEF GoesOn, Tells
<1> QED BY <1>1, <1>2, <1>3, <1>4, HandlerStep

LEMMA SpawnFailedKeeps ==
  ASSUME FunnelInv, NEW call \in pending, SpawnFailed(call)
  PROVE  FunnelInv'
<1> DEFINE a == call.caller
<1>1. /\ a \in Callers /\ task[a].at = "spawn" /\ Turn(a, Idle) /\ UNCHANGED connVars
  BY DEF SpawnFailed, Goto, Turn, FunnelInv, TaskInv, BarInv, IndexInv, TypeOK, Call
<1>2. [Next]_vars /\ UNCHANGED <<tabs, revision>> /\ pending' = {}
  <2>1. pending' = pending \ {call} /\ UNCHANGED <<tabs, revision>>
    BY DEF SpawnFailed, FailSpawn
  <2>2. [Next]_vars
    BY DEF SpawnFailed, Next
  <2> QED BY <2>1, <2>2 DEF FunnelInv, TaskInv
<1>3. Idle.at = "idle" /\ Shape(Idle) /\ ~Attaching(Idle)
  BY DEF Idle, Shape, Attaching
<1>4. GoesOn(a, Idle)
  <2>1. \A d, u, r : ~Covers(task[a], a, d, u) /\ ~Tells(task[a], d, r)
    BY <1>1, IdleOwes
  <2> QED BY <1>1, <1>2, <1>3, <2>1 DEF GoesOn
<1> QED BY <1>1, <1>2, <1>3, <1>4, HandlerStep
LEMMA CloseUnsubscribedKeeps ==
  ASSUME FunnelInv, NEW a \in Callers, CloseUnsubscribed(a)
  PROVE  FunnelInv'
<1>1. task[a].at = "unsub" /\ Turn(a, Broadcast) /\ UNCHANGED connVars
  BY DEF CloseUnsubscribed, At, Goto, Turn
<1>2. [Next]_vars /\ tabs' = tabs \ {task[a].tab} /\ pending' = pending
  <2>1. CASE task[a].tab \in tabs
    <3>1. CloseTab(task[a].tab) /\ task[a].tab \in TabID
      BY <2>1 DEF CloseUnsubscribed, FunnelInv, BarInv, IndexInv, TypeOK
    <3>2. [Next]_vars
      BY <3>1 DEF Next
    <3> QED BY <3>1, <3>2 DEF CloseTab
  <2>2. CASE task[a].tab \notin tabs
    BY <2>2 DEF CloseUnsubscribed, vars
  <2> QED BY <2>1, <2>2
<1>3. Broadcast.at = "snapshot" /\ Shape(Broadcast) /\ TellsAll(Broadcast) /\ ~Attaching(Broadcast)
  BY DEF Broadcast, Shape, TellsAll, Attaching
<1>4. GoesOn(a, Broadcast)
  <2>1. \A c, u : Covers(task[a], a, c, u) => u = task[a].tab
    BY <1>1 DEF Covers
  <2>2. a \in Clients => conn[a] = "open" /\ sessionName[a]
    BY <1>1 DEF FunnelInv, ConnInv, ConnState
  <2> QED BY <1>1, <1>2, <1>3, <2>1, <2>2 DEF GoesOn, Tells
<1>5. \A call \in pending : call.caller # a
  BY <1>1, NoneSpawns DEF FunnelInv
<1>6. \A p, q \in pending : p = q
  BY DEF FunnelInv, TaskInv
<1> QED BY <1>1, <1>2, <1>3, <1>4, <1>5, <1>6, HandlerStep

LEMMA EnsureTabKeeps ==
  ASSUME FunnelInv, NEW c \in Clients, EnsureTab(c)
  PROVE  FunnelInv'
<1> DEFINE t == [at |-> "spawn", attach |-> TRUE]
<1>1. task[c].at = "ensure" /\ Turn(c, t) /\ UNCHANGED connVars /\ c \in Callers
  BY FunnelConstants DEF EnsureTab, At, Goto, Turn
<1>2. /\ [Next]_vars /\ UNCHANGED <<tabs, revision>>
      /\ pending' = {[caller |-> c, name |-> NoName, win |-> 0]}
  BY <1>1 DEF EnsureTab, BeginEnsureInitial, Next
<1>3. t.at = "spawn" /\ Shape(t)
  BY DEF Shape
<1> HIDE DEF t
<1>4. GoesOn(c, t)
  <2>1. \A d, u, r : ~Covers(task[c], c, d, u) /\ ~Tells(task[c], d, r)
    BY <1>1, IdleOwes
  <2>2. conn[c] = "open" /\ sessionName[c] /\ ~Shows(c) /\ ~attachedSent[c]
    BY <1>1 DEF FunnelInv, ConnInv, ConnState, Attaching
  <2> QED BY <1>1, <1>2, <1>3, <2>1, <2>2 DEF GoesOn
<1> QED BY <1>1, <1>2, <1>3, <1>4, HandlerStep

-----------------------------------------------------------------------------
(* The handlers between two locks.                                         *)

\* What is left to see of a step that touches nothing but its goroutine.
LEMMA PassKeeps ==
  ASSUME FunnelInv, UNCHANGED <<vars, connVars>>, NEW a \in Callers, NEW t, Turn(a, t),
         Shape(t), t.at \notin {"accept", "ensure", "reply", "spawn"},
         t.at \in {"list", "cast"} => Accurate(t.snap, Snapshot),
         task[a].at \notin {"accept", "spawn"},
         a \in Clients /\ t.at # "idle" => conn[a] = "open" /\ sessionName[a],
         \A c \in Clients : sessionName[c] =>
           /\ Tells(task[a], c, revision) => Tells(t, c, revision)
           /\ \A u \in tabs : Covers(task[a], a, c, u) => Covers(t, a, c, u)
  PROVE  FunnelInv'
<1>1. UNCHANGED <<tabs, revision>>
  BY DEF vars
<1>2. \A c \in Clients : Shows(c) => sessionName[c]
  BY DEF FunnelInv, ConnInv, ConnState
<1>3. GoesOn(a, t)
  BY <1>1, <1>2 DEF GoesOn, Attaching
<1> QED BY <1>3, QuietStep

LEMMA CloseKeeps ==
  ASSUME FunnelInv, NEW a \in Callers, Close(a)
  PROVE  FunnelInv'
<1>1. /\ a \in Clients => conn[a] = "open" /\ sessionName[a]
      /\ task[a].at = "idle" /\ UNCHANGED <<vars, connVars>>
  BY DEF Close, Free, At
<1>2. PICK u \in 1..(nextTabID - 1) : Turn(a, [at |-> "unsub", tab |-> u, todo |-> Viewers])
  BY DEF Close, Goto, Turn
<1> DEFINE t == [at |-> "unsub", tab |-> u, todo |-> Viewers]
<1>3. t.at = "unsub" /\ Shape(t)
  BY DEF Shape, Viewers
<1>4. \A d, v, r : ~Covers(task[a], a, d, v) /\ ~Tells(task[a], d, r)
  BY <1>1, IdleOwes
<1> HIDE DEF t
<1> QED BY <1>1, <1>2, <1>3, <1>4, PassKeeps DEF t

LEMMA Running ==
  ASSUME FunnelInv, NEW a \in Callers, task[a].at # "idle"
  PROVE  a \in Clients => conn[a] = "open" /\ sessionName[a]
BY DEF FunnelInv, ConnInv, ConnState

LEMMA ListSubscribersKeeps ==
  ASSUME FunnelInv, NEW a \in Callers, ListSubscribers(a)
  PROVE  FunnelInv'
<1>1. task[a].at = "fan" /\ task[a].todo = {} /\ UNCHANGED <<vars, connVars>>
  BY DEF ListSubscribers, At
<1>2. PICK w \in task[a].tabs :
        Turn(a, [at |-> "fan", tabs |-> task[a].tabs \ {w}, tab |-> w, todo |-> Viewers])
  BY DEF ListSubscribers, Goto, Turn
<1> DEFINE rest == task[a].tabs \ {w}
           t == [at |-> "fan", tabs |-> rest, tab |-> w, todo |-> Viewers]
<1>3. t.at = "fan" /\ Shape(t) /\ t.tabs = rest /\ t.tab = w /\ t.todo = Viewers
  BY DEF Shape, Viewers
<1>4. Turn(a, t)
  BY <1>2
<1> HIDE DEF t
<1>5. \A c \in Clients : sessionName[c] =>
        /\ Tells(t, c, revision)
        /\ \A u \in tabs : Covers(task[a], a, c, u) => Covers(t, a, c, u)
  BY <1>1, <1>3 DEF Tells, TellsAll, Covers, Viewers
<1> QED BY <1>1, <1>3, <1>4, <1>5, Running, PassKeeps

LEMMA TakeSnapshotKeeps ==
  ASSUME FunnelInv, NEW a \in Callers, TakeSnapshot(a)
  PROVE  FunnelInv'
<1> DEFINE t == [at |-> "list", snap |-> Snapshot]
<1>1. /\ task[a].at = "snapshot" \/ (task[a].at = "fan" /\ task[a].tabs = {} /\ task[a].todo = {})
      /\ Turn(a, t) /\ UNCHANGED <<vars, connVars>>
  BY DEF TakeSnapshot, At, Goto, Turn
<1>2. t.at = "list" /\ Shape(t) /\ t.snap = Snapshot
  BY DEF Shape
<1>3. Accurate(Snapshot, Snapshot)
  BY SnapshotAccurate DEF FunnelInv
<1> HIDE DEF t
<1>4. \A c \in Clients : Tells(t, c, revision) /\ \A u : ~Covers(task[a], a, c, u)
  BY <1>1, <1>2, SnapshotFields DEF Tells, Covers
<1> QED BY <1>1, <1>2, <1>3, <1>4, Running, PassKeeps

LEMMA ListViewersKeeps ==
  ASSUME FunnelInv, NEW a \in Callers, ListViewers(a)
  PROVE  FunnelInv'
<1> DEFINE t == [at |-> "cast", snap |-> task[a].snap, todo |-> Viewers]
<1>1. task[a].at = "list" /\ Turn(a, t) /\ UNCHANGED <<vars, connVars>>
  BY DEF ListViewers, At, Goto, Turn
<1>2. t.at = "cast" /\ Shape(t) /\ t.snap = task[a].snap /\ t.todo = Viewers
  BY DEF Shape, Viewers
<1>3. Accurate(task[a].snap, Snapshot)
  BY <1>1 DEF FunnelInv, TaskInv
<1> HIDE DEF t
<1>4. \A c \in Clients : sessionName[c] =>
        /\ Tells(task[a], c, revision) => Tells(t, c, revision)
        /\ \A u \in tabs : ~Covers(task[a], a, c, u)
  BY <1>1, <1>2 DEF Tells, TellsAll, Covers, Viewers
<1> QED BY <1>1, <1>2, <1>3, <1>4, Running, PassKeeps

LEMMA FinishKeeps ==
  ASSUME FunnelInv, NEW a \in Callers, Finish(a)
  PROVE  FunnelInv'
<1>1. /\ task[a].at = "cast" /\ task[a].todo = {} /\ Turn(a, Idle)
      /\ UNCHANGED <<vars, connVars>>
  BY DEF Finish, At, Goto, Turn
<1>2. Idle.at = "idle" /\ Shape(Idle)
  BY DEF Idle, Shape
<1>3. \A c, u : ~Tells(task[a], c, revision) /\ ~Covers(task[a], a, c, u)
  BY <1>1 DEF Tells, TellsAll, Covers
<1> QED BY <1>1, <1>2, <1>3, PassKeeps

LEMMA EnsureNothingKeeps ==
  ASSUME FunnelInv, NEW c \in Clients, EnsureNothing(c)
  PROVE  FunnelInv'
<1> DEFINE t == [at |-> "reply", created |-> FALSE]
<1>1. task[c].at = "ensure" /\ Turn(c, t) /\ UNCHANGED <<vars, connVars>> /\ c \in Callers
  BY FunnelConstants DEF EnsureNothing, At, Goto, Turn
<1>2. t.at = "reply" /\ Shape(t)
  BY DEF Shape
<1> HIDE DEF t
<1>3. GoesOn(c, t)
  <2>1. \A d, u, r : ~Covers(task[c], c, d, u) /\ ~Tells(task[c], d, r)
    BY <1>1, IdleOwes
  <2>2. conn[c] = "open" /\ sessionName[c] /\ ~Shows(c) /\ ~attachedSent[c]
    BY <1>1 DEF FunnelInv, ConnInv, ConnState, Attaching
  <2>3. UNCHANGED <<tabs, revision>>
    BY <1>1 DEF vars
  <2> QED BY <1>1, <1>2, <2>1, <2>2, <2>3 DEF GoesOn
<1> QED BY <1>1, <1>2, <1>3, QuietStep

LEMMA ListTabsKeeps ==
  ASSUME FunnelInv, NEW c \in Clients, ListTabs(c)
  PROVE  FunnelInv'
<1> DEFINE t == [at |-> "own", created |-> task[c].created, todo |-> tabs]
<1>1. task[c].at = "tabs" /\ Turn(c, t) /\ UNCHANGED <<vars, connVars>> /\ c \in Callers
  BY FunnelConstants DEF ListTabs, At, Goto, Turn
<1>2. t.at = "own" /\ Shape(t) /\ t.created = task[c].created /\ t.todo = tabs
  BY DEF Shape
<1> HIDE DEF t
<1>3. \A d \in Clients :
        /\ Tells(task[c], d, revision) => Tells(t, d, revision)
        /\ \A u \in tabs : Covers(task[c], c, d, u) => Covers(t, c, d, u)
  BY <1>1, <1>2 DEF Tells, TellsAll, Covers
<1> QED BY <1>1, <1>2, <1>3, Running, PassKeeps

LEMMA FinishAttachKeeps ==
  ASSUME FunnelInv, NEW c \in Clients, FinishAttach(c)
  PROVE  FunnelInv'
<1> DEFINE t == IF task[c].created THEN SubscribeAll(tabs) ELSE Idle
<1>1. /\ task[c].at = "own" /\ task[c].todo = {} /\ Turn(c, t) /\ UNCHANGED <<vars, connVars>>
      /\ c \in Callers
  BY FunnelConstants DEF FinishAttach, At, Goto, Turn
<1>2. /\ t.at \in {"idle", "fan"} /\ Shape(t)
      /\ task[c].created => TellsAll(t) /\ \A a, d : \A u \in tabs : Covers(t, a, d, u)
  <2>1. CASE task[c].created
    BY <2>1, SubscribeAllIs
  <2>2. CASE ~task[c].created
    BY <2>2 DEF Idle, Shape
  <2> QED BY <2>1, <2>2
<1> HIDE DEF t
<1>3. \A d \in Clients :
        /\ Tells(task[c], d, revision) => Tells(t, d, revision)
        /\ \A u \in tabs : Covers(task[c], c, d, u) => Covers(t, c, d, u)
  BY <1>1, <1>2 DEF Tells, TellsAll, Covers
<1> QED BY <1>1, <1>2, <1>3, Running, PassKeeps

-----------------------------------------------------------------------------
(* The steps that change a connection.                                     *)

\* Everything of connection d stays as it is.
Kept(d) ==
  /\ conn'[d] = conn[d] /\ sessionName'[d] = sessionName[d]
  /\ subSession'[d] = subSession[d] /\ subs'[d] = subs[d]
  /\ outCh'[d] = outCh[d] /\ slot'[d] = slot[d]
  /\ attachedSent'[d] = attachedSent[d] /\ view'[d] = view[d]

\* A step that changes connection c alone, of a goroutine that drops nothing it
\* owed the others.
LEMMA LinkStep ==
  ASSUME FunnelInv, UNCHANGED vars, TaskInv', ConnTypes', NEW c \in Clients, ConnState(c)',
         \A d \in Clients \ {c} :
           /\ Kept(d)
           /\ task'[d].at = task[d].at /\ (Attaching(task'[d]) => Attaching(task[d]))
           /\ \A b \in Callers :
                /\ Tells(task[b], d, revision) => Tells(task'[b], d, revision)
                /\ \A u \in tabs : Covers(task[b], b, d, u) => Covers(task'[b], b, d, u),
         Shows(c)' => Told(c)',
         conn'[c] = "open" /\ Shows(c)' => \A u \in tabs : Covered(c, u)'
  PROVE  FunnelInv'
<1>1. Snapshot' = Snapshot /\ revision' = revision /\ tabs' = tabs /\ [Next]_vars
  BY DEF Snapshot, vars
<1>2. BarInv'
  BY <1>1, Unstamped DEF FunnelInv
<1>3. ConnInv'
  <2>1. ASSUME NEW d \in Clients \ {c} PROVE ConnState(d)'
    <3>1. ConnState(d)
      BY DEF FunnelInv, ConnInv
    <3> QED BY <1>1, <3>1 DEF ConnState, Shows, Kept
  <2> QED BY <2>1 DEF ConnInv
<1>4. TellInv'
  <2>1. ASSUME NEW d \in Clients \ {c}, Shows(d)' PROVE Told(d)'
    <3>1. Told(d)
      BY <2>1 DEF FunnelInv, TellInv, Shows, Kept
    <3> QED BY <1>1, <3>1 DEF Told, Kept
  <2> QED BY <2>1 DEF TellInv
<1>5. CoverInv'
  <2>1. ASSUME NEW d \in Clients \ {c}, conn'[d] = "open", Shows(d)', NEW u \in tabs
        PROVE  Covered(d, u)'
    <3>1. Covered(d, u)
      BY <2>1 DEF FunnelInv, CoverInv, Shows, Kept
    <3> QED BY <3>1 DEF Covered, Kept
  <2> QED BY <1>1, <2>1 DEF CoverInv
<1> QED BY <1>2, <1>3, <1>4, <1>5 DEF FunnelInv

\* A goroutine with one less to do.
LEMMA Fewer ==
  ASSUME NEW f, Shape(f), f.at \in {"fan", "unsub", "cast", "own"}, NEW s, s \subseteq f.todo
  PROVE  LET g == [f EXCEPT !.todo = s]
         IN  /\ Shape(g) /\ g.at = f.at /\ g.todo = s
             /\ f.at = "fan" => g.tabs = f.tabs
             /\ f.at \in {"fan", "unsub"} => g.tab = f.tab
             /\ f.at = "cast" => g.snap = f.snap
             /\ f.at = "own" => g.created = f.created
<1> DEFINE g == [f EXCEPT !.todo = s]
<1>1. CASE f.at = "fan"
  <2>1. PICK x, y, z : f = [at |-> "fan", tabs |-> x, tab |-> y, todo |-> z]
    BY <1>1 DEF Shape
  <2>2. g = [at |-> "fan", tabs |-> x, tab |-> y, todo |-> s]
    BY <2>1
  <2>3. f.tabs = x /\ f.tab = y /\ f.todo = z /\ f.todo \subseteq Clients
    BY <1>1, <2>1 DEF Shape
  <2> HIDE DEF g
  <2>4. g.at = "fan" /\ g.tabs = x /\ g.tab = y /\ g.todo = s /\ Shape(g)
    BY <2>2, <2>3 DEF Shape
  <2> QED BY <1>1, <2>3, <2>4 DEF g
<1>2. CASE f.at = "unsub"
  <2>1. PICK y, z : f = [at |-> "unsub", tab |-> y, todo |-> z]
    BY <1>2 DEF Shape
  <2>2. g = [at |-> "unsub", tab |-> y, todo |-> s]
    BY <2>1
  <2>3. f.tab = y /\ f.todo = z /\ f.todo \subseteq Clients
    BY <1>2, <2>1 DEF Shape
  <2> HIDE DEF g
  <2>4. g.at = "unsub" /\ g.tab = y /\ g.todo = s /\ Shape(g)
    BY <2>2, <2>3 DEF Shape
  <2> QED BY <1>2, <2>3, <2>4 DEF g
<1>3. CASE f.at = "cast"
  <2>1. PICK y, z : f = [at |-> "cast", snap |-> y, todo |-> z]
    BY <1>3 DEF Shape
  <2>2. g = [at |-> "cast", snap |-> y, todo |-> s]
    BY <2>1
  <2>3. f.snap = y /\ f.todo = z /\ f.todo \subseteq Clients
    BY <1>3, <2>1 DEF Shape
  <2> HIDE DEF g
  <2>4. g.at = "cast" /\ g.snap = y /\ g.todo = s /\ Shape(g)
    BY <2>2, <2>3 DEF Shape
  <2> QED BY <1>3, <2>3, <2>4 DEF g
<1>4. CASE f.at = "own"
  <2>1. PICK y, z : f = [at |-> "own", created |-> y, todo |-> z]
    BY <1>4 DEF Shape
  <2>2. g = [at |-> "own", created |-> y, todo |-> s]
    BY <2>1
  <2>3. f.created = y
    BY <2>1
  <2> HIDE DEF g
  <2>4. g.at = "own" /\ g.created = y /\ g.todo = s /\ Shape(g)
    BY <2>2 DEF Shape
  <2> QED BY <1>4, <2>3, <2>4 DEF g
<1> QED BY <1>1, <1>2, <1>3, <1>4

LEMMA TurnsQuietly ==
  ASSUME FunnelInv, UNCHANGED vars, NEW a \in Callers, NEW t, Turn(a, t), Shape(t),
         t.at \in {"list", "cast"} => Accurate(t.snap, Snapshot), task[a].at # "spawn"
  PROVE  TaskInv' /\ task'[a] = t /\ \A b \in Callers \ {a} : task'[b] = task[b]
<1>1. pending' = pending /\ [Next]_vars /\ Snapshot' = Snapshot
  BY DEF vars, Snapshot
<1>2. (\A call \in pending : call.caller # a) /\ \A p, q \in pending : p = q
  BY NoneSpawns DEF FunnelInv
<1>3. TaskInv'
  BY <1>1, <1>2, TaskTurns
<1> QED BY <1>3, TurnIs DEF FunnelInv

Sheds(a, x) == task' = [task EXCEPT ![a].todo = @ \ {x}]

LEMMA OneDone ==
  ASSUME FunnelInv, UNCHANGED vars, NEW a \in Callers, NEW x,
         task[a].at \in {"fan", "unsub", "cast", "own"},
         Sheds(a, x)
  PROVE  /\ TaskInv' /\ \A b \in Callers \ {a} : task'[b] = task[b]
         /\ task'[a].at = task[a].at /\ task'[a].todo = task[a].todo \ {x}
         /\ task[a].at = "fan" => task'[a].tabs = task[a].tabs
         /\ task[a].at \in {"fan", "unsub"} => task'[a].tab = task[a].tab
         /\ task[a].at = "cast" => task'[a].snap = task[a].snap
         /\ task[a].at = "own" => task'[a].created = task[a].created
<1>0. PICK f : f = task[a]
  OBVIOUS
<1> DEFINE s == f.todo \ {x}
           t == [f EXCEPT !.todo = s]
<1>1. Shape(f) /\ s \subseteq f.todo
  BY <1>0 DEF FunnelInv, TaskInv
<1>2. /\ Shape(t) /\ t.at = f.at /\ t.todo = s
      /\ f.at = "fan" => t.tabs = f.tabs
      /\ f.at \in {"fan", "unsub"} => t.tab = f.tab
      /\ f.at = "cast" => t.snap = f.snap
      /\ f.at = "own" => t.created = f.created
  <2> HIDE DEF s
  <2> QED BY <1>0, <1>1, Fewer
<1>3. Turn(a, t)
  BY <1>0 DEF Turn, Sheds
<1>4. t.at \in {"list", "cast"} => Accurate(t.snap, Snapshot)
  BY <1>0, <1>2 DEF FunnelInv, TaskInv
<1> HIDE DEF t
<1>5. TaskInv' /\ task'[a] = t /\ \A b \in Callers \ {a} : task'[b] = task[b]
  BY <1>0, <1>2, <1>3, <1>4, TurnsQuietly
<1> QED BY <1>0, <1>2, <1>5

LEMMA UnsubscribeKeeps ==
  ASSUME FunnelInv, NEW a \in Callers, Unsubscribe(a)
  PROVE  FunnelInv'
<1>1. task[a].at = "unsub" /\ UNCHANGED <<vars, conn, sessionName, subSession, outCh, slot, attachedSent, view>>
  BY DEF Unsubscribe, At
<1>2. PICK c \in task[a].todo : /\ subs' = [subs EXCEPT ![c] = @ \ {task[a].tab}]
                                /\ Sheds(a, c)
  BY DEF Unsubscribe, Sheds
<1>3. c \in Clients /\ c \in Callers
  BY <1>1, FunnelConstants DEF FunnelInv, TaskInv, Shape
<1>4. /\ TaskInv' /\ \A b \in Callers \ {a} : task'[b] = task[b]
      /\ task'[a].at = "unsub" /\ task'[a].tab = task[a].tab
  BY <1>1, <1>2, OneDone
<1>5. ConnTypes' /\ subs'[c] = subs[c] \ {task[a].tab} /\ \A d \in Clients \ {c} : Kept(d)
  BY <1>1, <1>2, <1>3 DEF FunnelInv, ConnTypes, Kept
<1>6. \A b \in Callers : task'[b].at = task[b].at /\ (Attaching(task'[b]) => Attaching(task[b]))
  BY <1>1, <1>4 DEF Attaching
<1>7. \A b \in Callers, d \in Clients :
        /\ Tells(task[b], d, revision) => Tells(task'[b], d, revision)
        /\ \A u \in tabs : Covers(task[b], b, d, u) => Covers(task'[b], b, d, u)
  BY <1>1, <1>4 DEF Tells, TellsAll, Covers
<1>8. ConnState(c) /\ Snapshot' = Snapshot /\ revision' = revision /\ tabs' = tabs
  BY <1>1, <1>3 DEF FunnelInv, ConnInv, Snapshot, vars
<1>9. ConnState(c)' /\ (Shows(c)' => Shows(c))
  BY <1>1, <1>3, <1>6, <1>8 DEF ConnState, Shows
<1>10. Shows(c)' => Told(c)'
  BY <1>1, <1>3, <1>7, <1>8, <1>9 DEF FunnelInv, TellInv, Told
<1>11. ASSUME conn'[c] = "open", Shows(c)', NEW u \in tabs PROVE Covered(c, u)'
  <2>1. Covered(c, u)
    BY <1>1, <1>3, <1>9, <1>11 DEF FunnelInv, CoverInv
  <2>2. CASE u = task[a].tab
    BY <1>4, <2>2 DEF Covered, Covers
  <2>3. CASE u # task[a].tab
    BY <1>3, <1>5, <1>7, <2>1, <2>3 DEF Covered
  <2> QED BY <2>2, <2>3
<1> QED BY <1>1, <1>3, <1>4, <1>5, <1>6, <1>7, <1>9, <1>10, <1>11, FunnelConstants, LinkStep

LEMMA Accepting ==
  ASSUME FunnelInv, NEW c \in Clients, conn[c] = "open",
         Shows(c) \/ task[c].at \notin {"idle", "accept"}
  PROVE  subSession[c]
BY DEF FunnelInv, ConnInv, ConnState, Attaching

LEMMA SubscribeOneKeeps ==
  ASSUME FunnelInv, NEW a \in Callers, SubscribeOne(a)
  PROVE  FunnelInv'
<1>1. task[a].at = "fan" /\ UNCHANGED <<vars, conn, sessionName, subSession, outCh, slot, attachedSent, view>>
  BY DEF SubscribeOne, At
<1>2. PICK c \in task[a].todo : /\ Subscribe(c, task[a].tab)
                                /\ Sheds(a, c)
  BY DEF SubscribeOne, Sheds
<1>3. c \in Clients /\ c \in Callers
  BY <1>1, FunnelConstants DEF FunnelInv, TaskInv, Shape
<1>4. /\ TaskInv' /\ \A b \in Callers \ {a} : task'[b] = task[b]
      /\ task'[a].at = "fan" /\ task'[a].tab = task[a].tab /\ task'[a].tabs = task[a].tabs
      /\ task'[a].todo = task[a].todo \ {c}
  BY <1>1, <1>2, OneDone
<1>5. /\ ConnTypes' /\ \A d \in Clients \ {c} : Kept(d)
      /\ subs'[c] = IF subSession[c] THEN subs[c] \cup {task[a].tab} ELSE subs[c]
  BY <1>1, <1>2, <1>3 DEF FunnelInv, ConnTypes, Kept, Subscribe
<1>6. \A b \in Callers : task'[b].at = task[b].at /\ (Attaching(task'[b]) => Attaching(task[b]))
  BY <1>1, <1>4 DEF Attaching
<1>7. \A b \in Callers, d \in Clients :
        /\ Tells(task[b], d, revision) => Tells(task'[b], d, revision)
        /\ \A u \in tabs : Covers(task[b], b, d, u) =>
             Covers(task'[b], b, d, u) \/ (b = a /\ d = c /\ u = task[a].tab)
  BY <1>1, <1>4 DEF Tells, TellsAll, Covers
<1>8. ConnState(c) /\ Snapshot' = Snapshot /\ revision' = revision /\ tabs' = tabs
  BY <1>1, <1>3 DEF FunnelInv, ConnInv, Snapshot, vars
<1>9. ConnState(c)' /\ (Shows(c)' => Shows(c))
  BY <1>1, <1>3, <1>6, <1>8 DEF ConnState, Shows
<1>10. Shows(c)' => Told(c)'
  BY <1>1, <1>3, <1>7, <1>8, <1>9 DEF FunnelInv, TellInv, Told
<1>11. ASSUME conn'[c] = "open", Shows(c)', NEW u \in tabs PROVE Covered(c, u)'
  <2>1. Covered(c, u)
    BY <1>1, <1>3, <1>9, <1>11 DEF FunnelInv, CoverInv
  <2>2. subs'[c] = subs[c] \cup {task[a].tab}
    BY <1>1, <1>3, <1>5, <1>9, <1>11, Accepting
  <2> QED BY <1>3, <1>7, <2>1, <2>2 DEF Covered
<1> QED BY <1>1, <1>3, <1>4, <1>5, <1>6, <1>7, <1>9, <1>10, <1>11, FunnelConstants, LinkStep

LEMMA SubscribeOwnKeeps ==
  ASSUME FunnelInv, NEW c \in Clients, SubscribeOwn(c)
  PROVE  FunnelInv'
<1>1. /\ task[c].at = "own" /\ c \in Callers
      /\ UNCHANGED <<vars, conn, sessionName, subSession, outCh, slot, attachedSent, view>>
  BY FunnelConstants DEF SubscribeOwn, At
<1>2. PICK t \in task[c].todo : Subscribe(c, t) /\ Sheds(c, t)
  BY DEF SubscribeOwn, Sheds
<1>4. /\ TaskInv' /\ \A b \in Callers \ {c} : task'[b] = task[b]
      /\ task'[c].at = "own" /\ task'[c].created = task[c].created
      /\ task'[c].todo = task[c].todo \ {t}
  BY <1>1, <1>2, OneDone
<1>5. /\ ConnTypes' /\ \A d \in Clients \ {c} : Kept(d)
      /\ subs'[c] = IF subSession[c] THEN subs[c] \cup {t} ELSE subs[c]
  BY <1>1, <1>2 DEF FunnelInv, ConnTypes, Kept, Subscribe
<1>6. \A b \in Callers : task'[b].at = task[b].at /\ (Attaching(task'[b]) => Attaching(task[b]))
  BY <1>1, <1>4 DEF Attaching
<1>7. \A b \in Callers, d \in Clients :
        /\ Tells(task[b], d, revision) => Tells(task'[b], d, revision)
        /\ \A u \in tabs : Covers(task[b], b, d, u) =>
             Covers(task'[b], b, d, u) \/ (d = c /\ u = t)
  BY <1>1, <1>4 DEF Tells, TellsAll, Covers
<1>8. ConnState(c) /\ Snapshot' = Snapshot /\ revision' = revision /\ tabs' = tabs
  BY <1>1 DEF FunnelInv, ConnInv, Snapshot, vars
<1>9. ConnState(c)' /\ (Shows(c)' => Shows(c))
  BY <1>1, <1>6, <1>8 DEF ConnState, Shows
<1>10. Shows(c)' => Told(c)'
  BY <1>1, <1>7, <1>8, <1>9 DEF FunnelInv, TellInv, Told
<1>11. ASSUME conn'[c] = "open", Shows(c)', NEW u \in tabs PROVE Covered(c, u)'
  <2>1. Covered(c, u)
    BY <1>1, <1>9, <1>11 DEF FunnelInv, CoverInv
  <2>2. subs'[c] = subs[c] \cup {t}
    BY <1>1, <1>5, <1>9, <1>11, Accepting
  <2> QED BY <1>7, <2>1, <2>2 DEF Covered
<1> QED BY <1>1, <1>4, <1>5, <1>6, <1>7, <1>9, <1>10, <1>11, FunnelConstants, LinkStep

LEMMA NewestIs ==
  ASSUME NEW had, NEW got, NEW now, now.rev \in Nat,
         Accurate(had, now), Accurate(got, now)
  PROVE  /\ Newest(had, got) \in {had, got}
         /\ now.rev \in {had.rev, got.rev} => Newest(had, got).rev = now.rev
<1>1. NoSnap.rev = -1
  BY SnapshotFields
<1>2. /\ had.rev \in Int /\ had.rev <= now.rev
      /\ got.rev \in Int /\ got.rev <= now.rev
  BY <1>1 DEF Accurate
<1> QED BY <1>2 DEF Newest

LEMMA SendTopologyKeeps ==
  ASSUME FunnelInv, NEW a \in Callers, SendTopology(a)
  PROVE  FunnelInv'
<1>1. task[a].at = "cast" /\ UNCHANGED <<vars, conn, sessionName, subSession, subs, outCh, attachedSent, view>>
  BY DEF SendTopology, At
<1>2. PICK c \in task[a].todo : /\ slot' = [slot EXCEPT ![c] = Newest(@, task[a].snap)]
                                /\ Sheds(a, c)
  BY DEF SendTopology, Sheds
<1>3. c \in Clients /\ c \in Callers
  BY <1>1, FunnelConstants DEF FunnelInv, TaskInv, Shape
<1>4. /\ TaskInv' /\ \A b \in Callers \ {a} : task'[b] = task[b]
      /\ task'[a].at = "cast" /\ task'[a].snap = task[a].snap
      /\ task'[a].todo = task[a].todo \ {c}
  BY <1>1, <1>2, OneDone
<1>5. /\ ConnTypes' /\ \A d \in Clients \ {c} : Kept(d)
      /\ slot'[c] = Newest(slot[c], task[a].snap)
  BY <1>1, <1>2, <1>3 DEF FunnelInv, ConnTypes, Kept
<1>6. \A b \in Callers : task'[b].at = task[b].at /\ (Attaching(task'[b]) => Attaching(task[b]))
  BY <1>1, <1>4 DEF Attaching
<1>7. \A b \in Callers, d \in Clients :
        /\ Tells(task[b], d, revision) =>
             Tells(task'[b], d, revision) \/ (d = c /\ task[a].snap.rev = revision)
        /\ \A u \in tabs : Covers(task[b], b, d, u) => Covers(task'[b], b, d, u)
  BY <1>1, <1>4 DEF Tells, TellsAll, Covers
<1>8. ConnState(c) /\ Snapshot' = Snapshot /\ revision' = revision /\ tabs' = tabs
  BY <1>1, <1>3 DEF FunnelInv, ConnInv, Snapshot, vars
<1>12. /\ slot'[c] \in {slot[c], task[a].snap}
       /\ revision \in {slot[c].rev, task[a].snap.rev} => slot'[c].rev = revision
  <2>1. Snapshot.rev = revision /\ revision \in Nat
    BY SnapshotFields DEF FunnelInv, BarInv, IndexInv, TypeOK
  <2>2. Accurate(slot[c], Snapshot) /\ Accurate(task[a].snap, Snapshot)
    BY <1>1, <1>8 DEF FunnelInv, TaskInv, ConnState
  <2> QED BY <1>5, <2>1, <2>2, NewestIs
<1>9. ConnState(c)' /\ (Shows(c)' => Shows(c))
  <2>1. Accurate(slot'[c], Snapshot)
    BY <1>1, <1>8, <1>12 DEF FunnelInv, TaskInv, ConnState
  <2> QED BY <1>1, <1>3, <1>6, <1>8, <2>1 DEF ConnState, Shows
<1>10. Shows(c)' => Told(c)'
  BY <1>1, <1>3, <1>7, <1>8, <1>9, <1>12 DEF FunnelInv, TellInv, Told
<1>11. ASSUME conn'[c] = "open", Shows(c)', NEW u \in tabs PROVE Covered(c, u)'
  <2>1. Covered(c, u)
    BY <1>1, <1>3, <1>9, <1>11 DEF FunnelInv, CoverInv
  <2> QED BY <1>1, <1>3, <1>7, <2>1 DEF Covered
<1> QED BY <1>1, <1>3, <1>4, <1>5, <1>6, <1>7, <1>9, <1>10, <1>11, FunnelConstants, LinkStep

\* A step of c's own handler, which owes the others what it owed before.
LEMMA LinkAttach ==
  ASSUME FunnelInv, UNCHANGED vars, TaskInv', ConnTypes', NEW c \in Clients, ConnState(c)',
         \A d \in Clients \ {c} : Kept(d),
         \A b \in Callers \ {c} : task'[b] = task[b],
         \A d, u : /\ Tells(task[c], d, revision) => Tells(task'[c], d, revision)
                   /\ Covers(task[c], c, d, u) => Covers(task'[c], c, d, u),
         Shows(c)' => Told(c)',
         conn'[c] = "open" /\ Shows(c)' => \A u \in tabs : Covered(c, u)'
  PROVE  FunnelInv'
<1>1. \A b \in Callers, d \in Clients :
        /\ Tells(task[b], d, revision) => Tells(task'[b], d, revision)
        /\ \A u \in tabs : Covers(task[b], b, d, u) => Covers(task'[b], b, d, u)
  OBVIOUS
<1>2. \A d \in Clients \ {c} : task'[d] = task[d]
  BY FunnelConstants
<1>3. \A d \in Clients \ {c} :
        /\ Kept(d)
        /\ task'[d].at = task[d].at /\ (Attaching(task'[d]) => Attaching(task[d]))
        /\ \A b \in Callers :
             /\ Tells(task[b], d, revision) => Tells(task'[b], d, revision)
             /\ \A u \in tabs : Covers(task[b], b, d, u) => Covers(task'[b], b, d, u)
  BY <1>1, <1>2
<1> QED BY <1>3, LinkStep

\* A step of c's connection while every goroutine stays where it is.
LEMMA LinkWrite ==
  ASSUME FunnelInv, UNCHANGED <<vars, task>>, ConnTypes', NEW c \in Clients, ConnState(c)',
         \A d \in Clients \ {c} : Kept(d),
         Shows(c)' => Told(c)',
         conn'[c] = "open" /\ Shows(c)' => \A u \in tabs : Covered(c, u)'
  PROVE  FunnelInv'
<1>1. TaskInv'
  <2>1. pending' = pending /\ Snapshot' = Snapshot
    BY DEF vars, Snapshot
  <2> QED BY <2>1 DEF FunnelInv, TaskInv
<1> QED BY <1>1, FunnelConstants, LinkStep

LEMMA AttachKeeps ==
  ASSUME FunnelInv, NEW c \in Clients, Attach(c)
  PROVE  FunnelInv'
<1> DEFINE t == [at |-> "accept"]
<1>1. /\ conn[c] = "open" /\ ~sessionName[c] /\ task[c].at = "idle" /\ c \in Callers
      /\ UNCHANGED <<vars, conn, subSession, subs, outCh, slot, attachedSent, view>>
      /\ sessionName' = [sessionName EXCEPT ![c] = TRUE] /\ Turn(c, t)
  BY FunnelConstants DEF Attach, At, Goto, Turn
<1>2. t.at = "accept" /\ Shape(t)
  BY DEF Shape
<1> HIDE DEF t
<1>3. TaskInv' /\ task'[c] = t /\ \A b \in Callers \ {c} : task'[b] = task[b]
  BY <1>1, <1>2, TurnsQuietly
<1>4. ConnTypes' /\ sessionName'[c] = TRUE /\ \A d \in Clients \ {c} : Kept(d)
  BY <1>1 DEF FunnelInv, ConnTypes, Kept
<1>5. ConnState(c) /\ Snapshot' = Snapshot
  BY <1>1 DEF FunnelInv, ConnInv, Snapshot, vars
<1>6. ConnState(c)' /\ ~Shows(c)'
  BY <1>1, <1>2, <1>3, <1>4, <1>5 DEF ConnState, Shows
<1>7. \A d, u, r : ~Tells(task[c], d, r) /\ ~Covers(task[c], c, d, u)
  BY <1>1, IdleOwes
<1> QED BY <1>1, <1>3, <1>4, <1>6, <1>7, LinkAttach

LEMMA AcceptKeeps ==
  ASSUME FunnelInv, NEW c \in Clients, Accept(c)
  PROVE  FunnelInv'
<1> DEFINE t == [at |-> "ensure"]
<1>1. /\ task[c].at = "accept" /\ c \in Callers
      /\ UNCHANGED <<vars, conn, sessionName, subs, outCh, slot, attachedSent, view>>
      /\ subSession' = [subSession EXCEPT ![c] = TRUE] /\ Turn(c, t)
  BY FunnelConstants DEF Accept, At, Goto, Turn
<1>2. t.at = "ensure" /\ Shape(t)
  BY DEF Shape
<1> HIDE DEF t
<1>3. TaskInv' /\ task'[c] = t /\ \A b \in Callers \ {c} : task'[b] = task[b]
  BY <1>1, <1>2, TurnsQuietly
<1>4. ConnTypes' /\ subSession'[c] = TRUE /\ \A d \in Clients \ {c} : Kept(d)
  BY <1>1 DEF FunnelInv, ConnTypes, Kept
<1>5. ConnState(c) /\ Snapshot' = Snapshot
  BY <1>1 DEF FunnelInv, ConnInv, Snapshot, vars
<1>6. ConnState(c)' /\ ~Shows(c)'
  BY <1>1, <1>2, <1>3, <1>4, <1>5 DEF ConnState, Shows, Attaching
<1>7. \A d, u, r : ~Tells(task[c], d, r) /\ ~Covers(task[c], c, d, u)
  BY <1>1, IdleOwes
<1> QED BY <1>1, <1>3, <1>4, <1>6, <1>7, LinkAttach

LEMMA ReplyKeeps ==
  ASSUME FunnelInv, NEW c \in Clients, Reply(c)
  PROVE  FunnelInv'
<1> DEFINE t == [at |-> "tabs", created |-> task[c].created]
<1>1. /\ task[c].at = "reply" /\ c \in Callers
      /\ UNCHANGED <<vars, conn, sessionName, subSession, subs, slot, attachedSent, view>>
      /\ outCh' = [outCh EXCEPT ![c] = Snapshot] /\ Turn(c, t)
  BY FunnelConstants DEF Reply, At, Goto, Turn
<1>2. t.at = "tabs" /\ t.created = task[c].created /\ Shape(t)
  BY DEF Shape
<1> HIDE DEF t
<1>3. TaskInv' /\ task'[c] = t /\ \A b \in Callers \ {c} : task'[b] = task[b]
  BY <1>1, <1>2, TurnsQuietly
<1>4. ConnTypes' /\ outCh'[c] = Snapshot /\ \A d \in Clients \ {c} : Kept(d)
  BY <1>1 DEF FunnelInv, ConnTypes, Kept
<1>5. /\ ConnState(c) /\ Snapshot' = Snapshot /\ Accurate(Snapshot, Snapshot)
      /\ revision' = revision /\ Snapshot.rev = revision
  BY <1>1, SnapshotAccurate, SnapshotFields DEF FunnelInv, ConnInv, Snapshot, vars
<1>6. ConnState(c)'
  BY <1>1, <1>2, <1>3, <1>4, <1>5 DEF ConnState, Shows, Attaching
<1>7. Told(c)'
  BY <1>4, <1>5 DEF Told
<1>8. \A u : Covered(c, u)'
  BY <1>1, <1>2, <1>3 DEF Covered, Covers
<1>9. \A d, u : /\ Tells(task[c], d, revision) => Tells(task'[c], d, revision)
                /\ Covers(task[c], c, d, u) => Covers(task'[c], c, d, u)
  BY <1>1, <1>2, <1>3 DEF Tells, TellsAll, Covers
<1> QED BY <1>1, <1>3, <1>4, <1>6, <1>7, <1>8, <1>9, LinkAttach

LEMMA ConnectKeeps ==
  ASSUME FunnelInv, NEW c \in Clients, Connect(c)
  PROVE  FunnelInv'
<1>1. /\ conn[c] = "off" /\ conn' = [conn EXCEPT ![c] = "open"]
      /\ UNCHANGED <<vars, sessionName, subSession, subs, outCh, slot, attachedSent, view, task>>
  BY DEF Connect
<1>2. ConnTypes' /\ conn'[c] = "open" /\ \A d \in Clients \ {c} : Kept(d)
  BY <1>1 DEF FunnelInv, ConnTypes, Kept
<1>3. ConnState(c) /\ Snapshot' = Snapshot
  BY <1>1 DEF FunnelInv, ConnInv, Snapshot, vars
<1>4. ConnState(c)' /\ ~Shows(c)'
  BY <1>1, <1>2, <1>3 DEF ConnState, Shows
<1> QED BY <1>1, <1>2, <1>4, LinkWrite

LEMMA WriteAttachedKeeps ==
  ASSUME FunnelInv, NEW c \in Clients, WriteAttached(c)
  PROVE  FunnelInv'
<1>1. /\ outCh[c] # NoSnap /\ view' = [view EXCEPT ![c] = outCh[c]]
      /\ outCh' = [outCh EXCEPT ![c] = NoSnap]
      /\ attachedSent' = [attachedSent EXCEPT ![c] = TRUE]
      /\ UNCHANGED <<vars, conn, sessionName, subSession, subs, slot, task>>
  BY DEF WriteAttached
<1>2. /\ ConnTypes' /\ view'[c] = outCh[c] /\ outCh'[c] = NoSnap /\ attachedSent'[c] = TRUE
      /\ \A d \in Clients \ {c} : Kept(d)
  BY <1>1 DEF FunnelInv, ConnTypes, Kept
<1>3. /\ ConnState(c) /\ Snapshot' = Snapshot /\ revision' = revision /\ tabs' = tabs
      /\ revision \in Nat
  BY <1>1 DEF FunnelInv, ConnInv, Snapshot, vars, BarInv, IndexInv, TypeOK
<1>4. ConnState(c)' /\ Shows(c)
  BY <1>1, <1>2, <1>3 DEF ConnState, Shows, Accurate
<1>5. Told(c)'
  <2>1. Told(c) /\ view[c] = NoSnap /\ NoSnap.rev = -1
    BY <1>1, <1>3, <1>4, SnapshotFields DEF FunnelInv, TellInv, ConnState
  <2>2. revision # -1
    BY <1>3
  <2> QED BY <1>1, <1>2, <1>3, <2>1, <2>2 DEF Told
<1>6. ASSUME conn'[c] = "open", NEW u \in tabs PROVE Covered(c, u)'
  <2>1. Covered(c, u)
    BY <1>1, <1>4, <1>6 DEF FunnelInv, CoverInv
  <2> QED BY <1>1, <2>1 DEF Covered
<1> QED BY <1>1, <1>2, <1>4, <1>5, <1>6, LinkWrite

LEMMA GateIs ==
  ASSUME NEW had, NEW got, NEW now, now.rev \in Nat,
         Accurate(had, now), Accurate(got, now), got # NoSnap
  PROVE  /\ Gate(had, got) \in {had, got}
         /\ now.rev \in {had.rev, got.rev} => Gate(had, got).rev = now.rev
<1>1. NoSnap.rev = -1
  BY SnapshotFields
<1>2. /\ had.rev \in Int /\ had.rev <= now.rev
      /\ got.rev \in Int /\ got.rev <= now.rev
  BY <1>1 DEF Accurate
<1> QED BY <1>2 DEF Gate

LEMMA WriteTopologyKeeps ==
  ASSUME FunnelInv, NEW c \in Clients, WriteTopology(c)
  PROVE  FunnelInv'
<1>1. /\ attachedSent[c] /\ slot[c] # NoSnap
      /\ view' = [view EXCEPT ![c] = Gate(@, slot[c])]
      /\ slot' = [slot EXCEPT ![c] = NoSnap]
      /\ UNCHANGED <<vars, conn, sessionName, subSession, subs, outCh, attachedSent, task>>
  BY DEF WriteTopology
<1>2. /\ ConnTypes' /\ view'[c] = Gate(view[c], slot[c]) /\ slot'[c] = NoSnap
      /\ \A d \in Clients \ {c} : Kept(d)
  BY <1>1 DEF FunnelInv, ConnTypes, Kept
<1>3. /\ ConnState(c) /\ Snapshot' = Snapshot /\ revision' = revision /\ tabs' = tabs
      /\ revision \in Nat /\ Snapshot.rev = revision
  BY <1>1, SnapshotFields DEF FunnelInv, ConnInv, Snapshot, vars, BarInv, IndexInv, TypeOK
<1>4. /\ view'[c] \in {view[c], slot[c]} /\ view[c] # NoSnap
      /\ revision \in {view[c].rev, slot[c].rev} => view'[c].rev = revision
  <2>1. Accurate(view[c], Snapshot) /\ Accurate(slot[c], Snapshot) /\ view[c] # NoSnap
    BY <1>1, <1>3 DEF ConnState
  <2> QED BY <1>1, <1>2, <1>3, <2>1, GateIs
<1>5. ConnState(c)' /\ Shows(c)
  BY <1>1, <1>2, <1>3, <1>4 DEF ConnState, Shows, Accurate
<1>6. Told(c)'
  <2>1. Told(c)
    BY <1>5 DEF FunnelInv, TellInv
  <2> QED BY <1>1, <1>3, <1>4, <2>1 DEF Told
<1>7. ASSUME conn'[c] = "open", NEW u \in tabs PROVE Covered(c, u)'
  <2>1. Covered(c, u)
    BY <1>1, <1>5, <1>7 DEF FunnelInv, CoverInv
  <2> QED BY <1>1, <2>1 DEF Covered
<1> QED BY <1>1, <1>2, <1>5, <1>6, <1>7, LinkWrite

LEMMA DisconnectKeeps ==
  ASSUME FunnelInv, NEW c \in Clients, Disconnect(c)
  PROVE  FunnelInv'
<1>1. /\ conn[c] = "open" /\ task[c].at = "idle" /\ conn' = [conn EXCEPT ![c] = "closing"]
      /\ subSession' = [subSession EXCEPT ![c] = FALSE] /\ subs' = [subs EXCEPT ![c] = {}]
      /\ UNCHANGED <<vars, sessionName, outCh, slot, attachedSent, view, task>>
  BY DEF Disconnect, At
<1>2. ConnTypes' /\ conn'[c] = "closing" /\ \A d \in Clients \ {c} : Kept(d)
  BY <1>1 DEF FunnelInv, ConnTypes, Kept
<1>3. ConnState(c) /\ Snapshot' = Snapshot /\ revision' = revision
  BY <1>1 DEF FunnelInv, ConnInv, Snapshot, vars
<1>4. ConnState(c)'
  BY <1>1, <1>2, <1>3 DEF ConnState, Shows
<1>5. Shows(c)' => Told(c)'
  BY <1>1, <1>3 DEF FunnelInv, TellInv, Told, Shows
<1> QED BY <1>1, <1>2, <1>4, <1>5, LinkWrite

LEMMA UnregisterKeeps ==
  ASSUME FunnelInv, NEW c \in Clients, Unregister(c)
  PROVE  FunnelInv'
<1>1. /\ conn[c] = "closing" /\ conn' = [conn EXCEPT ![c] = "off"]
      /\ sessionName' = [sessionName EXCEPT ![c] = FALSE]
      /\ outCh' = [outCh EXCEPT ![c] = NoSnap] /\ slot' = [slot EXCEPT ![c] = NoSnap]
      /\ attachedSent' = [attachedSent EXCEPT ![c] = FALSE]
      /\ view' = [view EXCEPT ![c] = NoSnap] /\ UNCHANGED <<vars, subSession, subs, task>>
  BY DEF Unregister
<1>2. /\ ConnTypes' /\ conn'[c] = "off" /\ sessionName'[c] = FALSE
      /\ outCh'[c] = NoSnap /\ slot'[c] = NoSnap /\ attachedSent'[c] = FALSE /\ view'[c] = NoSnap
      /\ \A d \in Clients \ {c} : Kept(d)
  BY <1>1 DEF FunnelInv, ConnTypes, Kept
<1>3. ConnState(c)
  BY DEF FunnelInv, ConnInv
<1>4. ConnState(c)' /\ ~Shows(c)'
  <2>1. Accurate(NoSnap, Snapshot')
    BY DEF Accurate
  <2>2. task[c].at = "idle" /\ ~Attaching(task[c])
    BY <1>1, <1>3 DEF ConnState, Attaching
  <2> QED BY <1>1, <1>2, <2>1, <2>2 DEF ConnState, Shows
<1> QED BY <1>1, <1>2, <1>4, LinkWrite

-----------------------------------------------------------------------------
(* Every step keeps the invariant.                                         *)

LEMMA InitFunnel == FInit => FunnelInv
<1> SUFFICES ASSUME FInit PROVE FunnelInv
  OBVIOUS
<1>1. BarInv
  BY InitBars DEF FInit
<1>2. /\ \A a \in Callers : task[a] = Idle
      /\ task = [a \in Callers |-> Idle] /\ Idle.at = "idle" /\ pending = {}
  BY DEF FInit, Init, Idle
<1>3. TaskInv
  BY <1>2 DEF TaskInv, Shape
<1>4. ConnTypes
  BY DEF FInit, ConnTypes
<1>5. \A c \in Clients : ~Shows(c)
  BY DEF FInit, Shows
<1>6. ConnInv
  <2>1. ASSUME NEW c \in Clients PROVE ConnState(c)
    <3>1. task[c].at = "idle"
      BY <1>2, FunnelConstants
    <3> QED BY <1>5, <3>1 DEF FInit, ConnState, Attaching, Accurate
  <2> QED BY <2>1 DEF ConnInv
<1> QED BY <1>1, <1>3, <1>4, <1>5, <1>6 DEF FunnelInv, TellInv, CoverInv

LEMMA StutterFunnel == ASSUME FunnelInv, UNCHANGED fvars PROVE FunnelInv'
<1>1. UNCHANGED vars /\ UNCHANGED connVars /\ task' = task
  BY DEF fvars
<1>2. UNCHANGED <<conn, sessionName, subSession, subs, outCh, slot, attachedSent, view>>
  BY <1>1 DEF connVars
<1>3. /\ Snapshot' = Snapshot /\ revision' = revision /\ tabs' = tabs /\ pending' = pending
      /\ [Next]_vars
  BY <1>1 DEF Snapshot, vars
<1>4. BarInv'
  BY <1>3, Unstamped DEF FunnelInv
<1>5. TaskInv' /\ ConnTypes'
  BY <1>1, <1>2, <1>3 DEF FunnelInv, TaskInv, ConnTypes
<1>6. ConnInv' /\ TellInv' /\ CoverInv'
  BY <1>1, <1>2, <1>3 DEF FunnelInv, ConnInv, ConnState, TellInv, Told, CoverInv, Covered, Shows
<1> QED BY <1>4, <1>5, <1>6 DEF FunnelInv

LEMMA NextFunnel == ASSUME FunnelInv, [FNext]_fvars PROVE FunnelInv'
<1>1. ASSUME NEW a \in Callers, Create(a) \/ CreateNamed(a) \/ Close(a) PROVE FunnelInv'
  BY <1>1, CreateKeeps, CreateNamedKeeps, CloseKeeps
<1>2. ASSUME NEW a \in Callers, Proceed(a) PROVE FunnelInv'
  BY <1>2, UnsubscribeKeeps, CloseUnsubscribedKeeps, ListSubscribersKeeps, SubscribeOneKeeps,
     TakeSnapshotKeeps, ListViewersKeeps, SendTopologyKeeps, FinishKeeps, SpawnedKeeps,
     SpawnFailedKeeps DEF Proceed
<1>3. ASSUME NEW c \in Clients, Restructure(c) \/ Connect(c) \/ Attach(c) PROVE FunnelInv'
  BY <1>3, RestructureKeeps, ConnectKeeps, AttachKeeps
<1>4. ASSUME NEW c \in Clients, ProceedAttach(c) PROVE FunnelInv'
  BY <1>4, AcceptKeeps, EnsureTabKeeps, EnsureNothingKeeps, ReplyKeeps, ListTabsKeeps,
     SubscribeOwnKeeps, FinishAttachKeeps DEF ProceedAttach
<1>5. ASSUME NEW c \in Clients, Write(c) \/ Disconnect(c) \/ Unregister(c) PROVE FunnelInv'
  BY <1>5, WriteAttachedKeeps, WriteTopologyKeeps, DisconnectKeeps, UnregisterKeeps DEF Write
<1>6. CASE UNCHANGED fvars
  BY <1>6, StutterFunnel
<1> QED BY <1>1, <1>2, <1>3, <1>4, <1>5, <1>6 DEF FNext

LEMMA FunnelHolds == FSpec => []FunnelInv
<1>1. FInit => FunnelInv
  BY InitFunnel
<1>2. FunnelInv /\ [FNext]_fvars => FunnelInv'
  BY NextFunnel
<1> QED BY <1>1, <1>2, PTL DEF FSpec

-----------------------------------------------------------------------------
(* What the daemon promises its viewers.                                   *)

\* When nothing is in flight every client that shows a topology shows the
\* session's: the snapshot of the newest revision was sent to it, or taken for
\* its Attached frame, by whichever of broadcastTopology and handleAttach came
\* last (daemon.go), and the slot and the revision gate never put an older one
\* in its place.
THEOREM ViewersConverge == FSpec => []ViewsConverge
<1>1. FunnelInv => ViewsConverge
  <2>1. SUFFICES ASSUME FunnelInv, Quiet, NEW c \in Clients, view[c] # NoSnap
                 PROVE  SameMembership(view[c], Snapshot)
    BY DEF ViewsConverge
  <2>2. /\ Shows(c) /\ outCh[c] = NoSnap /\ slot[c] = NoSnap
        /\ \A a \in Callers : task[a].at = "idle"
    BY <2>1 DEF Shows, Quiet, At
  <2>3. \A a \in Callers : ~Tells(task[a], c, revision)
    BY <2>2, IdleOwes
  <2>4. revision \in Nat /\ revision # -1 /\ NoSnap.rev = -1 /\ Snapshot.rev = revision
    BY <2>1, SnapshotFields DEF FunnelInv, BarInv, IndexInv, TypeOK
  <2>5. Told(c) /\ Accurate(view[c], Snapshot)
    BY <2>1, <2>2 DEF FunnelInv, TellInv, ConnInv, ConnState
  <2>6. view[c].rev = revision
    BY <2>2, <2>3, <2>4, <2>5 DEF Told
  <2> QED BY <2>1, <2>4, <2>5, <2>6 DEF Accurate
<1> QED BY <1>1, FunnelHolds, PTL

\* When nothing is in flight an attached client has a publish loop for every
\* tab: whichever comes first, the creator's list of viewers
\* (subscribeSessionClients) or the attaching client's list of tabs
\* (handleAttach), the other finds what it left.
THEOREM NoTabIsBlind == FSpec => []NoBlindTab
<1>1. FunnelInv => NoBlindTab
  <2>1. SUFFICES ASSUME FunnelInv, Quiet, NEW c \in Clients, conn[c] = "open",
                        view[c] # NoSnap, NEW u \in tabs
                 PROVE  u \in subs[c]
    BY DEF NoBlindTab
  <2>2. \A a \in Callers : ~Covers(task[a], a, c, u)
    BY <2>1, IdleOwes DEF Quiet, At
  <2>3. Covered(c, u)
    BY <2>1 DEF FunnelInv, CoverInv, Shows
  <2> QED BY <2>2, <2>3 DEF Covered
<1> QED BY <1>1, FunnelHolds, PTL

\* A connection that no longer accepts subscriptions has no publish loop, and a
\* fan-out that listed it before its stopAllSubs starts none (clientConn.subscribe
\* looks at the mark under subsMu).
THEOREM TeardownIsFinal == FSpec => []NoLoopAfterTeardown
<1>1. FInit => NoLoopAfterTeardown
  BY DEF FInit, NoLoopAfterTeardown
<1>2. FunnelInv /\ NoLoopAfterTeardown /\ [FNext]_fvars => NoLoopAfterTeardown'
  <2> SUFFICES ASSUME FunnelInv, NoLoopAfterTeardown, [FNext]_fvars PROVE NoLoopAfterTeardown'
    OBVIOUS
  <2>0. /\ subs = [c \in Clients |-> subs[c]] /\ subSession \in [Clients -> BOOLEAN]
    BY DEF FunnelInv, ConnTypes
  <2>1. CASE UNCHANGED <<subs, subSession>>
    BY <2>1 DEF NoLoopAfterTeardown
  <2>2. ASSUME NEW c, NEW t, Subscribe(c, t), subSession' = subSession PROVE NoLoopAfterTeardown'
    BY <2>0, <2>2 DEF Subscribe, NoLoopAfterTeardown
  <2>3. ASSUME NEW a \in Callers, Unsubscribe(a) PROVE NoLoopAfterTeardown'
    BY <2>0, <2>3 DEF Unsubscribe, NoLoopAfterTeardown
  <2>4. ASSUME NEW c \in Clients, Accept(c) \/ Disconnect(c) PROVE NoLoopAfterTeardown'
    BY <2>0, <2>4 DEF Accept, Disconnect, NoLoopAfterTeardown
  <2>5. ASSUME NEW a \in Callers, Create(a) \/ CreateNamed(a) \/ Close(a) PROVE UNCHANGED <<subs, subSession>>
    BY <2>5 DEF Create, CreateNamed, Close, connVars
  <2>6. ASSUME NEW a \in Callers, Proceed(a) PROVE NoLoopAfterTeardown'
    <3>1. ASSUME \/ CloseUnsubscribed(a) \/ ListSubscribers(a) \/ TakeSnapshot(a)
                 \/ ListViewers(a) \/ SendTopology(a) \/ Finish(a)
                 \/ \E call \in pending : call.caller = a /\ (Spawned(call) \/ SpawnFailed(call))
          PROVE  UNCHANGED <<subs, subSession>>
      BY <3>1 DEF CloseUnsubscribed, ListSubscribers, TakeSnapshot, ListViewers, SendTopology,
                  Finish, Spawned, SpawnFailed, connVars
    <3>2. CASE SubscribeOne(a)
      BY <2>2, <3>2 DEF SubscribeOne
    <3> QED BY <2>1, <2>3, <2>6, <3>1, <3>2 DEF Proceed
  <2>7. ASSUME NEW c \in Clients, ProceedAttach(c) PROVE NoLoopAfterTeardown'
    <3>1. ASSUME EnsureTab(c) \/ EnsureNothing(c) \/ Reply(c) \/ ListTabs(c) \/ FinishAttach(c)
          PROVE  UNCHANGED <<subs, subSession>>
      BY <3>1 DEF EnsureTab, EnsureNothing, Reply, ListTabs, FinishAttach, connVars
    <3>2. CASE SubscribeOwn(c)
      BY <2>2, <3>2 DEF SubscribeOwn
    <3> QED BY <2>1, <2>4, <2>7, <3>1, <3>2 DEF ProceedAttach
  <2>8. ASSUME NEW c \in Clients, \/ Restructure(c) \/ Connect(c) \/ Attach(c)
                                  \/ Write(c) \/ Unregister(c)
        PROVE  UNCHANGED <<subs, subSession>>
    BY <2>8 DEF Restructure, Connect, Attach, Write, WriteAttached, WriteTopology, Unregister, connVars
  <2>9. CASE UNCHANGED fvars
    BY <2>1, <2>9 DEF fvars, connVars
  <2> QED BY <2>1, <2>4, <2>5, <2>6, <2>7, <2>8, <2>9 DEF FNext
<1> QED BY <1>1, <1>2, FunnelHolds, PTL DEF FSpec

-----------------------------------------------------------------------------
(* The funnel drives one session.                                          *)

LEMMA FunnelStepsSession == ASSUME FunnelInv, [FNext]_fvars PROVE [Next]_vars
<1>1. CASE UNCHANGED vars
  BY <1>1
<1>2. CASE \E c \in Clients : Restructure(c)
  BY <1>2 DEF Restructure, Next
<1>3. CASE \E a \in Callers : Create(a) \/ CreateNamed(a)
  BY <1>3 DEF Create, CreateNamed, Next
<1>4. CASE \E call \in pending : Spawned(call) \/ SpawnFailed(call)
  BY <1>4 DEF Spawned, SpawnFailed, Next
<1>5. CASE \E a \in Callers : CloseUnsubscribed(a)
  <2>1. PICK a \in Callers : CloseUnsubscribed(a)
    BY <1>5
  <2>2. CASE task[a].tab \in tabs
    <3>1. CloseTab(task[a].tab) /\ task[a].tab \in TabID
      BY <2>1, <2>2 DEF CloseUnsubscribed, FunnelInv, BarInv, IndexInv, TypeOK
    <3> QED BY <3>1 DEF Next
  <2>3. CASE task[a].tab \notin tabs
    BY <1>1, <2>1, <2>3 DEF CloseUnsubscribed
  <2> QED BY <2>2, <2>3
<1>6. CASE \E c \in Clients : EnsureTab(c)
  <2>1. PICK c \in Clients : BeginEnsureInitial(c)
    BY <1>6 DEF EnsureTab
  <2> QED BY <2>1, FunnelConstants DEF Next
<1>7. ASSUME NEW a \in Callers, \/ Close(a) \/ Unsubscribe(a) \/ ListSubscribers(a)
                                \/ SubscribeOne(a) \/ TakeSnapshot(a) \/ ListViewers(a)
                                \/ SendTopology(a) \/ Finish(a)
      PROVE  UNCHANGED vars
  BY <1>7 DEF Close, Unsubscribe, ListSubscribers, SubscribeOne, TakeSnapshot, ListViewers,
              SendTopology, Finish
<1>8. ASSUME NEW c \in Clients, \/ Accept(c) \/ EnsureNothing(c) \/ Reply(c) \/ ListTabs(c)
                                \/ SubscribeOwn(c) \/ FinishAttach(c) \/ Connect(c) \/ Attach(c)
                                \/ Write(c) \/ Disconnect(c) \/ Unregister(c)
      PROVE  UNCHANGED vars
  BY <1>8 DEF Accept, EnsureNothing, Reply, ListTabs, SubscribeOwn, FinishAttach, Connect, Attach,
              Write, WriteAttached, WriteTopology, Disconnect, Unregister
<1>9. CASE UNCHANGED fvars
  BY <1>9 DEF fvars
<1> QED BY <1>1, <1>2, <1>3, <1>4, <1>5, <1>6, <1>7, <1>8, <1>9
     DEF FNext, Proceed, ProceedAttach

\* Whatever the goroutines of the daemon interleave, the session they share
\* takes the steps of the Session module alone, so what is proved of a session
\* (its index, its windows, its focus) holds under the funnel (daemon.go).
THEOREM FunnelRunsSession == FSpec => Spec
<1>1. FInit => Init
  BY DEF FInit
<1>2. FunnelInv /\ [FNext]_fvars => [Next]_vars
  BY FunnelStepsSession
<1> QED BY <1>1, <1>2, FunnelHolds, PTL DEF FSpec, Spec
=============================================================================

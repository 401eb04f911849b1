----------------------------- MODULE ClientProofs -----------------------------
(***************************************************************************)
(* What holds on the client's side.  For any number of tabs, daemon        *)
(* instances and lost connections: an ack reaches the caller that asked;   *)
(* closes land, and hit another tab only where a close of one instance's   *)
(* tab met the next instance's link; the Sources come to agree with the    *)
(* daemon.  For any number of readers and events:                          *)
(* the event log's ring holds the newest events and no reader's cursor     *)
(* passes an event in silence; a command that follows the logs of several  *)
(* daemons through their restarts prints each event once and in order, and *)
(* reports what it missed; a frame of the search overlay shows matches of  *)
(* the query it shows.                                                     *)
(***************************************************************************)
EXTENDS HubLink, EventRing, EventFollow, Search, SeqLemmas

\* The tabs this daemon created for the client, as their acks name them.
OwnAcks == {<<c[1], c[2][2]>> : c \in {d \in created : d[2][1] = daemon.inst}}

\* The instances the daemon, the snapshot of a redial and the hub name: a
\* connection is to the daemon that runs, for a restart needs one that is down,
\* and the hub has noted its instance once the resync is over.
Instances ==
  /\ daemon = [inst |-> daemon.inst, tabs |-> daemon.tabs, rev |-> daemon.rev,
               next |-> daemon.next]
  /\ hub = [last |-> hub.last, inst |-> hub.inst, tomb |-> hub.tomb]
  /\ link \in {"up", "down", "swapped"}
  /\ link = "swapped" => att.inst = daemon.inst
  /\ link = "up" => hub.inst = daemon.inst

\* An ack on its way is of a tab this daemon created for the request it names.
AcksTrue ==
  /\ \A c \in created : c = <<c[1], <<c[2][1], c[2][2]>>>>
  /\ acks \in Seq(OwnAcks)
  /\ link = "down" => acks = <<>> /\ up = <<>>

AckInv == Instances /\ AcksTrue /\ AckIsOwn

LEMMA SeqGrows ==
  ASSUME NEW S, NEW T, S \subseteq T, NEW s \in Seq(S)
  PROVE  s \in Seq(T)
<1>1. s \in [1..Len(s) -> S] /\ Len(s) \in Nat
  BY LenProperties
<1> QED BY <1>1

\* Steps that leave what the invariant reads alone.
ackVars == <<daemon, link, att, acks, created, waiter, nextReq>>
LEMMA OthersKeep ==
  ASSUME AckInv, UNCHANGED ackVars, hub'.inst = hub.inst,
         hub' = [last |-> hub'.last, inst |-> hub'.inst, tomb |-> hub'.tomb],
         link = "down" => up' = up
  PROVE  AckInv'
<1>1. Instances'
  BY DEF AckInv, Instances, ackVars
<1>2. AcksTrue'
  BY DEF AckInv, AcksTrue, OwnAcks, ackVars
<1>3. AckIsOwn'
  BY DEF AckInv, AckIsOwn, ackVars
<1> QED BY <1>1, <1>2, <1>3 DEF AckInv

\* The daemon changes its tabs, not its instance.
LEMMA DaemonKeeps ==
  ASSUME AckInv, daemon' = Opened \/ \E i : daemon' = Without1(i),
         created' = created, acks' = acks, UNCHANGED <<link, att, hub, waiter, nextReq>>,
         link = "down" => up' = up
  PROVE  AckInv'
<1>1. daemon'.inst = daemon.inst
      /\ daemon' = [inst |-> daemon'.inst, tabs |-> daemon'.tabs, rev |-> daemon'.rev,
                    next |-> daemon'.next]
  BY DEF AckInv, Instances, Opened, Without1
<1>2. Instances'
  BY <1>1 DEF AckInv, Instances
<1>3. AcksTrue'
  BY <1>1 DEF AckInv, AcksTrue, OwnAcks
<1>4. AckIsOwn'
  BY DEF AckInv, AckIsOwn
<1> QED BY <1>2, <1>3, <1>4 DEF AckInv

\* A create is acked under its own ReqID, to a connection that is still there.
LEMMA ServeKeeps ==
  ASSUME AckInv, NEW request, NEW reply \in BOOLEAN, Serve(request, reply),
         reply => link # "down", link = "down" => up' = up
  PROVE  AckInv'
<1> DEFINE tab == <<-request, <<daemon.inst, daemon.next>>>>
           ack == <<-request, daemon.next>>
<1>1. UNCHANGED <<link, att, hub, waiter, nextReq>>
  BY DEF Serve
<1>2. CASE /\ daemon' = Opened /\ created' = created \cup {tab}
           /\ acks' = IF reply THEN Append(acks, ack) ELSE acks
  <2>1. daemon'.inst = daemon.inst
        /\ daemon' = [inst |-> daemon'.inst, tabs |-> daemon'.tabs, rev |-> daemon'.rev,
                      next |-> daemon'.next]
    BY <1>2 DEF AckInv, Instances, Opened
  <2>2. Instances'
    BY <1>1, <2>1 DEF AckInv, Instances
  <2>3. tab \in created' /\ tab[2][1] = daemon.inst
        /\ ack = <<tab[1], tab[2][2]>> /\ tab = <<tab[1], <<tab[2][1], tab[2][2]>>>>
    BY <1>2
  <2> HIDE DEF tab, ack
  <2>4. OwnAcks \subseteq OwnAcks' /\ ack \in OwnAcks'
    BY <1>2, <2>1, <2>3 DEF OwnAcks
  <2>5. acks \in Seq(OwnAcks')
    BY <2>4, SeqGrows DEF AckInv, AcksTrue
  <2>6. acks' \in Seq(OwnAcks')
    BY <1>2, <2>4, <2>5, AppendProperties
  <2>7. \A c \in created' : c = <<c[1], <<c[2][1], c[2][2]>>>>
    BY <1>2, <2>3 DEF AckInv, AcksTrue
  <2>8. link' = "down" => acks' = <<>> /\ up' = <<>>
    BY <1>1, <1>2 DEF AckInv, AcksTrue
  <2>9. AckIsOwn'
    BY <1>1, <1>2 DEF AckInv, AckIsOwn
  <2> QED BY <2>2, <2>6, <2>7, <2>8, <2>9 DEF AckInv, AcksTrue
<1>3. CASE daemon' = Without1(request) /\ UNCHANGED <<acks, created>>
  BY <1>1, <1>3, DaemonKeeps
<1>4. CASE UNCHANGED <<daemon, acks, created>>
  <2>1. UNCHANGED ackVars /\ hub' = hub
    BY <1>1, <1>4 DEF ackVars
  <2> QED BY <2>1, OthersKeep DEF AckInv, Instances
<1> QED BY <1>2, <1>3, <1>4 DEF Serve

\* How the hub notes an instance.
LEMMA HubNoted ==
  ASSUME NEW l, NEW n, NEW t, NEW a, NEW b,
         NEW h, h = [last |-> l, inst |-> n, tomb |-> t]
  PROVE  [h EXCEPT !.inst = a, !.tomb = b] = [last |-> l, inst |-> a, tomb |-> b]
<1>1. ASSUME NEW g, g = [h EXCEPT !.inst = a]
      PROVE  [g EXCEPT !.tomb = b] = [last |-> l, inst |-> a, tomb |-> b]
  <2>1. g = [last |-> l, inst |-> a, tomb |-> t]
    BY <1>1
  <2> QED BY <2>1
<1> QED BY <1>1, Zenon

\* The connection: what is lost with it, and what a redial and its resync note.
LEMMA LinkKeeps ==
  ASSUME AckInv, Drop \/ Restart \/ Redial \/ Resync
  PROVE  AckInv'
<1>1. CASE Drop
  <2>1. Instances'
    BY <1>1 DEF Drop, AckInv, Instances
  <2>2. AcksTrue'
    BY <1>1 DEF Drop, past, AckInv, AcksTrue, OwnAcks
  <2>3. AckIsOwn'
    BY <1>1 DEF Drop, past, Idle, AckInv, AckIsOwn
  <2> QED BY <2>1, <2>2, <2>3 DEF AckInv
<1>2. CASE Restart
  <2>1. Instances'
    BY <1>2 DEF Restart, AckInv, Instances
  <2>2. AcksTrue'
    BY <1>2 DEF Restart, past, AckInv, AcksTrue
  <2>3. AckIsOwn'
    BY <1>2 DEF Restart, past, AckInv, AckIsOwn
  <2> QED BY <2>1, <2>2, <2>3 DEF AckInv
<1>3. CASE Redial
  <2>1. Instances'
    BY <1>3 DEF Redial, AckInv, Instances
  <2>2. AcksTrue'
    BY <1>3 DEF Redial, past, AckInv, AcksTrue, OwnAcks
  <2>3. AckIsOwn'
    BY <1>3 DEF Redial, past, AckInv, AckIsOwn
  <2> QED BY <2>1, <2>2, <2>3 DEF AckInv
<1>4. CASE Resync
  <2>1. link = "swapped" /\ att.inst = daemon.inst /\ daemon' = daemon /\ link' = "up"
    BY <1>4 DEF Resync, AckInv, Instances
  <2>2. hub' = [Noted(att.inst) EXCEPT !.last = att.rev, !.tomb = @ \cap att.tabs]
    BY <1>4 DEF Resync
  <2> DEFINE kept == IF att.inst = hub.inst THEN hub.tomb ELSE {}
  <2>3. Noted(att.inst) = [last |-> hub.last, inst |-> att.inst, tomb |-> kept]
    <3>1. hub = [last |-> hub.last, inst |-> hub.inst, tomb |-> hub.tomb]
      BY DEF AckInv, Instances
    <3>2. Noted(att.inst) = [hub EXCEPT !.inst = att.inst, !.tomb = kept]
      BY DEF Noted
    <3> HIDE DEF kept
    <3> QED BY <3>1, <3>2, HubNoted, Zenon
  <2>4. hub'.inst = att.inst
        /\ hub' = [last |-> hub'.last, inst |-> hub'.inst, tomb |-> hub'.tomb]
    <3> DEFINE left == Noted(att.inst).tomb \cap att.tabs
    <3> HIDE DEF kept
    <3>1. ASSUME NEW h, h = [Noted(att.inst) EXCEPT !.last = att.rev]
          PROVE  /\ [h EXCEPT !.tomb = left].inst = att.inst
                 /\ [h EXCEPT !.tomb = left] =
                      [last |-> att.rev, inst |-> att.inst, tomb |-> left]
      <4> HIDE DEF left
      <4>1. h = [last |-> att.rev, inst |-> att.inst, tomb |-> kept]
        BY <2>3, <3>1
      <4> QED BY <4>1
    <3>2. hub' = [[Noted(att.inst) EXCEPT !.last = att.rev] EXCEPT !.tomb = left]
      BY <2>2, Zenon
    <3> HIDE DEF left
    <3>3. hub' = [last |-> att.rev, inst |-> att.inst, tomb |-> left]
      BY <3>1, <3>2, Zenon
    <3> QED BY <3>3
  <2>5. Instances'
    BY <2>1, <2>4 DEF AckInv, Instances
  <2>6. AcksTrue'
    BY <1>4, <2>1 DEF Resync, past, AckInv, AcksTrue, OwnAcks
  <2>7. AckIsOwn'
    BY <1>4 DEF Resync, past, AckInv, AckIsOwn
  <2> QED BY <2>5, <2>6, <2>7 DEF AckInv
<1> QED BY <1>1, <1>2, <1>3, <1>4

\* The ack a waiter takes is of the tab created for its request.
LEMMA RouteAckKeeps ==
  ASSUME AckInv, RouteAck
  PROVE  AckInv'
<1>1. /\ link = "up" /\ acks # <<>> /\ acks' = Tail(acks)
      /\ UNCHANGED <<daemon, up, link, att, hub, nextReq, created>>
  BY DEF RouteAck, past
<1>2. acks \in Seq(OwnAcks) /\ hub.inst = daemon.inst
  BY <1>1 DEF AckInv, AcksTrue, Instances
<1>3. Head(acks) \in OwnAcks /\ Tail(acks) \in Seq(OwnAcks)
  BY <1>1, <1>2, HeadTailProperties
<1>4. <<Head(acks)[1], <<hub.inst, Head(acks)[2]>>>> \in created
  <2>1. PICK c \in created : c[2][1] = daemon.inst /\ Head(acks) = <<c[1], c[2][2]>>
    BY <1>3 DEF OwnAcks
  <2>2. c = <<c[1], <<c[2][1], c[2][2]>>>>
    BY DEF AckInv, AcksTrue
  <2> QED BY <1>2, <2>1, <2>2
<1>5. AckIsOwn'
  <2>1. CASE waiter.at = "waiting" /\ Head(acks)[1] = nextReq
    BY <1>1, <1>4, <2>1 DEF RouteAck, Awaited, AckIsOwn
  <2>2. CASE ~(waiter.at = "waiting" /\ Head(acks)[1] = nextReq)
    <3>1. waiter' = waiter
      BY <2>2 DEF RouteAck, Awaited
    <3> QED BY <1>1, <3>1 DEF AckInv, AckIsOwn
  <2> QED BY <2>1, <2>2
<1>6. Instances'
  BY <1>1 DEF AckInv, Instances
<1>7. AcksTrue'
  <2>1. OwnAcks' = OwnAcks
    BY <1>1 DEF OwnAcks
  <2> QED BY <1>1, <1>3, <2>1 DEF AckInv, AcksTrue
<1> QED BY <1>5, <1>6, <1>7 DEF AckInv

\* Callers come and go; a new one has a request of its own.
LEMMA CallersKeep ==
  ASSUME AckInv, NewTabIn \/ GiveUp \/ AdoptAck
  PROVE  AckInv'
<1>1. Instances'
  BY DEF NewTabIn, GiveUp, AdoptAck, AckInv, Instances
<1>2. AcksTrue'
  BY DEF NewTabIn, GiveUp, AdoptAck, wire, past, AckInv, AcksTrue, OwnAcks
<1>3. waiter'.at # "acked"
  BY DEF NewTabIn, GiveUp, AdoptAck, Idle
<1>4. AckIsOwn'
  BY <1>3 DEF AckIsOwn
<1> QED BY <1>1, <1>2, <1>4 DEF AckInv

LEMMA InitAck == LInit => AckInv
BY DEF LInit, AckInv, Instances, AcksTrue, AckIsOwn, OwnAcks, Idle

LEMMA NextKeepsAck == AckInv /\ [LNext]_lvars => AckInv'
<1> SUFFICES ASSUME AckInv, [LNext]_lvars PROVE AckInv'
  OBVIOUS
<1>1. CASE OthersOpen
  BY <1>1, DaemonKeeps DEF OthersOpen, past
<1>2. ASSUME NEW i \in Ids, OthersClose(i) PROVE AckInv'
  BY <1>2, DaemonKeeps DEF OthersClose, past
<1>3. CASE ServeNext
  <2>1. link # "down"
    BY <1>3 DEF ServeNext, AckInv, AcksTrue
  <2> QED BY <1>3, <2>1, ServeKeeps DEF ServeNext
<1>4. CASE ServeLate
  BY <1>4, ServeKeeps DEF ServeLate
<1>5. CASE Drop \/ Restart \/ Redial \/ Resync
  BY <1>5, LinkKeeps
<1>6. CASE Gate
  <2>1. hub'.inst = hub.inst
        /\ hub' = [last |-> hub'.last, inst |-> hub'.inst, tomb |-> hub'.tomb]
    BY <1>6 DEF Gate, AckInv, Instances
  <2>2. UNCHANGED ackVars /\ link = "up"
    BY <1>6 DEF Gate, past, ackVars
  <2> QED BY <2>1, <2>2, OthersKeep
<1>7. CASE Apply
  <2>1. UNCHANGED ackVars /\ hub' = hub /\ up' = up
    BY <1>7 DEF Apply, wire, ackVars
  <2> QED BY <2>1, OthersKeep DEF AckInv, Instances
<1>8. CASE RouteAck
  BY <1>8, RouteAckKeeps
<1>9. CASE NewTabIn \/ GiveUp \/ AdoptAck
  BY <1>9, CallersKeep
<1>10. ASSUME NEW i \in Ids, UserClose(i) PROVE AckInv'
  <2>1. hub'.inst = hub.inst
        /\ hub' = [last |-> hub'.last, inst |-> hub'.inst, tomb |-> hub'.tomb]
    BY <1>10 DEF UserClose, AckInv, Instances
  <2>2. UNCHANGED ackVars /\ (link = "down" => up' = up)
    BY <1>10 DEF UserClose, Connected, ackVars
  <2> QED BY <2>1, <2>2, OthersKeep
<1>11. CASE UNCHANGED lvars
  <2>1. UNCHANGED ackVars /\ hub' = hub /\ up' = up
    BY <1>11 DEF lvars, ackVars
  <2> QED BY <2>1, OthersKeep DEF AckInv, Instances
<1> QED BY <1>1, <1>2, <1>3, <1>4, <1>5, <1>6, <1>7, <1>8, <1>9, <1>10, <1>11 DEF LNext

\* A create is answered with the tab created for it, over any number of lost
\* connections, restarted daemons and callers that gave up (newTabIn,
\* deliverTabCreated).
THEOREM AcksReachTheirCaller == LSpec => []AckIsOwn
<1>1. LInit => AckInv
  BY InitAck
<1>2. AckInv /\ [LNext]_lvars => AckInv'
  BY NextKeepsAck
<1>3. AckInv => AckIsOwn
  BY DEF AckInv
<1> QED BY <1>1, <1>2, <1>3, PTL DEF LSpec

-----------------------------------------------------------------------------
(* Closes, and what the Sources come to.                                   *)

Snapshot == [inst : Nat, tabs : SUBSET Nat, rev : Nat, next : Nat \ {0}]

LinkTypes ==
  /\ daemon \in Snapshot /\ daemon.tabs \subseteq 1..(daemon.next - 1)
  /\ att \in Snapshot /\ topo \in Seq(Snapshot)
  /\ hub \in [last : Nat, inst : Nat, tomb : SUBSET Ids]
  /\ sources \in [Ids -> Nat]
  /\ up \in Seq(Int) /\ late \in Seq(Int) /\ nextReq \in Nat

\* A snapshot on its way is of an earlier moment of the daemon that runs: what
\* was open then and is not in it was opened later.
Past(t, d) ==
  /\ t \in Snapshot /\ t.inst = d.inst
  /\ t.rev <= d.rev /\ t.next <= d.next
  /\ t.tabs \subseteq 1..(t.next - 1)
  /\ \A j \in d.tabs : j < t.next => j \in t.tabs
  /\ t.rev = d.rev => t = d

Snaps == Range(topo) \cup (IF link = "swapped" THEN {att} ELSE {})

\* The newest is the daemon's own state, on its way or already taken.
SnapsInv ==
  /\ link = "down" => topo = <<>>
  /\ \A t \in Snaps : Past(t, daemon)
  /\ \A s, t \in Snaps : s.rev <= t.rev => s.next <= t.next
  /\ link = "up" => hub.last <= daemon.rev /\ (hub.last = daemon.rev \/ daemon \in Range(topo))
  /\ link = "swapped" => att = daemon \/ daemon \in Range(topo)

\* A tab, as instance and id, that was opened.
Born(p) ==
  /\ p[1] \in Nat /\ p[2] \in Nat
  /\ p[1] < daemon.inst \/ (p[1] = daemon.inst /\ p[2] < daemon.next)

BornInv ==
  /\ \A i \in Ids : sources[i] # 0 => Born(<<sources[i], i>>)
  /\ \A i \in closed : i \in Nat /\ i < daemon.next
  /\ \A c \in created : Born(c[2])

RouterInv ==
  /\ router = NoWork \/ \E tabs \in SUBSET Nat, gone \in SUBSET Ids : router = Work(tabs, gone)
  /\ router.on => link = "up" /\ router.tabs \subseteq 1..(daemon.next - 1)

\* A Source, or an ack to adopt, is of the instance the hub follows or of an
\* earlier one: such a Source vanishes or was adopted from a belated ack.
SourcesInv ==
  /\ hub.inst \in 1..daemon.inst
  /\ waiter.at = "acked" => waiter.tab[1] \in 1..hub.inst
  /\ \A i \in Ids :
       /\ sources[i] <= hub.inst
       /\ \/ sources[i] \in {0, hub.inst} \/ <<sources[i], i>> \in belated
          \/ router.on /\ i \in router.gone

\* What the running daemon is or will be asked to close was closed by the user,
\* or by an astray close.
ClosesInv ==
  /\ wronged \subseteq astray
  /\ hub.inst = daemon.inst => hub.tomb \subseteq closed \cup astray
  /\ \A i \in Range(up) \cup Range(late) : i > 0 => i \in closed \cup astray

Gone(i) == i \in closed \ early
Known(i) ==
  \/ Gone(i)
  \/ sources[i] = daemon.inst /\ i \in Ids \ fresh
  \/ router.on /\ i \in router.tabs

\* A tab a snapshot has shown is in every later one while it is open, so its
\* tombstone lasts until the close has landed.
KnownInv ==
  \A i \in daemon.tabs : Known(i) =>
    \A t \in Snaps : (link = "swapped" \/ t.rev > hub.last) => i < t.next
GoneInv ==
  \A i \in daemon.tabs : Gone(i) =>
    /\ i \in hub.tomb /\ hub.inst = daemon.inst
    /\ link = "up" => i \in Range(up)

\* Once the newest snapshot is taken, what is applied is the daemon's tabs but
\* for those whose close is on its way, and any other Source vanishes.
ViewInv ==
  (link = "up" /\ hub.last = daemon.rev) =>
    IF router.on
    THEN /\ router.tabs \subseteq daemon.tabs /\ daemon.tabs \ router.tabs \subseteq Range(up)
         /\ \A i \in Ids : sources[i] # 0 /\ i \notin fresh =>
                             i \in daemon.tabs \cup router.gone
    ELSE \A i \in Ids : /\ sources[i] # 0 /\ i \notin fresh => i \in daemon.tabs
                        /\ i \in daemon.tabs /\ sources[i] = 0 => i \in Range(up)

LinkInv ==
  /\ LinkTypes /\ SnapsInv /\ BornInv /\ RouterInv /\ SourcesInv /\ ClosesInv
  /\ KnownInv /\ GoneInv /\ ViewInv

-----------------------------------------------------------------------------
(* The daemon's tabs change, or nothing does, while requests come and go.   *)

coreVars == <<daemon, topo, link, att, hub, router, sources, fresh, belated, closed, early,
              astray>>

TabsChange ==
  /\ daemon' \in Snapshot /\ daemon'.inst = daemon.inst /\ daemon'.rev = daemon.rev + 1
  /\ daemon.next <= daemon'.next /\ daemon'.tabs \subseteq 1..(daemon'.next - 1)
  /\ \A j \in daemon'.tabs : j \in daemon.tabs \/ j = daemon.next
  /\ topo' \in Seq(Snapshot) /\ Range(topo') \subseteq Range(topo) \cup {daemon'}
  /\ IF link = "down" THEN topo' = topo ELSE daemon' \in Range(topo')
  /\ UNCHANGED <<link, att, hub, router, sources, fresh, belated, closed, early,
                 astray>>

LEMMA BroadcastTopo ==
  ASSUME LinkTypes, NEW d \in Snapshot, Broadcast(d)
  PROVE  /\ topo' \in Seq(Snapshot) /\ Range(topo') \subseteq Range(topo) \cup {d}
         /\ IF link = "down" THEN topo' = topo ELSE d \in Range(topo')
<1>1. topo \in Seq(Snapshot) /\ Len(topo) \in Nat /\ TopoCap \in Nat \ {0}
  BY LinkConstants, LenProperties DEF LinkTypes
<1>2. CASE link = "down"
  BY <1>1, <1>2 DEF Broadcast, Connected
<1>3. CASE link # "down" /\ Len(topo) < TopoCap
  <2>1. topo' = Append(topo, d)
    BY <1>3 DEF Broadcast, Connected
  <2>2. topo' \in Seq(Snapshot) /\ Range(topo') = Range(topo) \cup {d}
    BY <1>1, <2>1, AppendProperties, AppendRange
  <2> QED BY <1>3, <2>2
<1>4. CASE link # "down" /\ ~(Len(topo) < TopoCap)
  <2>1. topo' = [topo EXCEPT ![TopoCap] = d] /\ TopoCap \in 1..Len(topo)
    BY <1>1, <1>4 DEF Broadcast, Connected
  <2>2. /\ topo' \in Seq(Snapshot) /\ Range(topo') \subseteq Range(topo) \cup {d}
        /\ d \in Range(topo')
    BY <1>1, <2>1, ReplaceRange
  <2> QED BY <1>4, <2>2
<1> QED BY <1>2, <1>3, <1>4

LEMMA DaemonChanges ==
  ASSUME LinkTypes, NEW d, Broadcast(d), daemon' = d,
         d = Opened \/ \E i \in daemon.tabs : d = Without1(i),
         UNCHANGED <<link, att, hub, router, sources, fresh, belated, closed, early,
                     astray>>
  PROVE  TabsChange
<1>1. /\ daemon = [inst |-> daemon.inst, tabs |-> daemon.tabs, rev |-> daemon.rev,
                   next |-> daemon.next]
      /\ daemon.inst \in Nat /\ daemon.rev \in Nat /\ daemon.next \in Nat \ {0}
      /\ daemon.tabs \subseteq 1..(daemon.next - 1)
  BY DEF LinkTypes, Snapshot
<1>2. /\ d.inst = daemon.inst /\ d.rev = daemon.rev + 1
      /\ d = [inst |-> d.inst, tabs |-> d.tabs, rev |-> d.rev, next |-> d.next]
  BY <1>1 DEF Opened, Without1
<1>3. \/ d.tabs = daemon.tabs \cup {daemon.next} /\ d.next = daemon.next + 1
      \/ d.tabs \subseteq daemon.tabs /\ d.next = daemon.next
  BY <1>1 DEF Opened, Without1
<1>4. d.next \in Nat \ {0} /\ daemon.next <= d.next /\ d.tabs \subseteq 1..(d.next - 1)
      /\ \A j \in d.tabs : j \in daemon.tabs \/ j = daemon.next
  BY <1>1, <1>3
<1>5. d \in Snapshot
  BY <1>1, <1>2, <1>4 DEF Snapshot
<1>6. /\ topo' \in Seq(Snapshot) /\ Range(topo') \subseteq Range(topo) \cup {d}
      /\ IF link = "down" THEN topo' = topo ELSE d \in Range(topo')
  BY <1>5, BroadcastTopo
<1> QED BY <1>2, <1>4, <1>5, <1>6 DEF TabsChange

\* Snapshots on their way stay true when the tabs change, or are fewer.
LEMMA SnapsMove ==
  ASSUME LinkTypes, SnapsInv,
         TabsChange \/ (UNCHANGED <<daemon, link, att>> /\ hub' = hub /\ topo' = topo)
  PROVE  SnapsInv'
<1>1. CASE UNCHANGED <<daemon, link, att>> /\ hub' = hub /\ topo' = topo
  BY <1>1 DEF SnapsInv, Snaps, Past
<1>2. CASE TabsChange
  <2>1. /\ daemon \in Snapshot /\ daemon' \in Snapshot /\ daemon'.inst = daemon.inst
        /\ daemon'.rev = daemon.rev + 1 /\ daemon.next <= daemon'.next
        /\ UNCHANGED <<link, att, hub>>
    BY <1>2 DEF TabsChange, LinkTypes
  <2>2. Snaps' \subseteq Snaps \cup {daemon'}
    BY <1>2 DEF TabsChange, Snaps
  <2>3. ASSUME NEW t \in Snaps
        PROVE  Past(t, daemon') /\ t.rev < daemon'.rev /\ t.next <= daemon'.next
    <3>1. Past(t, daemon)
      BY DEF SnapsInv
    <3>2. /\ t \in Snapshot /\ t.rev \in Nat /\ t.next \in Nat
          /\ daemon.rev \in Nat /\ daemon.next \in Nat
          /\ daemon'.rev \in Nat /\ daemon'.next \in Nat
      BY <2>1, <3>1 DEF Past, Snapshot
    <3>3. t.rev <= daemon.rev /\ t.next <= daemon.next
      BY <3>1 DEF Past
    <3>4. t.rev < daemon'.rev /\ t.next <= daemon'.next
      BY <2>1, <3>2, <3>3
    <3>5. \A j \in daemon'.tabs : j < t.next => j \in t.tabs
      BY <1>2, <3>1, <3>2, <3>3 DEF TabsChange, Past
    <3>6. t.inst = daemon'.inst /\ t.tabs \subseteq 1..(t.next - 1)
      BY <2>1, <3>1 DEF Past
    <3>7. t.rev <= daemon'.rev /\ (t.rev = daemon'.rev => t = daemon')
      BY <3>2, <3>4
    <3> QED BY <3>2, <3>4, <3>5, <3>6, <3>7 DEF Past
  <2>4. Past(daemon', daemon')
    <3>1. daemon'.rev \in Nat /\ daemon'.next \in Nat
      BY <2>1 DEF Snapshot
    <3>2. daemon'.tabs \subseteq 1..(daemon'.next - 1)
      BY <1>2 DEF TabsChange
    <3> QED BY <2>1, <3>1, <3>2 DEF Past
  <2>5. \A t \in Snaps' : Past(t, daemon')
    BY <2>2, <2>3, <2>4
  <2>6. ASSUME NEW s \in Snaps', NEW t \in Snaps', s.rev <= t.rev PROVE s.next <= t.next
    <3>1. CASE s \in Snaps /\ t \in Snaps
      BY <2>6, <3>1 DEF SnapsInv
    <3>2. CASE t = daemon'
      BY <2>1, <2>2, <2>3, <3>2 DEF Snapshot
    <3>3. CASE s = daemon' /\ t \in Snaps
      <4>1. t.rev < daemon'.rev /\ t.rev \in Nat /\ daemon'.rev \in Nat
        BY <2>1, <2>3, <3>3 DEF Past, Snapshot
      <4> QED BY <2>6, <3>3, <4>1
    <3> QED BY <2>2, <3>1, <3>2, <3>3
  <2>7. link' = "down" => topo' = <<>>
    BY <1>2 DEF TabsChange, SnapsInv
  <2>8. /\ link' = "up" => hub'.last <= daemon'.rev
                           /\ (hub'.last = daemon'.rev \/ daemon' \in Range(topo'))
        /\ link' = "swapped" => att' = daemon' \/ daemon' \in Range(topo')
    <3>1. link = "up" => hub.last <= daemon.rev
      BY DEF SnapsInv
    <3>2. hub.last \in Nat /\ daemon.rev \in Nat
      BY DEF LinkTypes, Snapshot
    <3>3. link # "down" => daemon' \in Range(topo')
      BY <1>2 DEF TabsChange
    <3> QED BY <2>1, <3>1, <3>2, <3>3
  <2> QED BY <2>5, <2>6, <2>7, <2>8 DEF SnapsInv
<1> QED BY <1>1, <1>2

\* The requests of a step answer for every tab still open, and ask for no close
\* that was not asked for.
RequestsChange ==
  /\ TabsChange \/ UNCHANGED coreVars
  /\ up' \in Seq(Int) /\ late' \in Seq(Int) /\ nextReq' \in Nat /\ wronged' \subseteq astray
  /\ \A i \in daemon'.tabs : i \in Range(up) => i \in Range(up')
  /\ \A i \in Range(up') \cup Range(late') : i > 0 => i \in Range(up) \cup Range(late)
  /\ \A c \in created' : c \in created \/ c[2] = <<daemon.inst, daemon'.next - 1>>
  /\ waiter'.at = "acked" => waiter'.tab[1] \in 1..hub.inst

LEMMA RequestsMove == ASSUME LinkInv, RequestsChange PROVE LinkInv'
<1>1. /\ daemon'.inst = daemon.inst /\ daemon.next <= daemon'.next
      /\ daemon' \in Snapshot /\ daemon'.tabs \subseteq 1..(daemon'.next - 1)
      /\ \A j \in daemon'.tabs : j \in daemon.tabs \/ j = daemon.next
      /\ UNCHANGED <<link, att, hub, router, sources, fresh, belated, closed, early,
                     astray>>
      /\ topo' \in Seq(Snapshot)
  <2>1. CASE TabsChange
    BY <2>1 DEF TabsChange
  <2>2. CASE UNCHANGED coreVars
    BY <2>2 DEF coreVars, LinkInv, LinkTypes, Snapshot
  <2> QED BY <2>1, <2>2 DEF RequestsChange
<1>2. /\ daemon.inst \in Nat /\ daemon.next \in Nat \ {0} /\ daemon.tabs \subseteq Nat
      /\ daemon'.next \in Nat \ {0} /\ daemon.rev \in Nat
  BY <1>1 DEF LinkInv, LinkTypes, Snapshot
<1>3. LinkTypes'
  BY <1>1 DEF LinkInv, LinkTypes, RequestsChange
<1>4. SnapsInv'
  BY SnapsMove DEF RequestsChange, LinkInv, coreVars
<1>5. ASSUME NEW p, Born(p)
      PROVE  /\ p[1] \in Nat /\ p[2] \in Nat
             /\ p[1] < daemon'.inst \/ (p[1] = daemon'.inst /\ p[2] < daemon'.next)
  BY <1>1, <1>2, <1>5 DEF Born
<1>6. BornInv'
  <2>1. \A i \in Ids : sources[i] # 0 => Born(<<sources[i], i>>)'
    BY <1>1, <1>5 DEF LinkInv, BornInv, Born
  <2>2. \A i \in closed : i \in Nat /\ i < daemon'.next
    BY <1>1, <1>2 DEF LinkInv, BornInv
  <2>3. ASSUME NEW c \in created'
        PROVE  Born(c[2])'
    <3>1. CASE c \in created
      BY <1>1, <1>5, <3>1 DEF LinkInv, BornInv, Born
    <3>2. CASE c[2] = <<daemon.inst, daemon'.next - 1>>
      <4>1. c[2][1] = daemon.inst /\ c[2][2] = daemon'.next - 1
        BY <3>2
      <4> QED BY <1>1, <1>2, <4>1 DEF Born
    <3> QED BY <3>1, <3>2 DEF RequestsChange
  <2> QED BY <1>1, <2>1, <2>2, <2>3 DEF BornInv
<1>7. RouterInv' /\ SourcesInv'
  <2>1. router.on => router.tabs \subseteq 1..(daemon'.next - 1)
    BY <1>1, <1>2 DEF LinkInv, RouterInv
  <2>2. RouterInv'
    BY <1>1, <2>1 DEF LinkInv, RouterInv
  <2>3. SourcesInv'
    BY <1>1 DEF LinkInv, SourcesInv, RequestsChange
  <2> QED BY <2>2, <2>3
<1>8. ClosesInv'
  <2>1. hub'.inst = daemon'.inst => hub'.tomb \subseteq closed' \cup astray'
    BY <1>1 DEF LinkInv, ClosesInv
  <2>2. ASSUME NEW i \in Range(up') \cup Range(late'), i > 0
        PROVE  i \in closed' \cup astray'
    BY <1>1, <2>2 DEF LinkInv, ClosesInv, RequestsChange
  <2> QED BY <1>1, <2>1, <2>2 DEF ClosesInv, RequestsChange
<1>9. ASSUME NEW i \in daemon'.tabs, Known(i)' PROVE Known(i) /\ i \in daemon.tabs
  <2>1. Known(i)
    BY <1>1, <1>9 DEF Known, Gone
  <2>2. ASSUME i = daemon.next PROVE FALSE
    <3>1. ~Born(<<daemon.inst, i>>)
      BY <1>2, <2>2 DEF Born
    <3>2. ~Gone(i)
      BY <1>2, <2>2 DEF Gone, LinkInv, BornInv
    <3>3. sources[i] = daemon.inst /\ i \in Ids \ fresh
      <4>1. ~(router.on /\ i \in router.tabs)
        BY <1>2, <2>2 DEF LinkInv, RouterInv
      <4> QED BY <2>1, <3>2, <4>1 DEF Known
    <3>4. daemon.inst # 0
      BY <1>2 DEF LinkInv, SourcesInv, LinkTypes
    <3> QED BY <3>1, <3>3, <3>4 DEF LinkInv, BornInv
  <2> QED BY <1>1, <2>1, <2>2
<1>10. KnownInv'
  <2>1. ASSUME NEW i \in daemon'.tabs, Known(i)', NEW t \in Snaps',
               link' = "swapped" \/ t.rev > hub'.last
        PROVE  i < t.next
    <3>1. Known(i) /\ i \in daemon.tabs
      BY <1>9, <2>1
    <3>2. CASE t \in Snaps
      BY <1>1, <2>1, <3>1, <3>2 DEF LinkInv, KnownInv
    <3>3. CASE t = daemon'
      BY <1>1, <1>2, <3>3
    <3>4. t \in Snaps \/ t = daemon'
      BY DEF Snaps, RequestsChange, TabsChange, coreVars
    <3> QED BY <3>2, <3>3, <3>4
  <2> QED BY <2>1 DEF KnownInv
<1>11. GoneInv'
  <2>1. ASSUME NEW i \in daemon'.tabs, Gone(i)'
        PROVE  /\ i \in hub'.tomb /\ hub'.inst = daemon'.inst
               /\ link' = "up" => i \in Range(up')
    <3>1. Gone(i) /\ i \in daemon.tabs
      BY <1>1, <1>9, <2>1 DEF Known, Gone
    <3>2. /\ i \in hub.tomb /\ hub.inst = daemon.inst
          /\ link = "up" => i \in Range(up)
      BY <3>1 DEF LinkInv, GoneInv
    <3> QED BY <1>1, <3>2 DEF RequestsChange
  <2> QED BY <2>1 DEF GoneInv
<1>12. ViewInv'
  <2>1. CASE TabsChange
    <3>1. link = "up" => hub.last <= daemon.rev
      BY DEF LinkInv, SnapsInv
    <3>2. daemon'.rev = daemon.rev + 1 /\ hub.last \in Nat
      BY <2>1 DEF TabsChange, LinkInv, LinkTypes
    <3>3. ~(link' = "up" /\ hub'.last = daemon'.rev)
      BY <1>1, <1>2, <3>1, <3>2
    <3> QED BY <3>3 DEF ViewInv
  <2>2. CASE UNCHANGED coreVars
    <3>1. \A i \in daemon.tabs : i \in Range(up) => i \in Range(up')
      BY <2>2 DEF coreVars, RequestsChange
    <3>2. UNCHANGED <<daemon, link, hub, router, sources, fresh>>
      BY <2>2 DEF coreVars
    <3> QED BY <3>1, <3>2 DEF LinkInv, ViewInv
  <2> QED BY <2>1, <2>2 DEF RequestsChange
<1> QED BY <1>3, <1>4, <1>6, <1>7, <1>8, <1>8, <1>10, <1>11, <1>12 DEF LinkInv

LEMMA OpenedTypes ==
  ASSUME LinkInv
  PROVE  /\ Opened.next - 1 = daemon.next
         /\ \A i : i \in Without1(i).tabs => FALSE
         /\ \A i : Without1(i).tabs \subseteq daemon.tabs
         /\ \A j \in Opened.tabs : j \in daemon.tabs \/ j = daemon.next
         /\ daemon.tabs \subseteq 1..(daemon.next - 1) /\ daemon.next \in Nat \ {0}
BY DEF LinkInv, LinkTypes, Snapshot, Opened, Without1

LEMMA ServeMoves ==
  ASSUME LinkInv, NEW queue \in Seq(Int), queue # <<>>, NEW reply \in BOOLEAN,
         Serve(Head(queue), reply),
         \/ queue = up /\ up' = Tail(up) /\ late' = late
         \/ queue = late /\ late' = Tail(late) /\ up' = up
  PROVE  RequestsChange
<1> DEFINE r == Head(queue)
<1>1. r \in Int /\ Tail(queue) \in Seq(Int) /\ Range(queue) = {r} \cup Range(Tail(queue))
  BY TailRange
<1>2. up \in Seq(Int) /\ late \in Seq(Int)
  BY DEF LinkInv, LinkTypes
<1>3. up' \in Seq(Int) /\ late' \in Seq(Int)
  BY <1>1, <1>2
<1>4. Range(up') \cup Range(late') \subseteq Range(up) \cup Range(late)
  BY <1>1
<1>5. r \in Range(up) \cup Range(late)
  BY <1>1
<1>6. waiter'.at = "acked" => waiter'.tab[1] \in 1..hub.inst
  BY DEF Serve, LinkInv, SourcesInv
<1>7. \A i \in Range(up) : i # r => i \in Range(up')
  BY <1>1
<1> HIDE DEF r
<1>8. UNCHANGED <<link, att, hub, router, sources, fresh, belated, closed, early,
                  astray>> /\ nextReq' \in Nat
  BY DEF Serve, LinkInv, LinkTypes
<1>9. CASE /\ r < 0 /\ daemon' = Opened /\ Broadcast(Opened)
           /\ created' = created \cup {<<-r, <<daemon.inst, daemon.next>>>>}
           /\ UNCHANGED wronged
  <2>1. TabsChange
    BY <1>8, <1>9, DaemonChanges DEF LinkInv
  <2>2. r \notin daemon'.tabs
    BY <1>1, <1>9, OpenedTypes
  <2>3. \A c \in created' : c \in created \/ c[2] = <<daemon.inst, daemon'.next - 1>>
    <3>1. daemon'.next - 1 = daemon.next
      BY <1>9, OpenedTypes
    <3> QED BY <1>9, <3>1
  <2>4. wronged' \subseteq astray
    BY <1>9 DEF LinkInv, ClosesInv
  <2> QED BY <1>3, <1>4, <1>6, <1>7, <1>8, <2>1, <2>2, <2>3, <2>4 DEF RequestsChange
<1>10. CASE /\ r \in daemon.tabs /\ daemon' = Without1(r) /\ Broadcast(Without1(r))
            /\ wronged' = wronged \cup ({r} \ closed)
            /\ UNCHANGED created
  <2>1. TabsChange
    BY <1>8, <1>10, DaemonChanges DEF LinkInv
  <2>2. r \notin daemon'.tabs
    BY <1>10, OpenedTypes
  <2>3. r \in closed \cup astray
    <3>1. r > 0
      BY <1>1, <1>10, OpenedTypes
    <3> QED BY <1>5, <3>1 DEF LinkInv, ClosesInv
  <2>4. wronged' \subseteq astray
    BY <1>10, <2>3 DEF LinkInv, ClosesInv
  <2> QED BY <1>3, <1>4, <1>6, <1>7, <1>8, <1>10, <2>1, <2>2, <2>4 DEF RequestsChange
<1>11. CASE r \notin daemon.tabs /\ UNCHANGED <<daemon, topo, created, wronged>>
  <2>1. UNCHANGED coreVars
    BY <1>8, <1>11 DEF coreVars
  <2>2. wronged' \subseteq astray /\ daemon' = daemon /\ created' = created
    BY <1>11 DEF LinkInv, ClosesInv
  <2> QED BY <1>3, <1>4, <1>6, <1>7, <1>8, <1>11, <2>1, <2>2 DEF RequestsChange
<1> QED BY <1>9, <1>10, <1>11 DEF Serve, r

LEMMA RequestSteps ==
  ASSUME LinkInv,
         \/ OthersOpen \/ (\E i \in Ids : OthersClose(i)) \/ ServeNext \/ ServeLate
         \/ NewTabIn \/ GiveUp \/ RouteAck \/ UNCHANGED lvars
  PROVE  LinkInv'
<1>1. up \in Seq(Int) /\ late \in Seq(Int) /\ nextReq \in Nat
      /\ wronged \subseteq astray
  BY DEF LinkInv, LinkTypes, ClosesInv
<1>2. /\ waiter.at = "acked" => waiter.tab[1] \in 1..hub.inst
      /\ hub.inst \in 1..hub.inst
  BY DEF LinkInv, SourcesInv, LinkTypes, Snapshot
<1>3. SUFFICES RequestsChange
  BY RequestsMove
<1>4. ASSUME TabsChange, UNCHANGED <<up, late, wronged, created, waiter, nextReq>>
      PROVE  RequestsChange
  BY <1>1, <1>2, <1>4 DEF RequestsChange
<1>5. CASE OthersOpen
  <2>1. /\ Broadcast(Opened) /\ daemon' = Opened
        /\ UNCHANGED <<link, att, hub, router, sources, fresh, belated, closed, early,
                       astray>>
    BY <1>5 DEF OthersOpen, past
  <2>2. TabsChange
    BY <2>1, DaemonChanges DEF LinkInv
  <2> QED BY <1>4, <1>5, <2>2 DEF OthersOpen, past
<1>6. ASSUME NEW i \in Ids, OthersClose(i) PROVE RequestsChange
  <2>1. /\ Broadcast(Without1(i)) /\ daemon' = Without1(i) /\ i \in daemon.tabs
        /\ UNCHANGED <<link, att, hub, router, sources, fresh, belated, closed, early,
                       astray>>
    BY <1>6 DEF OthersClose, past
  <2>2. TabsChange
    BY <2>1, DaemonChanges DEF LinkInv
  <2> QED BY <1>4, <1>6, <2>2 DEF OthersClose, past
<1>7. CASE ServeNext
  BY <1>1, <1>7, ServeMoves DEF ServeNext
<1>8. CASE ServeLate
  BY <1>1, <1>8, ServeMoves DEF ServeLate
<1>9. CASE NewTabIn
  <2>1. UNCHANGED coreVars /\ UNCHANGED <<late, wronged, created>>
    BY <1>9 DEF NewTabIn, coreVars, past
  <2>2. nextReq' \in Nat /\ -nextReq' \in Int /\ up' = Append(up, -nextReq')
    BY <1>1, <1>9 DEF NewTabIn
  <2>3. up' \in Seq(Int) /\ Range(up') = Range(up) \cup {-nextReq'}
    BY <1>1, <2>2, AppendRange, AppendProperties
  <2>4. waiter'.at # "acked"
    BY <1>9 DEF NewTabIn
  <2> QED BY <1>1, <2>1, <2>2, <2>3, <2>4 DEF RequestsChange
<1>10. CASE GiveUp
  <2>1. UNCHANGED coreVars /\ UNCHANGED <<up, late, wronged, created, nextReq>>
    BY <1>10 DEF GiveUp, coreVars, wire, past
  <2>2. waiter'.at # "acked"
    BY <1>10 DEF GiveUp, Idle
  <2> QED BY <1>1, <2>1, <2>2 DEF RequestsChange
<1>11. CASE RouteAck
  <2>1. UNCHANGED coreVars /\ UNCHANGED <<up, late, wronged, created, nextReq>>
    BY <1>11 DEF RouteAck, coreVars, past
  <2>2. waiter'.at = "acked" => waiter'.tab[1] \in 1..hub.inst
    BY <1>2, <1>11 DEF RouteAck
  <2> QED BY <1>1, <2>1, <2>2 DEF RequestsChange
<1>12. CASE UNCHANGED lvars
  BY <1>1, <1>2, <1>12 DEF lvars, coreVars, RequestsChange
<1> QED BY <1>5, <1>6, <1>7, <1>8, <1>9, <1>10, <1>11, <1>12

-----------------------------------------------------------------------------
(* The connection is lost and made again.                                   *)

LEMMA NoElements == Range(<<>>) = {}
BY DEF Range

LEMMA DropKeeps == ASSUME LinkInv, Drop PROVE LinkInv'
<1>1. /\ link = "up" /\ link' = "down" /\ topo' = <<>> /\ up' = <<>> /\ late' \in {up, <<>>}
      /\ UNCHANGED <<daemon, att, hub, router, sources, nextReq, fresh, created, belated,
                     closed, early, astray, wronged>>
      /\ ~router.on
      /\ waiter'.at = "acked" => waiter' = waiter
  BY DEF Drop, past, Idle
<1>2. Snaps' = {}
  BY <1>1, NoElements DEF Snaps
<1>3. LinkTypes'
  <2>1. /\ topo' \in Seq(Snapshot) /\ up' \in Seq(Int)
        /\ up \in Seq(Int) /\ late' \in {up, up'}
    BY <1>1 DEF LinkInv, LinkTypes
  <2>2. late' \in Seq(Int)
    BY <2>1
  <2> QED BY <1>1, <2>1, <2>2 DEF LinkInv, LinkTypes
<1>4. SnapsInv'
  BY <1>1, <1>2 DEF SnapsInv
<1>5. BornInv'
  BY <1>1 DEF LinkInv, BornInv, Born
<1>6. RouterInv' /\ SourcesInv'
  BY <1>1 DEF LinkInv, RouterInv, SourcesInv
<1>7. ClosesInv'
  <2>1. Range(up') \cup Range(late') \subseteq Range(up)
    BY <1>1, NoElements
  <2> QED BY <1>1, <2>1 DEF LinkInv, ClosesInv
<1>8. KnownInv'
  BY <1>2 DEF KnownInv
<1>9. GoneInv'
  BY <1>1 DEF LinkInv, GoneInv, Gone
<1>10. ViewInv'
  BY <1>1 DEF ViewInv
<1> QED BY <1>3, <1>4, <1>5, <1>6, <1>7, <1>8, <1>9, <1>10 DEF LinkInv

LEMMA RestartKeeps == ASSUME LinkInv, AckInv, Restart PROVE LinkInv'
<1>1. /\ link = "down" /\ late' = <<>> /\ up = <<>> /\ topo = <<>>
      /\ daemon' = [inst |-> daemon.inst + 1, tabs |-> {}, rev |-> 0, next |-> 1]
      /\ closed' = {} /\ early' = {} /\ astray' = {} /\ wronged' = {}
      /\ UNCHANGED <<topo, up, link, att, hub, router, sources, waiter, nextReq, fresh, created,
                     belated>>
  BY DEF Restart, past, AckInv, AcksTrue, LinkInv, SnapsInv
<1>2. /\ daemon'.inst = daemon.inst + 1 /\ daemon'.tabs = {} /\ daemon'.rev = 0
      /\ daemon'.next = 1 /\ daemon.inst \in Nat
  BY <1>1 DEF LinkInv, LinkTypes, Snapshot
<1>3. Snaps' = {}
  BY <1>1, NoElements DEF Snaps
<1>4. LinkTypes'
  <2>1. daemon' \in Snapshot /\ daemon'.tabs \subseteq 1..(daemon'.next - 1)
    BY <1>1, <1>2 DEF Snapshot
  <2> QED BY <1>1, <2>1 DEF LinkInv, LinkTypes
<1>5. SnapsInv'
  BY <1>1, <1>3 DEF SnapsInv
<1>6. BornInv'
  <2>1. \A p : Born(p) => p[1] \in Nat /\ p[2] \in Nat /\ p[1] < daemon'.inst
    BY <1>2 DEF Born, LinkInv, LinkTypes, Snapshot
  <2> QED BY <1>1, <2>1 DEF LinkInv, BornInv, Born
<1>7. RouterInv' /\ SourcesInv'
  <2>1. ~router.on
    BY <1>1 DEF LinkInv, RouterInv
  <2>2. RouterInv'
    BY <1>1, <2>1 DEF LinkInv, RouterInv
  <2>3. SourcesInv'
    BY <1>1, <1>2 DEF LinkInv, SourcesInv, LinkTypes
  <2> QED BY <2>2, <2>3
<1>8. ClosesInv'
  <2>1. hub'.inst # daemon'.inst
    BY <1>1, <1>2 DEF LinkInv, SourcesInv
  <2> QED BY <1>1, <2>1, NoElements DEF ClosesInv
<1>9. KnownInv' /\ GoneInv'
  BY <1>2 DEF KnownInv, GoneInv
<1>10. ViewInv'
  BY <1>1 DEF ViewInv
<1> QED BY <1>4, <1>5, <1>6, <1>7, <1>8, <1>9, <1>10 DEF LinkInv

LEMMA RedialKeeps == ASSUME LinkInv, AckInv, Redial PROVE LinkInv'
<1>1. /\ link = "down" /\ link' = "swapped" /\ att' = daemon /\ topo' \in {<<>>, <<daemon>>}
      /\ UNCHANGED <<daemon, up, late, hub, router, sources, waiter, nextReq, fresh, created,
                     belated, closed, early, astray, wronged>>
  BY DEF Redial, past
<1>2. /\ daemon \in Snapshot /\ daemon.tabs \subseteq 1..(daemon.next - 1)
      /\ daemon.next \in Nat \ {0} /\ daemon.rev \in Nat
  BY DEF LinkInv, LinkTypes, Snapshot
<1>3. Range(topo') \subseteq {daemon} /\ topo' \in Seq(Snapshot)
  <2>1. CASE topo' = <<>>
    BY <2>1, NoElements
  <2>2. CASE topo' = <<daemon>>
    BY <1>2, <2>2 DEF Range
  <2> QED BY <1>1, <2>1, <2>2
<1>4. Snaps' = {daemon}
  BY <1>1, <1>3 DEF Snaps
<1>5. LinkTypes'
  BY <1>1, <1>2, <1>3 DEF LinkInv, LinkTypes
<1>6. SnapsInv'
  <2>1. Past(daemon, daemon)
    BY <1>2 DEF Past
  <2>2. daemon.next <= daemon.next
    BY <1>2
  <2> QED BY <1>1, <1>4, <2>1, <2>2 DEF SnapsInv
<1>7. BornInv'
  BY <1>1 DEF LinkInv, BornInv, Born
<1>8. RouterInv' /\ SourcesInv'
  BY <1>1 DEF LinkInv, RouterInv, SourcesInv
<1>9. ClosesInv'
  BY <1>1 DEF LinkInv, ClosesInv
<1>10. KnownInv'
  BY <1>1, <1>2, <1>4 DEF KnownInv
<1>11. GoneInv'
  BY <1>1 DEF LinkInv, GoneInv, Gone
<1>12. ViewInv'
  BY <1>1 DEF ViewInv
<1> QED BY <1>5, <1>6, <1>7, <1>8, <1>9, <1>10, <1>11, <1>12 DEF LinkInv

-----------------------------------------------------------------------------
(* A snapshot is taken: by the resync, or past the revision gate.           *)

LEMMA IdsFinite == ASSUME NEW S, S \subseteq Ids PROVE IsFiniteSet(S)
<1>1. IsFiniteSet(Ids)
  BY LinkConstants, FS_Interval DEF Ids
<1> QED BY <1>1, FS_Subset

LEMMA ReplaysAll ==
  ASSUME LinkInv, NEW h, h.tomb \subseteq Ids, NEW tabs, Replays(h, tabs)
  PROVE  up' \in Seq(Int) /\ Range(up') = Range(up) \cup (h.tomb \cap tabs)
<1> DEFINE resent == h.tomb \cap tabs
<1>1. PICK s \in SetToSeqs(resent) : up' = up \o s
  BY DEF Replays
<1>2. resent \subseteq Ids /\ Ids \subseteq Int
  BY DEF Ids
<1> HIDE DEF resent
<1>3. s \in Seq(resent) /\ Range(s) = resent
  BY <1>2, IdsFinite, ListingRange
<1>4. s \in Seq(Int) /\ up \in Seq(Int)
  BY <1>2, <1>3, SeqMonotonic DEF LinkInv, LinkTypes
<1>5. up \o s \in Seq(Int)
  BY <1>4, ConcatProperties
<1>6. Range(up \o s) = Range(up) \cup Range(s)
  BY <1>4, RangeConcatenation
<1> QED BY <1>1, <1>3, <1>5, <1>6 DEF resent

\* The hub the snapshot meets: another instance's tombstones are gone.
Meets(h) ==
  /\ h \in [last : Nat, inst : Nat, tomb : SUBSET Ids]
  /\ h.inst = daemon.inst
  /\ h.tomb = IF hub.inst = daemon.inst THEN hub.tomb ELSE {}

Taken(t, h) ==
  /\ link # "down" /\ ~router.on /\ t \in Snaps /\ (link = "swapped" \/ t.rev > hub.last)
  /\ Replays(h, t.tabs)
  /\ hub' = [h EXCEPT !.last = t.rev, !.tomb = @ \cap t.tabs]
  /\ router' = Work(t.tabs \ h.tomb, Vanishing(t.tabs \ h.tomb, hub.inst # daemon.inst))
  /\ link' = "up" /\ att' \in {att, NoSnapshot}
  /\ topo' \in Seq(Snapshot) /\ Range(topo') \subseteq Range(topo)
  /\ t = daemon \/ daemon \in Range(topo')
  /\ UNCHANGED <<daemon, late, sources, waiter, nextReq, past>>

LEMMA TakenKeeps ==
  ASSUME LinkInv, AckInv, NEW t, NEW h, Meets(h), Taken(t, h)
  PROVE  LinkInv'
<1>1. /\ UNCHANGED <<daemon, late, sources, waiter, nextReq, fresh, created, belated, closed,
                     early, astray, wronged>>
      /\ link' = "up" /\ ~router.on
  BY DEF Taken, past
<1>2. up' \in Seq(Int) /\ Range(up') = Range(up) \cup (h.tomb \cap t.tabs)
  BY ReplaysAll DEF Meets, Taken
<1>3. /\ hub' = [last |-> t.rev, inst |-> daemon.inst, tomb |-> h.tomb \cap t.tabs]
      /\ hub'.last = t.rev /\ hub'.inst = daemon.inst /\ hub'.tomb = h.tomb \cap t.tabs
  BY DEF Meets, Taken
<1>4. /\ router' = Work(router'.tabs, router'.gone)
      /\ router'.on /\ router'.tabs = t.tabs \ h.tomb
      /\ \A i \in Ids : i \in router'.gone <=>
           sources[i] # 0 /\ (hub.inst # daemon.inst \/ i \notin router'.tabs)
      /\ router'.gone \subseteq Ids
  BY DEF Taken, Work, Vanishing
<1>5. Past(t, daemon)
  BY DEF Taken, LinkInv, SnapsInv
<1>6. /\ t.rev \in Nat /\ t.next \in Nat /\ t.tabs \subseteq Nat /\ daemon.next \in Nat
      /\ daemon.inst \in Nat /\ daemon.rev \in Nat
      /\ t.next <= daemon.next /\ t.rev <= daemon.rev /\ t.tabs \subseteq 1..(t.next - 1)
  BY <1>5 DEF Past, Snapshot, LinkInv, LinkTypes
<1>7. Snaps' \subseteq Snaps
  BY <1>1 DEF Snaps, Taken
<1>8. LinkTypes'
  <2>1. NoSnapshot \in Snapshot
    BY DEF NoSnapshot, Snapshot
  <2>2. att' \in Snapshot /\ topo' \in Seq(Snapshot)
    BY <2>1 DEF LinkInv, LinkTypes, Taken
  <2>3. hub' \in [last : Nat, inst : Nat, tomb : SUBSET Ids]
    BY <1>3, <1>6 DEF Meets
  <2> QED BY <1>1, <1>2, <2>2, <2>3 DEF LinkInv, LinkTypes
<1>9. SnapsInv'
  <2>1. hub'.last <= daemon.rev /\ (hub'.last = daemon.rev \/ daemon \in Range(topo'))
    BY <1>3, <1>6 DEF Taken
  <2> QED BY <1>1, <1>7, <2>1 DEF LinkInv, SnapsInv
<1>10. BornInv'
  BY <1>1 DEF LinkInv, BornInv, Born
<1>11. RouterInv' /\ SourcesInv'
  <2>1. router'.tabs \subseteq 1..(daemon.next - 1)
    <3>1. ASSUME NEW j \in t.tabs PROVE j \in 1..(daemon.next - 1)
      <4>1. j \in 1..(t.next - 1)
        BY <1>6
      <4> QED BY <1>6, <4>1
    <3> QED BY <1>4, <3>1
  <2>2. daemon.inst \in 1..daemon.inst /\ hub.inst \in 1..daemon.inst /\ hub.inst \in Nat
    BY <1>6 DEF LinkInv, SourcesInv, LinkTypes
  <2>3. router'.tabs \subseteq Nat /\ router'.gone \subseteq Ids
    BY <1>4, <1>6
  <2>4. RouterInv'
    BY <1>1, <1>4, <2>1, <2>3 DEF RouterInv
  <2>5. waiter.at = "acked" => waiter.tab[1] \in 1..daemon.inst
    BY <2>2 DEF LinkInv, SourcesInv
  <2>6. ASSUME NEW i \in Ids
        PROVE  /\ sources[i] <= daemon.inst
               /\ \/ sources[i] \in {0, daemon.inst} \/ <<sources[i], i>> \in belated
                  \/ i \in router'.gone
    <3>1. sources[i] \in Nat /\ sources[i] <= hub.inst
      BY DEF LinkInv, LinkTypes, SourcesInv
    <3>2. hub.inst = daemon.inst =>
            sources[i] \in {0, daemon.inst} \/ <<sources[i], i>> \in belated
      BY <1>1 DEF LinkInv, SourcesInv
    <3> QED BY <1>4, <2>2, <3>1, <3>2
  <2>7. SourcesInv'
    BY <1>1, <1>3, <1>4, <2>2, <2>5, <2>6 DEF SourcesInv
  <2> QED BY <2>4, <2>7
<1>12. ClosesInv'
  <2>1. h.tomb \subseteq closed \cup astray
    BY DEF Meets, LinkInv, ClosesInv
  <2> QED BY <1>1, <1>2, <1>3, <2>1 DEF LinkInv, ClosesInv
<1>13. ASSUME NEW i \in daemon.tabs, Known(i), NEW u \in Snaps,
              link = "swapped" \/ u.rev > hub.last
       PROVE  i < u.next
  BY <1>13 DEF LinkInv, KnownInv
<1>14. KnownInv'
  <2>1. ASSUME NEW i \in daemon.tabs, Known(i)', NEW u \in Snaps', u.rev > t.rev
        PROVE  i < u.next
    <3>1. u \in Snaps /\ Past(u, daemon)
      BY <1>7 DEF LinkInv, SnapsInv
    <3>2. u.next \in Nat /\ u.rev \in Nat /\ i \in Nat
      BY <3>1 DEF Past, Snapshot, LinkInv, LinkTypes
    <3>3. CASE Known(i)
      <4>1. link = "swapped" \/ u.rev > hub.last
        BY <1>6, <2>1, <3>2 DEF Taken, LinkInv, LinkTypes
      <4> QED BY <1>13, <3>1, <3>3, <4>1
    <3>4. CASE i \in t.tabs
      <4>1. t.next <= u.next
        BY <1>6, <2>1, <3>1, <3>2 DEF LinkInv, SnapsInv, Taken
      <4> QED BY <1>6, <3>2, <3>4, <4>1
    <3> QED BY <1>1, <1>4, <2>1, <3>3, <3>4 DEF Known, Gone
  <2> QED BY <1>1, <1>3, <2>1 DEF KnownInv
<1>15. GoneInv'
  <2>1. ASSUME NEW i \in daemon.tabs, Gone(i)
        PROVE  i \in h.tomb \cap t.tabs
    <3>1. i \in h.tomb
      BY <2>1 DEF LinkInv, GoneInv, Meets
    <3>2. i < t.next
      BY <1>13, <2>1 DEF Known, Taken
    <3> QED BY <1>5, <3>1, <3>2 DEF Past
  <2> QED BY <1>1, <1>2, <1>3, <2>1 DEF GoneInv, Gone
<1>16. ViewInv'
  <2>1. ASSUME hub'.last = daemon.rev
        PROVE  /\ router'.tabs \subseteq daemon.tabs
               /\ daemon.tabs \ router'.tabs \subseteq Range(up')
               /\ \A i \in Ids : sources[i] # 0 => i \in daemon.tabs \cup router'.gone
    <3>1. t = daemon
      BY <1>3, <1>5, <2>1 DEF Past
    <3> QED BY <1>2, <1>4, <3>1
  <2> QED BY <1>1, <1>4, <2>1 DEF ViewInv
<1> QED BY <1>8, <1>9, <1>10, <1>11, <1>12, <1>14, <1>15, <1>16 DEF LinkInv

LEMMA ResyncKeeps == ASSUME LinkInv, AckInv, Resync PROVE LinkInv'
<1> DEFINE h == Noted(att.inst)
<1>1. /\ hub \in [last : Nat, inst : Nat, tomb : SUBSET Ids]
      /\ daemon.inst \in Nat /\ att.inst = daemon.inst
  BY DEF LinkInv, LinkTypes, Snapshot, AckInv, Instances, Resync
<1>2. Meets(h)
  <2>1. CASE att.inst = hub.inst
    BY <1>1, <2>1 DEF Noted, Meets
  <2>2. CASE att.inst # hub.inst
    BY <1>1, <2>2 DEF Noted, Meets
  <2> QED BY <2>1, <2>2
<1>3. Taken(att, h)
  <2>1. /\ link = "swapped" /\ Replays(h, att.tabs)
        /\ hub' = [h EXCEPT !.last = att.rev, !.tomb = @ \cap att.tabs]
        /\ router' = Work(att.tabs \ h.tomb, Vanishing(att.tabs \ h.tomb, hub.inst # daemon.inst))
        /\ link' = "up" /\ att' = NoSnapshot
        /\ UNCHANGED <<daemon, topo, late, sources, waiter, nextReq, past>>
    BY <1>1 DEF Resync
  <2> HIDE DEF h
  <2>2. ~router.on
    BY <2>1 DEF LinkInv, RouterInv
  <2>3. att \in Snaps
    BY <2>1 DEF Snaps
  <2>4. topo' \in Seq(Snapshot) /\ Range(topo') \subseteq Range(topo)
    BY <2>1 DEF LinkInv, LinkTypes
  <2>5. att = daemon \/ daemon \in Range(topo')
    BY <2>1 DEF LinkInv, SnapsInv
  <2> QED BY <2>1, <2>2, <2>3, <2>4, <2>5 DEF Taken
<1> HIDE DEF h
<1> QED BY <1>2, <1>3, TakenKeeps

LEMMA GateKeeps == ASSUME LinkInv, AckInv, Gate PROVE LinkInv'
<1> DEFINE t == Head(topo)
<1>1. /\ link = "up" /\ ~router.on /\ topo # <<>> /\ topo' = Tail(topo)
      /\ UNCHANGED <<daemon, late, link, att, sources, waiter, nextReq, past>>
  BY DEF Gate
<1>2. topo' \in Seq(Snapshot) /\ Range(topo) = {t} \cup Range(topo')
  BY <1>1, TailRange DEF LinkInv, LinkTypes
<1>3. t \in Snaps /\ Past(t, daemon)
  BY <1>2 DEF Snaps, LinkInv, SnapsInv
<1>4. /\ t.rev \in Nat /\ daemon.rev \in Nat /\ hub.last \in Nat /\ t.rev <= daemon.rev
      /\ hub.last <= daemon.rev /\ (hub.last = daemon.rev \/ daemon \in Range(topo))
  BY <1>1, <1>3 DEF Past, Snapshot, LinkInv, LinkTypes, SnapsInv
<1>5. hub.inst = daemon.inst
  BY <1>1 DEF AckInv, Instances
<1>6. CASE ~(t.rev <= hub.last)
  <2>1. Meets(hub)
    BY <1>5 DEF Meets, LinkInv, LinkTypes
  <2>2. /\ Replays(hub, t.tabs)
        /\ hub' = [hub EXCEPT !.last = t.rev, !.tomb = @ \cap t.tabs]
        /\ router' = Work(t.tabs \ hub.tomb, Vanishing(t.tabs \ hub.tomb, FALSE))
    BY <1>6 DEF Gate
  <2> HIDE DEF t
  <2>3. t = daemon \/ daemon \in Range(topo')
    BY <1>2, <1>4, <1>6
  <2>4. t.rev > hub.last
    BY <1>4, <1>6
  <2>5. (hub.inst # daemon.inst) = FALSE
    BY <1>5
  <2>6. Taken(t, hub)
    BY <1>1, <1>2, <1>3, <2>2, <2>3, <2>4, <2>5 DEF Taken
  <2> QED BY <2>1, <2>6, TakenKeeps
<1>7. CASE t.rev <= hub.last
  <2>1. /\ UNCHANGED <<daemon, up, late, hub, router, link, att, sources, waiter, nextReq,
                       fresh, created, belated, closed, early, astray, wronged>>
    BY <1>1, <1>7 DEF Gate, past
  <2> HIDE DEF t
  <2>2. Snaps' \subseteq Snaps
    BY <1>1, <1>2 DEF Snaps
  <2>3. LinkTypes'
    BY <1>2, <2>1 DEF LinkInv, LinkTypes
  <2>4. SnapsInv'
    <3>1. hub.last = daemon.rev \/ daemon \in Range(topo')
      BY <1>2, <1>4, <1>7
    <3> QED BY <1>1, <1>4, <2>1, <2>2, <3>1 DEF LinkInv, SnapsInv
  <2>5. BornInv' /\ RouterInv' /\ SourcesInv' /\ ClosesInv'
    BY <2>1 DEF LinkInv, BornInv, Born, RouterInv, SourcesInv, ClosesInv
  <2>6. KnownInv'
    BY <2>1, <2>2 DEF LinkInv, KnownInv, Known, Gone
  <2>7. GoneInv' /\ ViewInv'
    BY <2>1 DEF LinkInv, GoneInv, Gone, ViewInv
  <2> QED BY <2>3, <2>4, <2>5, <2>6, <2>7 DEF LinkInv
<1> QED BY <1>6, <1>7

-----------------------------------------------------------------------------
(* The Sources follow the snapshot, the ack or the user.                    *)

LEMMA ApplyKeeps == ASSUME LinkInv, AckInv, Apply PROVE LinkInv'
<1>1. /\ router.on /\ router' = NoWork /\ fresh' = fresh \ (router.tabs \cup router.gone)
      /\ sources' = Reconciled(router, hub.inst)
      /\ UNCHANGED <<daemon, topo, up, late, link, att, hub, waiter, nextReq, created, belated,
                     closed, early, astray, wronged>>
  BY DEF Apply, wire
<1>2. /\ link = "up" /\ router.tabs \subseteq 1..(daemon.next - 1)
      /\ hub.inst = daemon.inst /\ hub.inst \in Nat /\ hub.inst # 0
      /\ daemon.inst \in Nat /\ daemon.next \in Nat \ {0}
  BY <1>1 DEF LinkInv, RouterInv, SourcesInv, AckInv, Instances, LinkTypes, Snapshot
<1>3. \A i \in Ids : /\ sources[i] \in Nat /\ sources[i] <= daemon.inst
                     /\ \/ sources[i] \in {0, daemon.inst} \/ <<sources[i], i>> \in belated
                        \/ i \in router.gone
  BY <1>2 DEF LinkInv, SourcesInv, LinkTypes
<1>4. /\ sources' \in [Ids -> Nat]
      /\ \A i \in Ids :
           sources'[i] = IF i \in router.tabs /\ (sources[i] = 0 \/ i \in router.gone)
                         THEN daemon.inst ELSE IF i \in router.gone THEN 0 ELSE sources[i]
  BY <1>1, <1>2, <1>3 DEF Reconciled, LinkInv, LinkTypes
<1>5. ~router'.on
  BY <1>1 DEF NoWork
<1>6. Snaps' = Snaps
  BY <1>1 DEF Snaps
<1>7. LinkTypes'
  BY <1>1, <1>4 DEF LinkInv, LinkTypes
<1>8. SnapsInv'
  BY <1>1, <1>6 DEF LinkInv, SnapsInv
<1>9. BornInv'
  <2>1. ASSUME NEW i \in Ids, sources'[i] # 0 PROVE Born(<<sources'[i], i>>)
    <3>1. CASE i \in router.tabs /\ sources'[i] = daemon.inst
      <4>1. i \in Nat /\ i < daemon.next
        BY <1>2, <3>1
      <4> QED BY <1>2, <3>1, <4>1 DEF Born
    <3>2. CASE sources'[i] = sources[i]
      BY <2>1, <3>2 DEF LinkInv, BornInv
    <3> QED BY <1>4, <2>1, <3>1, <3>2
  <2>2. \A i \in Ids : sources'[i] # 0 => Born(<<sources[i], i>>)'
    BY <1>1, <2>1 DEF Born
  <2>3. \A i \in closed : i \in Nat /\ i < daemon.next
    BY DEF LinkInv, BornInv
  <2>4. \A c \in created : Born(c[2])'
    BY <1>1 DEF LinkInv, BornInv, Born
  <2> QED BY <1>1, <2>2, <2>3, <2>4 DEF BornInv
<1>10. RouterInv' /\ SourcesInv'
  <2>1. RouterInv'
    BY <1>1, <1>5 DEF RouterInv
  <2>2. ASSUME NEW i \in Ids
        PROVE  /\ sources'[i] <= daemon.inst
               /\ sources'[i] \in {0, daemon.inst} \/ <<sources'[i], i>> \in belated
    BY <1>2, <1>3, <1>4
  <2>3. SourcesInv'
    BY <1>1, <1>2, <2>2 DEF LinkInv, SourcesInv
  <2> QED BY <2>1, <2>3
<1>11. ClosesInv'
  BY <1>1 DEF LinkInv, ClosesInv
<1>12. KnownInv'
  <2>1. \A i \in daemon.tabs : Known(i)' => Known(i)
    BY <1>1, <1>2, <1>4, <1>5 DEF Known, Gone
  <2> QED BY <1>1, <1>6, <2>1 DEF LinkInv, KnownInv
<1>13. GoneInv'
  BY <1>1 DEF LinkInv, GoneInv, Gone
<1>14. ViewInv'
  <2>1. ASSUME hub.last = daemon.rev, NEW i \in Ids
        PROVE  /\ sources'[i] # 0 /\ i \notin fresh' => i \in daemon.tabs
               /\ i \in daemon.tabs /\ sources'[i] = 0 => i \in Range(up)
    <3>1. /\ router.tabs \subseteq daemon.tabs /\ daemon.tabs \ router.tabs \subseteq Range(up)
          /\ sources[i] # 0 /\ i \notin fresh => i \in daemon.tabs \cup router.gone
      BY <1>1, <1>2, <2>1 DEF LinkInv, ViewInv
    <3> QED BY <1>1, <1>2, <1>4, <3>1
  <2> QED BY <1>1, <1>2, <1>5, <2>1 DEF ViewInv
<1> QED BY <1>7, <1>8, <1>9, <1>10, <1>11, <1>12, <1>13, <1>14 DEF LinkInv

\* The tab of the ack was created for this client, so it was opened.
LEMMA AdoptAckKeeps == ASSUME LinkInv, AckInv, AdoptAck PROVE LinkInv'
<1> DEFINE inst == waiter.tab[1]
           k == waiter.tab[2]
<1>1. /\ waiter.at = "acked" /\ waiter' = Idle
      /\ sources' = [sources EXCEPT ![k] = IF @ = 0 THEN inst ELSE @]
      /\ fresh' = IF sources[k] = 0 THEN fresh \cup {k} ELSE fresh
      /\ belated' = IF inst = hub.inst THEN belated ELSE belated \cup {waiter.tab}
      /\ UNCHANGED <<daemon, topo, up, late, link, att, hub, router, nextReq, created, closed,
                     early, astray, wronged>>
  BY DEF AdoptAck, wire
<1>2. inst \in 1..hub.inst /\ inst \in Nat /\ inst # 0 /\ hub.inst \in 1..daemon.inst
  BY <1>1 DEF LinkInv, SourcesInv, LinkTypes
<1>3. Born(<<inst, k>>) /\ waiter.tab = <<inst, k>>
  <2>1. <<nextReq, waiter.tab>> \in created
    BY <1>1 DEF AckInv, AckIsOwn
  <2>2. waiter.tab = <<inst, k>>
    <3>1. PICK c \in created : c = <<nextReq, waiter.tab>>
      BY <2>1
    <3>2. c = <<c[1], <<c[2][1], c[2][2]>>>>
      BY DEF AckInv, AcksTrue
    <3> QED BY <3>1, <3>2
  <2>3. PICK c \in created : c = <<nextReq, <<inst, k>>>>
    BY <2>1, <2>2
  <2> HIDE DEF inst, k
  <2>4. c[2] = <<inst, k>>
    BY <2>3
  <2>5. Born(<<inst, k>>)
    BY <2>4 DEF LinkInv, BornInv
  <2> QED BY <2>2, <2>5
<1> HIDE DEF inst, k
<1>4. /\ sources' \in [Ids -> Nat]
      /\ \A i \in Ids : sources'[i] = IF i = k /\ sources[i] = 0 THEN inst ELSE sources[i]
  BY <1>1, <1>2 DEF LinkInv, LinkTypes
<1>5. fresh \subseteq fresh' /\ (sources[k] = 0 => k \in fresh')
  BY <1>1
<1>6. Snaps' = Snaps
  BY <1>1 DEF Snaps
<1>7. LinkTypes'
  BY <1>1, <1>4 DEF LinkInv, LinkTypes
<1>8. SnapsInv'
  BY <1>1, <1>6 DEF LinkInv, SnapsInv
<1>9. BornInv'
  <2>1. ASSUME NEW i \in Ids, sources'[i] # 0 PROVE Born(<<sources'[i], i>>)
    BY <1>3, <1>4, <2>1 DEF LinkInv, BornInv
  <2>2. \A i \in Ids : sources'[i] # 0 => Born(<<sources[i], i>>)'
    BY <1>1, <2>1 DEF Born
  <2>3. \A i \in closed : i \in Nat /\ i < daemon.next
    BY DEF LinkInv, BornInv
  <2>4. \A c \in created : Born(c[2])'
    BY <1>1 DEF LinkInv, BornInv, Born
  <2> QED BY <1>1, <2>2, <2>3, <2>4 DEF BornInv
<1>10. RouterInv' /\ SourcesInv'
  <2>1. RouterInv'
    BY <1>1 DEF LinkInv, RouterInv
  <2>2. ASSUME NEW i \in Ids
        PROVE  /\ sources'[i] <= hub.inst
               /\ \/ sources'[i] \in {0, hub.inst} \/ <<sources'[i], i>> \in belated'
                  \/ router.on /\ i \in router.gone
    <3>1. CASE sources'[i] = sources[i]
      BY <1>1, <3>1 DEF LinkInv, SourcesInv
    <3>2. CASE i = k /\ sources'[i] = inst
      BY <1>1, <1>2, <1>3, <3>2
    <3> QED BY <1>4, <3>1, <3>2
  <2>3. waiter'.at # "acked"
    BY <1>1 DEF Idle
  <2>4. SourcesInv'
    BY <1>1, <1>2, <2>2, <2>3 DEF SourcesInv
  <2> QED BY <2>1, <2>4
<1>11. ClosesInv'
  BY <1>1 DEF LinkInv, ClosesInv
<1>12. KnownInv'
  <2>1. ASSUME NEW i \in daemon.tabs, Known(i)' PROVE Known(i)
    BY <1>1, <1>4, <1>5, <2>1 DEF Known, Gone
  <2> QED BY <1>1, <1>6, <2>1 DEF LinkInv, KnownInv
<1>13. GoneInv'
  BY <1>1 DEF LinkInv, GoneInv, Gone
<1>14. ViewInv'
  <2>1. ASSUME NEW i \in Ids
        PROVE  /\ sources'[i] # 0 /\ i \notin fresh' => sources[i] # 0 /\ i \notin fresh
               /\ sources'[i] = 0 => sources[i] = 0
    BY <1>2, <1>4, <1>5
  <2> QED BY <1>1, <2>1 DEF LinkInv, ViewInv
<1> QED BY <1>7, <1>8, <1>9, <1>10, <1>11, <1>12, <1>13, <1>14 DEF LinkInv

LEMMA UserCloseKeeps ==
  ASSUME LinkInv, AckInv, NEW i \in Ids, UserClose(i)
  PROVE  LinkInv'
<1> DEFINE own == sources[i] = daemon.inst
<1>1. /\ sources[i] # 0
      /\ hub' = [hub EXCEPT !.tomb = hub.tomb \cup {i}]
      /\ up' = IF link # "down" THEN Append(up, i) ELSE up
      /\ sources' = [sources EXCEPT ![i] = 0]
      /\ closed' = IF own THEN closed \cup {i} ELSE closed
      /\ early' = IF own /\ i \in fresh THEN early \cup {i} ELSE early
      /\ astray' = IF ~own /\ (link # "down" \/ hub.inst = daemon.inst)
                   THEN astray \cup {i} ELSE astray
      /\ fresh' = fresh \ {i}
      /\ UNCHANGED <<daemon, topo, late, link, att, router, waiter, nextReq, created, belated,
                     wronged>>
  BY DEF UserClose, Buried, Connected, Lands
<1>2. /\ Born(<<sources[i], i>>)
      /\ hub \in [last : Nat, inst : Nat, tomb : SUBSET Ids] /\ sources \in [Ids -> Nat]
      /\ up \in Seq(Int)
  BY <1>1 DEF LinkInv, BornInv, LinkTypes
<1>3. /\ own => hub.inst = daemon.inst
      /\ i \in Nat /\ (own => i < daemon.next)
  <2>1. sources[i] <= hub.inst /\ hub.inst \in 1..daemon.inst /\ daemon.inst \in Nat
    BY DEF LinkInv, SourcesInv, LinkTypes, Snapshot
  <2> QED BY <1>2, <2>1 DEF Born
<1> HIDE DEF own
<1>4. /\ hub' \in [last : Nat, inst : Nat, tomb : SUBSET Ids]
      /\ hub'.last = hub.last /\ hub'.inst = hub.inst /\ hub'.tomb = hub.tomb \cup {i}
  BY <1>1, <1>2
<1>5. /\ up' \in Seq(Int)
      /\ Range(up') = IF link # "down" THEN Range(up) \cup {i} ELSE Range(up)
  <2>1. CASE link # "down"
    <3>1. i \in Int /\ up' = Append(up, i)
      BY <1>1, <2>1 DEF Ids
    <3> QED BY <1>2, <2>1, <3>1, AppendRange, AppendProperties
  <2>2. CASE link = "down"
    BY <1>1, <1>2, <2>2
  <2> QED BY <2>1, <2>2
<1>6. /\ sources' \in [Ids -> Nat]
      /\ \A j \in Ids : sources'[j] = IF j = i THEN 0 ELSE sources[j]
  BY <1>1, <1>2
<1>7. Snaps' = Snaps
  BY <1>1 DEF Snaps
<1>8. LinkTypes'
  BY <1>1, <1>4, <1>5, <1>6 DEF LinkInv, LinkTypes
<1>9. SnapsInv'
  BY <1>1, <1>4, <1>7 DEF LinkInv, SnapsInv
<1>10. BornInv'
  <2>1. \A j \in Ids : sources'[j] # 0 => Born(<<sources'[j], j>>)
    BY <1>6 DEF LinkInv, BornInv
  <2>2. \A j \in closed' : j \in Nat /\ j < daemon.next
    BY <1>1, <1>3 DEF LinkInv, BornInv
  <2>3. \A j \in Ids : sources'[j] # 0 => Born(<<sources[j], j>>)'
    BY <1>1, <2>1 DEF Born
  <2>4. \A c \in created : Born(c[2])'
    BY <1>1 DEF LinkInv, BornInv, Born
  <2> QED BY <1>1, <2>2, <2>3, <2>4 DEF BornInv
<1>11. RouterInv' /\ SourcesInv'
  <2>1. RouterInv'
    BY <1>1 DEF LinkInv, RouterInv
  <2>2. ASSUME NEW j \in Ids
        PROVE  /\ sources'[j] <= hub.inst
               /\ \/ sources'[j] \in {0, hub.inst} \/ <<sources'[j], j>> \in belated
                  \/ router.on /\ j \in router.gone
    <3>1. 0 <= hub.inst
      BY <1>2
    <3> QED BY <1>6, <3>1 DEF LinkInv, SourcesInv
  <2>3. SourcesInv'
    BY <1>1, <1>4, <2>2 DEF LinkInv, SourcesInv
  <2> QED BY <2>1, <2>3
<1>12. ClosesInv'
  <2>1. /\ closed \subseteq closed' /\ astray \subseteq astray'
        /\ link # "down" \/ hub.inst = daemon.inst => i \in closed' \cup astray'
    BY <1>1
  <2>2. hub.inst = daemon.inst => hub'.tomb \subseteq closed' \cup astray'
    BY <1>4, <2>1 DEF LinkInv, ClosesInv
  <2>3. ASSUME NEW j \in Range(up') \cup Range(late'), j > 0
        PROVE  j \in closed' \cup astray'
    BY <1>1, <1>5, <2>1, <2>3 DEF LinkInv, ClosesInv
  <2>4. wronged' \subseteq astray'
    BY <1>1, <2>1 DEF LinkInv, ClosesInv
  <2> QED BY <1>1, <1>4, <2>2, <2>3, <2>4 DEF ClosesInv
<1>13. ASSUME NEW j, Gone(j)'
       PROVE  Gone(j) \/ (j = i /\ own /\ i \notin fresh)
  <2>1. j \in closed' /\ j \notin early'
    BY <1>13 DEF Gone
  <2>2. early \subseteq early' /\ (own /\ i \in fresh => i \in early')
    BY <1>1
  <2> QED BY <1>1, <2>1, <2>2 DEF Gone
<1>14. KnownInv'
  <2>1. ASSUME NEW j \in daemon.tabs, Known(j)' PROVE Known(j)
    <3>1. CASE Gone(j)'
      BY <1>13, <3>1 DEF Known, own
    <3>2. CASE sources'[j] = daemon.inst /\ j \in Ids \ fresh'
      <4>1. daemon.inst # 0
        BY DEF LinkInv, SourcesInv, LinkTypes, Snapshot
      <4> QED BY <1>1, <1>6, <3>2, <4>1 DEF Known
    <3>3. CASE router.on /\ j \in router.tabs
      BY <3>3 DEF Known
    <3> QED BY <1>1, <2>1, <3>1, <3>2, <3>3 DEF Known
  <2> QED BY <1>1, <1>4, <1>7, <2>1 DEF LinkInv, KnownInv
<1>15. GoneInv'
  <2>1. ASSUME NEW j \in daemon.tabs, Gone(j)'
        PROVE  /\ j \in hub'.tomb /\ hub'.inst = daemon.inst
               /\ link = "up" => j \in Range(up')
    <3>1. CASE Gone(j)
      BY <1>4, <1>5, <3>1 DEF LinkInv, GoneInv
    <3>2. CASE j = i /\ hub.inst = daemon.inst
      BY <1>4, <1>5, <3>2
    <3> QED BY <1>3, <1>13, <2>1, <3>1, <3>2
  <2> QED BY <1>1, <2>1 DEF GoneInv
<1>16. ViewInv'
  <2>1. ASSUME link = "up", hub.last = daemon.rev
        PROVE  IF router.on
               THEN /\ router.tabs \subseteq daemon.tabs
                    /\ daemon.tabs \ router.tabs \subseteq Range(up')
                    /\ \A j \in Ids : sources'[j] # 0 /\ j \notin fresh' =>
                                        j \in daemon.tabs \cup router.gone
               ELSE \A j \in Ids :
                      /\ sources'[j] # 0 /\ j \notin fresh' => j \in daemon.tabs
                      /\ j \in daemon.tabs /\ sources'[j] = 0 => j \in Range(up')
    <3>1. Range(up') = Range(up) \cup {i}
      BY <1>5, <2>1
    <3>2. CASE router.on
      BY <1>1, <1>6, <2>1, <3>1, <3>2 DEF LinkInv, ViewInv
    <3>3. CASE ~router.on
      BY <1>1, <1>6, <2>1, <3>1, <3>3 DEF LinkInv, ViewInv
    <3> QED BY <3>2, <3>3
  <2> QED BY <1>1, <1>4, <2>1 DEF ViewInv
<1> QED BY <1>8, <1>9, <1>10, <1>11, <1>12, <1>14, <1>15, <1>16 DEF LinkInv

-----------------------------------------------------------------------------
LEMMA InitLinkInv == LInit => LinkInv
<1> SUFFICES ASSUME LInit PROVE LinkInv
  OBVIOUS
<1>1. /\ daemon.inst = 1 /\ daemon.tabs = {1} /\ daemon.rev = 1 /\ daemon.next = 2
      /\ daemon \in Snapshot /\ att \in Snapshot
      /\ topo = <<>> /\ up = <<>> /\ late = <<>> /\ link = "up"
      /\ hub = [last |-> 1, inst |-> 1, tomb |-> {}] /\ router = NoWork
      /\ sources = [i \in Ids |-> IF i = 1 THEN 1 ELSE 0]
      /\ waiter = Idle /\ nextReq = 0
      /\ fresh = {} /\ created = {} /\ closed = {} /\ early = {} /\ wronged = {}
  BY DEF LInit, Snapshot, NoSnapshot
<1>2. Snaps = {}
  BY <1>1, NoElements DEF Snaps
<1>3. LinkTypes
  BY <1>1 DEF LinkTypes, Ids
<1>4. SnapsInv
  BY <1>1, <1>2 DEF SnapsInv
<1>5. BornInv
  BY <1>1 DEF BornInv, Born
<1>6. RouterInv /\ SourcesInv
  BY <1>1 DEF RouterInv, SourcesInv, NoWork, Idle, Ids
<1>7. ClosesInv
  BY <1>1, NoElements DEF ClosesInv
<1>8. KnownInv /\ GoneInv
  BY <1>1, <1>2 DEF KnownInv, GoneInv, Gone
<1>9. ViewInv
  BY <1>1 DEF ViewInv, NoWork
<1> QED BY <1>3, <1>4, <1>5, <1>6, <1>7, <1>8, <1>9 DEF LinkInv

LEMMA NextKeepsLink ==
  ASSUME LinkInv, AckInv, [LNext]_lvars
  PROVE  LinkInv'
<1>1. CASE \/ OthersOpen \/ (\E i \in Ids : OthersClose(i)) \/ ServeNext \/ ServeLate
           \/ NewTabIn \/ GiveUp \/ RouteAck \/ UNCHANGED lvars
  BY <1>1, RequestSteps
<1>2. CASE Drop
  BY <1>2, DropKeeps
<1>3. CASE Restart
  BY <1>3, RestartKeeps
<1>4. CASE Redial
  BY <1>4, RedialKeeps
<1>5. CASE Resync
  BY <1>5, ResyncKeeps
<1>6. CASE Gate
  BY <1>6, GateKeeps
<1>7. CASE Apply
  BY <1>7, ApplyKeeps
<1>8. CASE AdoptAck
  BY <1>8, AdoptAckKeeps
<1>9. ASSUME NEW i \in Ids, UserClose(i) PROVE LinkInv'
  BY <1>9, UserCloseKeeps
<1> QED BY <1>1, <1>2, <1>3, <1>4, <1>5, <1>6, <1>7, <1>8, <1>9 DEF LNext

LEMMA LinkAlways == LSpec => [](LinkInv /\ AckInv)
<1>1. LInit => LinkInv /\ AckInv
  BY InitLinkInv, InitAck
<1>2. LinkInv /\ AckInv /\ [LNext]_lvars => LinkInv' /\ AckInv'
  BY NextKeepsLink, NextKeepsAck
<1> QED BY <1>1, <1>2, PTL DEF LSpec

\* Over any number of lost connections and daemon restarts, with closes at any
\* moment of a resync: what the user closed is closed once nothing is on its
\* way, unless no snapshot had shown it, and a tab the daemon closes for this
\* client is one its user closed, or has the id that an astray close gave: a
\* close of a Source of another instance's tab, while the link or the hub was
\* already the running daemon's (noteInstance, reconcileTombstones).
THEOREM ClosesAreTheUsers == LSpec => []ClosesHitTheirTab
<1>1. LinkInv /\ AckInv => ClosesHitTheirTab
  <2> SUFFICES ASSUME LinkInv, AckInv PROVE OnlyStrayCloses /\ ClosedTabsGo
    BY DEF ClosesHitTheirTab
  <2>1. OnlyStrayCloses
    BY DEF LinkInv, ClosesInv, OnlyStrayCloses
  <2>2. ASSUME LinkRests, NEW i \in daemon.tabs, Gone(i) PROVE FALSE
    BY <2>2, NoElements DEF LinkInv, GoneInv, LinkRests
  <2> QED BY <2>1, <2>2 DEF ClosedTabsGo, Gone
<1> QED BY <1>1, LinkAlways, PTL

\* Once nothing is on its way the Sources are the tabs of the daemon that runs,
\* each of its instance, wherever closes, creates and restarts met
\* (resyncAfterReconnect, applyTopology, deliverTabCreated), but for a Source
\* adopted from an ack: of a closed tab that no snapshot has shown since, or of
\* an instance the hub had left, under the id of an open tab.
THEOREM RestingLinkAgrees == LSpec => []RestingSourcesAgree
<1>1. LinkInv /\ AckInv => RestingSourcesAgree
  <2> SUFFICES ASSUME LinkInv, AckInv, LinkRests, NEW i \in Ids
               PROVE  \/ sources[i] = (IF i \in daemon.tabs THEN daemon.inst ELSE 0)
                      \/ i \in fresh \ daemon.tabs
                      \/ i \in daemon.tabs /\ <<sources[i], i>> \in belated
    BY DEF RestingSourcesAgree
  <2>1. link = "up" /\ topo = <<>> /\ up = <<>> /\ ~router.on
    BY DEF LinkRests
  <2>2. hub.last = daemon.rev /\ hub.inst = daemon.inst
    BY <2>1, NoElements DEF LinkInv, SnapsInv, AckInv, Instances
  <2>3. /\ sources[i] # 0 /\ i \notin fresh => i \in daemon.tabs
        /\ i \in daemon.tabs => sources[i] # 0
    BY <2>1, <2>2, NoElements DEF LinkInv, ViewInv
  <2>4. sources[i] \in {0, daemon.inst} \/ <<sources[i], i>> \in belated
    BY <2>1, <2>2 DEF LinkInv, SourcesInv
  <2> QED BY <2>3, <2>4
<1> QED BY <1>1, LinkAlways, PTL

-----------------------------------------------------------------------------
(* The event ring, its followers and the search overlay.                     *)

USE RingConstants

-----------------------------------------------------------------------------
(* Slots.                                                                  *)

Slots == 0..Capacity-1

\* The slot i places after another, and that slots one turn apart differ.
LEMMA ModLow == \A c \in Nat \ {0} : \A a \in Nat : a < c => a % c = a
BY SMTT(30)

LEMMA ModHigh ==
  \A c \in Nat \ {0} : \A a \in Nat : a >= c /\ a < c + c => a % c = a - c
BY SMTT(30)

LEMMA SlotOf ==
  ASSUME NEW h \in Slots, NEW i \in 0..Capacity
  PROVE  /\ (h + i) % Capacity \in Slots
         /\ (h + i) % Capacity = IF h + i < Capacity THEN h + i ELSE (h + i) - Capacity
<1>1. /\ Capacity \in Nat \ {0} /\ h + i \in Nat
      /\ h + i < Capacity + Capacity
  BY DEF Slots
<1>2. CASE h + i < Capacity
  <2>1. (h + i) % Capacity = h + i
    BY <1>1, <1>2, ModLow DEF Slots
  <2> QED BY <1>1, <1>2, <2>1 DEF Slots
<1>3. CASE ~(h + i < Capacity)
  <2> DEFINE a == h + i
  <2>1. a \in Nat /\ a >= Capacity /\ a < Capacity + Capacity
    BY <1>1, <1>3
  <2> HIDE DEF a
  <2>2. a % Capacity = a - Capacity
    BY <2>1, ModHigh
  <2>3. (h + i) % Capacity = (h + i) - Capacity
    BY <2>2 DEF a
  <2> QED BY <1>1, <1>3, <2>3 DEF Slots
<1> QED BY <1>2, <1>3

\* Different places behind the head are different slots.
LEMMA SlotsDiffer ==
  ASSUME NEW h \in Slots, NEW i \in 0..Capacity-1, NEW j \in 0..Capacity-1, i # j
  PROVE  (h + i) % Capacity # (h + j) % Capacity
<1>1. i \in 0..Capacity /\ j \in 0..Capacity
  OBVIOUS
<1>2. /\ (h + i) % Capacity = IF h + i < Capacity THEN h + i ELSE (h + i) - Capacity
      /\ (h + j) % Capacity = IF h + j < Capacity THEN h + j ELSE (h + j) - Capacity
  BY <1>1, SlotOf
<1> QED BY <1>2 DEF Slots

\* Counting from the next slot.
LEMMA SlotNext ==
  ASSUME NEW h \in Slots, NEW i \in 0..Capacity-1
  PROVE  /\ (h + 1) % Capacity \in Slots
         /\ (((h + 1) % Capacity) + i) % Capacity = (h + (i + 1)) % Capacity
<1> DEFINE n == (h + 1) % Capacity
<1>1. n \in Slots /\ n = IF h + 1 < Capacity THEN h + 1 ELSE (h + 1) - Capacity
  BY SlotOf DEF Slots
<1>2. (n + i) % Capacity = IF n + i < Capacity THEN n + i ELSE (n + i) - Capacity
  <2> HIDE DEF n
  <2>1. i \in 0..Capacity
    OBVIOUS
  <2> QED BY <1>1, <2>1, SlotOf
<1>3. (h + (i + 1)) % Capacity = IF h + (i + 1) < Capacity THEN h + (i + 1) ELSE (h + (i + 1)) - Capacity
  <2>1. i + 1 \in 0..Capacity
    OBVIOUS
  <2> QED BY <2>1, SlotOf
<1> HIDE DEF n
<1>4. (n + i) % Capacity = (h + (i + 1)) % Capacity
  BY <1>1, <1>2, <1>3 DEF Slots
<1> QED BY <1>1, <1>4 DEF n

-----------------------------------------------------------------------------
(* The ring.                                                               *)

\* The shape of the ring and of the logs, which no step leaves.
RingTyped ==
  /\ buf = [i \in Slots |-> buf[i]]
  /\ last \in Nat /\ count <= last /\ wakes \in Nat
  /\ logs \in Seq(Seq(Topics)) /\ Epoch >= 1

RingInv == RingTyped /\ RingHoldsTail

LEMMA RingFacts ==
  ASSUME RingInv
  PROVE  /\ head \in Slots /\ count \in 0..Capacity
         /\ last \in Nat /\ last = Len(logs[Epoch]) /\ count <= last
         /\ count # Capacity => count \in 0..Capacity-1 /\ count = last
         /\ buf = [i \in Slots |-> buf[i]]
<1>1. /\ head \in Slots /\ count \in 0..Capacity
      /\ last = Len(logs[Epoch]) /\ (count = Capacity \/ count = last)
  BY DEF RingInv, RingHoldsTail, Slots
<1>2. last \in Nat /\ count <= last /\ buf = [i \in Slots |-> buf[i]]
  BY DEF RingInv, RingTyped
<1> QED BY <1>1, <1>2

\* The log of the process that runs grows by the event, the others stay.
LEMMA LogGrows ==
  ASSUME RingInv, NEW t \in Topics, Append1(t)
  PROVE  /\ logs' \in Seq(Seq(Topics)) /\ Epoch' = Epoch
         /\ logs'[Epoch] = Append(logs[Epoch], t)
         /\ Len(logs'[Epoch]) = last + 1
         /\ logs'[Epoch][last + 1] = t
         /\ \A s \in 1..last : logs'[Epoch][s] = logs[Epoch][s]
         /\ \A p \in 1..Epoch : p # Epoch => logs'[p] = logs[p]
<1>1. Epoch \in 1..Len(logs) /\ Epoch \in DOMAIN logs /\ logs[Epoch] \in Seq(Topics)
  BY LenProperties, ElementOfSeq DEF RingInv, RingTyped, Epoch
<1>2. Append(logs[Epoch], t) \in Seq(Topics)
  BY <1>1, AppendProperties
<1>3. logs' = [logs EXCEPT ![Epoch] = Append(logs[Epoch], t)]
  BY DEF Append1
<1>4. logs' \in Seq(Seq(Topics)) /\ Len(logs') = Len(logs)
  BY <1>1, <1>2, <1>3, ExceptSeq DEF RingInv, RingTyped
<1>5. /\ logs'[Epoch] = Append(logs[Epoch], t)
      /\ \A p \in 1..Epoch : p # Epoch => logs'[p] = logs[p]
  BY <1>1, <1>2, <1>3, ExceptSeq DEF RingInv, RingTyped, Epoch
<1>6. Len(logs[Epoch]) = last /\ last \in Nat
  BY DEF RingInv, RingTyped, RingHoldsTail
<1>7. /\ Len(logs'[Epoch]) = last + 1
      /\ logs'[Epoch][last + 1] = t
      /\ \A s \in 1..last : logs'[Epoch][s] = logs[Epoch][s]
  BY <1>1, <1>5, <1>6, AppendProperties
<1> QED BY <1>4, <1>5, <1>7 DEF Epoch

\* A ring with room takes the event behind the others.
LEMMA AppendWithRoom ==
  ASSUME RingInv, NEW t \in Topics, Append1(t), count # Capacity
  PROVE  RingHoldsTail'
<1>1. /\ head \in Slots /\ count \in 0..Capacity-1 /\ last \in Nat
      /\ count = last /\ buf = [i \in Slots |-> buf[i]]
  BY RingFacts
<1>2. /\ head' = head /\ count' = count + 1 /\ last' = last + 1
      /\ buf' = [buf EXCEPT ![(head + count) % Capacity] = [seq |-> last + 1, topic |-> t]]
  BY <1>1 DEF Append1, NextHead
<1>3. ASSUME NEW i \in 0..count
      PROVE  buf'[(head + i) % Capacity] =
               [seq |-> i + 1, topic |-> logs'[Epoch][i + 1]]
  <2>1. i \in 0..Capacity-1 /\ i \in 0..Capacity /\ count \in 0..Capacity
    BY <1>1
  <2>2. (head + i) % Capacity \in Slots /\ (head + count) % Capacity \in Slots
    BY <1>1, <2>1, SlotOf
  <2>3. CASE i = count
    BY <1>1, <1>2, <2>2, <2>3, LogGrows
  <2>4. CASE i # count
    <3>1. i \in 0..count-1 /\ i + 1 \in 1..last
      BY <1>1, <2>4
    <3>2. buf'[(head + i) % Capacity] = buf[(head + i) % Capacity]
      BY <1>1, <1>2, <2>1, <2>2, <2>4, SlotsDiffer
    <3>3. buf[(head + i) % Capacity] =
            [seq |-> last - count + 1 + i, topic |-> logs[Epoch][last - count + 1 + i]]
      BY <3>1 DEF RingInv, RingHoldsTail
    <3>4. last - count + 1 + i = i + 1
      BY <1>1
    <3>5. logs'[Epoch][i + 1] = logs[Epoch][i + 1]
      BY <3>1, LogGrows
    <3> QED BY <3>2, <3>3, <3>4, <3>5
  <2> QED BY <2>3, <2>4
<1>4. /\ last' = Len(logs'[Epoch']) /\ Epoch' = Epoch
      /\ head' \in 0..Capacity-1 /\ count' \in 0..Capacity /\ count' = last'
  BY <1>1, <1>2, LogGrows DEF Slots
<1>5. \A i \in 0..count'-1 : i \in 0..count /\ last' - count' + 1 + i = i + 1
  BY <1>1, <1>2
<1>6. ASSUME NEW i \in 0..count'-1
      PROVE  buf'[(head' + i) % Capacity] =
               [seq |-> last' - count' + 1 + i,
                topic |-> logs'[Epoch'][last' - count' + 1 + i]]
  BY <1>2, <1>3, <1>4, <1>5
<1> QED BY <1>4, <1>6 DEF RingHoldsTail

\* A full ring gives up the oldest event and its slot.
LEMMA AppendWhenFull ==
  ASSUME RingInv, NEW t \in Topics, Append1(t), count = Capacity
  PROVE  RingHoldsTail'
<1> DEFINE C == Capacity
<1>1. /\ head \in Slots /\ last \in Nat
      /\ buf = [i \in Slots |-> buf[i]]
      /\ last = Len(logs[Epoch]) /\ last >= C
  BY RingFacts
<1>2. /\ head' = (head + 1) % C /\ count' = C /\ last' = last + 1
      /\ buf' = [buf EXCEPT ![(head + C) % C] = [seq |-> last + 1, topic |-> t]]
  BY DEF Append1, NextHead
<1>3. (head + C) % C = head
  <2>1. C \in 0..C /\ ~(head + C < C) /\ (head + C) - C = head
    BY <1>1 DEF Slots
  <2> QED BY <1>1, <2>1, SlotOf
<1>4. head' \in Slots
  BY <1>1, <1>2, SlotNext DEF Slots
<1>5. ASSUME NEW i \in 0..C-1
      PROVE  buf'[(head' + i) % C] =
               [seq |-> last' - C + 1 + i, topic |-> logs'[Epoch][last' - C + 1 + i]]
  <2>1. (head' + i) % C = (head + (i + 1)) % C
    BY <1>1, <1>2, SlotNext
  <2>2. CASE i = C-1
    <3>1. (head' + i) % C = head /\ last' - C + 1 + i = last + 1
      BY <1>1, <1>2, <1>3, <2>1, <2>2
    <3>2. buf'[head] = [seq |-> last + 1, topic |-> t]
      BY <1>1, <1>2, <1>3
    <3> QED BY <3>1, <3>2, LogGrows
  <2>3. CASE i # C-1
    <3>1. i + 1 \in 0..C-1 /\ 0 \in 0..C-1 /\ i + 1 # 0 /\ i + 1 \in 0..C
      BY <2>3
    <3>2. (head + (i + 1)) % C # (head + 0) % C /\ (head + (i + 1)) % C \in Slots
      BY <1>1, <3>1, SlotsDiffer, SlotOf
    <3>3. (head + 0) % C = head
      <4>1. 0 \in 0..C /\ head + 0 < C /\ head + 0 = head
        BY <1>1 DEF Slots
      <4> QED BY <1>1, <4>1, SlotOf
    <3>4. buf'[(head + (i + 1)) % C] = buf[(head + (i + 1)) % C]
      BY <1>1, <1>2, <1>3, <3>2, <3>3
    <3>5. buf[(head + (i + 1)) % C] =
            [seq |-> last - C + 1 + (i + 1), topic |-> logs[Epoch][last - C + 1 + (i + 1)]]
      BY <3>1 DEF RingInv, RingHoldsTail
    <3>6. /\ last - C + 1 + (i + 1) = last' - C + 1 + i
          /\ last' - C + 1 + i \in 1..last
      <4>1. /\ last' = last + 1 /\ last \in Nat /\ C \in Nat /\ last >= C
            /\ i \in Nat /\ i + 1 < C
        BY <1>1, <1>2, <2>3
      <4> HIDE DEF C
      <4> QED BY <4>1
    <3>7. logs'[Epoch][last' - C + 1 + i] = logs[Epoch][last' - C + 1 + i]
      BY <3>6, LogGrows
    <3> QED BY <2>1, <3>4, <3>5, <3>6, <3>7
  <2> QED BY <2>2, <2>3
<1>6. last' = Len(logs'[Epoch']) /\ Epoch' = Epoch
  BY <1>1, <1>2, LogGrows
<1> QED BY <1>2, <1>4, <1>5, <1>6 DEF RingHoldsTail, Slots

LEMMA AppendKeepsRing ==
  ASSUME RingInv, NEW t \in Topics, Append1(t)
  PROVE  RingInv'
<1>1. RingHoldsTail'
  BY AppendWithRoom, AppendWhenFull
<1>2. last' = last + 1 /\ count' <= last' /\ wakes' \in Nat
  BY RingFacts DEF Append1, CloseChanged, RingInv, RingTyped
<1>3. buf' = [i \in Slots |-> buf'[i]]
  BY RingFacts DEF Append1
<1>4. logs' \in Seq(Seq(Topics)) /\ Epoch' = Epoch
  BY LogGrows
<1> QED BY <1>1, <1>2, <1>3, <1>4, RingFacts DEF RingInv, RingTyped

\* The log of a new process is the last one, and empty.
LEMMA LogStarts ==
  ASSUME RingInv, NewProcess
  PROVE  /\ logs' \in Seq(Seq(Topics))
         /\ Epoch' = Epoch + 1 /\ Epoch \in Nat
         /\ logs'[Epoch'] = <<>> /\ Len(logs'[Epoch']) = 0
         /\ \A p \in 1..Epoch : logs'[p] = logs[p]
<1>1. logs \in Seq(Seq(Topics)) /\ <<>> \in Seq(Topics) /\ logs' = Append(logs, <<>>)
  BY DEF RingInv, RingTyped, NewProcess
<1> QED BY <1>1, AppendProperties, LenProperties DEF Epoch

LEMMA NewProcessKeepsRing ==
  ASSUME RingInv, NewProcess
  PROVE  RingInv'
<1>1. /\ buf' = [i \in Slots |-> Empty]
      /\ head' = 0 /\ count' = 0 /\ last' = 0 /\ wakes' = 0
  BY DEF NewProcess, Slots
<1>2. RingHoldsTail'
  BY <1>1, LogStarts DEF RingHoldsTail
<1>3. buf' = [i \in Slots |-> buf'[i]]
  BY <1>1
<1>4. Epoch' >= 1 /\ logs' \in Seq(Seq(Topics))
  BY LogStarts
<1> QED BY <1>1, <1>2, <1>3, <1>4 DEF RingInv, RingTyped

LEMMA InitRing == EInit => RingInv
<1> SUFFICES ASSUME EInit PROVE RingInv
  OBVIOUS
<1>1. /\ buf = [i \in Slots |-> Empty] /\ logs = << <<>> >>
      /\ head = 0 /\ count = 0 /\ last = 0 /\ wakes = 0
  BY DEF EInit, Slots
<1>2. buf = [i \in Slots |-> buf[i]]
  BY <1>1
<1>3. Len(logs) = 1 /\ logs[1] = <<>> /\ logs \in Seq(Seq(Topics)) /\ Len(logs[1]) = 0
  BY <1>1
<1>4. RingHoldsTail
  BY <1>1, <1>3 DEF RingHoldsTail, Epoch
<1> QED BY <1>1, <1>2, <1>3, <1>4 DEF RingInv, RingTyped, Epoch

ringVars == <<buf, head, count, last, wakes, logs>>

LEMMA NextKeepsRing == RingInv /\ [ENext]_rvars => RingInv'
<1> SUFFICES ASSUME RingInv, [ENext]_rvars PROVE RingInv'
  OBVIOUS
<1>1. CASE \E t \in Topics : Append1(t)
  BY <1>1, AppendKeepsRing
<1>2. CASE NewProcess
  BY <1>2, NewProcessKeepsRing
<1>3. CASE UNCHANGED ringVars
  BY <1>3 DEF ringVars, RingInv, RingTyped, RingHoldsTail, Epoch
<1>4. CASE \E r \in Readers : ReadNow(r) \/ Park(r) \/ Woken(r) \/ Expire(r) \/ HangUp(r)
  BY <1>3, <1>4 DEF ReadNow, Park, Woken, Expire, HangUp, ringVars
<1>5. CASE UNCHANGED rvars
  BY <1>3, <1>5 DEF rvars, ringVars
<1> QED BY <1>1, <1>2, <1>4, <1>5 DEF ENext

\* Ring.Append keeps exactly the newest events, each where sinceLocked looks
\* for it, however often the ring wraps and whatever process it belongs to.
THEOREM RingCorrect == ESpec => []RingHoldsTail
<1>1. EInit => RingInv
  BY InitRing
<1>2. RingInv /\ [ENext]_rvars => RingInv'
  BY NextKeepsRing
<1>3. RingInv => RingHoldsTail
  BY DEF RingInv
<1> QED BY <1>1, <1>2, <1>3, PTL DEF ESpec

-----------------------------------------------------------------------------
(* The readers.                                                            *)

\* The events behind a reader's cursor that it asked for.
Passed(r) ==
  {e \in Logged : /\ TopicOf(e) \in Filter[r] /\ e[1] >= reader[r].since
                  /\ \/ e[1] < reader[r].epoch
                     \/ e[1] = reader[r].epoch /\ e[2] <= reader[r].after}

\* A cursor is of a process that has been, and of events that have happened; a
\* reader counts from the first process that answered it.
CursorRecord == [at : {"idle", "parked", "check"}, epoch : Nat, after : Nat,
                 chan : Nat, since : Nat]
CursorTyped ==
  /\ reader \in [Readers -> CursorRecord]
  /\ got = [r \in Readers |-> got[r]]
  /\ lost = [r \in Readers |-> lost[r]]
Cursor(r) ==
  /\ reader[r].epoch <= Epoch
  /\ reader[r].epoch = NoEpoch => reader[r].since = NoEpoch /\ reader[r].after = 0
  /\ reader[r].since = NoEpoch => reader[r].epoch = NoEpoch
  /\ reader[r].epoch = Epoch => reader[r].after <= last

GapInv ==
  /\ RingInv /\ CursorTyped
  /\ \A r \in Readers : Cursor(r) /\ Passed(r) \subseteq got[r] \cup lost[r]

LEMMA LoggedPairs ==
  ASSUME NEW e \in Logged
  PROVE  \E p \in 1..Epoch : \E s \in 1..Len(logs[p]) : e = <<p, s>>
BY DEF Logged

LEMMA PairsLogged ==
  ASSUME NEW p \in 1..Epoch, NEW s \in 1..Len(logs[p])
  PROVE  <<p, s>> \in Logged
BY DEF Logged

\* An answer tells the reader of every event it asked for up to the newest,
\* or that there were some.
LEMMA DeliverCovers ==
  ASSUME GapInv, NEW r \in Readers, Deliver(r), UNCHANGED ringVars
  PROVE  Cursor(r)' /\ Passed(r)' \subseteq got'[r] \cup lost'[r]
<1> DEFINE res == {<<Epoch, x.seq>> : x \in Since(r, From(r))}
           c == reader[r]
<1>1. /\ c \in CursorRecord
      /\ c.epoch \in Nat /\ c.after \in Nat /\ c.since \in Nat
      /\ Cursor(r) /\ Passed(r) \subseteq got[r] \cup lost[r]
      /\ Epoch \in Nat /\ Epoch >= 1
  BY LenProperties DEF GapInv, CursorTyped, CursorRecord, RingInv, RingTyped, Epoch
<1>2. logs' = logs /\ last' = last /\ Epoch' = Epoch /\ Logged' = Logged
  BY DEF ringVars, Epoch, Logged
<1>3. reader'[r] = [at |-> "idle", epoch |-> Epoch, after |-> last, chan |-> 0,
                    since |-> IF c.since = NoEpoch THEN Epoch ELSE c.since]
  BY DEF Deliver, GapInv, CursorTyped, CursorRecord
<1>4. got'[r] = got[r] \cup res
  BY DEF Deliver, GapInv, CursorTyped, CursorRecord
<1>5. lost[r] \subseteq lost'[r]
  BY DEF Deliver, GapInv, CursorTyped, CursorRecord
<1>6. last \in Nat /\ last = Len(logs[Epoch])
  BY RingFacts DEF GapInv
<1>7. Cursor(r)'
  BY <1>1, <1>2, <1>3, <1>6 DEF Cursor, NoEpoch
<1>8. ASSUME NEW e \in Passed(r)'
      PROVE  e \in got'[r] \cup lost'[r]
  <2>1. PICK p \in 1..Epoch : \E s \in 1..Len(logs[p]) : e = <<p, s>>
    BY <1>2, LoggedPairs DEF Passed
  <2>2. PICK s \in 1..Len(logs[p]) : e = <<p, s>>
    BY <2>1
  <2>3. /\ e \in Logged /\ e[1] = p /\ e[2] = s /\ TopicOf(e) = logs[p][s]
        /\ TopicOf(e) \in Filter[r] /\ p >= reader'[r].since
    BY <1>2, <2>2 DEF Passed, TopicOf
  <2>4. CASE Missed(r)
    <3>1. lost'[r] = lost[r] \cup (({x \in Logged : TopicOf(x) \in Filter[r]} \ res) \ got[r])
      BY <2>4 DEF Deliver, GapInv, CursorTyped
    <3> QED BY <1>4, <2>3, <3>1
  <2>5. CASE ~Missed(r)
    <3>1. /\ c.epoch \in {NoEpoch, Epoch} /\ c.after <= last
          /\ From(r) = c.after /\ ~Overwritten(c.after)
      BY <1>1, <1>6, <2>5 DEF Missed, Foreign, From
    <3>2. CASE e \in Passed(r)
      BY <1>1, <1>4, <1>5, <3>2
    <3>3. CASE e \notin Passed(r)
      <4>1. p = Epoch /\ s > c.after /\ s <= last
        BY <1>1, <1>3, <1>6, <2>1, <2>2, <2>3, <3>1, <3>3 DEF Passed, Cursor, NoEpoch
      <4>2. s \in Nat /\ s >= 1 /\ last - count < s /\ count \in 0..Capacity
        <5>1. /\ count \in 0..Capacity /\ count <= last /\ last \in Nat
              /\ count # Capacity => count = last
          BY RingFacts DEF GapInv
        <5>2. s \in Nat /\ s >= 1 /\ c.after \in Nat
          BY <1>1, <1>6, <2>2, <4>1
        <5> HIDE DEF c
        <5> QED BY <3>1, <4>1, <5>1, <5>2 DEF Overwritten
      <4> DEFINE i == s - (last - count + 1)
      <4>3. i \in 0..count-1 /\ last - count + 1 + i = s
        <5>1. last \in Nat /\ count \in Nat /\ s <= last
          BY <1>6, <4>1, <4>2
        <5> QED BY <4>2, <5>1
      <4>4. buf[(head + i) % Capacity] = [seq |-> s, topic |-> logs[Epoch][s]]
        <5> HIDE DEF i
        <5> QED BY <4>3 DEF GapInv, RingInv, RingHoldsTail
      <4>5. [seq |-> s, topic |-> logs[Epoch][s]] \in Held
        <5> HIDE DEF i
        <5> QED BY <4>3, <4>4 DEF Held
      <4>6. [seq |-> s, topic |-> logs[Epoch][s]] \in Since(r, From(r))
        BY <2>3, <3>1, <4>1, <4>5 DEF Since
      <4>7. e \in res
        BY <2>2, <4>1, <4>6
      <4> QED BY <1>4, <4>7
    <3> QED BY <3>2, <3>3
  <2> QED BY <2>4, <2>5
<1> QED BY <1>7, <1>8

\* A new event is ahead of every cursor.
LEMMA AppendCovers ==
  ASSUME GapInv, NEW t \in Topics, Append1(t), NEW r \in Readers
  PROVE  Cursor(r)' /\ Passed(r)' \subseteq got'[r] \cup lost'[r]
<1>1. /\ Cursor(r) /\ Passed(r) \subseteq got[r] \cup lost[r]
      /\ reader' = reader /\ got' = got /\ lost' = lost
      /\ reader[r].epoch \in Nat /\ reader[r].after \in Nat
  BY DEF GapInv, CursorTyped, CursorRecord, Append1
<1>2. /\ Epoch' = Epoch /\ Epoch \in Nat /\ Epoch >= 1
      /\ last \in Nat /\ last' = last + 1 /\ last = Len(logs[Epoch])
      /\ Len(logs'[Epoch]) = last + 1
      /\ \A s \in 1..last : logs'[Epoch][s] = logs[Epoch][s]
      /\ \A p \in 1..Epoch : p # Epoch => logs'[p] = logs[p]
  BY LogGrows, RingFacts, LenProperties DEF GapInv, RingInv, RingTyped, Append1, Epoch
<1>3. Cursor(r)'
  BY <1>1, <1>2 DEF Cursor
<1>4. ASSUME NEW e \in Passed(r)'
      PROVE  e \in Passed(r)
  <2>1. PICK p \in 1..Epoch : \E s \in 1..Len(logs'[p]) : e = <<p, s>>
    BY <1>2 DEF Passed, Logged
  <2>2. PICK s \in 1..Len(logs'[p]) : e = <<p, s>>
    BY <2>1
  <2>3. /\ TopicOf(e)' \in Filter[r] /\ p >= reader[r].since
        /\ p < reader[r].epoch \/ (p = reader[r].epoch /\ s <= reader[r].after)
    BY <1>1, <2>2 DEF Passed
  <2>4. s \in 1..Len(logs[p]) /\ logs'[p][s] = logs[p][s]
    <3>1. CASE p # Epoch
      BY <1>2, <2>1, <2>2, <3>1
    <3>2. CASE p = Epoch
      <4>1. s <= last
        BY <1>1, <1>2, <2>3, <3>2 DEF Cursor
      <4>2. s \in 1..last
        BY <1>2, <2>2, <3>2, <4>1
      <4> QED BY <1>2, <3>2, <4>2
    <3> QED BY <3>1, <3>2
  <2>5. e \in Logged
    BY <2>1, <2>2, <2>4, PairsLogged
  <2>6. TopicOf(e) = TopicOf(e)'
    BY <2>2, <2>4 DEF TopicOf
  <2> QED BY <2>2, <2>3, <2>5, <2>6 DEF Passed
<1> QED BY <1>1, <1>3, <1>4

\* A new process starts an empty log, ahead of every cursor.
LEMMA NewProcessCovers ==
  ASSUME GapInv, NewProcess, NEW r \in Readers
  PROVE  Cursor(r)' /\ Passed(r)' \subseteq got'[r] \cup lost'[r]
<1>1. /\ Cursor(r) /\ Passed(r) \subseteq got[r] \cup lost[r]
      /\ reader'[r].epoch = reader[r].epoch /\ reader'[r].after = reader[r].after
      /\ reader'[r].since = reader[r].since
      /\ got' = got /\ lost' = lost
      /\ reader[r].epoch \in Nat /\ reader[r].after \in Nat
  BY DEF GapInv, CursorTyped, CursorRecord, NewProcess
<1>2. /\ Epoch' = Epoch + 1 /\ Epoch \in Nat /\ Len(logs'[Epoch']) = 0
      /\ \A p \in 1..Epoch : logs'[p] = logs[p]
  BY LogStarts DEF GapInv
<1>3. Cursor(r)'
  BY <1>1, <1>2 DEF Cursor
<1>4. ASSUME NEW e \in Passed(r)'
      PROVE  e \in Passed(r)
  <2>1. PICK p \in 1..Epoch' : \E s \in 1..Len(logs'[p]) : e = <<p, s>>
    BY DEF Passed, Logged
  <2>2. PICK s \in 1..Len(logs'[p]) : e = <<p, s>>
    BY <2>1
  <2>3. p # Epoch'
    BY <1>2, <2>2
  <2>4. p \in 1..Epoch /\ logs'[p] = logs[p]
    BY <1>2, <2>1, <2>3
  <2>5. e \in Logged
    BY <2>2, <2>4, PairsLogged
  <2>6. TopicOf(e) = TopicOf(e)'
    BY <2>2, <2>4 DEF TopicOf
  <2> QED BY <1>1, <2>5, <2>6 DEF Passed
<1> QED BY <1>1, <1>3, <1>4

\* Steps that move no cursor.
LEMMA WaitCovers ==
  ASSUME GapInv, NEW r \in Readers, Park(r) \/ Woken(r) \/ HangUp(r)
  PROVE  GapInv'
<1>1. RingInv' /\ UNCHANGED <<ringVars, got, lost>>
  BY NextKeepsRing DEF Park, Woken, HangUp, ENext, GapInv, ringVars
<1>2. wakes \in Nat /\ reader \in [Readers -> CursorRecord]
  BY DEF GapInv, RingInv, RingTyped, CursorTyped, CursorRecord
<1>3. PICK c \in CursorRecord :
        /\ reader' = [reader EXCEPT ![r] = c]
        /\ c.epoch = reader[r].epoch /\ c.after = reader[r].after
        /\ c.since = reader[r].since
  <2>1. CASE Park(r)
    <3> DEFINE c == [reader[r] EXCEPT !.at = "parked", !.chan = wakes]
    <3>1. c \in CursorRecord /\ c.epoch = reader[r].epoch
          /\ c.after = reader[r].after /\ c.since = reader[r].since
      BY <1>2 DEF CursorRecord
    <3>2. reader' = [reader EXCEPT ![r] = c]
      BY <1>2, <2>1 DEF Park
    <3> QED BY <3>1, <3>2
  <2>2. CASE Woken(r)
    <3> DEFINE c == [reader[r] EXCEPT !.at = "check"]
    <3>1. c \in CursorRecord /\ c.epoch = reader[r].epoch
          /\ c.after = reader[r].after /\ c.since = reader[r].since
      BY <1>2 DEF CursorRecord
    <3>2. reader' = [reader EXCEPT ![r] = c]
      BY <1>2, <2>2 DEF Woken
    <3> QED BY <3>1, <3>2
  <2>3. CASE HangUp(r)
    <3> DEFINE c == [reader[r] EXCEPT !.at = "idle"]
    <3>1. c \in CursorRecord /\ c.epoch = reader[r].epoch
          /\ c.after = reader[r].after /\ c.since = reader[r].since
      BY <1>2 DEF CursorRecord
    <3>2. reader' = [reader EXCEPT ![r] = c]
      BY <1>2, <2>3 DEF HangUp
    <3> QED BY <3>1, <3>2
  <2> QED BY <2>1, <2>2, <2>3
<1>4. reader' \in [Readers -> CursorRecord] /\ got' = got /\ lost' = lost
  BY <1>1, <1>2, <1>3
<1>5. CursorTyped'
  BY <1>4 DEF GapInv, CursorTyped, CursorRecord
<1>6. \A q \in Readers : /\ reader'[q].epoch = reader[q].epoch
                         /\ reader'[q].after = reader[q].after
                         /\ reader'[q].since = reader[q].since
  BY <1>2, <1>3
<1>7. last' = last /\ Epoch' = Epoch /\ Logged' = Logged /\ logs' = logs
  BY <1>1 DEF ringVars, Epoch, Logged
<1>8. \A q \in Readers : Cursor(q)'
  BY <1>6, <1>7 DEF GapInv, Cursor
<1>9. \A q \in Readers : Passed(q)' = Passed(q)
  BY <1>6, <1>7 DEF Passed, TopicOf
<1> QED BY <1>1, <1>4, <1>5, <1>8, <1>9 DEF GapInv

\* An answer to one reader.
LEMMA DeliverKeeps ==
  ASSUME GapInv, NEW r \in Readers, Deliver(r), UNCHANGED ringVars
  PROVE  GapInv'
<1>1. RingInv'
  BY DEF GapInv, RingInv, RingTyped, RingHoldsTail, ringVars, Epoch
<1> DEFINE c == [at |-> "idle", epoch |-> Epoch, after |-> last, chan |-> 0,
                 since |-> IF reader[r].since = NoEpoch THEN Epoch ELSE reader[r].since]
<1>2. /\ reader \in [Readers -> CursorRecord]
      /\ got = [q \in Readers |-> got[q]] /\ lost = [q \in Readers |-> lost[q]]
      /\ reader[r].since \in Nat /\ last \in Nat
  BY DEF GapInv, CursorTyped, CursorRecord, RingInv, RingTyped
<1>3. Epoch \in Nat
  BY LenProperties DEF GapInv, RingInv, RingTyped, Epoch
<1>4. c \in CursorRecord
  BY <1>2, <1>3 DEF CursorRecord
<1>5. reader' = [reader EXCEPT ![r] = c]
  BY <1>2 DEF Deliver
<1>6. /\ got' = [q \in Readers |-> got'[q]] /\ lost' = [q \in Readers |-> lost'[q]]
      /\ \A q \in Readers : q # r => got'[q] = got[q] /\ lost'[q] = lost[q]
  BY <1>2 DEF Deliver
<1>7. reader' \in [Readers -> CursorRecord] /\ \A q \in Readers : q # r => reader'[q] = reader[q]
  <2> HIDE DEF c
  <2> QED BY <1>2, <1>4, <1>5
<1>8. CursorTyped'
  BY <1>6, <1>7 DEF CursorTyped, CursorRecord
<1>9. ASSUME NEW q \in Readers, q # r
      PROVE  Cursor(q)' /\ Passed(q)' \subseteq got'[q] \cup lost'[q]
  <2>1. last' = last /\ Epoch' = Epoch /\ Logged' = Logged /\ logs' = logs
    BY DEF ringVars, Epoch, Logged
  <2>2. Cursor(q)'
    BY <1>7, <1>9, <2>1 DEF GapInv, Cursor
  <2>3. Passed(q)' = Passed(q)
    BY <1>7, <1>9, <2>1 DEF Passed, TopicOf
  <2> QED BY <1>6, <1>9, <2>2, <2>3 DEF GapInv
<1>10. Cursor(r)' /\ Passed(r)' \subseteq got'[r] \cup lost'[r]
  BY DeliverCovers
<1>11. \A q \in Readers : Cursor(q)' /\ Passed(q)' \subseteq got'[q] \cup lost'[q]
  BY <1>9, <1>10
<1> QED BY <1>1, <1>8, <1>11 DEF GapInv

LEMMA InitGap == EInit => GapInv
<1> SUFFICES ASSUME EInit PROVE GapInv
  OBVIOUS
<1>1. /\ reader = [r \in Readers |-> Blank] /\ logs = << <<>> >>
      /\ got = [r \in Readers |-> {}] /\ lost = [r \in Readers |-> {}] /\ last = 0
  BY DEF EInit
<1>2. CursorTyped
  BY <1>1 DEF CursorTyped, CursorRecord, Blank, NoEpoch
<1>3. Len(logs) = 1 /\ Len(logs[1]) = 0
  BY <1>1
<1>4. \A r \in Readers : Cursor(r)
  BY <1>1, <1>3 DEF Cursor, Blank, NoEpoch, Epoch
<1>5. Logged = {}
  BY <1>3 DEF Logged, Epoch
<1>6. \A r \in Readers : Passed(r) \subseteq got[r] \cup lost[r]
  BY <1>5 DEF Passed
<1> QED BY <1>2, <1>4, <1>6, InitRing DEF GapInv

LEMMA NextKeepsGap == GapInv /\ [ENext]_rvars => GapInv'
<1> SUFFICES ASSUME GapInv, [ENext]_rvars PROVE GapInv'
  OBVIOUS
<1>1. RingInv'
  BY NextKeepsRing DEF GapInv
<1>2. ASSUME NEW t \in Topics, Append1(t) PROVE GapInv'
  <2>1. CursorTyped'
    BY <1>2 DEF Append1, GapInv, CursorTyped
  <2> QED BY <1>1, <1>2, <2>1, AppendCovers DEF GapInv
<1>3. CASE NewProcess
  <2>1. /\ reader \in [Readers -> CursorRecord] /\ got' = got /\ lost' = lost
        /\ reader' = [q \in Readers |-> [reader[q] EXCEPT !.at = "idle"]]
    BY <1>3 DEF NewProcess, GapInv, CursorTyped, CursorRecord
  <2>2. \A q \in Readers : [reader[q] EXCEPT !.at = "idle"] \in CursorRecord
    BY <2>1 DEF CursorRecord
  <2>3. reader' \in [Readers -> CursorRecord]
    BY <2>1, <2>2
  <2>4. CursorTyped'
    BY <2>1, <2>3 DEF GapInv, CursorTyped, CursorRecord
  <2> QED BY <1>1, <1>3, <2>4, NewProcessCovers DEF GapInv
<1>4. ASSUME NEW r \in Readers, ReadNow(r) \/ Expire(r) PROVE GapInv'
  BY <1>4, DeliverKeeps DEF ReadNow, Expire, ringVars
<1>5. ASSUME NEW r \in Readers, Park(r) \/ Woken(r) \/ HangUp(r) PROVE GapInv'
  BY <1>5, WaitCovers
<1>6. CASE UNCHANGED rvars
  <2>1. UNCHANGED <<reader, got, lost, last, logs>> /\ Logged' = Logged /\ Epoch' = Epoch
    BY <1>6 DEF rvars, Logged, Epoch
  <2> QED BY <1>1, <2>1 DEF GapInv, CursorTyped, Cursor, Passed, TopicOf
<1> QED BY <1>2, <1>3, <1>4, <1>5, <1>6 DEF ENext

\* No reader misses an event in silence: what its cursor has passed, over any
\* number of overwritten events and daemon processes, was delivered to it or
\* reported as missed.
THEOREM NothingMissedSilently == ESpec => []NoSilentGap
<1>1. EInit => GapInv
  BY InitGap
<1>2. GapInv /\ [ENext]_rvars => GapInv'
  BY NextKeepsGap
<1>3. GapInv => NoSilentGap
  BY DEF GapInv, NoSilentGap, Passed
<1> QED BY <1>1, <1>2, <1>3, PTL DEF ESpec

-----------------------------------------------------------------------------
(* The search overlay.                                                     *)


\* What a set of matches was found for, and a scan looks for.
IsFor(matches, q) == matches # None => matches[1] = q
StateRecord(s) ==
  s = [open |-> s.open, query |-> s.query, matches |-> s.matches, pending |-> s.pending,
       id |-> s.id, last |-> s.last, gen |-> s.gen]
ScanRecord(w) ==
  w = [id |-> w.id, query |-> w.query, found |-> w.found, cancelled |-> w.cancelled]

\* Ids tell scans apart: one that has the overlay's id, whether it still runs or
\* its result waits in the slot, is of the query the overlay last scanned for,
\* and so are the matches it shows.
ScansTrue ==
  \A w \in scans :
    /\ ScanRecord(w) /\ w.id \in Nat /\ w.id <= state.id
    /\ IsFor(w.found, w.query)
    /\ w.id = state.id => state.last = <<w.query>>

ResultTrue ==
  results # None =>
    /\ results.id \in Nat /\ results.id <= state.id
    /\ results.id = state.id /\ results.found # None => state.last = <<results.found[1]>>

StateTrue ==
  /\ StateRecord(state) /\ state.id \in Nat
  /\ state.matches # None => state.last = <<state.matches[1]>>

SearchInv == ScansTrue /\ ResultTrue /\ StateTrue /\ DrawnIsOfQuery

LEMMA InitSearch == QInit => SearchInv
BY DEF QInit, SearchInv, ScansTrue, ResultTrue, StateTrue, StateRecord, DrawnIsOfQuery

\* What the user does to the overlay touches no scan and no id.
LEMMA EditsKeep ==
  ASSUME SearchInv, NEW s, Edited(s), StateRecord(s), s.id = state.id, s.last = state.last,
         s.matches \in {state.matches, None}
  PROVE  SearchInv'
<1>1. state' = s /\ UNCHANGED <<results, scans, drawn>>
  BY DEF Edited
<1>2. ScansTrue' /\ ResultTrue'
  BY <1>1 DEF SearchInv, ScansTrue, ResultTrue
<1>3. StateTrue'
  BY <1>1 DEF SearchInv, StateTrue
<1>4. DrawnIsOfQuery'
  BY <1>1 DEF SearchInv, DrawnIsOfQuery
<1> QED BY <1>2, <1>3, <1>4 DEF SearchInv

\* A new scan has an id no other has.
LEMMA KickKeeps ==
  ASSUME SearchInv, Kick
  PROVE  SearchInv'
<1> DEFINE kept == IF QueryChanged THEN None ELSE state.matches
           new == [id |-> state.id + 1, query |-> state.query, found |-> None,
                   cancelled |-> FALSE]
<1>1. /\ state.id \in Nat /\ StateRecord(state) /\ results' = None
      /\ scans' = {[w EXCEPT !.cancelled = TRUE] : w \in scans} \cup {new}
      /\ drawn' = [query |-> state.query, matches |-> kept]
  BY DEF Kick, Draw, SearchInv, StateTrue
<1>2. kept # None => kept[1] = state.query
  BY DEF SearchInv, StateTrue, QueryChanged
<1>3. /\ state'.id = state.id + 1 /\ state'.last = <<state.query>>
      /\ state'.matches = kept /\ StateRecord(state')
  <2> HIDE DEF kept
  <2>1. state' = [state EXCEPT !.id = @ + 1, !.pending = TRUE, !.matches = kept,
                               !.last = <<state.query>>, !.gen = content]
    BY DEF Kick, kept
  <2> QED BY <1>1, <2>1 DEF StateRecord
<1>4. ASSUME NEW w \in scans'
      PROVE  /\ ScanRecord(w) /\ w.id \in Nat /\ w.id <= state'.id
             /\ IsFor(w.found, w.query)
             /\ w.id = state'.id => state'.last = <<w.query>>
  <2>1. CASE w = new
    BY <1>1, <1>3, <2>1 DEF ScanRecord, IsFor
  <2>2. CASE w # new
    <3>1. PICK v \in scans : w = [v EXCEPT !.cancelled = TRUE]
      BY <1>1, <2>2
    <3>2. ScanRecord(v) /\ v.id \in Nat /\ v.id <= state.id /\ IsFor(v.found, v.query)
      BY DEF SearchInv, ScansTrue
    <3>3. ScanRecord(w) /\ w.id = v.id /\ w.found = v.found /\ w.query = v.query
      BY <3>1, <3>2 DEF ScanRecord
    <3> QED BY <1>1, <1>3, <3>2, <3>3
  <2> QED BY <2>1, <2>2
<1>5. ScansTrue'
  BY <1>4 DEF ScansTrue
<1>6. ResultTrue'
  BY <1>1 DEF ResultTrue
<1>7. StateTrue'
  BY <1>1, <1>2, <1>3 DEF StateTrue
<1>8. DrawnIsOfQuery'
  BY <1>1, <1>2 DEF DrawnIsOfQuery
<1> QED BY <1>5, <1>6, <1>7, <1>8 DEF SearchInv

\* A result is shown only if it is of the latest scan, and then the query has
\* not changed since.
LEMMA AdoptKeeps ==
  ASSUME SearchInv, Adopt
  PROVE  SearchInv'
<1>1. /\ state.last = <<state.query>> /\ results # None /\ results' = None
      /\ scans' = scans
      /\ drawn' = [query |-> state.query, matches |-> state'.matches]
  BY DEF Adopt, Due, QueryChanged, Draw
<1>2. /\ state'.id = state.id /\ state'.last = state.last /\ StateRecord(state')
      /\ state'.matches # None => state.last = <<state'.matches[1]>>
  <2>1. CASE Latest(results)
    <3>1. state' = [state EXCEPT !.pending = FALSE, !.matches = results.found]
      BY <2>1 DEF Adopt
    <3>2. StateRecord(state) /\ (results.found # None => state.last = <<results.found[1]>>)
      BY <1>1, <2>1 DEF Latest, SearchInv, ResultTrue, StateTrue
    <3>3. /\ state'.id = state.id /\ state'.last = state.last /\ StateRecord(state')
          /\ state'.matches = results.found
      BY <3>1, <3>2 DEF StateRecord
    <3> QED BY <3>2, <3>3
  <2>2. CASE ~Latest(results)
    BY <2>2 DEF Adopt, SearchInv, StateTrue
  <2> QED BY <2>1, <2>2
<1>3. ScansTrue' /\ ResultTrue'
  BY <1>1, <1>2 DEF SearchInv, ScansTrue, ResultTrue
<1>4. StateTrue'
  BY <1>2 DEF SearchInv, StateTrue
<1>5. DrawnIsOfQuery'
  BY <1>1, <1>2 DEF DrawnIsOfQuery
<1> QED BY <1>3, <1>4, <1>5 DEF SearchInv

\* A scan finds matches of the query it was started for and sends what it found.
LEMMA ScansKeep ==
  ASSUME SearchInv, NEW w \in scans, Scan(w) \/ Cancelled(w) \/ Send(w)
  PROVE  SearchInv'
<1>1. /\ ScanRecord(w) /\ w.id \in Nat /\ w.id <= state.id /\ IsFor(w.found, w.query)
      /\ w.id = state.id => state.last = <<w.query>>
  BY DEF SearchInv, ScansTrue
<1>2. UNCHANGED <<state, drawn>>
  BY DEF Scan, Cancelled, Send
<1>3. ScansTrue'
  <2>1. CASE Scan(w)
    <3> DEFINE v == [w EXCEPT !.found = <<w.query, content>>]
    <3>1. ScanRecord(v) /\ v.id = w.id /\ v.query = w.query /\ v.found = <<w.query, content>>
      BY <1>1 DEF ScanRecord
    <3>2. scans' = (scans \ {w}) \cup {v}
      BY <2>1 DEF Scan
    <3> HIDE DEF v
    <3> QED BY <1>1, <1>2, <3>1, <3>2 DEF SearchInv, ScansTrue, IsFor
  <2>2. CASE Cancelled(w) \/ Send(w)
    BY <1>2, <2>2 DEF Cancelled, Send, SearchInv, ScansTrue
  <2> QED BY <2>1, <2>2
<1>4. ResultTrue'
  <2>1. CASE Send(w)
    BY <1>1, <1>2, <2>1 DEF Send, ResultTrue, IsFor
  <2>2. CASE Scan(w) \/ Cancelled(w)
    BY <1>2, <2>2 DEF Scan, Cancelled, SearchInv, ResultTrue
  <2> QED BY <2>1, <2>2
<1>5. StateTrue' /\ DrawnIsOfQuery'
  BY <1>2 DEF SearchInv, StateTrue, DrawnIsOfQuery
<1> QED BY <1>3, <1>4, <1>5 DEF SearchInv

\* Opening and closing leave the overlay without query and matches.
LEMMA Cleared ==
  ASSUME StateRecord(state), NEW b,
         NEW s, s = [state EXCEPT !.open = b, !.query = NoQuery, !.matches = None]
  PROVE  StateRecord(s) /\ s.id = state.id /\ s.last = state.last /\ s.matches = None
<1>1. ASSUME NEW u, NEW v,
             u = [state EXCEPT !.open = b], v = [u EXCEPT !.query = NoQuery],
             s = [v EXCEPT !.matches = None]
      PROVE  StateRecord(s) /\ s.id = state.id /\ s.last = state.last /\ s.matches = None
  <2>1. u = [open |-> b, query |-> state.query, matches |-> state.matches,
             pending |-> state.pending, id |-> state.id, last |-> state.last,
             gen |-> state.gen]
    BY <1>1 DEF StateRecord
  <2>2. v = [open |-> b, query |-> NoQuery, matches |-> state.matches,
             pending |-> state.pending, id |-> state.id, last |-> state.last,
             gen |-> state.gen]
    BY <1>1, <2>1
  <2>3. s = [open |-> b, query |-> NoQuery, matches |-> None,
             pending |-> state.pending, id |-> state.id, last |-> state.last,
             gen |-> state.gen]
    BY <1>1, <2>2
  <2> QED BY <2>3 DEF StateRecord
<1> QED BY <1>1, Zenon

LEMMA NextKeepsSearch == SearchInv /\ [QNext]_qvars => SearchInv'
<1> SUFFICES ASSUME SearchInv, [QNext]_qvars PROVE SearchInv'
  OBVIOUS
<1>1. StateRecord(state)
  BY DEF SearchInv, StateTrue
<1>2. CASE OpenSearch
  <2> DEFINE s == [state EXCEPT !.open = TRUE, !.query = NoQuery, !.matches = None]
  <2>1. StateRecord(s) /\ s.id = state.id /\ s.last = state.last /\ s.matches = None
    BY <1>1, Cleared, Zenon
  <2> QED BY <1>2, <2>1, EditsKeep DEF OpenSearch
<1>3. CASE CloseSearch
  <2> DEFINE s == [state EXCEPT !.open = FALSE, !.query = NoQuery, !.matches = None]
  <2>1. StateRecord(s) /\ s.id = state.id /\ s.last = state.last /\ s.matches = None
    BY <1>1, Cleared, Zenon
  <2> QED BY <1>3, <2>1, EditsKeep DEF CloseSearch
<1>4. ASSUME NEW q, Edit(q) PROVE SearchInv'
  <2> DEFINE s == [state EXCEPT !.query = q]
  <2>1. StateRecord(s) /\ s.id = state.id /\ s.last = state.last /\ s.matches = state.matches
    BY <1>1 DEF StateRecord
  <2> QED BY <1>4, <2>1, EditsKeep DEF Edit
<1>5. CASE Kick
  BY <1>5, KickKeeps
<1>6. CASE Adopt
  BY <1>6, AdoptKeeps
<1>7. ASSUME NEW w \in scans, Scan(w) \/ Cancelled(w) \/ Send(w) PROVE SearchInv'
  BY <1>7, ScansKeep
<1>8. CASE NewOutput \/ UNCHANGED qvars
  <2>1. UNCHANGED <<state, results, scans, drawn>>
    BY <1>8 DEF NewOutput, qvars
  <2> QED BY <2>1 DEF SearchInv, ScansTrue, ResultTrue, StateTrue, DrawnIsOfQuery
<1> QED BY <1>2, <1>3, <1>4, <1>5, <1>6, <1>7, <1>8 DEF QNext

\* A frame highlights matches of the query in the field, however many scans of
\* earlier queries are still in flight (asyncResult.id).
THEOREM FramesShowTheirQuery == QSpec => []DrawnIsOfQuery
<1>1. QInit => SearchInv
  BY InitSearch
<1>2. SearchInv /\ [QNext]_qvars => SearchInv'
  BY NextKeepsSearch
<1>3. SearchInv => DrawnIsOfQuery
  BY DEF SearchInv
<1> QED BY <1>1, <1>2, <1>3, PTL DEF QSpec
-----------------------------------------------------------------------------
(* The follower.                                                           *)

\* Event e is behind cursor c; the command answers for it if it first read the
\* host before.
Behind(e, c) == e[2] < c.epoch \/ (e[2] = c.epoch /\ e[3] <= c.seq)
Owed(e, c) == e[2] >= c.since /\ Behind(e, c)

\* A cursor is of what has been on the host whose ring is r.
Points(c, r) ==
  /\ c.epoch \in Nat /\ c.seq \in Nat /\ c.since \in Nat
  /\ c.epoch <= r.epoch /\ (c.epoch = r.epoch => c.seq <= r.last)
  /\ c.since <= c.epoch /\ (c.epoch = 0 <=> c.since = 0) /\ (c.epoch = 0 => c.seq = 0)

\* Cursor d is cursor c or past it.
Reaches(d, c) ==
  /\ c.epoch < d.epoch \/ (c.epoch = d.epoch /\ c.seq <= d.seq)
  /\ c.since # 0 => d.since = c.since

OfHost(e, h) == e[1] = h /\ e[2] \in Nat /\ e[3] \in Nat

WorldInv ==
  /\ ring = [h \in Hosts |-> [epoch |-> ring[h].epoch, last |-> ring[h].last]]
  /\ \A h \in Hosts : ring[h].epoch \in Nat \ {0} /\ ring[h].last \in Nat
  /\ \A e \in ended : e[1] \in Hosts /\ OfHost(e, e[1]) /\ e[2] # 0 /\ e[2] < ring[e[1]].epoch
  /\ linked \subseteq Hosts

\* An answer of host h to cursor c: it leads on, and what it passes it brings or
\* reports missed.
AnswerOK(res, c, h, r, older) ==
  /\ Points(res.next, r) /\ Reaches(res.next, c)
  /\ \A e \in res.events : OfHost(e, h) /\ ~Behind(e, c) /\ Behind(e, res.next)
  /\ \A e \in older : e[1] = h /\ Owed(e, res.next) =>
       Owed(e, c) \/ e \in res.events \/ res.missed

CallIs(at, todo, live, cur, events, missed, box) ==
  [at |-> at, todo |-> todo, live |-> live, cursor |-> cur, events |-> events,
   missed |-> missed, box |-> box]

\* A call goes on from the command's cursor.  An answer that waits in its box is
\* one to the cursor the call still has for that host.
CallOK(k) ==
  /\ k = CallIs(k.at, k.todo, k.live, k.cursor, k.events, k.missed, k.box)
  /\ k.at \in {"read", "any", "rest"} /\ k.todo \subseteq Hosts /\ k.live \subseteq Hosts
  /\ k.cursor = [h \in Hosts |-> k.cursor[h]] /\ k.box = [h \in Hosts |-> k.box[h]]
HostOK(k, h, r, cur, older) ==
  /\ Points(k.cursor[h], r) /\ Reaches(k.cursor[h], cur)
  /\ \A e \in k.events : e[1] = h => OfHost(e, h) /\ ~Behind(e, cur) /\ Behind(e, k.cursor[h])
  /\ \A e \in older : e[1] = h /\ Owed(e, k.cursor[h]) =>
       Owed(e, cur) \/ e \in k.events \/ h \in k.missed
  /\ \/ k.box[h] \in {Unanswered, Failed}
     \/ k.at = "any" /\ AnswerOK(k.box[h], k.cursor[h], h, r, older)
CallInv ==
  call.at # "none" =>
    /\ CallOK(call) /\ \A e \in call.events : e[1] \in Hosts
    /\ \A h \in Hosts : HostOK(call, h, ring[h], cursor[h], Happened)

FollowInv ==
  /\ WorldInv /\ cursor = [h \in Hosts |-> cursor[h]]
  /\ \A h \in Hosts : Points(cursor[h], ring[h])
  /\ again = FALSE
  /\ \A p \in printed : p[1] \in Hosts /\ OfHost(p, p[1]) /\ Behind(p, cursor[p[1]])
  /\ \A e \in Happened : Owed(e, cursor[e[1]]) => e \in printed \cup excused
  /\ CallInv

LEMMA HappenedIs ==
  ASSUME WorldInv, NEW e
  PROVE  e \in Happened <=>
           \/ e \in ended
           \/ \E h \in Hosts : \E s \in 1..ring[h].last : e = <<h, ring[h].epoch, s>>
BY DEF Happened, Now

LEMMA HappenedTyped ==
  ASSUME WorldInv, NEW e \in Happened
  PROVE  e[1] \in Hosts /\ OfHost(e, e[1])
<1>1. CASE e \in ended
  BY <1>1 DEF WorldInv, OfHost
<1>2. ASSUME NEW h \in Hosts, NEW s \in 1..ring[h].last, e = <<h, ring[h].epoch, s>>
      PROVE  e[1] \in Hosts /\ OfHost(e, e[1])
  <2>1. e[1] = h /\ e[2] = ring[h].epoch /\ e[3] = s /\ ring[h].epoch \in Nat /\ ring[h].last \in Nat
    BY <1>2 DEF WorldInv
  <2> QED BY <2>1 DEF OfHost
<1> QED BY <1>1, <1>2, HappenedIs

-----------------------------------------------------------------------------
(* What the daemons do.                                                    *)

\* Cursors stay good, and what happens is past all of them.
Grows ==
  /\ WorldInv'
  /\ \A h \in Hosts : \A c : Points(c, ring[h]) => Points(c, ring'[h])
  /\ \A e \in Happened' :
       \/ e \in Happened
       \/ e[1] \in Hosts /\ OfHost(e, e[1]) /\ \A c : Points(c, ring[e[1]]) => ~Behind(e, c)

LEMMA HappenGrows ==
  ASSUME WorldInv, NEW h \in Hosts, Happen(h)
  PROVE  Grows
<1>0. \A g \in Hosts : ring[g].epoch \in Nat \ {0} /\ ring[g].last \in Nat
  BY DEF WorldInv
<1>1. /\ ring' = [ring EXCEPT ![h].last = @ + 1] /\ UNCHANGED <<ended, linked>>
  BY DEF Happen
<1>2. ring'[h] = [epoch |-> ring[h].epoch, last |-> ring[h].last + 1]
      /\ \A g \in Hosts \ {h} : ring'[g] = ring[g]
  <2>0. PICK x, y : ring[h] = [epoch |-> x, last |-> y]
    BY DEF WorldInv
  <2>1. [ring[h] EXCEPT !.last = ring[h].last + 1] = [epoch |-> x, last |-> y + 1]
    BY <2>0
  <2>2. ring' = [ring EXCEPT ![h] = [ring[h] EXCEPT !.last = ring[h].last + 1]]
    BY <1>1
  <2> QED BY <2>0, <2>1, <2>2 DEF WorldInv
<1>3. ring'[h].epoch = ring[h].epoch /\ ring'[h].last = ring[h].last + 1
  BY <1>2
<1>4. ASSUME NEW g \in Hosts
      PROVE  /\ ring'[g].epoch = ring[g].epoch
             /\ ring'[g].last \in Nat /\ ring[g].last <= ring'[g].last
  BY <1>0, <1>2, <1>3
<1>5. WorldInv'
  <2>1. ring' = [g \in Hosts |-> [epoch |-> ring'[g].epoch, last |-> ring'[g].last]]
    <3>1. ring' = [g \in Hosts |-> ring'[g]]
      BY <1>1 DEF WorldInv
    <3>2. \A g \in Hosts : ring[g] = [epoch |-> ring[g].epoch, last |-> ring[g].last]
      BY DEF WorldInv
    <3>3. \A g \in Hosts : ring'[g] = [epoch |-> ring'[g].epoch, last |-> ring'[g].last]
      BY <1>2, <1>3, <3>2
    <3> QED BY <3>1, <3>3
  <2> QED BY <1>1, <1>4, <2>1 DEF WorldInv
<1>6. \A g \in Hosts : \A c : Points(c, ring[g]) => Points(c, ring'[g])
  BY <1>0, <1>4 DEF Points
<1>7. ASSUME NEW e \in Happened', e \notin Happened
      PROVE  e[1] \in Hosts /\ OfHost(e, e[1]) /\ \A c : Points(c, ring[e[1]]) => ~Behind(e, c)
  <2>0. \E g \in Hosts : \E s \in 1..ring'[g].last : e = <<g, ring'[g].epoch, s>>
    <3>1. \/ e \in ended'
          \/ \E g \in Hosts : \E s \in 1..ring'[g].last : e = <<g, ring'[g].epoch, s>>
      BY <1>7 DEF Happened, Now
    <3>2. e \notin ended
      BY <1>7 DEF Happened
    <3> QED BY <1>1, <3>1, <3>2
  <2>a. PICK g \in Hosts : \E s \in 1..ring'[g].last : e = <<g, ring'[g].epoch, s>>
    BY <2>0
  <2>1. PICK s \in 1..ring'[g].last : e = <<g, ring'[g].epoch, s>>
    BY <2>a
  <2>2. e = <<g, ring[g].epoch, s>> /\ s \in Nat
    BY <1>4, <2>1
  <2>3. s \notin 1..ring[g].last
    BY <1>7, <2>2, HappenedIs
  <2>4. g = h /\ s = ring[h].last + 1
    BY <1>0, <1>2, <1>3, <2>1, <2>3
  <2>5. e[1] = g /\ e[2] = ring[g].epoch /\ e[3] = s
    BY <2>2
  <2>6. \A c : Points(c, ring[g]) => ~Behind(e, c)
    BY <2>4, <2>5 DEF Points, Behind, WorldInv
  <2> QED BY <2>2, <2>5, <2>6 DEF OfHost, WorldInv
<1> QED BY <1>5, <1>6, <1>7 DEF Grows

LEMMA RestartGrows ==
  ASSUME WorldInv, NEW h \in Hosts, RestartDaemon(h)
  PROVE  Grows
<1>0. \A g \in Hosts : ring[g].epoch \in Nat \ {0} /\ ring[g].last \in Nat
  BY DEF WorldInv
<1>1. /\ ring' = [ring EXCEPT ![h] = [epoch |-> ring[h].epoch + 1, last |-> 0]]
      /\ ended' = ended \cup Now(h) /\ linked' = linked \ {h}
  BY DEF RestartDaemon
<1>2. ring'[h] = [epoch |-> ring[h].epoch + 1, last |-> 0]
      /\ \A g \in Hosts \ {h} : ring'[g] = ring[g]
  BY <1>1 DEF WorldInv
<1>3. ring'[h].epoch = ring[h].epoch + 1 /\ ring'[h].last = 0
  BY <1>2
<1>4. ASSUME NEW g \in Hosts
      PROVE  /\ ring'[g].epoch \in Nat \ {0} /\ ring'[g].last \in Nat
             /\ ring[g].epoch <= ring'[g].epoch
  BY <1>0, <1>2, <1>3
<1>5. WorldInv'
  <2>1. ring' = [g \in Hosts |-> [epoch |-> ring'[g].epoch, last |-> ring'[g].last]]
    <3>1. ring' = [g \in Hosts |-> ring'[g]]
      BY <1>1 DEF WorldInv
    <3>2. \A g \in Hosts : ring[g] = [epoch |-> ring[g].epoch, last |-> ring[g].last]
      BY DEF WorldInv
    <3>3. \A g \in Hosts : ring'[g] = [epoch |-> ring'[g].epoch, last |-> ring'[g].last]
      BY <1>2, <1>3, <3>2
    <3> QED BY <3>1, <3>3
  <2>2. ASSUME NEW e \in ended'
        PROVE  e[1] \in Hosts /\ OfHost(e, e[1]) /\ e[2] # 0 /\ e[2] < ring'[e[1]].epoch
    <3>1. CASE e \in ended
      BY <1>4, <3>1 DEF WorldInv, OfHost
    <3>2. CASE e \in Now(h)
      <4>1. PICK s \in 1..ring[h].last : e = <<h, ring[h].epoch, s>>
        BY <3>2 DEF Now
      <4>2. e[1] = h /\ e[2] = ring[h].epoch /\ e[3] = s /\ s \in Nat
        BY <4>1
      <4> QED BY <1>3, <4>2 DEF OfHost, WorldInv
    <3> QED BY <1>1, <2>2, <3>1, <3>2
  <2> QED BY <1>1, <1>4, <2>1, <2>2 DEF WorldInv
<1>6. \A g \in Hosts : \A c : Points(c, ring[g]) => Points(c, ring'[g])
  <2>1. \A g \in Hosts : ring'[g].epoch = ring[g].epoch => ring'[g] = ring[g]
    BY <1>0, <1>2, <1>3
  <2>2. \A g \in Hosts : ring[g].epoch \in Nat /\ ring'[g].epoch \in Nat
    BY <1>4 DEF WorldInv
  <2>3. ASSUME NEW g \in Hosts, NEW c, Points(c, ring[g]) PROVE Points(c, ring'[g])
    <3>1. CASE ring'[g].epoch = ring[g].epoch
      BY <2>1, <2>3, <3>1
    <3>2. CASE ring'[g].epoch # ring[g].epoch
      BY <1>4, <2>2, <2>3, <3>2 DEF Points
    <3> QED BY <3>1, <3>2
  <2> QED BY <2>3
<1>7. ASSUME NEW e \in Happened' PROVE e \in Happened
  <2>1. \/ e \in ended \cup Now(h)
        \/ \E g \in Hosts : \E s \in 1..ring'[g].last : e = <<g, ring'[g].epoch, s>>
    BY <1>1, <1>7 DEF Happened, Now
  <2>2. CASE e \in ended \cup Now(h)
    BY <2>2 DEF Happened
  <2>3. CASE \E g \in Hosts : \E s \in 1..ring'[g].last : e = <<g, ring'[g].epoch, s>>
    <3>0. PICK g \in Hosts : \E s \in 1..ring'[g].last : e = <<g, ring'[g].epoch, s>>
      BY <2>3
    <3>1. PICK s \in 1..ring'[g].last : e = <<g, ring'[g].epoch, s>>
      BY <3>0
    <3>2. g # h
      BY <1>3, <3>1
    <3>3. s \in 1..ring[g].last /\ e = <<g, ring[g].epoch, s>>
      BY <1>2, <3>1, <3>2
    <3> QED BY <3>3, HappenedIs
  <2> QED BY <2>1, <2>2, <2>3
<1> QED BY <1>5, <1>6, <1>7 DEF Grows

-----------------------------------------------------------------------------
(* What one read of a host brings.                                         *)

LEMMA ReadAnswers ==
  ASSUME WorldInv, NEW h \in Hosts, Points(call.cursor[h], ring[h])
  PROVE  AnswerOK(Read(h), call.cursor[h], h, ring[h], Happened)
<1> DEFINE c == call.cursor[h]
           r == ring[h]
           foreign == c.epoch \notin {0, r.epoch}
           after == IF foreign \/ c.seq > r.last THEN 0 ELSE c.seq
           oldest == IF r.last > Cap THEN r.last - Cap + 1 ELSE 1
           next == [epoch |-> r.epoch, seq |-> r.last,
                    since |-> IF c.since = 0 THEN r.epoch ELSE c.since]
           brought == {<<h, r.epoch, s>> : s \in {n \in oldest..r.last : n > after}}
           missed == foreign \/ c.seq > r.last \/ (r.last > 0 /\ after + 1 < oldest)
<1>1. Read(h) = [events |-> brought, missed |-> missed, next |-> next]
  BY DEF Read
<1>2. Read(h).events = brought /\ Read(h).missed = missed /\ Read(h).next = next
  BY <1>1
<1>3. /\ r.epoch \in Nat \ {0} /\ r.last \in Nat /\ Cap \in Nat \ {0}
      /\ c.epoch \in Nat /\ c.seq \in Nat /\ c.since \in Nat
      /\ c.epoch <= r.epoch /\ (c.epoch = r.epoch => c.seq <= r.last)
      /\ c.since <= c.epoch /\ (c.epoch = 0 <=> c.since = 0) /\ (c.epoch = 0 => c.seq = 0)
  BY FollowConstants DEF WorldInv, Points
<1>4. /\ next.epoch = r.epoch /\ next.seq = r.last
      /\ next.since = IF c.since = 0 THEN r.epoch ELSE c.since
  OBVIOUS
<1>5. after \in Nat /\ oldest \in Nat \ {0}
      /\ (~foreign /\ c.seq <= r.last => after = c.seq)
  BY <1>3
<1>a. foreign <=> c.epoch # 0 /\ c.epoch # r.epoch
  OBVIOUS
<1>b. missed <=> (foreign \/ c.seq > r.last \/ (r.last > 0 /\ after + 1 < oldest))
  OBVIOUS
<1>c. \A s : s \in oldest..r.last /\ s > after => <<h, r.epoch, s>> \in brought
  OBVIOUS
<1>d. ASSUME NEW e \in brought
      PROVE  \E s \in oldest..r.last : s > after /\ e = <<h, r.epoch, s>>
  BY <1>d
<1> HIDE DEF foreign, after, oldest, next, brought, missed, c, r
<1>6. Points(next, r) /\ Reaches(next, c)
  BY <1>3, <1>4 DEF Points, Reaches
<1>7. ASSUME NEW e \in brought
      PROVE  OfHost(e, h) /\ ~Behind(e, c) /\ Behind(e, next)
  <2>1. PICK s \in oldest..r.last : s > after /\ e = <<h, r.epoch, s>>
    BY <1>d, <1>7
  <2>2. e[1] = h /\ e[2] = r.epoch /\ e[3] = s /\ s \in Nat /\ s <= r.last
    BY <1>3, <1>5, <2>1
  <2>3. c.epoch = r.epoch => after = c.seq
    BY <1>3, <1>5, <1>a
  <2> QED BY <1>3, <1>4, <2>1, <2>2, <2>3 DEF OfHost, Behind
<1>8. ASSUME NEW e \in Happened, e[1] = h, Owed(e, next), ~missed
      PROVE  Owed(e, c) \/ e \in brought
  <2>1. /\ ~foreign /\ c.seq <= r.last /\ after = c.seq
        /\ r.last > 0 => oldest <= after + 1
    BY <1>3, <1>5, <1>8, <1>b
  <2>2. c.epoch = 0 \/ c.epoch = r.epoch
    BY <2>1, <1>a
  <2>3. CASE e \in ended
    <3>1. e[2] \in Nat /\ e[2] < r.epoch
      BY <2>3, <1>8 DEF WorldInv, OfHost, r
    <3>2. c.epoch = r.epoch /\ next.since = c.since
      BY <1>3, <1>4, <1>8, <2>2, <3>1 DEF Owed
    <3> QED BY <1>8, <3>1, <3>2 DEF Owed, Behind
  <2>4. ASSUME NEW s \in 1..r.last, e = <<h, r.epoch, s>>
        PROVE  Owed(e, c) \/ e \in brought
    <3>1. e[2] = r.epoch /\ e[3] = s
      BY <2>4
    <3>2. CASE s > after
      BY <1>3, <1>5, <1>c, <2>1, <2>4, <3>2
    <3>3. CASE ~(s > after)
      <4>1. s <= c.seq /\ c.epoch = r.epoch
        BY <1>3, <2>1, <2>2, <3>3
      <4>2. next.since = c.since
        BY <1>3, <1>4, <4>1
      <4> QED BY <1>8, <3>1, <4>1, <4>2 DEF Owed, Behind
    <3> QED BY <3>2, <3>3
  <2>5. e \in ended \/ \E s \in 1..r.last : e = <<h, r.epoch, s>>
    <3>1. ASSUME NEW g \in Hosts, NEW s \in 1..ring[g].last, e = <<g, ring[g].epoch, s>>
          PROVE  \E t \in 1..r.last : e = <<h, r.epoch, t>>
      <4>1. g = h
        BY <1>8, <3>1
      <4> QED BY <3>1, <4>1 DEF r
    <3> QED BY <1>8, <3>1, HappenedIs
  <2> QED BY <2>3, <2>4, <2>5
<1>9. ASSUME NEW e \in Happened, e[1] = h, Owed(e, next)
      PROVE  Owed(e, c) \/ e \in brought \/ missed
  BY <1>8, <1>9
<1> QED BY <1>2, <1>6, <1>7, <1>9 DEF AnswerOK, c, r

\* Taking an answer of host h keeps what is owed on host g.
LEMMA Absorbed ==
  ASSUME NEW k, NEW k2, NEW h \in Hosts, NEW g \in Hosts, NEW res, NEW r, NEW rh, NEW cur, NEW older,
         Points(cur, r), HostOK(k, g, r, cur, older),
         AnswerOK(res, k.cursor[h], h, rh, older), g = h => rh = r,
         k2.cursor[g] = (IF g = h THEN res.next ELSE k.cursor[g]),
         k2.events = k.events \cup res.events,
         k2.missed = (IF res.missed THEN k.missed \cup {h} ELSE k.missed),
         \/ k2.box[g] \in {Unanswered, Failed}
         \/ g # h /\ k2.box[g] = k.box[g] /\ k2.at = k.at
  PROVE  HostOK(k2, g, r, cur, older)
<1>1. CASE g = h
  <2>1. k2.cursor[g] = res.next
    BY <1>1
  <2>2. /\ Points(k.cursor[g], r) /\ Reaches(k.cursor[g], cur)
        /\ Points(res.next, r) /\ Reaches(res.next, k.cursor[g])
    BY <1>1 DEF HostOK, AnswerOK
  <2>3. Reaches(res.next, cur)
    BY <2>2 DEF Points, Reaches
  <2>4. ASSUME NEW e \in k2.events, e[1] = g
        PROVE  OfHost(e, g) /\ ~Behind(e, cur) /\ Behind(e, res.next)
    <3>1. CASE e \in k.events
      <4>1. OfHost(e, g) /\ ~Behind(e, cur) /\ Behind(e, k.cursor[g])
        BY <2>4, <3>1 DEF HostOK
      <4> QED BY <2>2, <4>1 DEF Points, Reaches, Behind, OfHost
    <3>2. CASE e \in res.events
      <4>1. OfHost(e, g) /\ ~Behind(e, k.cursor[g]) /\ Behind(e, res.next)
        BY <1>1, <3>2 DEF AnswerOK
      <4> QED BY <2>2, <4>1 DEF Points, Reaches, Behind, OfHost
    <3> QED BY <2>4, <3>1, <3>2
  <2>5. ASSUME NEW e \in older, e[1] = g, Owed(e, res.next)
        PROVE  Owed(e, cur) \/ e \in k2.events \/ g \in k2.missed
    <3>1. Owed(e, k.cursor[g]) \/ e \in res.events \/ res.missed
      BY <1>1, <2>5 DEF AnswerOK
    <3>2. Owed(e, k.cursor[g]) => Owed(e, cur) \/ e \in k.events \/ g \in k.missed
      BY <2>5 DEF HostOK
    <3> QED BY <1>1, <3>1, <3>2
  <2> QED BY <1>1, <2>1, <2>2, <2>3, <2>4, <2>5 DEF HostOK
<1>2. CASE g # h
  <2>1. k2.cursor[g] = k.cursor[g]
    BY <1>2
  <2>2. \A e \in k2.events : e[1] = g => e \in k.events
    BY <1>2 DEF AnswerOK, OfHost
  <2>3. k.events \subseteq k2.events /\ k.missed \subseteq k2.missed
    OBVIOUS
  <2> QED BY <1>2, <2>1, <2>2, <2>3 DEF HostOK
<1> QED BY <1>1, <1>2

\* What happens meanwhile on host g changes nothing in what a call owes.
LEMMA HostGrows ==
  ASSUME NEW k, NEW k2, NEW g, NEW r, NEW r2, NEW cur, NEW older, NEW older2,
         HostOK(k, g, r, cur, older),
         \A c : Points(c, r) => Points(c, r2),
         \A e \in older2 :
           e \in older \/ (e[1] = g => \A c : Points(c, r) => ~Behind(e, c)),
         k2.cursor = k.cursor, k2.events = k.events, k2.missed = k.missed, k2.at = k.at,
         k2.box[g] \in {Unanswered, Failed, k.box[g]}
  PROVE  HostOK(k2, g, r2, cur, older2)
<1>1. Points(k.cursor[g], r) /\ Points(k.cursor[g], r2)
  BY DEF HostOK
<1>2. ASSUME NEW e \in older2, e[1] = g, Owed(e, k.cursor[g])
      PROVE  Owed(e, cur) \/ e \in k.events \/ g \in k.missed
  <2>1. e \in older
    BY <1>1, <1>2 DEF Owed
  <2> QED BY <1>2, <2>1 DEF HostOK
<1>3. ASSUME NEW res, AnswerOK(res, k.cursor[g], g, r, older)
      PROVE  AnswerOK(res, k.cursor[g], g, r2, older2)
  <2>1. Points(res.next, r) /\ Points(res.next, r2)
    BY <1>3 DEF AnswerOK
  <2>2. ASSUME NEW e \in older2, e[1] = g, Owed(e, res.next)
        PROVE  Owed(e, k.cursor[g]) \/ e \in res.events \/ res.missed
    <3>1. e \in older
      BY <2>1, <2>2 DEF Owed
    <3> QED BY <1>3, <2>2, <3>1 DEF AnswerOK
  <2> QED BY <1>3, <2>1, <2>2 DEF AnswerOK
<1> QED BY <1>1, <1>2, <1>3 DEF HostOK

Moves(cur, h, res) == [cur EXCEPT ![h] = res.next]
Notes(missed, h, res) == IF res.missed THEN missed \cup {h} ELSE missed

LEMMA AbsorbIs ==
  ASSUME NEW at, NEW todo, NEW live, NEW cur, NEW events, NEW missed, NEW box,
         NEW h \in Hosts, NEW res
  PROVE  Absorb(CallIs(at, todo, live, cur, events, missed, box), h, res)
           = CallIs(at, todo, live, Moves(cur, h, res), events \cup res.events,
                    Notes(missed, h, res), box)
<1> DEFINE C(cu, ev, mi) == [at |-> at, todo |-> todo, live |-> live, cursor |-> cu,
                            events |-> ev, missed |-> mi, box |-> box]
           e2 == events \cup res.events
           m2 == Notes(missed, h, res)
           u2 == Moves(cur, h, res)
           c0 == C(cur, events, missed)
           c1 == [c0 EXCEPT !.events = e2]
           c2 == [c1 EXCEPT !.missed = m2]
           c3 == [c2 EXCEPT !.cursor = u2]
<1>0. c0.events = events /\ c0.missed = missed
  OBVIOUS
<1> HIDE DEF e2, m2, u2
<1>1. c1 = C(cur, e2, missed)
  OBVIOUS
<1>2. [C(cur, e2, missed) EXCEPT !.missed = m2] = C(cur, e2, m2)
  OBVIOUS
<1>3. [C(cur, e2, m2) EXCEPT !.cursor = u2] = C(u2, e2, m2)
  OBVIOUS
<1>4. c3 = C(u2, e2, m2)
  BY <1>1, <1>2, <1>3
<1>5. Absorb(c0, h, res) = c3
  <2>1. c2.cursor = cur
    BY <1>1, <1>2
  <2> QED BY <1>0, <2>1 DEF Absorb, e2, m2, u2, Moves, Notes
<1> QED BY <1>4, <1>5 DEF CallIs, e2, m2, u2

LEMMA CallFields ==
  ASSUME NEW at, NEW todo, NEW live, NEW cur, NEW events, NEW missed, NEW box
  PROVE  LET c == CallIs(at, todo, live, cur, events, missed, box) IN
         /\ c.at = at /\ c.todo = todo /\ c.live = live /\ c.cursor = cur
         /\ c.events = events /\ c.missed = missed /\ c.box = box
BY DEF CallIs

LEMMA CallWellFormed ==
  ASSUME NEW k, NEW at \in {"read", "any", "rest"}, NEW todo \in SUBSET Hosts,
         NEW live \in SUBSET Hosts, NEW cur, NEW events, NEW missed, NEW box,
         cur = [h \in Hosts |-> cur[h]], box = [h \in Hosts |-> box[h]],
         k = CallIs(at, todo, live, cur, events, missed, box)
  PROVE  CallOK(k)
BY CallFields DEF CallOK

\* The call goes on, and nothing else moves.
CallStep == UNCHANGED <<world, conn, output>>

LEMMA StepKeepsRest ==
  ASSUME FollowInv, CallStep, CallInv'
  PROVE  FollowInv'
<1>1. UNCHANGED <<ring, ended, linked, cursor, printed, excused, again>>
  BY DEF CallStep, world, output
<1>2. Happened' = Happened /\ (WorldInv <=> WorldInv')
  BY <1>1 DEF Happened, Now, WorldInv
<1> QED BY <1>1, <1>2 DEF FollowInv

LEMMA CallGoesOn ==
  ASSUME FollowInv, CallStep, CallOK(call'),
         \A e \in call'.events : e[1] \in Hosts,
         \A g \in Hosts : HostOK(call', g, ring[g], cursor[g], Happened)
  PROVE  FollowInv'
<1>1. UNCHANGED <<ring, ended, linked, cursor>>
  BY DEF CallStep, world, output
<1>2. Happened' = Happened
  BY <1>1 DEF Happened, Now
<1>3. CallInv'
  BY <1>1, <1>2 DEF CallInv
<1> QED BY <1>3, StepKeepsRest

LEMMA ReadOneKeeps ==
  ASSUME FollowInv, NEW h \in Hosts, ReadOne(h)
  PROVE  FollowInv'
<1>0. CallStep
  BY DEF ReadOne, CallStep
<1>1. /\ CallOK(call) /\ \A e \in call.events : e[1] \in Hosts
      /\ \A g \in Hosts : HostOK(call, g, ring[g], cursor[g], Happened)
      /\ call.at \in {"read", "rest"}
  BY DEF FollowInv, CallInv, ReadOne
<1>2. PICK at, todo, live, cur, events, missed, box :
        call = CallIs(at, todo, live, cur, events, missed, box)
  BY <1>1 DEF CallOK
<1>3. /\ call.at = at /\ call.todo = todo /\ call.live = live /\ call.cursor = cur
      /\ call.events = events /\ call.missed = missed /\ call.box = box
  BY <1>2, CallFields
<1>4. /\ at \in {"read", "rest"} /\ todo \subseteq Hosts /\ live \subseteq Hosts
      /\ cur = [g \in Hosts |-> cur[g]] /\ box = [g \in Hosts |-> box[g]]
  BY <1>1, <1>3 DEF CallOK
<1>5. \A g \in Hosts : Points(cursor[g], ring[g]) /\ box[g] \in {Unanswered, Failed}
  BY <1>1, <1>3 DEF HostOK, FollowInv
<1> DEFINE c == CallIs(at, todo \ {h}, live, cur, events, missed, box)
<1>6. [call EXCEPT !.todo = call.todo \ {h}] = c
  BY <1>2, <1>3 DEF CallIs
<1>7. CASE ~Reachable(h)
  <2>1. call' = c
    BY <1>6, <1>7 DEF ReadOne
  <2>2. CallOK(call')
    BY <1>4, <2>1, CallWellFormed
  <2>3. /\ call'.cursor = call.cursor /\ call'.events = call.events
        /\ call'.missed = call.missed /\ call'.at = call.at /\ call'.box = call.box
    BY <1>3, <2>1, CallFields
  <2>4. \A g \in Hosts : HostOK(call', g, ring[g], cursor[g], Happened)
    BY <1>1, <2>3, HostGrows
  <2> QED BY <1>0, <1>1, <2>2, <2>3, <2>4, CallGoesOn
<1>8. CASE Reachable(h)
  <2>1. AnswerOK(Read(h), call.cursor[h], h, ring[h], Happened)
    BY <1>1, ReadAnswers DEF FollowInv, HostOK
  <2>2. PICK res : res = Read(h)
    OBVIOUS
  <2> DEFINE u == Moves(cur, h, res)
             m == Notes(missed, h, res)
             e2 == events \cup res.events
  <2>3. Absorb(c, h, res) = CallIs(at, todo \ {h}, live, u, e2, m, box)
    BY AbsorbIs
  <2> HIDE DEF c
  <2>4. call' = [Absorb(c, h, res) EXCEPT !.live = Absorb(c, h, res).live \cup {h}]
    BY <1>6, <1>8, <2>2 DEF ReadOne
  <2> HIDE DEF u, m, e2
  <2> DEFINE l2 == live \cup {h}
             t2 == todo \ {h}
  <2>5. Absorb(c, h, res).live = live
    BY <2>3, CallFields
  <2>a. call' = [CallIs(at, t2, live, u, e2, m, box) EXCEPT !.live = l2]
    BY <2>3, <2>4, <2>5
  <2> HIDE DEF l2, t2
  <2>b. call' = CallIs(at, t2, l2, u, e2, m, box)
    BY <2>a DEF CallIs
  <2>6. call' = CallIs(at, todo \ {h}, live \cup {h}, u, e2, m, box)
    BY <2>b DEF l2, t2
  <2>7. u = [g \in Hosts |-> u[g]] /\ \A g \in Hosts : u[g] = IF g = h THEN res.next ELSE cur[g]
    BY <1>4 DEF u, Moves
  <2>8. CallOK(call')
    BY <1>4, <2>6, <2>7, CallWellFormed
  <2>9. /\ call'.at = at /\ call'.cursor = u /\ call'.events = e2
        /\ call'.missed = m /\ call'.box = box
    BY <2>6, CallFields
  <2>10. ASSUME NEW g \in Hosts PROVE HostOK(call', g, ring[g], cursor[g], Happened)
    <3>1. call'.cursor[g] = IF g = h THEN res.next ELSE call.cursor[g]
      BY <1>3, <2>7, <2>9
    <3>2. /\ call'.events = call.events \cup res.events
          /\ call'.missed = IF res.missed THEN call.missed \cup {h} ELSE call.missed
      BY <1>3, <2>9 DEF e2, m, Notes
    <3>3. call'.box[g] \in {Unanswered, Failed}
      BY <1>5, <2>9
    <3>4. AnswerOK(res, call.cursor[h], h, ring[h], Happened)
      BY <2>1, <2>2
    <3> QED BY <1>1, <1>5, <3>1, <3>2, <3>3, <3>4, Absorbed
  <2>11. \A e \in call'.events : e[1] \in Hosts
    BY <1>1, <1>3, <2>1, <2>2, <2>9 DEF AnswerOK, OfHost, e2
  <2> QED BY <1>0, <2>8, <2>10, <2>11, CallGoesOn
<1> QED BY <1>7, <1>8

\* The call in progress, its parts as constants.
LEMMA CallParts ==
  ASSUME FollowInv, call.at # "none"
  PROVE  /\ CallOK(call) /\ \A e \in call.events : e[1] \in Hosts
         /\ \A g \in Hosts : HostOK(call, g, ring[g], cursor[g], Happened)
         /\ call = CallIs(call.at, call.todo, call.live, call.cursor, call.events,
                          call.missed, call.box)
BY DEF FollowInv, CallInv, CallOK

LEMMA BlockKeeps == ASSUME FollowInv, Block PROVE FollowInv'
<1>0. CallStep /\ call.at = "read"
  BY DEF Block, CallStep
<1>1. /\ CallOK(call) /\ \A e \in call.events : e[1] \in Hosts
      /\ \A g \in Hosts : HostOK(call, g, ring[g], cursor[g], Happened)
  BY <1>0, CallParts
<1>2. PICK todo, live, cur, events, missed, box :
        call = CallIs("read", todo, live, cur, events, missed, box)
  BY <1>0, <1>1 DEF CallOK
<1>3. /\ call.todo = todo /\ call.live = live /\ call.cursor = cur
      /\ call.events = events /\ call.missed = missed /\ call.box = box
  BY <1>2, CallFields
<1> DEFINE box2 == [h \in Hosts |-> IF h \in live /\ h \notin linked THEN Failed ELSE Unanswered]
<1>4. call' = [call EXCEPT !.at = "any", !.todo = live, !.box = box2]
  BY <1>3 DEF Block
<1>5. box2 = [h \in Hosts |-> box2[h]] /\ \A h \in Hosts : box2[h] \in {Unanswered, Failed}
  OBVIOUS
<1> HIDE DEF box2
<1> DEFINE c1 == [call EXCEPT !.at = "any"]
           c2 == [c1 EXCEPT !.todo = live]
           c3 == [c2 EXCEPT !.box = box2]
<1>6. c1 = CallIs("any", todo, live, cur, events, missed, box)
  BY <1>2 DEF CallIs
<1>7. call' = c3
  BY <1>4
<1> HIDE DEF c1
<1>8. c2 = CallIs("any", live, live, cur, events, missed, box)
  BY <1>6 DEF CallIs
<1> HIDE DEF c2
<1>9. call' = CallIs("any", live, live, cur, events, missed, box2)
  BY <1>7, <1>8 DEF CallIs
<1>10. live \subseteq Hosts /\ cur = [g \in Hosts |-> cur[g]]
  BY <1>1, <1>3 DEF CallOK
<1>11. CallOK(call')
  BY <1>5, <1>9, <1>10, CallWellFormed
<1>12. /\ call'.cursor = call.cursor /\ call'.events = call.events
       /\ call'.missed = call.missed /\ call'.box = box2
  BY <1>3, <1>9, CallFields
<1>13. \A g \in Hosts : HostOK(call', g, ring[g], cursor[g], Happened)
  BY <1>1, <1>5, <1>12 DEF HostOK
<1> QED BY <1>0, <1>1, <1>11, <1>12, <1>13, CallGoesOn

LEMMA AnswerKeeps == ASSUME FollowInv, NEW h \in Hosts, Answer(h) PROVE FollowInv'
<1>0. CallStep /\ call.at = "any"
  BY DEF Answer, CallStep
<1>1. /\ CallOK(call) /\ \A e \in call.events : e[1] \in Hosts
      /\ \A g \in Hosts : HostOK(call, g, ring[g], cursor[g], Happened)
  BY <1>0, CallParts
<1>2. PICK todo, live, cur, events, missed, box :
        call = CallIs("any", todo, live, cur, events, missed, box)
  BY <1>0, <1>1 DEF CallOK
<1>3. /\ call.todo = todo /\ call.live = live /\ call.cursor = cur
      /\ call.events = events /\ call.missed = missed /\ call.box = box
  BY <1>2, CallFields
<1>4. /\ todo \subseteq Hosts /\ live \subseteq Hosts
      /\ cur = [g \in Hosts |-> cur[g]] /\ box = [g \in Hosts |-> box[g]]
  BY <1>1, <1>3 DEF CallOK
<1>5. PICK res : res = Read(h)
  OBVIOUS
<1>6. AnswerOK(res, call.cursor[h], h, ring[h], Happened)
  BY <1>1, <1>5, ReadAnswers DEF FollowInv, HostOK
<1> DEFINE box2 == [box EXCEPT ![h] = res]
<1>7. call' = [call EXCEPT !.box = box2]
  BY <1>3, <1>5 DEF Answer
<1>8. box2 = [g \in Hosts |-> box2[g]] /\ \A g \in Hosts : box2[g] = IF g = h THEN res ELSE box[g]
  BY <1>4
<1> HIDE DEF box2
<1>9. call' = CallIs("any", todo, live, cur, events, missed, box2)
  BY <1>2, <1>7 DEF CallIs
<1>10. CallOK(call')
  BY <1>4, <1>8, <1>9, CallWellFormed
<1>11. /\ call'.at = "any" /\ call'.cursor = call.cursor /\ call'.events = call.events
       /\ call'.missed = call.missed /\ call'.box = box2
  BY <1>3, <1>9, CallFields
<1>12. ASSUME NEW g \in Hosts PROVE HostOK(call', g, ring[g], cursor[g], Happened)
  <2>1. CASE g = h
    BY <1>1, <1>6, <1>8, <1>11, <2>1 DEF HostOK
  <2>2. CASE g # h
    BY <1>0, <1>1, <1>3, <1>8, <1>11, <2>2 DEF HostOK
  <2> QED BY <2>1, <2>2
<1> QED BY <1>0, <1>1, <1>10, <1>11, <1>12, CallGoesOn

LEMMA TakeKeeps == ASSUME FollowInv, NEW h \in Hosts, Take(h) PROVE FollowInv'
<1>0. CallStep /\ call.at = "any" /\ call.box[h] # Unanswered
  BY DEF Take, CallStep
<1>1. /\ CallOK(call) /\ \A e \in call.events : e[1] \in Hosts
      /\ \A g \in Hosts : HostOK(call, g, ring[g], cursor[g], Happened)
  BY <1>0, CallParts
<1>2. PICK todo, live, cur, events, missed, box :
        call = CallIs("any", todo, live, cur, events, missed, box)
  BY <1>0, <1>1 DEF CallOK
<1>3. /\ call.todo = todo /\ call.live = live /\ call.cursor = cur
      /\ call.events = events /\ call.missed = missed /\ call.box = box
  BY <1>2, CallFields
<1>4. /\ todo \subseteq Hosts /\ live \subseteq Hosts
      /\ cur = [g \in Hosts |-> cur[g]] /\ box = [g \in Hosts |-> box[g]]
  BY <1>1, <1>3 DEF CallOK
<1> DEFINE c0 == [call EXCEPT !.todo = @ \ {h}, !.box[h] = Unanswered]
           took == Absorb(c0, h, call.box[h])
           rests == [took EXCEPT !.at = "rest", !.todo = call.live \ {h},
                                 !.box = [g \in Hosts |-> Unanswered]]
<1>a. call' = IF call.box[h] = Failed THEN c0
              ELSE IF ~Tells(call.box[h]) THEN took ELSE rests
  BY DEF Take
<1> DEFINE t2 == todo \ {h}
           box2 == [box EXCEPT ![h] = Unanswered]
           cc == [call EXCEPT !.todo = t2]
           c == [cc EXCEPT !.box = box2]
<1>5. c0 = c
  <2>1. [call EXCEPT !.todo = t2].box = box
    BY <1>2 DEF CallIs
  <2> QED BY <1>3, <2>1
<1>6. box2 = [g \in Hosts |-> box2[g]]
      /\ \A g \in Hosts : box2[g] = IF g = h THEN Unanswered ELSE box[g]
  BY <1>4
<1>7. t2 \subseteq Hosts
  BY <1>4
<1> HIDE DEF t2, box2
<1>8. c = CallIs("any", t2, live, cur, events, missed, box2)
  <2>1. cc = CallIs("any", t2, live, cur, events, missed, box)
    BY <1>2 DEF CallIs
  <2> HIDE DEF cc
  <2> QED BY <2>1 DEF CallIs
<1>9. PICK res : res = call.box[h]
  OBVIOUS
<1>b. took = Absorb(c, h, res)
  BY <1>5, <1>9
<1>c. rests = [took EXCEPT !.at = "rest", !.todo = call.live \ {h},
                           !.box = [g \in Hosts |-> Unanswered]]
  OBVIOUS
<1> HIDE DEF c0, c, cc, took, rests
<1>10. call' = IF res = Failed THEN c ELSE IF ~Tells(res) THEN took ELSE rests
  BY <1>a, <1>5, <1>9
<1>11. CASE res = Failed
  <2>1. call' = CallIs("any", t2, live, cur, events, missed, box2)
    BY <1>8, <1>10, <1>11
  <2>2. CallOK(call')
    BY <1>4, <1>6, <1>7, <2>1, CallWellFormed
  <2>3. /\ call'.at = "any" /\ call'.cursor = call.cursor /\ call'.events = call.events
        /\ call'.missed = call.missed /\ call'.box = box2
    BY <1>3, <2>1, CallFields
  <2>4. ASSUME NEW g \in Hosts PROVE HostOK(call', g, ring[g], cursor[g], Happened)
    BY <1>0, <1>1, <1>3, <1>6, <2>3 DEF HostOK
  <2> QED BY <1>0, <1>1, <2>2, <2>3, <2>4, CallGoesOn
<1>12. CASE res # Failed
  <2> DEFINE u == Moves(cur, h, res)
             m == Notes(missed, h, res)
             e2 == events \cup res.events
  <2>1. took = CallIs("any", t2, live, u, e2, m, box2)
    BY <1>8, <1>b, AbsorbIs
  <2>2. AnswerOK(res, call.cursor[h], h, ring[h], Happened)
    BY <1>0, <1>1, <1>9, <1>12 DEF HostOK
  <2>3. u = [g \in Hosts |-> u[g]] /\ \A g \in Hosts : u[g] = IF g = h THEN res.next ELSE cur[g]
    BY <1>4 DEF Moves
  <2> HIDE DEF u, m, e2
  <2>4. PICK at \in {"any", "rest"} : \E t3 \in SUBSET Hosts : \E box3 :
          /\ call' = CallIs(at, t3, live, u, e2, m, box3)
          /\ box3 = [g \in Hosts |-> box3[g]]
          /\ \A g \in Hosts : box3[g] = Unanswered \/ (g # h /\ box3[g] = box[g] /\ at = "any")
    <3>1. CASE ~Tells(res)
      <4>1. call' = CallIs("any", t2, live, u, e2, m, box2)
        BY <1>10, <1>12, <2>1, <3>1
      <4> QED BY <1>6, <1>7, <4>1
    <3>2. CASE Tells(res)
      <4> DEFINE t3 == live \ {h}
                 box3 == [g \in Hosts |-> Unanswered]
                 a1 == [took EXCEPT !.at = "rest"]
                 a2 == [a1 EXCEPT !.todo = t3]
                 a3 == [a2 EXCEPT !.box = box3]
      <4>1. call' = a3
        BY <1>3, <1>10, <1>12, <1>c, <3>2
      <4>2. t3 \subseteq Hosts /\ box3 = [g \in Hosts |-> box3[g]]
            /\ \A g \in Hosts : box3[g] = Unanswered
        BY <1>4
      <4> HIDE DEF t3, box3
      <4>3. a1 = CallIs("rest", t2, live, u, e2, m, box2)
        BY <2>1 DEF CallIs
      <4> HIDE DEF a1
      <4>4. a2 = CallIs("rest", t3, live, u, e2, m, box2)
        BY <4>3 DEF CallIs
      <4> HIDE DEF a2
      <4>5. a3 = CallIs("rest", t3, live, u, e2, m, box3)
        BY <4>4 DEF CallIs
      <4> HIDE DEF a3
      <4> QED BY <4>1, <4>2, <4>5
    <3> QED BY <3>1, <3>2
  <2>b. PICK t3 \in SUBSET Hosts : \E box3 :
          /\ call' = CallIs(at, t3, live, u, e2, m, box3)
          /\ box3 = [g \in Hosts |-> box3[g]]
          /\ \A g \in Hosts : box3[g] = Unanswered \/ (g # h /\ box3[g] = box[g] /\ at = "any")
    BY <2>4
  <2>5. PICK box3 :
          /\ call' = CallIs(at, t3, live, u, e2, m, box3)
          /\ box3 = [g \in Hosts |-> box3[g]]
          /\ \A g \in Hosts : box3[g] = Unanswered \/ (g # h /\ box3[g] = box[g] /\ at = "any")
    BY <2>b
  <2>6. CallOK(call')
    BY <1>4, <2>3, <2>5, CallWellFormed
  <2>7. /\ call'.at = at /\ call'.cursor = u /\ call'.events = e2
        /\ call'.missed = m /\ call'.box = box3
    BY <2>5, CallFields
  <2>8. ASSUME NEW g \in Hosts PROVE HostOK(call', g, ring[g], cursor[g], Happened)
    <3>1. call'.cursor[g] = IF g = h THEN res.next ELSE call.cursor[g]
      BY <1>3, <2>3, <2>7
    <3>2. /\ call'.events = call.events \cup res.events
          /\ call'.missed = IF res.missed THEN call.missed \cup {h} ELSE call.missed
      BY <1>3, <2>7 DEF e2, m, Notes
    <3>3. \/ call'.box[g] \in {Unanswered, Failed}
          \/ g # h /\ call'.box[g] = call.box[g] /\ call'.at = call.at
      BY <1>0, <1>3, <2>5, <2>7
    <3>4. Points(cursor[g], ring[g])
      BY DEF FollowInv
    <3> QED BY <1>1, <2>2, <3>1, <3>2, <3>3, <3>4, Absorbed
  <2>9. \A e \in call'.events : e[1] \in Hosts
    BY <1>1, <1>3, <2>2, <2>7 DEF AnswerOK, OfHost, e2
  <2> QED BY <1>0, <2>6, <2>8, <2>9, CallGoesOn
<1> QED BY <1>11, <1>12

LEMMA StartCallKeeps == ASSUME FollowInv, StartCall PROVE FollowInv'
<1>0. CallStep
  BY DEF StartCall, CallStep
<1> DEFINE hs == IF conn = "gui" THEN linked ELSE {Local}
           at == IF conn = "gui" THEN "read" ELSE "any"
           live == IF conn = "gui" THEN {} ELSE hs
           box == [h \in Hosts |-> Unanswered]
<1>1. call' = CallIs(at, hs, live, cursor, {}, {}, box)
  BY DEF StartCall, CallIs
<1>2. /\ at \in {"read", "any", "rest"} /\ hs \subseteq Hosts /\ live \subseteq Hosts
      /\ box = [h \in Hosts |-> box[h]] /\ \A h \in Hosts : box[h] = Unanswered
  BY FollowConstants DEF FollowInv, WorldInv
<1> HIDE DEF hs, at, live, box
<1>3. cursor = [h \in Hosts |-> cursor[h]] /\ \A h \in Hosts : Points(cursor[h], ring[h])
  BY DEF FollowInv
<1>4. CallOK(call')
  BY <1>1, <1>2, <1>3, CallWellFormed
<1>5. call'.cursor = cursor /\ call'.events = {} /\ call'.missed = {} /\ call'.box = box
  BY <1>1, CallFields
<1>6. ASSUME NEW g \in Hosts PROVE HostOK(call', g, ring[g], cursor[g], Happened)
  <2>1. Reaches(cursor[g], cursor[g])
    BY <1>3 DEF Points, Reaches
  <2> QED BY <1>2, <1>3, <1>5, <2>1 DEF HostOK
<1> QED BY <1>0, <1>4, <1>5, <1>6, CallGoesOn

LEMMA ReplyKeeps == ASSUME FollowInv, Reply PROVE FollowInv'
<1> DEFINE shown == IF started \/ ~fromNow THEN call.events ELSE {}
<1>1. /\ printed' = printed \cup shown
      /\ again' = (again \/ \E e \in shown, p \in printed :
                     e[1] = p[1] /\ (e[2] < p[2] \/ (e[2] = p[2] /\ e[3] <= p[3])))
      /\ excused' = excused \cup (call.events \ shown) \cup
           {e \in Happened : /\ e[1] \in call.missed /\ e \notin printed \cup shown
                             /\ \/ e[2] < call.cursor[e[1]].epoch
                                \/ /\ e[2] = call.cursor[e[1]].epoch
                                   /\ e[3] <= call.cursor[e[1]].seq}
      /\ cursor' = call.cursor /\ call' = NoCall
      /\ UNCHANGED <<ring, ended, linked>> /\ call.at # "none"
  BY DEF Reply, Finished, world
<1>2. shown \subseteq call.events
  OBVIOUS
<1> HIDE DEF shown
<1>3. /\ CallOK(call) /\ \A e \in call.events : e[1] \in Hosts
      /\ \A g \in Hosts : HostOK(call, g, ring[g], cursor[g], Happened)
  BY <1>1, CallParts
<1>4. /\ \A g \in Hosts : Points(cursor[g], ring[g])
      /\ \A g \in Hosts : Points(call.cursor[g], ring[g]) /\ Reaches(call.cursor[g], cursor[g])
  BY <1>3 DEF FollowInv, HostOK
<1>5. \A e \in call.events : /\ OfHost(e, e[1]) /\ e[1] \in Hosts
                             /\ ~Behind(e, cursor[e[1]]) /\ Behind(e, call.cursor[e[1]])
  BY <1>3 DEF HostOK
<1>6. WorldInv' /\ Happened' = Happened
  BY <1>1 DEF FollowInv, WorldInv, Happened, Now
<1>7. cursor' = [h \in Hosts |-> cursor'[h]] /\ \A h \in Hosts : Points(cursor'[h], ring'[h])
  BY <1>1, <1>3, <1>4 DEF CallOK
<1>8. again' = FALSE
  <2>1. ASSUME NEW e \in shown, NEW p \in printed, e[1] = p[1]
        PROVE  ~(e[2] < p[2] \/ (e[2] = p[2] /\ e[3] <= p[3]))
    <3>1. p[1] \in Hosts /\ OfHost(p, p[1]) /\ Behind(p, cursor[p[1]])
      BY DEF FollowInv
    <3>2. OfHost(e, p[1]) /\ ~Behind(e, cursor[p[1]])
      BY <1>2, <1>5, <2>1
    <3>3. cursor[p[1]].epoch \in Nat /\ cursor[p[1]].seq \in Nat
      BY <1>4, <3>1 DEF Points
    <3> QED BY <3>1, <3>2, <3>3 DEF OfHost, Behind
  <2> QED BY <1>1, <2>1 DEF FollowInv
<1>9. ASSUME NEW p \in printed'
      PROVE  p[1] \in Hosts /\ OfHost(p, p[1]) /\ Behind(p, cursor'[p[1]])
  <2>1. CASE p \in printed
    <3>1. p[1] \in Hosts /\ OfHost(p, p[1]) /\ Behind(p, cursor[p[1]])
      BY <2>1 DEF FollowInv
    <3>2. /\ Points(cursor[p[1]], ring[p[1]]) /\ Points(call.cursor[p[1]], ring[p[1]])
          /\ Reaches(call.cursor[p[1]], cursor[p[1]])
      BY <1>4, <3>1
    <3>3. Behind(p, call.cursor[p[1]])
      BY <3>1, <3>2 DEF Points, Reaches, Behind, OfHost
    <3> QED BY <1>1, <3>1, <3>3
  <2>2. CASE p \in shown
    BY <1>1, <1>2, <1>5, <2>2
  <2> QED BY <1>1, <1>9, <2>1, <2>2
<1>10. ASSUME NEW e \in Happened, Owed(e, call.cursor[e[1]])
       PROVE  e \in printed' \cup excused'
  <2>1. e[1] \in Hosts
    BY HappenedTyped DEF FollowInv
  <2>2. Owed(e, cursor[e[1]]) \/ e \in call.events \/ e[1] \in call.missed
    BY <1>3, <1>10, <2>1 DEF HostOK
  <2>3. CASE Owed(e, cursor[e[1]])
    BY <1>1, <2>3 DEF FollowInv
  <2>4. CASE e \in call.events
    BY <1>1, <2>4
  <2>5. CASE e[1] \in call.missed
    BY <1>1, <1>10, <2>5 DEF Owed, Behind
  <2> QED BY <2>2, <2>3, <2>4, <2>5
<1>11. CallInv'
  BY <1>1 DEF CallInv, NoCall
<1> QED BY <1>1, <1>6, <1>7, <1>8, <1>9, <1>10, <1>11 DEF FollowInv

-----------------------------------------------------------------------------
(* The world moves on under a call.                                        *)

LEMMA SeverIs ==
  ASSUME CallInv, NEW hs, Sever(hs)
  PROVE  \/ call' = call
         \/ /\ call.at # "none" /\ CallOK(call')
            /\ call'.cursor = call.cursor /\ call'.events = call.events
            /\ call'.missed = call.missed /\ call'.at = call.at
            /\ \A g \in Hosts : call'.box[g] \in {Failed, call.box[g]}
<1>1. CASE ~(conn = "gui" /\ call.at = "any")
  BY <1>1 DEF Sever
<1>2. CASE conn = "gui" /\ call.at = "any"
  <2>1. CallOK(call)
    BY <1>2 DEF CallInv
  <2>2. PICK todo, live, cur, events, missed, box :
          call = CallIs("any", todo, live, cur, events, missed, box)
    BY <1>2, <2>1 DEF CallOK
  <2>3. /\ call.todo = todo /\ call.live = live /\ call.cursor = cur
        /\ call.events = events /\ call.missed = missed /\ call.box = box
    BY <2>2, CallFields
  <2> DEFINE box2 == [h \in Hosts |->
                       IF h \in hs /\ call.box[h] = Unanswered THEN Failed ELSE call.box[h]]
  <2>4. call' = [call EXCEPT !.box = box2]
    BY <1>2 DEF Sever
  <2>5. box2 = [h \in Hosts |-> box2[h]] /\ \A h \in Hosts : box2[h] \in {Failed, box[h]}
    BY <2>3
  <2> HIDE DEF box2
  <2>6. call' = CallIs("any", todo, live, cur, events, missed, box2)
    BY <2>2, <2>4 DEF CallIs
  <2>7. todo \subseteq Hosts /\ live \subseteq Hosts /\ cur = [g \in Hosts |-> cur[g]]
    BY <2>1, <2>3 DEF CallOK
  <2>8. CallOK(call')
    BY <2>5, <2>6, <2>7, CallWellFormed
  <2>9. /\ call'.at = "any" /\ call'.cursor = cur /\ call'.events = events
        /\ call'.missed = missed /\ call'.box = box2
    BY <2>6, CallFields
  <2> QED BY <1>2, <2>3, <2>5, <2>8, <2>9
<1> QED BY <1>1, <1>2

LEMMA WorldKeeps ==
  ASSUME FollowInv, Grows, UNCHANGED output,
         call' = call \/ call' = NoCall \/ \E hs : Sever(hs)
  PROVE  FollowInv'
<1>1. UNCHANGED <<cursor, printed, excused, again>>
  BY DEF output
<1>2. /\ WorldInv'
      /\ \A h \in Hosts : \A c : Points(c, ring[h]) => Points(c, ring'[h])
      /\ \A e \in Happened' :
           \/ e \in Happened
           \/ e[1] \in Hosts /\ OfHost(e, e[1]) /\ \A c : Points(c, ring[e[1]]) => ~Behind(e, c)
  BY DEF Grows
<1>3. \A h \in Hosts : Points(cursor[h], ring[h])
  BY DEF FollowInv
<1>4. ASSUME NEW e \in Happened', Owed(e, cursor[e[1]]) PROVE e \in printed \cup excused
  <2>1. e \in Happened
    BY <1>2, <1>3, <1>4 DEF Owed
  <2> QED BY <1>4, <2>1 DEF FollowInv
<1>5. CallInv'
  <2>1. CASE call' = NoCall
    BY <2>1 DEF CallInv, NoCall
  <2>2. CASE call'.at # "none" /\ call' # NoCall
    <3>1. /\ call.at # "none" /\ CallOK(call')
          /\ call'.cursor = call.cursor /\ call'.events = call.events
          /\ call'.missed = call.missed /\ call'.at = call.at
          /\ \A g \in Hosts : call'.box[g] \in {Failed, call.box[g]}
      <4>1. CASE call' = call
        BY <2>2, <4>1, CallParts
      <4>2. CASE \E hs : Sever(hs)
        BY <2>2, <4>1, <4>2, SeverIs DEF FollowInv
      <4> QED BY <2>2, <4>1, <4>2
    <3>2. /\ \A e \in call.events : e[1] \in Hosts
          /\ \A g \in Hosts : HostOK(call, g, ring[g], cursor[g], Happened)
      BY <3>1, CallParts
    <3>3. ASSUME NEW g \in Hosts PROVE HostOK(call', g, ring'[g], cursor[g], Happened')
      <4>1. \A e \in Happened' :
              e \in Happened \/ (e[1] = g => \A c : Points(c, ring[g]) => ~Behind(e, c))
        BY <1>2
      <4> QED BY <1>2, <3>1, <3>2, <4>1, HostGrows
    <3> QED BY <1>1, <3>1, <3>2, <3>3 DEF CallInv
  <2> QED BY <2>1, <2>2 DEF CallInv
<1>6. \A h \in Hosts : Points(cursor'[h], ring'[h])
  BY <1>1, <1>2, <1>3
<1> QED BY <1>1, <1>2, <1>4, <1>5, <1>6 DEF FollowInv

LEMMA StillGrows ==
  ASSUME FollowInv, UNCHANGED <<ring, ended>>, linked' \subseteq Hosts
  PROVE  Grows
<1>1. Happened' = Happened
  BY DEF Happened, Now
<1> QED BY <1>1 DEF Grows, FollowInv, WorldInv

-----------------------------------------------------------------------------
LEMMA FollowInit == XInit => FollowInv
<1> SUFFICES ASSUME XInit PROVE FollowInv
  OBVIOUS
<1>1. \A h \in Hosts : ring[h] = [epoch |-> 1, last |-> 0] /\ cursor[h] = NoCursor
  BY DEF XInit
<1>2. \A h \in Hosts : ring[h].epoch = 1 /\ ring[h].last = 0
  BY <1>1
<1>3. NoCursor.epoch = 0 /\ NoCursor.seq = 0 /\ NoCursor.since = 0
  BY DEF NoCursor
<1>4. WorldInv
  BY <1>1, <1>2 DEF XInit, WorldInv
<1>5. \A h \in Hosts : Points(cursor[h], ring[h])
  BY <1>1, <1>2, <1>3 DEF Points
<1>6. Happened = {}
  <2>1. ASSUME NEW e \in Happened PROVE FALSE
    BY <1>2, <1>4, HappenedIs DEF XInit
  <2> QED BY <2>1
<1>7. CallInv
  BY DEF CallInv, XInit, NoCall
<1>8. cursor = [h \in Hosts |-> cursor[h]]
  BY DEF XInit
<1> QED BY <1>4, <1>5, <1>6, <1>7, <1>8 DEF FollowInv, XInit

LEMMA FollowNext == FollowInv /\ [XNext]_fvars => FollowInv'
<1> SUFFICES ASSUME FollowInv, [XNext]_fvars PROVE FollowInv'
  OBVIOUS
<1>0. WorldInv /\ linked \subseteq Hosts /\ CallInv
  BY DEF FollowInv, WorldInv
<1>1. ASSUME NEW h \in Hosts, Happen(h) PROVE FollowInv'
  BY <1>0, <1>1, HappenGrows, WorldKeeps DEF Happen
<1>2. ASSUME NEW h \in Hosts, Link(h) PROVE FollowInv'
  BY <1>0, <1>2, StillGrows, WorldKeeps DEF Link
<1>3. ASSUME NEW h \in Hosts, Unlink(h) PROVE FollowInv'
  <2>1. Grows
    BY <1>0, <1>3, StillGrows DEF Unlink
  <2> QED BY <1>3, <2>1, WorldKeeps DEF Unlink
<1>4. ASSUME NEW h \in Hosts, RestartDaemon(h) PROVE FollowInv'
  <2>1. Grows
    BY <1>0, <1>4, RestartGrows
  <2>2. UNCHANGED output /\ (call' = NoCall \/ \E hs : Sever(hs))
    BY <1>4 DEF RestartDaemon, DropSocket
  <2> QED BY <2>1, <2>2, WorldKeeps
<1>5. CASE StartGui
  BY <1>5, StillGrows, WorldKeeps, FollowConstants DEF StartGui
<1>6. CASE StopGui
  <2>1. Grows
    BY <1>6, StillGrows DEF StopGui
  <2>2. UNCHANGED output /\ (call' = NoCall \/ call' = call)
    BY <1>6 DEF StopGui, DropSocket
  <2> QED BY <2>1, <2>2, WorldKeeps
<1>7. CASE Dial
  BY <1>0, <1>7, StillGrows, WorldKeeps DEF Dial, world
<1>8. CASE UNCHANGED fvars
  BY <1>0, <1>8, StillGrows, WorldKeeps DEF fvars, output
<1>9. CASE StartCall \/ Block \/ Reply
  BY <1>9, StartCallKeeps, BlockKeeps, ReplyKeeps
<1>10. ASSUME NEW h \in Hosts, ReadOne(h) \/ Answer(h) \/ Take(h) PROVE FollowInv'
  BY <1>10, ReadOneKeeps, AnswerKeeps, TakeKeeps
<1> QED BY <1>1, <1>2, <1>3, <1>4, <1>5, <1>6, <1>7, <1>8, <1>9, <1>10 DEF XNext

LEMMA Followed == XSpec => []FollowInv
BY FollowInit, FollowNext, PTL DEF XSpec

(* An event behind the command's cursor was printed or reported missed,      *)
(* through any number of redials, GUI restarts, daemon restarts and ring     *)
(* overflows, on any number of hosts (NoSilentLoss).                         *)
THEOREM FollowerLosesNothing == XSpec => []NoSilentLoss
<1>1. FollowInv => NoSilentLoss
  BY DEF FollowInv, NoSilentLoss, Owed, Behind
<1> QED BY <1>1, Followed, PTL

(* No event is printed twice and each host's events are printed in their     *)
(* order (PrintedInOrder).                                                   *)
THEOREM FollowerPrintsInOrder == XSpec => []PrintedInOrder
<1>1. FollowInv => PrintedInOrder
  BY DEF FollowInv, PrintedInOrder
<1> QED BY <1>1, Followed, PTL
=============================================================================

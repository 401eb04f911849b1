------------------------------- MODULE HubLink -------------------------------
(***************************************************************************)
(* A client's Hub and its daemon across lost connections and daemon        *)
(* restarts (internal/daemonsource/hub.go, source.go): the Sources it has  *)
(* adopted, tombstones of tabs the user closed, the revision gate, creates *)
(* that wait for their ack, and the resync after a redial.  A restarted    *)
(* daemon is another instance and numbers its tabs from 1 again.           *)
(*                                                                         *)
(* Topology frames and TabCreated acks travel in channels of their own;    *)
(* the router takes from either.  A topology change and its broadcast are  *)
(* one step (Funnel has them apart).                                       *)
(***************************************************************************)
EXTENDS Integers, SequencesExt

CONSTANTS
  MaxTabs,  \* bound on the tabs of one instance
  MaxInst,  \* bound on daemon instances
  MaxRev,   \* bound on topology revisions of one instance
  MaxDrops, \* bound on lost connections
  TopoCap   \* snapshots on their way; a newer one then replaces the last

ASSUME LinkConstants ==
  /\ MaxTabs \in Nat \ {0} /\ MaxInst \in Nat \ {0} /\ MaxRev \in Nat
  /\ MaxDrops \in Nat /\ TopoCap \in Nat \ {0}

VARIABLES
  daemon,  \* the session: instance, open tabs, revision, next tab id
  topo,    \* topology snapshots on their way to the router
  acks,    \* TabCreated frames on their way, as <<ReqID, id>>
  up,      \* requests on their way: -r creates a tab under ReqID r, i closes tab i
  late,    \* requests of the previous connection the daemon has yet to read
  link,    \* "up", "down", or "swapped": redialled, resync still to run
  att,     \* the Attached snapshot of the redial, NoSnapshot when resynced
  hub,     \* lastRevision, daemonInstance and tombstones
  router,  \* the filtered snapshot the router is applying, NoWork when none
  sources, \* the instance whose tab each registered Source was made for, 0 for none
  waiter,  \* NewTabIn: the ReqID it waits for, or the tab of its ack
  nextReq, \* nextReqID
  drops,   \* connections lost
  fresh,   \* ids adopted from an ack that no snapshot has shown since
  created, \* each tab created for this client, with its ReqID
  belated, \* tabs adopted from an ack of an instance the hub no longer follows
  closed,  \* of the daemon that runs: tabs the user closed
  early,   \* those closed before any snapshot had shown them
  astray,  \* ids that closes meant for another instance's tab
  wronged  \* tabs it closed for this client that its user never closed

lvars == <<daemon, topo, acks, up, late, link, att, hub, router, sources, waiter,
           nextReq, drops, fresh, created, belated, closed, early, astray, wronged>>
wire == <<topo, acks, up, late>>
past == <<fresh, created, belated, closed, early, astray, wronged>>

Ids == 1..MaxTabs
NoWork == [on |-> FALSE]
Work(tabs, gone) == [on |-> TRUE, tabs |-> tabs, gone |-> gone]
Idle == [at |-> "idle"]
NoSnapshot == [inst |-> 0, tabs |-> {}, rev |-> 0, next |-> 1]

LInit ==
  /\ daemon = [inst |-> 1, tabs |-> {1}, rev |-> 1, next |-> 2]
  /\ topo = <<>> /\ acks = <<>> /\ up = <<>> /\ late = <<>>
  /\ link = "up" /\ att = NoSnapshot
  /\ hub = [last |-> 1, inst |-> 1, tomb |-> {}]
  /\ router = NoWork
  /\ sources = [i \in Ids |-> IF i = 1 THEN 1 ELSE 0]
  /\ waiter = Idle /\ nextReq = 0
  /\ drops = 0
  /\ fresh = {} /\ created = {} /\ belated = {}
  /\ closed = {} /\ early = {} /\ astray = {} /\ wronged = {}

-----------------------------------------------------------------------------
(* The daemon. *)

Connected == link # "down"

\* The latest-wins slot: a snapshot not yet sent is replaced.
Broadcast(d) ==
  topo' = IF ~Connected THEN topo
          ELSE IF Len(topo) < TopoCap THEN Append(topo, d)
          ELSE [topo EXCEPT ![TopoCap] = d]

Opened == [daemon EXCEPT !.tabs = @ \cup {daemon.next}, !.rev = @ + 1, !.next = @ + 1]
Without1(i) == [daemon EXCEPT !.tabs = @ \ {i}, !.rev = @ + 1]
CanOpen == daemon.next \in Ids /\ daemon.rev < MaxRev

\* Another client or an agent opens or closes a tab.
OthersOpen ==
  /\ CanOpen
  /\ daemon' = Opened /\ Broadcast(Opened)
  /\ UNCHANGED <<acks, up, late, link, att, hub, router, sources, waiter, nextReq, drops, past>>

OthersClose(i) ==
  /\ i \in daemon.tabs /\ daemon.rev < MaxRev
  /\ daemon' = Without1(i) /\ Broadcast(Without1(i))
  /\ UNCHANGED <<acks, up, late, link, att, hub, router, sources, waiter, nextReq, drops, past>>

\* A request of this client is handled; an ack goes to the connection it came
\* from, which for a late one is gone.
Serve(request, reply) ==
  /\ \/ /\ request < 0 /\ CanOpen
        /\ daemon' = Opened /\ Broadcast(Opened)
        /\ acks' = IF reply THEN Append(acks, <<-request, daemon.next>>) ELSE acks
        /\ created' = created \cup {<<-request, <<daemon.inst, daemon.next>>>>}
        /\ UNCHANGED wronged
     \/ /\ request \in daemon.tabs /\ daemon.rev < MaxRev
        /\ daemon' = Without1(request) /\ Broadcast(Without1(request))
        /\ wronged' = wronged \cup ({request} \ closed)
        /\ UNCHANGED <<acks, created>>
     \/ /\ request > 0 /\ request \notin daemon.tabs
        /\ UNCHANGED <<daemon, topo, acks, created, wronged>>
  /\ UNCHANGED <<link, att, hub, router, sources, waiter, nextReq, drops, fresh,
                 belated, closed, early, astray>>

ServeNext == up # <<>> /\ Serve(Head(up), TRUE) /\ up' = Tail(up) /\ late' = late
ServeLate == late # <<>> /\ Serve(Head(late), FALSE) /\ late' = Tail(late) /\ up' = up

-----------------------------------------------------------------------------
(* The connection. *)

\* The daemon may still read what was sent, or not.
Drop ==
  /\ link = "up" /\ drops < MaxDrops /\ ~router.on
  /\ drops' = drops + 1
  /\ link' = "down"
  /\ topo' = <<>> /\ acks' = <<>> /\ up' = <<>>
  /\ late' \in {up, <<>>}
  /\ waiter' = IF waiter.at = "waiting" THEN Idle ELSE waiter
  /\ UNCHANGED <<daemon, att, hub, router, sources, nextReq, past>>

Restart ==
  /\ link = "down" /\ daemon.inst < MaxInst
  /\ daemon' = [inst |-> daemon.inst + 1, tabs |-> {}, rev |-> 0, next |-> 1]
  /\ late' = <<>>
  /\ closed' = {} /\ early' = {} /\ astray' = {} /\ wronged' = {}
  /\ UNCHANGED <<topo, acks, up, link, att, hub, router, sources, waiter, nextReq, drops,
                 fresh, created, belated>>

\* redial and conn.Swap; a broadcast of the moment may follow Attached.
Redial ==
  /\ link = "down"
  /\ link' = "swapped" /\ att' = daemon
  /\ topo' \in {<<>>, <<daemon>>}
  /\ UNCHANGED <<daemon, acks, up, late, hub, router, sources, waiter, nextReq, drops, past>>

\* Mutant: tombstones outlive the daemon they were created for.
KeepTombstones(inst) == [hub EXCEPT !.inst = inst]

\* noteInstance: another daemon's tombstones mean nothing.
Noted(inst) ==
  [hub EXCEPT !.inst = inst, !.tomb = IF inst = hub.inst THEN @ ELSE {}]

\* reconcileTombstones: a close that never landed is sent again, one the
\* snapshot confirms is forgotten, and the tab is hidden meanwhile.
Replays(h, tabs) == \E s \in SetToSeqs(h.tomb \cap tabs) : up' = up \o s

\* The Sources a snapshot makes vanish: those it does not show, and after a
\* restart every one.
Vanishing(tabs, restarted) == {i \in Ids : sources[i] # 0 /\ (restarted \/ i \notin tabs)}

\* resyncAfterReconnect up to computing what vanished; not revision-gated.
Resync ==
  /\ link = "swapped"
  /\ LET h == Noted(att.inst)
         tabs == att.tabs \ h.tomb
     IN /\ Replays(h, att.tabs)
        /\ hub' = [h EXCEPT !.last = att.rev, !.tomb = @ \cap att.tabs]
        /\ router' = Work(tabs, Vanishing(tabs, att.inst # hub.inst))
  /\ link' = "up" /\ att' = NoSnapshot
  /\ UNCHANGED <<daemon, topo, acks, late, sources, waiter, nextReq, drops, past>>

-----------------------------------------------------------------------------
(* The client. *)

\* applyTopology's gate and tombstones.
Gate ==
  /\ link = "up" /\ ~router.on /\ topo # <<>>
  /\ topo' = Tail(topo)
  /\ LET t == Head(topo)
         tabs == t.tabs \ hub.tomb
     IN IF t.rev <= hub.last
        THEN UNCHANGED <<up, hub, router>>
        ELSE /\ Replays(hub, t.tabs)
             /\ hub' = [hub EXCEPT !.last = t.rev, !.tomb = @ \cap t.tabs]
             /\ router' = Work(tabs, Vanishing(tabs, FALSE))
  /\ UNCHANGED <<daemon, acks, late, link, att, sources, waiter, nextReq, drops, past>>

\* Mutant: adopt first, vanish second.
AdoptFirst(work, inst) ==
  [i \in Ids |-> IF i \in work.gone THEN 0
                 ELSE IF i \in work.tabs /\ sources[i] = 0 THEN inst ELSE sources[i]]

\* markVanished, which unregisters by id, then Adopt.
Reconciled(work, inst) ==
  [i \in Ids |-> IF i \in work.tabs /\ (sources[i] = 0 \/ i \in work.gone) THEN inst
                 ELSE IF i \in work.gone THEN 0 ELSE sources[i]]

Apply ==
  /\ router.on
  /\ sources' = Reconciled(router, hub.inst)
  /\ router' = NoWork
  /\ fresh' = fresh \ (router.tabs \cup router.gone)
  /\ UNCHANGED <<daemon, wire, link, att, hub, waiter, nextReq, drops, created, belated,
                 closed, early, astray, wronged>>

\* Mutant: acks answer creates in the order they come.
AnyAck(req) == TRUE

\* deliverTabCreated: an ack nobody waits for is dropped.
Awaited(req) == req = nextReq

RouteAck ==
  /\ link = "up" /\ ~router.on /\ acks # <<>>
  /\ acks' = Tail(acks)
  /\ waiter' = IF waiter.at = "waiting" /\ Awaited(Head(acks)[1])
               THEN [at |-> "acked", tab |-> <<hub.inst, Head(acks)[2]>>]
               ELSE waiter
  /\ UNCHANGED <<daemon, topo, up, late, link, att, hub, router, sources, nextReq, drops, past>>

\* newTabIn on the UI goroutine: send, then wait for the ack of that ReqID, a
\* refusal, the end of the connection or the timeout.
NewTabIn ==
  /\ link = "up" /\ waiter = Idle /\ nextReq < MaxTabs
  /\ nextReq' = nextReq + 1
  /\ up' = Append(up, -nextReq')
  /\ waiter' = [at |-> "waiting"]
  /\ UNCHANGED <<daemon, topo, acks, late, link, att, hub, router, sources, drops, past>>

GiveUp ==
  /\ waiter.at = "waiting"
  /\ waiter' = Idle
  /\ UNCHANGED <<daemon, wire, link, att, hub, router, sources, nextReq, drops, past>>

AdoptAck ==
  /\ waiter.at = "acked"
  /\ LET inst == waiter.tab[1]  i == waiter.tab[2]
     IN /\ sources' = [sources EXCEPT ![i] = IF @ = 0 THEN inst ELSE @]
        /\ fresh' = IF sources[i] = 0 THEN fresh \cup {i} ELSE fresh
        /\ belated' = IF inst = hub.inst THEN belated ELSE belated \cup {waiter.tab}
  /\ waiter' = Idle
  /\ UNCHANGED <<daemon, wire, link, att, hub, router, nextReq, drops, created, closed,
                 early, astray, wronged>>

Buried(i) == hub.tomb \cup {i}   \* addTombstone

\* A close gives an id and no instance: it counts for the tab of the daemon that
\* runs unless its request is lost and its tombstone is for an earlier one.
Lands == Connected \/ hub.inst = daemon.inst

\* Source.Close: tombstone, send (into the void when the link is down),
\* unregister.
UserClose(i) ==
  /\ sources[i] # 0
  /\ hub' = [hub EXCEPT !.tomb = Buried(i)]
  /\ up' = IF Connected THEN Append(up, i) ELSE up
  /\ sources' = [sources EXCEPT ![i] = 0]
  /\ LET own == sources[i] = daemon.inst
     IN /\ closed' = IF own THEN closed \cup {i} ELSE closed
        /\ early' = IF own /\ i \in fresh THEN early \cup {i} ELSE early
        /\ astray' = IF ~own /\ Lands THEN astray \cup {i} ELSE astray
  /\ fresh' = fresh \ {i}
  /\ UNCHANGED <<daemon, topo, acks, late, link, att, router, waiter, nextReq, drops,
                 created, belated, wronged>>

LNext ==
  \/ OthersOpen \/ ServeNext \/ ServeLate \/ Drop \/ Restart \/ Redial \/ Resync
  \/ Gate \/ Apply \/ RouteAck \/ NewTabIn \/ GiveUp \/ AdoptAck
  \/ \E i \in Ids : OthersClose(i) \/ UserClose(i)

LSpec == LInit /\ [][LNext]_lvars

-----------------------------------------------------------------------------
\* What hub.go promises of a restarted daemon, that tombstones go "so a reused
\* ID isn't suppressed / re-closed": the daemon closes no tab for this client
\* that its user did not close.  It fails (MCHubRestart): Source.Close holds no
\* lock against conn.Swap and resyncAfterReconnect, and a close gives no
\* instance.
NoForeignClose == wronged = {}

\* The tabs it wrongly closes are those of astray closes, of a Source that
\* stands for another instance's tab at that moment, and no others: no
\* tombstone, replay or late request of an earlier instance closes a tab.
OnlyStrayCloses == wronged \subseteq astray

LinkRests ==
  /\ link = "up" /\ topo = <<>> /\ acks = <<>> /\ up = <<>> /\ late = <<>>
  /\ ~router.on /\ waiter = Idle

\* Once nothing is on its way, a tab the user closed is closed at the daemon,
\* whatever the link lost, unless no snapshot had shown it: that close is
\* confirmed by a snapshot from before the tab, and not sent again.
ClosedTabsGo ==
  LinkRests => daemon.tabs \cap closed \subseteq early

\* A close ends at the tab its user closed, or is one of the astray closes.
ClosesHitTheirTab == OnlyStrayCloses /\ ClosedTabsGo

\* Once nothing is on its way, the registered Sources are the daemon's tabs,
\* each for the instance that runs (resyncAfterReconnect: a tab reusing an old
\* ID "is NOT the old tab surviving").  Two exceptions: a Source adopted from an
\* ack that no snapshot has shown since, of a tab that is closed, and an ack
\* adopted after its connection's successor was noted, whose Source takes the
\* id of a tab of the instance that runs.
RestingSourcesAgree ==
  LinkRests => \A i \in Ids :
    \/ sources[i] = (IF i \in daemon.tabs THEN daemon.inst ELSE 0)
    \/ i \in fresh \ daemon.tabs
    \/ i \in daemon.tabs /\ <<sources[i], i>> \in belated

\* NewTabIn returns the tab that was created for its own request, whatever late
\* acks of given-up creates arrive.
AckIsOwn == waiter.at = "acked" => <<nextReq, waiter.tab>> \in created
=============================================================================

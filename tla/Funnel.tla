-------------------------------- MODULE Funnel --------------------------------
(***************************************************************************)
(* A session shared by several viewers.  Every structural change goes      *)
(* through the daemon's funnel (internal/daemon/daemon.go): mutate the     *)
(* session, bring every connection's subscriptions in line, snapshot the   *)
(* topology, and leave the snapshot in the latest-wins slot of every       *)
(* connection.  Each of these steps takes its own lock, so the funnels of  *)
(* several goroutines, the attach handlers and the per-connection writers  *)
(* interleave between them.  A client keeps the newest snapshot it was     *)
(* sent, gated by the revision (internal/daemonsource/hub.go).             *)
(*                                                                         *)
(* One session; a client that detaches or loses its connection comes back  *)
(* on a new connection, which is what the clients in the repository do.    *)
(***************************************************************************)
EXTENDS Session

CONSTANTS Clients     \* callers that are wire connections; the others are
                      \* MCP agents, which own no connection

ASSUME FunnelConstants == Clients \subseteq Callers

VARIABLES
  conn,        \* "off", "open", or "closing" (read loop over, still listed)
  sessionName, \* whether the connection's name mirror says this session
  subSession,  \* whether the connection accepts subscriptions
  subs,        \* tabs the connection has a publish loop for
  outCh,       \* the Attached frame waiting in the FIFO, NoSnap when none
  slot,        \* pendingTopology, NoSnap when empty
  attachedSent,\* whether the writer has let latest-wins frames through
  view,        \* the topology the client shows, NoSnap before Attached
  task         \* where each goroutine is in its handler

connVars == <<conn, sessionName, subSession, subs, outCh, slot, attachedSent,
              view>>
fvars == <<vars, connVars, task>>

\* What TopologySnapshot reads under s.mu.
Snapshot == [rev |-> revision, windows |-> windows, bars |-> tabIDs]
NoSnap == [rev |-> -1, windows |-> <<>>, bars |-> <<>>]

Idle == [at |-> "idle"]

FInit ==
  /\ Init
  /\ conn = [c \in Clients |-> "off"]
  /\ sessionName = [c \in Clients |-> FALSE]
  /\ subSession = [c \in Clients |-> FALSE]
  /\ subs = [c \in Clients |-> {}]
  /\ outCh = [c \in Clients |-> NoSnap]
  /\ slot = [c \in Clients |-> NoSnap]
  /\ attachedSent = [c \in Clients |-> FALSE]
  /\ view = [c \in Clients |-> NoSnap]
  /\ task = [a \in Callers |-> Idle]

-----------------------------------------------------------------------------
(* Handlers.  A goroutine runs one at a time: an agent whenever it likes, a *)
(* connection's read loop while it is open and attached.                    *)

At(a, step) == task[a].at = step
Goto(a, t) == task' = [task EXCEPT ![a] = t]

Free(a) == At(a, "idle") /\ (a \in Clients => conn[a] = "open" /\ sessionName[a])

\* Bound: a handler that will stamp a revision starts only while MaxRevision
\* leaves room for it and for the closes already under way.
Room == revision + Cardinality({a \in Callers : At(a, "unsub")}) < MaxRevision

\* Mutant: only the clients that show something already.
ShownViewers == {c \in Clients : sessionName[c] /\ view[c] # NoSnap}

\* sessionClients: the connections attached to this session right now.
Viewers == {c \in Clients : sessionName[c]}

Broadcast == [at |-> "snapshot"]
SubscribeAll(ts) == [at |-> "fan", tabs |-> ts, tab |-> NoTab, todo |-> {}]

\* MoveTab, CreateWindow, CloseWindow: the change, then the broadcast.
Restructure(c) ==
  /\ c \in Clients /\ Free(c) /\ Room
  /\ \/ NewWindow
     \/ \E w \in WinID : CloseWindow(w)
     \/ \E t \in TabID, w \in AnyWindow, i \in MoveIndex : MoveTab(t, w, i)
  /\ Goto(c, Broadcast)
  /\ UNCHANGED connVars

\* createNamedTabFor without a label.
Create(a) ==
  /\ Free(a) /\ Room
  /\ \E w \in AnyWindow : CreateUnnamed(w)
  /\ Goto(a, SubscribeAll({nextTabID}))
  /\ UNCHANGED connVars

\* createNamedTabFor with a label no live tab is indexed under.
CreateNamed(a) ==
  /\ Free(a) /\ Room
  /\ \E n \in Names, w \in AnyWindow : BeginFindOrCreate(a, n, w)
  /\ Goto(a, [at |-> "spawn", attach |-> FALSE])
  /\ UNCHANGED connVars

\* The shell of a call that holds initMu starts, or does not.
Spawned(call) ==
  /\ Room
  /\ FinishSpawn(call)
  /\ Goto(call.caller, IF task[call.caller].attach
                         THEN [at |-> "reply", created |-> TRUE]
                         ELSE SubscribeAll({nextTabID}))
  /\ UNCHANGED connVars

SpawnFailed(call) ==
  /\ FailSpawn(call)
  /\ Goto(call.caller, Idle)
  /\ UNCHANGED connVars

\* Daemon.CloseTab: unsubscribe every client, close, broadcast.
Close(a) ==
  /\ Free(a) /\ Room
  /\ \E t \in 1..(nextTabID - 1) :
       Goto(a, [at |-> "unsub", tab |-> t, todo |-> Viewers])
  /\ UNCHANGED <<vars, connVars>>

Unsubscribe(a) ==
  /\ At(a, "unsub")
  /\ \E c \in task[a].todo :
       /\ subs' = [subs EXCEPT ![c] = @ \ {task[a].tab}]
       /\ task' = [task EXCEPT ![a].todo = @ \ {c}]
  /\ UNCHANGED <<vars, conn, sessionName, subSession, outCh, slot,
                 attachedSent, view>>

CloseUnsubscribed(a) ==
  /\ At(a, "unsub") /\ task[a].todo = {}
  /\ IF task[a].tab \in tabs THEN CloseTab(task[a].tab) ELSE UNCHANGED vars
  /\ Goto(a, Broadcast)
  /\ UNCHANGED connVars

-----------------------------------------------------------------------------
(* The steps the handlers share.                                            *)

\* Mutant: subscribe without looking at the stop mark.
SubscribeAlways(c, t) == subs' = [subs EXCEPT ![c] = @ \cup {t}]

\* clientConn.subscribe, under subsMu: refused once the connection no longer
\* accepts, a no-op when the loop exists.
Subscribe(c, t) ==
  subs' = [subs EXCEPT ![c] = IF subSession[c] THEN @ \cup {t} ELSE @]

\* subscribeSessionClients lists the viewers of the next tab, then
\* subscribes them one by one.
ListSubscribers(a) ==
  /\ At(a, "fan") /\ task[a].todo = {}
  /\ \E t \in task[a].tabs :
       Goto(a, [at |-> "fan", tabs |-> task[a].tabs \ {t}, tab |-> t,
                todo |-> Viewers])
  /\ UNCHANGED <<vars, connVars>>

SubscribeOne(a) ==
  /\ At(a, "fan")
  /\ \E c \in task[a].todo :
       /\ Subscribe(c, task[a].tab)
       /\ task' = [task EXCEPT ![a].todo = @ \ {c}]
  /\ UNCHANGED <<vars, conn, sessionName, subSession, outCh, slot,
                 attachedSent, view>>

\* broadcastTopology: snapshot, list the viewers, fill their slots.
TakeSnapshot(a) ==
  /\ \/ At(a, "snapshot")
     \/ At(a, "fan") /\ task[a].tabs = {} /\ task[a].todo = {}
  /\ Goto(a, [at |-> "list", snap |-> Snapshot])
  /\ UNCHANGED <<vars, connVars>>

ListViewers(a) ==
  /\ At(a, "list")
  /\ Goto(a, [at |-> "cast", snap |-> task[a].snap, todo |-> Viewers])
  /\ UNCHANGED <<vars, connVars>>

\* Mutant: the slot takes what comes last.
LastCome(had, got) == got

\* What the slot keeps of a snapshot it holds and one that comes.
Newest(had, got) == IF got.rev >= had.rev THEN got ELSE had

SendTopology(a) ==
  /\ At(a, "cast")
  /\ \E c \in task[a].todo :
       /\ slot' = [slot EXCEPT ![c] = Newest(@, task[a].snap)]
       /\ task' = [task EXCEPT ![a].todo = @ \ {c}]
  /\ UNCHANGED <<vars, conn, sessionName, subSession, subs, outCh,
                 attachedSent, view>>

Finish(a) ==
  /\ At(a, "cast") /\ task[a].todo = {}
  /\ Goto(a, Idle)
  /\ UNCHANGED <<vars, connVars>>

-----------------------------------------------------------------------------
(* Connections.                                                             *)

\* A client dials; handshake registers the connection.
Connect(c) ==
  /\ conn[c] = "off"
  /\ conn' = [conn EXCEPT ![c] = "open"]
  /\ UNCHANGED <<vars, sessionName, subSession, subs, outCh, slot,
                 attachedSent, view, task>>

\* handleAttach, step by step.
Attach(c) ==
  /\ conn[c] = "open" /\ ~sessionName[c] /\ At(c, "idle")
  /\ sessionName' = [sessionName EXCEPT ![c] = TRUE]
  /\ Goto(c, [at |-> "accept"])
  /\ UNCHANGED <<vars, conn, subSession, subs, outCh, slot, attachedSent, view>>

Accept(c) ==
  /\ At(c, "accept")
  /\ subSession' = [subSession EXCEPT ![c] = TRUE]
  /\ Goto(c, [at |-> "ensure"])
  /\ UNCHANGED <<vars, conn, sessionName, subs, outCh, slot, attachedSent, view>>

\* NewIfMissing on an empty session: this client's call starts the shell.
EnsureTab(c) ==
  /\ At(c, "ensure")
  /\ BeginEnsureInitial(c)
  /\ Goto(c, [at |-> "spawn", attach |-> TRUE])
  /\ UNCHANGED connVars

\* Not NewIfMissing, or the session has a tab.
EnsureNothing(c) ==
  /\ At(c, "ensure")
  /\ Goto(c, [at |-> "reply", created |-> FALSE])
  /\ UNCHANGED <<vars, connVars>>

\* Snapshot and queue the Attached frame.
Reply(c) ==
  /\ At(c, "reply")
  /\ outCh' = [outCh EXCEPT ![c] = Snapshot]
  /\ Goto(c, [at |-> "tabs", created |-> task[c].created])
  /\ UNCHANGED <<vars, conn, sessionName, subSession, subs, slot, attachedSent,
                 view>>

\* Subscribe this connection to the tabs there are now.
ListTabs(c) ==
  /\ At(c, "tabs")
  /\ Goto(c, [at |-> "own", created |-> task[c].created, todo |-> tabs])
  /\ UNCHANGED <<vars, connVars>>

SubscribeOwn(c) ==
  /\ At(c, "own")
  /\ \E t \in task[c].todo :
       /\ Subscribe(c, t)
       /\ task' = [task EXCEPT ![c].todo = @ \ {t}]
  /\ UNCHANGED <<vars, conn, sessionName, subSession, outCh, slot,
                 attachedSent, view>>

\* After creating the first tab: subscribe everyone, and broadcast.
FinishAttach(c) ==
  /\ At(c, "own") /\ task[c].todo = {}
  /\ Goto(c, IF task[c].created THEN SubscribeAll(tabs) ELSE Idle)
  /\ UNCHANGED <<vars, connVars>>

\* The writer sends Attached and opens the latest-wins lane; the client
\* shows it and seeds its revision gate.
WriteAttached(c) ==
  /\ conn[c] # "off" /\ outCh[c] # NoSnap
  /\ view' = [view EXCEPT ![c] = outCh[c]]
  /\ outCh' = [outCh EXCEPT ![c] = NoSnap]
  /\ attachedSent' = [attachedSent EXCEPT ![c] = TRUE]
  /\ UNCHANGED <<vars, conn, sessionName, subSession, subs, slot, task>>

\* The client's revision gate (Hub.applyTopology).
Gate(shown, got) == IF got.rev <= shown.rev THEN shown ELSE got

WriteTopology(c) ==
  /\ conn[c] # "off" /\ slot[c] # NoSnap
  /\ attachedSent[c]
  /\ view' = [view EXCEPT ![c] = Gate(@, slot[c])]
  /\ slot' = [slot EXCEPT ![c] = NoSnap]
  /\ UNCHANGED <<vars, conn, sessionName, subSession, subs, outCh,
                 attachedSent, task>>

\* The read loop ends (peer gone, kicked, reaped, or MsgDetach): stopAllSubs.
Disconnect(c) ==
  /\ conn[c] = "open" /\ At(c, "idle")
  /\ conn' = [conn EXCEPT ![c] = "closing"]
  /\ subSession' = [subSession EXCEPT ![c] = FALSE]
  /\ subs' = [subs EXCEPT ![c] = {}]
  /\ UNCHANGED <<vars, sessionName, outCh, slot, attachedSent, view, task>>

\* The writer is done and the connection leaves the daemon's client list.
Unregister(c) ==
  /\ conn[c] = "closing"
  /\ conn' = [conn EXCEPT ![c] = "off"]
  /\ sessionName' = [sessionName EXCEPT ![c] = FALSE]
  /\ outCh' = [outCh EXCEPT ![c] = NoSnap]
  /\ slot' = [slot EXCEPT ![c] = NoSnap]
  /\ attachedSent' = [attachedSent EXCEPT ![c] = FALSE]
  /\ view' = [view EXCEPT ![c] = NoSnap]
  /\ UNCHANGED <<vars, subSession, subs, task>>

-----------------------------------------------------------------------------
\* What a goroutine in the middle of a handler does next.
Proceed(a) ==
  \/ Unsubscribe(a) \/ CloseUnsubscribed(a)
  \/ ListSubscribers(a) \/ SubscribeOne(a)
  \/ TakeSnapshot(a) \/ ListViewers(a) \/ SendTopology(a) \/ Finish(a)
  \/ \E call \in pending : call.caller = a /\ (Spawned(call) \/ SpawnFailed(call))

ProceedAttach(c) ==
  \/ Accept(c) \/ EnsureTab(c) \/ EnsureNothing(c) \/ Reply(c)
  \/ ListTabs(c) \/ SubscribeOwn(c) \/ FinishAttach(c)

Write(c) == WriteAttached(c) \/ WriteTopology(c)

FNext ==
  \/ \E a \in Callers : Create(a) \/ CreateNamed(a) \/ Close(a) \/ Proceed(a)
  \/ \E c \in Clients : \/ Restructure(c) \/ Connect(c) \/ Attach(c)
                        \/ ProceedAttach(c) \/ Write(c)
                        \/ Disconnect(c) \/ Unregister(c)

FSpec == FInit /\ [][FNext]_fvars

-----------------------------------------------------------------------------
(* Properties.                                                              *)

\* Nothing is in flight: no handler is running, no frame is queued.
Quiet ==
  /\ \A a \in Callers : At(a, "idle")
  /\ \A c \in Clients : outCh[c] = NoSnap /\ slot[c] = NoSnap

\* The windows, and which tabs each holds.
SameMembership(s, r) ==
  /\ s.windows = r.windows
  /\ \A w \in WinID : ToSet(s.bars[w]) = ToSet(r.bars[w])

\* When nothing is in flight every client that shows a topology shows the
\* windows and tabs the session has now, whatever order the snapshots, the
\* list of viewers and the slots were read and written in and whoever attached
\* in between: the promise of "snapshot + revision (not deltas)".
ViewsConverge ==
  Quiet => \A c \in Clients :
    view[c] # NoSnap => SameMembership(view[c], Snapshot)

\* When nothing is in flight an attached client has a publish loop for every
\* tab of the session: a tab created while the client was attaching is not
\* left blank by falling between its list of tabs and the creator's list of
\* viewers.
NoBlindTab ==
  Quiet => \A c \in Clients :
    conn[c] = "open" /\ view[c] # NoSnap => tabs \subseteq subs[c]

\* A connection that has stopped its subscriptions has none and gets none,
\* even from a fan-out that listed it before.
NoLoopAfterTeardown == \A c \in Clients : ~subSession[c] => subs[c] = {}

\* Every goroutine in a handler, every writer and every ended connection goes
\* on: the Go scheduler is fair, and the sends they make never block for ever
\* (the slots do not block, outDone releases the FIFO).
Fairness ==
  /\ \A a \in Callers : WF_fvars(Proceed(a))
  /\ \A c \in Clients : /\ WF_fvars(ProceedAttach(c))
                        /\ WF_fvars(Write(c))
                        /\ WF_fvars(Unregister(c))

FairFSpec == FSpec /\ Fairness

\* A client that stays connected catches up with the session again and again:
\* no order of broadcasts leaves it behind for good.
ViewsCatchUp ==
  \A c \in Clients :
    []<>(view[c] = NoSnap \/ SameMembership(view[c], Snapshot))

=============================================================================

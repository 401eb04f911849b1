# xerotty: specifications of the daemon and its clients

TLA+ models, TLC runs and TLAPS proofs for xerotty, a terminal emulator whose
shells live in a daemon: several graphical clients and MCP agents share its
tabs, and a supervisor keeps the shells alive when the daemon crashes or is
upgraded.  Every definition is taken from the Go source under `src/`;
`PROJECT.json` maps each one to its lines.

## The system

One binary plays several roles: `xerotty` (the GUI), `xerotty serve` (a
supervisor and its daemon child `serve --child`), `xerotty connect` (a command
line client) and `xerotty mcp` (a bridge for agents).

```
 GUI windows, connect            MCP agents
   | wire protocol (unix socket)   | JSON-RPC
   v                               v
 clientConn (read loop, writer, publish loops)   mcp.Server
   |               \                 /
   |                v               v
   |               funnel: Daemon.CreateTab / CloseTab / MoveTab / ...
   |                        |
   |                        v
   |                     Session  (windows, tabs, labels, focus, revision)
   |                        |
   |            Terminal + PTY per tab        TabSpawned/TabGone/state push
   v                                              |
 Hub (topology gate, sources)                     v
                                     supervise.Client --- socketpair --- Supervisor
```

| Component | State | Operations | Hard because | Correct when |
|---|---|---|---|---|
| `daemon/session.go` Session | windows, tab bars, front tabs, labels and reuse index, focus, revision, id counters, proposals | window and tab create/close/move, find-or-create, rename, focus, child exit | find-or-create unlocks between check and spawn; dead tabs keep labels; each method edits two bars by hand | a tab is in one place, focus dangles never, running labels are unique, membership changes take a revision |
| `daemon/daemon.go` funnel | connections, latest-wins broadcasts | mutate, subscribe, snapshot, broadcast; size arbitration | each step takes its own lock | all clients converge, every client has a publish loop for each tab and for no other |
| `daemon/conn.go` clientConn | attach state, publish loops, FIFO, slots, heartbeat | attach, detach, dispatch, write, publish cells, scrollback, images | three kinds of goroutine per connection; full queues | Attached comes first, no view goes back, nothing is lost for good, dead peers go |
| `daemon/supervised.go`, `upgrade.go` | pending state push | report tabs, push state, serialise, resume | sent after unlocking, from several goroutines | what a crash resumes is close to what there was |
| `supervise/supervisor.go` Supervisor | descriptors per tab, child pid, signals, upgrade in flight | spawn, reap, relay exits, resume, re-exec | five goroutines, two locks, the kernel | no death missed, no shell lost, stop and upgrade end |
| `daemonsource/hub.go`, `source.go` | mirrored topology, tombstones, cells, scrollback | apply frames, reconnect, close | frames of different types overtake; reconnect to another daemon | shows what the daemon has |
| `clientproto` | one channel per frame type | read loop, requests | routing loses the order between types | no frame lost or misrouted |
| `tabevents` | ring of events, waiters, filters | record, wait, query | overwrites under a reader's cursor | no event skipped silently |
| `handoff` | handoff file | write, read | versions | what is read is what was written |
| `terminal`, `scrollback` | emulator, PTY, on-disk scrollback | feed, resize, snapshot, clear | reader goroutine and lock order; trimmed offsets | lines match their indices |
| `mcp`, `guimcp` | agent sessions, modes, trust | tools over the funnel | acts beside the clients | agents do no more than their mode allows |
| `runner`, `daemonspawn`, `sockpath`, `launchipc` | processes, sockets, pid files | start, connect, upgrade, single instance | races between processes | one daemon per socket |
| `app`, `tabs`, `menu` | GUI windows, their tab bars, layout fingerprint, pending topology | frame loop, drag and tear-off, following, layout push | several GUIs edit one record; a snapshot may predate what was sent | the bars agree in the end, nothing moves by itself, no fight |
| `renderer`, `glyphcache`, `fontsys`, `platform`, `input`, `config`, `themes`, `cellconv`, `screentext`, `sendkeys`, `dpi`, `sdlhack`, `protocol`, `testutil` | caches, tables | drawing, parsing, encoding | little concurrency | per function |

## Modules

| Module | What it is |
|---|---|
| `Session` | One session. One action per method of `Session` under `s.mu`; find-or-create is split where the code unlocks. |
| `Placement` | What a session promises about where tabs live. `Session` implements it (`ImplementsPlacement`). |
| `Funnel` | `Session` shared by connections and agents: one step per lock the funnel, the attach handler and the writer take; the client's revision gate. |
| `Supervisor` | The supervisor's goroutines, the kernel's part (zombies, SIGCHLD, re-parenting), and the child seen from outside. |
| `CrashRestore` | `Session` under a supervisor: frames owed and sent, state pushes, crashes and upgrades, `buildHandoff` and `ResumeFromHandoff`. |
| `TabSize` | One tab and its viewers: size requests, claims, `reconcileTabSize`, the deferred shrink, the forced repaint. |
| `Proposals` | The queue of writes that wait for approval, its broadcast, the gates of the GUIs and answers by index. |
| `History` | The scrollback of one terminal: the emulator's ring, its write-through copy on disk, faults, crashes and hot upgrades. |
| `Mirror` | A tab's cells and scrollback from the publish loop over the wire into the windowed mirror of a client. |
| `HubLink` | A client's hub and its daemon across lost connections and restarted daemons: creates, acks, tombstones, resync. |
| `Heartbeat` | Both ends' writers, pings, pongs and reapers on a transport without deadlines. |
| `EventRing` | The ring of tab events with cursors, waits and filters. |
| `EventFollow` | `xerotty events --follow`: several rings, a GUI that comes and goes, `waitAny`, the command's cursor. |
| `Search` | The background search of a tab in the GUI. |
| `Layout` | Several GUIs on one daemon: their windows and tab bars, drags, topologies followed, `planLayout` and its passes. |
| `SeqLemmas` | Facts about the operators on sequences the proofs need, `Min`, `Max`, and what takes the place of induction: `Climb`, `Growing`, `Recursion`. |
| `SessionProofs`, `FunnelProofs` | The theorems of `Session`: types and index, bars, focus and `Placement`; the funnel around it. |
| `DaemonProofs`, `HistoryProofs`, `SupervisorProofs`, `ClientProofs`, `WireProofs` | The theorems of `TabSize`, `Proposals` and `CrashRestore`; of `History`; of `Supervisor`; of `HubLink`, `EventRing`, `EventFollow` and `Search`; of `Mirror` and `Heartbeat`. |
| `MCSession`, `MCServe`, `MCGuis`, `MCSupervisor`, `MCCrashRestore`, `MCHistory`, `MCDaemon`, `MCClient` | Values of the constants for TLC. |

`Funnel` and `CrashRestore` extend `Session`: the same actions, with the
goroutines that call them around them. `EventFollow` sees the rings of
`EventRing` from outside (an epoch, the newest number and a capacity).
`HubLink` and `Funnel` share the client's revision gate; `Mirror` is the other
half of the hub, the frames of one tab.  `Layout` has the session's record as the
GUIs see it, with a change and its broadcast in one step.

Definitions commented `Mutant:` are altered forms of the one that follows
them (a dropped guard, a reset left out). No specification uses them; with one
in place of its original, TLC finds the property listed for it in
`PROJECT.json` violated. They show that each property depends on the code.

### Session

`windows`, `tabIDs[w]`, `winFocus[w]` are `Session.windows` and each
`Window`'s `TabIDs` and `FocusedTabID`; `tabs` and `name` are `Session.tabs`
and `Tab.Name`; `exited` is the closed `Tab.Exited` channel. A method that
returns early changes nothing and is disabled. `pending` holds the calls of
`FindOrCreateTab` and `EnsureInitialTab` that have released `s.mu` to start
a shell and hold `initMu`. Geometry, titles and clipboard are left out.
`MoveTab` to a window that does not exist puts the tab at the tail of its own
bar without a revision, as the code does.

### Funnel

A goroutine is a caller with a place in its handler (`task`): an agent, or the
read loop of a connection, which runs one handler at a time. Between two steps
any other goroutine may run; each step is what the code does under one hold of
a lock (`s.mu`, `clientsMu`, `subsMu`, the slot's mutex). The writer may send
the Attached frame from the FIFO and topology from the slot. Closing a
connection and unregistering it are two steps, between which a broadcaster still
finds it. `Room` bounds revisions so that a handler that has begun can end.

### Supervisor

`run` is the place of `Run`; `reaping`, `timers` and `firing` those of
`reapAll` and the upgrade timer; `forwardShellExits` and `readControl` take
one item a step. `ReapMuFree` is the mutex `spawn` holds from start to
recording the pid. The child serves, spawns and closes tabs, hands off, stops
or crashes at any moment after it was started; its frames to the supervisor
stay readable after its death. `recent` counts resumes in the window and is
forgotten at any time, as the window passes.

### CrashRestore

`owed` holds the frames and pushes a goroutine sends after it has released
`s.mu`, so other goroutines get between; `due` is the debounce timer and
`sending` a snapshot taken but not written. A crash resumes from
`lastState` and the descriptors (that a supervisor gives up, and all shells and the
session go, is `GiveUp` of `Supervisor`); a supervised upgrade from the full state of the
moment; an in-place upgrade execs the new image with what it has, which the
code does where no supervisor announces that it runs upgrades. The new image
keeps the control channel, so frames the old one still owed are gone. The
steps of one `SnapshotState`, `buildHandoff` or resume are one action each.

### TabSize

`sub` is each viewer's `tabSub` (the grid it asked for, the stamp of its last
claim), `resizeSeq` the stamp counter. The read loop of a viewer, the
goroutine of a departing one and the timer's have a place each (`step`): a
request is read, then recorded, then the owner is picked under one lock, then
the PTY is resized under another, and others get between. `edges` and `flips`
only count, for `FlipsAreEarned`. `shipped` and `held` are what was last
published to a viewer and what of it its mirror still shows after its own resizes.

### Proposals

The queue is `Session.proposed`. `task` is the place of an agent or a read
loop: it takes an entry under `s.mu`, writes it to the tab after unlocking, and
broadcasts: first the list, then the slot of one connection after the other.
Answers name an index of the list the user was shown (`gate`), which may not be
the queue of the moment.

### History

The file is a sequence of units, several per record, so a crash can leave half a
record. A unit is what a reader makes of it who takes it for the start of a record:
`Header(row)` names the row and its length (`LineSize`), and `Inside` no row, and some
length (`StrayLen`), for a scan that has lost step with the records.
`Ends` is where the records of a batch end, `Reached` where the scan of `RebuildIndex`
is after so many rounds; `index` and `size` are `DiskScrollback.offsets` and `size`. `stage` is
the holder of `publishMu` inside `ingest`: written to the emulator, mirrored,
trimmed. A write may fail after any unit. A crash keeps the file only; a hot
upgrade flushes and carries the index. `asker` is a `ScrollbackLen` between its
two reads. `expected` names the rows that a complete history has.

### Mirror

The publish loop sends in the order cells, cleared, appended rows; the frames
pass one FIFO (`queue`), then one channel per type (`chan`), and the router takes
from any of them. The client's window of rows is merged, evicted and asked for
by scrolling. `base` is the grid the daemon computes the next diff from.
Scrollback rows carry their index, so a misplaced one shows.

### HubLink

A topology change and its broadcast are one step here (`Funnel` has them apart).
Requests, acks and snapshots travel separately; when a connection drops, what it
carried is gone, except requests the daemon may still read (`late`). A restarted
daemon numbers its tabs from 1 again, under a new instance id.

A reconnection has three steps, as the code takes no lock over all of them:
`conn.Swap` (`link = "swapped"`), `noteInstance` with the replay of tombstones and
the list of Sources that vanish (`gone`), and the application of that list by id
with the adoption of what the snapshot shows (`Apply`). The user may close a tab
between any two of them, an ack be adopted, a connection be lost and redialled while
an ack is held by `NewTabIn`. A `Source` has the instance it was made for, which the
code does not keep: the requests and the tombstones have ids only. The three steps of
`Source.Close` (tombstone, send, unregister) are one action, because the UI
goroutine takes them without waiting.

`closed`, `created`, `early`, `fresh`, `astray`, `belated` and `wronged` record the
past for the properties: the tabs the running daemon was rightly told to close, those
of them no snapshot had shown, ids closed on a Source of another instance's tab where
the running daemon could hear of it, acks adopted after their instance had gone, and
the tabs that were closed though their user had not closed them.

### Heartbeat

A step of `Tick` is one heartbeat interval, and takes place only when the link
has carried what it can: one payload frame each way at least, with all pings and
pongs ahead of it. `HeartbeatConstants` states the premise: twice the
transport's buffer fits the liveness window.

### EventRing, EventFollow

`EventRing` is `Ring` with the slots, head and count of the code. A reader has a
cursor and is idle, parked on the wake channel it took under the lock, or
looking again. `logs`, `got` and `lost` record what was appended by each process
and what each reader was given or told it missed. In `EventFollow` a call passes
a cursor for every host, to a GUI, which reads all its hubs and then waits for
any, or to the local daemon; the socket may go at each step and the cursor stays.

### Search

The frame pass (`Kick`, `Adopt`) runs while the overlay is open with a query.
Scans are goroutines with a cancel flag; the result channel has one place.

### Layout

`rec` is the daemon's record and `gui[g]` one GUI: its windows (`bar`, `front`,
the daemon window `dwin`, `closing` for `pendingClose`, `sent` for
`lastSentFocusTabID`), `parked` tabs, `fp`, `dirty` and `due` of
`maybeReconcileLayout`, the newest topology (`last`) and the one to be applied
(`pend`), tabs that vanished and tombstones.  `Frame` is one frame of the render
loop, in the order of `Run`: focus, vanished tabs, reap, topology, fingerprint.
`Pass` is `layoutPass` with `planLayout`, which runs on a copy of the record
as the code's simulation does.  A synchronous `CreateWindow` drains what was sent
before it.  A drag is one step, because nothing is applied and no pass made
while one goes on; so is a press with the frame after it.  `Pass` waits until
its GUI has the newest snapshot and nothing under way: `layoutSettle` (500 ms)
is taken to outlast the way to the daemon and back.  Over a slower link
`NoFight` fails: two GUIs correct each other more often.  A pass is due after a
change, or by the slow timer (`PassDue`); one that would find nothing to do is no
step.

## Runs

All bounds are constants of the configurations: those named `Max...` stop
actions that would exceed them, and the others (`LiveWindow`, `Capacity`,
`QueueCap`, `TopoCap`, ...) are limits of the code made small.

| Run | Instance | Shows |
|---|---|---|
| `MCDaemon`, session | 2 tabs, 2 windows, 1 label, 1 caller, renames, exits, 5 revisions | types, each tab in one window, `Placement` and its refinement, focus, index, stamped membership |
| `MCDaemon`, size | 2 viewers, 2 grids, an agent, 2 claims | `FlipsAreEarned`: who does not own the grid never moves it; `NoTornMirror`: a repaint owed is not forgotten |
| `MCDaemon`, proposals | 1 agent, 2 GUIs, 2 waiting, 2 answers, queue of 2 | `TypedOnce`: an approved write is typed once, one that waits was not typed, no two answers are about to type the same |
| `MCDaemon`, hub | 2 tabs, 2 instances, 3 revisions, 1 lost connection | closes at any moment of a resync. `ClosesHitTheirTab`: a close is for good, and only an astray one, made on a Source of another instance's tab, hits another tab; `RestingSourcesAgree`, `AckIsOwn` |
| `MCGuis`, funnel | 2 clients, 1 tab, 2 windows, 3 revisions | views converge; no loop after teardown |
| `MCGuis`, bars | 2 GUIs; 2 tabs in 1 window or 3 in 2; 2 edits (press, slide, drop, tear-off, close, shut, an agent's tab) | `BarsAgree`: at rest all GUIs show windows and order of the record; `NoFight`; `UndraggedStays` |
| `MCServe`, funnel | client and agent, 2 tabs, 2 windows, a label, 3 revisions; fair | labels unique; no blind tab; a connected client catches up |
| `MCServe`, supervisor | 1 tab that may be inherited, 3 daemons, stop and upgrade; fair | deaths seen, running shells inherited, child replaced, upgrade ends |
| `MCServe`, history | 5 rows of 4 and 2 units by turns, ring of 1, 2 faults, 1 upgrade or clear | `HistoryIsWhole`: no row lost or twice across failed writes, torn records, crashes and upgrades; `LengthNotOverstated` |
| `MCCrash`, wide | 2 tabs, 2 windows, 2 daemons, 3 revisions; crashes and in-place upgrades | `ResumedIsSound`: free ids, true bars and front tabs; nothing lost when all was pushed |
| `MCCrash`, long | 1 tab, label, renames, exits, find-or-create, 3 daemons (what the third resumes, not what it does); crashes and supervised upgrades | finished tabs survive, with their label once pushed |
| `MCCrash`, twice | 2 tabs, 1 window, 3 daemons; crashes | the same for a tab the first crash left on no bar |
| `MCClient`, mirror | 3 rows, 1 screen, queue and channels of 1, window of 2, 1 scroll, 1 clear or reconnection | `RowsAtTheirIndex`, `RestingMirrorIsWhole` |
| `MCClient`, follow | 2 hosts, rings of 1, 2 events, 2 processes each, 2 restarts or reconnections | `NoSilentLoss`, `PrintedInOrder` |
| `MCClient`, heartbeat | window of 3 intervals, buffer of 1, queue of 2; fair | `LiveNotReaped`, `HungIsReaped` |
| `MCClient`, search | 2 queries, 2 contents, 4 edits; fair | `DrawnIsOfQuery`, `NoStuckSearch` |
| `MCClient`, ring | ring of 2, 4 events in 2 topics, 2 processes, 1 reader; fair | `RingHoldsTail`, `NoSilentGap`, `NoLostWakeup` |
| `MCGuisYank` | 2 GUIs, 1 tear-off | **violated** `OwnMoveStands`: the snapshot caused by creating the new window predates the move, is applied first and takes the tab back; the new window closes |
| `MCSessionCorpse` | 3 tabs, shells exit | **violated** `LiveLabelsUnique`: closing a dead tab un-indexes the live tab that has taken over its label, and the next find-or-create makes a second one |
| `MCSupervisorLayout` | 2 tabs, 3 daemons | **violated** `LayoutAgrees`: the handoff file and the inherited files list different tabs when an exit comes between |
| `MCHubRestart` | 2 tabs, 2 instances, 1 lost connection | **violated** `NoForeignClose`: a tab closed between `conn.Swap` and the resync with a restarted daemon is closed there by its id, which is another tab's |
| `MCMirrorTorn` | 2 screens, no scrollback | **violated** `MirrorMatchesBaseline`: a `CellDiff` is applied before the `CellFull` sent ahead of it |
| `MCSearch` | 2 queries, 2 contents, 4 edits | **violated** `MatchesInSync`: a search closed and opened again with the same query shows no match |
| `MCHistoryErase` | 4 rows, erase and print in one read | **violated** `HistoryIsWhole`: the rows printed after ED 3 count as mirrored and never reach the disk |

`MCDaemon`, `MCServe`, `MCClient` and `MCGuis` are disjunctions of independent parts (and
`MCCrash` of scales of one module): the variable `part` (`scale`) is chosen in the
initial state and only that part takes steps, so each is explored exactly as by itself, and one run holds them together. The
interactions are in `Funnel`, `CrashRestore` and `HubLink`, which compose the
parts that share state.

Why these bounds: two tabs are what it takes for one to lose front or focus to
another, for a bar to have an order, or for a corpse and its heir to differ; two
windows for a tab to move and a window to inherit; three revisions for a slow
broadcaster to hold a snapshot while two newer ones are made; two daemons
for a resumed session to act, three where what the second one reports has to
survive the third. The corpse needs a third tab. Two viewers dispute a
grid; two GUIs answer the same proposal; a queue of two trims at the third.
Five rows fill a ring of one, are trimmed, torn and rebuilt. Two instances
suffice for an id to be used again, one lost connection for a request to arrive
late. A ring of two wraps twice with four events.  Two GUIs
with one edit each are what it takes for edits to meet, three tabs in two
windows for a drop, an order and a window to be emptied; `MaxWins` blocks no
behaviour (the number of states is the same with more). Channels of one place are
full as soon as anything waits. The mutants are all caught within these bounds.

Symmetry is used only where clients, tabs, viewers or labels are interchangeable
and no liveness is checked. `CHECK_DEADLOCK FALSE` is set where the bounds end every
behaviour (all daemons used up, all edits made). `MCServe` checks deadlock: its
funnel always has a step to take, its supervisor may rest only once it has ended or
has started the last daemon of the run (`Rests`), and its terminal when nobody types.

### Fairness

`Funnel` (`FairFSpec`): weak fairness of every goroutine in a handler, every
writer and the end of every connection: goroutines are scheduled, and their sends
never block for ever (slots do not block, a closed connection releases its
queue). Clients are not required to do anything. `Supervisor` (`FairUSpec`): weak
fairness of its goroutines, of the resume of a started child, and of a child's
stop once it was told. No crash, exit, request or upgrade answer is assumed to
happen. `Heartbeat` (`HSpec`): time passes (`Tick`), and a writer or reader that
can act does unless its process hangs, which its guard says. `Search` (`QSpec`):
frames are drawn while the overlay is open (`windowVisuallyDirty`), and scans,
cancelled or not, go on. `EventRing` (`ESpec`): a woken waiter runs. Nothing
forces a timeout, an event, a scroll or a keystroke. `MCClient` states the
fairness of its three parts as that of `CSpec`, `MCServe` that of the funnel and the
supervisor as that of `ESpec`.

## Theorems

TLC checks the instances above; these hold for every value of the constants that
the named `ASSUME` of each module allows.

`SessionProofs`, for any number of tabs, windows, labels and callers:

- `TypeCorrect`: `Spec => []TypeOK`. `TypeOK` is inductive as it stands; each
  action has a lemma, and the work is in the helpers on bars (`RemoveAtFacts`,
  `InsertAtFacts` in `SeqLemmas`, because an index sent by a client need not be
  one of the bar) and in showing that an heir is a window id also when made up
  on the spot.
- `IndexCorrect`: `Spec => []IndexInLockstep`. Inductive together with
  `TypeOK` and `IdsSpent` (tabs have ids below `nextTabID`), which the
  invariant does not say: it is why the entry a new tab makes cannot be
  taken for one of a tab that is closed.
- `InitMuClosesTheRace`: `LiveLabelsUnique` where no shell ends by itself and
  nothing is renamed. The inductive invariant adds that every labelled tab is
  the one its label is indexed under, that at most one call is pending, and
  that the label of a pending call is indexed nowhere: what `initMu` is for.
  Both assumptions are needed, see `MCSessionCorpse` and below.
- `TabsArePlacedOnce`: `Spec => []EveryTabInOneWindow`. `Bars` restates it by the
  sets of tabs the bars hold, and adds that window ids stay below `nextWinID`:
  the heir `NewTab` and `CloseWindow` open on the spot must be a new window. It is
  in two parts, `Tidy` (a bar shows only tabs there are, each once) and `AllShown`
  (each tab is on one), as a session that was resumed keeps `Tidy` only.
- `FocusIsSound`: `Spec => []FocusNeverDangles`. `FocusInv` speaks of the windows
  that are not open as well, which may yet be opened. Its part about windows,
  `FrontInv`, needs `Tidy` only.
- `MembershipIsStamped`: `Spec => MembershipStamped`, an action property, from
  `BarInv`.
- `BarsImplementPlacement`: `Spec => ImplementsPlacement`, the refinement, action by
  action. `Home`, the window an abstract tab is in, is computed from the indices the
  code keeps; `HomeIsHeld` shows that `BarInv` makes it the bar that holds the tab.

`FunnelProofs`, for any number of viewers, agents, tabs and windows and any order
their goroutines take the locks in:

- `ViewersConverge`: `FSpec => []ViewsConverge`. `FunnelInv` has three ideas. `Accurate`:
  a snapshot, wherever it waits, is of an earlier revision or shows the membership
  there is now (by `MembershipIsStamped`'s argument). `TellInv`: a client that shows
  anything shows the newest revision, has it on its way, or some goroutine is at
  a step from which it will still leave it in the client's slot (`Tells`): one that
  took the snapshot before a change cannot be the last. `ConnInv`: nothing is
  in a connection's queue before its handler has replied, and its name mirror is
  set from before the reply on, so no broadcast overlooks it.
- `NoTabIsBlind`: `FSpec => []NoBlindTab`, by `CoverInv`: a tab a client has no loop
  for is one that some goroutine will still subscribe it to, or is closing.
- `TeardownIsFinal`: `FSpec => []NoLoopAfterTeardown`.
- `FunnelRunsSession`: `FSpec => Spec`: the interleaved handlers make steps of the
  session only, so the theorems about it hold under the funnel.

`SupervisorProofs`, for any number of tabs, signals and requests:

- `DaemonDeathIsSeen`: `USpec => []DaemonExitSeen`. `RunInv` says where the child's
  status is at every step of `Run`, and that `childPID` is the running child's from
  `record` on: what `reapMu` is for.
- `ShellsSurvive`: `USpec => []KnownShellsSurvive`. `ShellInv`: every live shell is in
  the supervisor's table or in a frame it has yet to read, frames of a dead daemon
  are read before the next handoff is written, and no frame says of a live
  shell that it is gone.

`DaemonProofs`, for any number of viewers, agents, sizes and answers, and of tabs,
windows and daemons in a row; it assumes of `TabSize` that the shrink timer is no
viewer (`Timer \notin Viewers`), and of `CrashRestore` that there may be a window:

- `GridFlipsAreEarned`: `SSpec => []FlipsAreEarned`. `EarnInv` counts: the flips made,
  the reconciliations under way and a shrink that waits are together no more than
  the edges.
- `RepaintsAreOwed`: `SSpec => []NoTornMirror`. `MirrorInv`: what a viewer holds is what
  it was shipped, cut to a size it asked for since; a viewer whose mirror does not fit is
  owed a full repaint (`resync`) and a publish, a shrink or the timer's
  reconciliation is coming that sends it.
- `ProposalsAreTypedOnce`: `PSpec => []TypedOnce`. `TypingInv`: what a handler is
  about to write is in the queue no more, was not written yet, and no other
  handler has it.
- `ResumedBarsAreSound`: `CSpec => [](NextIdsAreFree /\ BarsTruthful)`, whatever the
  last snapshot missed and whatever the supervisor saw exit. `CrashInv`: the session
  is `Tidy`, and so is every snapshot on its way or received (`StateSound`), so
  `RestartSound` holds from any of them; `KeptFacts` says what filtering a bar
  keeps, `BuiltSound` that `buildHandoff` mends the counters.
- `ResumeIsSound`: `CSpec => []ResumedIsSound`, which adds the front tabs (`FrontsInv`),
  where no daemon upgrades in place over a shell that has exited: that upgrade
  keeps a front tab it does not restore (see below). Each instance of `MCCrash` is such.
- `FinishedTabsAreKept`: `CSpec => FinishedTabsSurvive`, an action property, where
  no daemon upgrades in place. `ReportInv`: a running tab is one the supervisor can
  hand on or has its `TabSpawned` to come, and no `TabGone`.
- `QuietCrashIsLossless`: `CSpec => QuietCrashLosesNothing`, likewise, and where no two
  pushes overlap (`MaxPushes = 1`). `PushInv`: with nothing owed and no push due, the newest
  snapshot is of the session as it is. `LiveIdsSpent`: the counter stays where it
  was because no descriptor held has an id beyond it. The proof found the
  property overstated: a running tab that a first crash left on no bar comes back in
  window 1 when the last tab of a bar is closed and the daemon dies again, so it
  now speaks of what the bars showed, and `MCCrash` has an instance of this.

`HistoryProofs`, for any ring, sizes of records and stray lengths, and any number of
rows, failed writes, crashes, upgrades and clears:

- `HistoryInvariant`: `TSpec => []HistoryInv`. `Indexed` says that an index fits a
  file: its records follow each other up to the recorded size, their rows are in
  order, and past the size a record can begin only right there, with a row younger than
  all of them. No line shows a row still to be mirrored, and the ring's rows are the
  last to have scrolled off (`Consecutive`). After a crash there *is* an index that
  fits and shows what was on disk. `WriteFacts`: a batch of which any number of
  units was written, over whatever an earlier one left, gives such an index; `RebuildFacts`:
  the scan finds any such index again, and ends at most one younger row and lines of
  no row (0) beyond it.
- `LengthSafe`: `TSpec => []LengthNotOverstated`. `LengthInv`: while an asker is
  between its two reads, what it would return is at most the lines and the rows still
  to be mirrored, which are at most the history (`HistoryCovers`, by cardinality).
- `HistoryOrdered`: `TSpec => []HistoryInOrder`, the order half of `HistoryIsWhole`.
- `HistoryWhole`: `PrintAfterErase = FALSE => (TSpec => []HistoryIsWhole)`. `WholeInv`
  adds that what is expected is on disk or still to be mirrored. The hypothesis is
  what the code needs of the PTY's reads: without it `MCHistoryErase` is the
  counterexample.

TLC checked this invariant, with the unbounded index after a crash replaced by the prefixes
of what the scan would find, for both values of `PrintAfterErase`.

`ClientProofs`, for any number of tabs, instances, revisions and lost connections, any
capacity, filters, and number of readers, events and daemon processes, and any number
of queries, edits, contents and scans:

- `AcksReachTheirCaller`: `LSpec => []AckIsOwn`. `AckInv` adds
  that an ack on its way is of a tab the running instance created for the request it
  names, that a link that is down carries nothing, and that a link that is up is to
  the instance the hub has noted: an ack has no instance id, and is read with the
  hub's.
- `ClosesAreTheUsers`: `LSpec => []ClosesHitTheirTab`, and `RestingLinkAgrees`: `LSpec =>
  []RestingSourcesAgree`, with no assumption about when the user closes a tab, a
  connection is lost or an ack adopted. `LinkInv` relates what the daemon has, what
  is on the wire in either direction and what the hub believes: snapshots are of
  the past of the running instance and name no tab younger than they are
  (`SnapsInv`, `BornInv`); a Source is for the instance the hub follows, or it is
  about to vanish, or was adopted from an ack that came too late (`SourcesInv`);
  whatever would close a tab, a tombstone or a request, is for one the user closed or
  for an astray id (`ClosesInv`); a closed tab that still runs has a close on its
  way or a tombstone that will send one (`GoneInv`); and once the newest snapshot is
  applied the Sources differ from the daemon's tabs only by acks still to come
  (`ViewInv`). So the exceptions the two properties name are all there are.
- `RingCorrect`: `ESpec => []RingHoldsTail`. `SlotOf`, `SlotsDiffer` and
  `SlotNext` settle the arithmetic modulo the capacity; `AppendWithRoom` and
  `AppendWhenFull` are the two cases of `Ring.Append`. Strengthened by
  `RingTyped`.
- `NothingMissedSilently`: `ESpec => []NoSilentGap`. `GapInv` adds the ring's
  invariant, and `Cursor`: a cursor names a process that has been and, for the
  one that runs, an event that has happened. Without it an append could put
  an event behind a cursor. `DeliverCovers` is the heart: either the answer is
  `Missed`, or the cursor is of this process, nothing past it was overwritten,
  and by `RingHoldsTail` every event past it is held in a slot and returned.
- `FramesShowTheirQuery`: `QSpec => []DrawnIsOfQuery`. `SearchInv`: no scan and
  no result has an id above the overlay's, and one that has just that id is of
  the query last scanned for.
- `FollowerLosesNothing`: `XSpec => []NoSilentLoss`, and `FollowerPrintsInOrder`:
  `XSpec => []PrintedInOrder`, both from `FollowInv`, for any number of hosts, restarts
  and calls. A cursor points at or behind its ring (`Points`); an event owed at a
  cursor is printed or excused; and a call under way owes nothing to the command but
  what it holds: what lies between the command's cursor and the call's is among the events
  it has collected or under a gap it has noted (`HostOK`), and what the answer waiting for
  it holds lies past the cursor it was asked from (`AnswerOK`).

`WireProofs`, for any sizes of window, page, batch, queue and channels, and any
number of rows, scrolls, clears and reconnections; and for any heartbeat window longer
than two full buffers:

- `RowsStayAtTheirIndex`: `MSpec => []RowsAtTheirIndex`.
- `MirrorComesToRestWhole`: `MSpec => []RestingMirrorIsWhole`. `MirrorInv` promises less
  the more happened. Always, the rows of the window and of every frame follow
  each other from its start (`MirrorTyped`). Until a clear, the daemon's length is
  what the mirror or a frame on its way says it is, and nothing is past it (`Intact`).
  Until a reconnection as well, a page that is awaited is on its way in one
  direction or the other (`FetchIsOut`). Where nobody scrolled either, the appends in
  flight cover all rows from the end of the window to what was shipped (`Chained`) and are
  applied in the order they were sent (`Lined`): one channel holds them all. The proof
  needed `Backfill > 0`, which the assumption of `Mirror` now says (it is 5000,
  conn.go:1363): a reconnection with nothing to back-fill sends no length.
- `LiveIsNotReaped`: `HSpec => []LiveNotReaped`. `BeatInv` bounds the age both clocks
  have reached (`Stale`) by where the ping or its pong is. The daemon's clock of writes
  ages only while its link empties by a frame an interval, so the ping is read within
  `Buffer` intervals, and the pong within as many again, behind fewer payload frames each
  interval (`NearIn`). The client's clock of reads ages only while the daemon's link is
  empty, so only its ping waits behind anything.

Each of these invariants was an invariant of a TLC run before it was proved.

Checked by TLC only: the safety properties of `Layout` (`BarsAgree`, `NoFight`,
`UndraggedStays`). Its passes are built of `SelectSeq`, `FlattenSeq` and folds, whose
definitions in the community modules are recursions under a higher-order operator: no lemma
can be stated about them for every operator argument. And `NoFight` bounds a number
of corrections, which holds for the bounds of the run and not for every number of
edits. Liveness under fairness and `ENABLED` (`ViewsCatchUp`, `ChildReplaced`,
`UpgradeEnds`, `HungIsReaped`, `NoStuckSearch`, `NoLostWakeup`) are out of the prover's
reach as well. Induction over the natural numbers is not, although the
library's induction theorems are: `Climb` derives it for a set from the least element
outside (`MinFacts`), and `Recursion` the existence of the function a recursion defines.

## Where code and promise differ

Seven runs are violations, each with a finding in `PROJECT.json` that quotes what
the code says of itself. The models contain further ones that no run states,
because nothing in the repository promises otherwise or because another run
shows the same cause:

- `RenameTab` does not take `initMu`: it can claim a label that a
  find-or-create has just found free, and two running tabs carry it.
- `MoveTab` to an unknown window reorders a bar without a revision, so
  clients drop the snapshot. `MembershipStamped` and `ViewsConverge` therefore
  speak of windows and the tabs in them, not of their order.
- `CloseTab` unsubscribes before it removes the tab (daemon.go:398): a subscribe
  between the two leaves a publish loop for a closed tab.
- SIGTERM between two children (supervisor.go:379) reaches neither.
- A tab reported after the last snapshot comes back in no window after a crash
  (supervisor.go:583).
- A crash resume may take `NextTabID` back under the same `InstanceID`, by
  which clients scope their tombstones.
- The upgrade timer checks its child under `s.mu` and kills after unlocking,
  when the pid may have been reaped.
- A shell exit relayed before the resumed daemon has rebuilt its tabs is
  dropped, and its tab hangs.
- Two state pushes may overlap and the older one be written last (`MaxPushes = 2`).
- After an in-place upgrade a window may still name a dead tab as its front, and a
  tab the old image had yet to report stays unknown to the supervisor
  (upgrade.go:137 reports none again): a later crash loses it. Two daemons are too
  few for that in `MCCrash`; `FinishedTabsAreKept` excludes it by name.
- `TabGone` of a shell that ends at once may overtake its `TabSpawned`, and
  the supervisor keeps descriptors of a dead shell.
- Two reconciliations of one tab's size may end in the wrong order, and the grid
  stays the loser's until the next claim. `FlipsAreEarned` bounds how often it
  moves, not where it rests.
- A proposal answered by index may be another one than the user saw, and an older
  list may be broadcast last. `TypedOnce` holds for whichever is meant.
- After a clear, a late append may show rows of a history that is gone until
  the next frame: `RestingMirrorIsWhole` speaks of histories nobody cleared.
- An ack taken by `NewTabIn` before a connection is lost and adopted after the resync
  with a restarted daemon leaves a Source under an id that daemon uses for another tab, or
  returns that tab's Source to the caller (`belated` in `RestingSourcesAgree`).
- A tab closed before any snapshot has shown it, whose request is then lost, stays
  open: a snapshot from before the tab confirms the close (`early` in `ClosesHitTheirTab`).
- A window that `relocateDaemonTab` emptied keeps its `pendingClose` (app.go:1911)
  when a later tab of the same snapshot is moved into it: that tab is detached
  with the window and vanishes from the GUI.
- Reaping a window that following emptied changes the layout fingerprint: a GUI
  whose user did nothing pushes its layout, over the edit of another one
  perhaps (layout_reconcile.go:484 says only a change made on this GUI is pushed).
- A drop on a window whose daemon window another GUI has just closed reorders the
  record by a `MoveTab` without a revision, and the GUIs' bars stay different.
- A tab's mark in `parkedTabs` outlives the window it names: when another GUI moves
  the tab into the daemon window this GUI shows it in, `relocateDaemonTab` leaves it
  in place and `guiLayoutFor` (layout_reconcile.go:206) keeps the mark. A push passes
  over the tab, and the bar stays in another order than the daemon's until the pass
  of the slow timer (15 s). With window shut, agent's tab and drop that takes three
  edits, and the run has two. With `MaxEdits = 3` and the single scene
  `Scene(<<<<1, 2>>, <<3>>>>, {}, {"drop", "shut", "agent"})`, too long to stay among
  the runs beside the others, TLC finds `BarsAgree` to hold, and to fail if `PassDue`
  leaves the slow timer out.
- `tabDragIdx` (window.go) is an index kept over frames: a tab closed elsewhere
  during a press makes it name another tab, or none (app.go:5645).
- With `--new`, a host that appears later has its old events printed.

Which hazard each property is for, and which have none, is in `PROJECT.json`
under "hazards".

## Not modelled

- Generated code (`messages_gen.go`, `handoff_gen.go`, a quarter of the lines of
  the repository): encoding and decoding of records. Messages are records here.
- Drawing, widgets, dialogs, fonts, themes, input tables, configuration
  (`app.go` but for the tab bars, the search and the proposal gate, `config_dialog.go`,
  `renderer`, `fontsys`, `platform`): no concurrency and no promise a state
  machine would state; with the generated code they are most of what the map
  leaves out.
- The emulator and the PTY, library code: external in `History` and `Supervisor`.
- Image upload, `launchipc`, the spawning of a daemon,
  glyph cache eviction and `sendkeys`: sequential or file-system code, left for
  later.
- In what is modelled: macOS reaping; the two-second limit on draining a dead
  child's channel; failure to write the handoff file; daemon-side search, tab
  modes and titles; write deadlines where the transport has them.
  `SnapshotState` and `SerializeUpgrade` read each tab after the topology; here
  they are one step. `CrashRestore` has no supervisor that gives up: what it says of
  the session after a crash is of daemons that are resumed.

Every component is listed with what is left out under "components" in
`PROJECT.json`.

## Plan

Built: the modules above, in the order `Session`, `Funnel`, `Supervisor`,
`CrashRestore`, then `TabSize`, `Proposals`, `History`, `Mirror`, `HubLink`,
`Heartbeat`, `EventRing`, `EventFollow`, `Search`, `Layout`. Left, in this order:

1. To prove: `BarsAgree` of `Layout`, which needs its passes written as recursive
   functions first, as `Ends` and `Reached` of `History` are.
2. To model: tabs of several daemons in one GUI, a failing `CreateWindow` with its
   retried move, and the restoring of windows on attach, in `Layout`; image
   upload; `launchipc`.

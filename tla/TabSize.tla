------------------------------- MODULE TabSize -------------------------------
(***************************************************************************)
(* Who sizes the PTY of a shared tab.  Every subscription records the grid *)
(* its viewer asked for and the stamp of the viewer's last claim; the      *)
(* viewer with the highest stamp owns the grid.  handleResize, typing, a   *)
(* create and a departure each pick the owner and then resize, in two      *)
(* steps that no lock joins; a shrink is put off until the size has held,  *)
(* on a timer's own goroutine (internal/daemon/daemon.go, conn.go).        *)
(*                                                                         *)
(* One tab.  The read loop of a viewer does one thing at a time.           *)
(***************************************************************************)
EXTENDS Naturals, FiniteSets

CONSTANTS
  Viewers,   \* attached connections
  Wants,     \* grids a viewer may ask for, as <<cols, rows>>
  MaxDim,    \* MaxTabDim
  FirstGrid, \* the grid the tab starts with
  Carried,   \* whether the tab was resumed from a handoff with a size owner
  MaxClaims  \* bound on size requests, claims and departures

Timer == "timer"   \* the goroutine of a shrink timer

ASSUME TabSizeConstants ==
  /\ Timer \notin Viewers
  /\ MaxDim \in Nat \ {0}
  /\ MaxClaims \in Nat
  /\ Carried \in BOOLEAN
  /\ Wants \subseteq (Nat \ {0}) \X (Nat \ {0})
  /\ FirstGrid \in (1..MaxDim) \X (1..MaxDim)

VARIABLES
  grid,      \* the size of the PTY and the emulator
  sub,       \* each viewer's subscription
  resizeSeq, \* Daemon.resizeSeq, the last stamp given
  shrinking, \* shrinkTimer # nil
  step,      \* where each goroutine is: the viewers' read loops, the timer's
  wake,      \* tabSub.wake holds a token
  resync,    \* tabSub.resync
  shipped,   \* lastCols, lastRows: the dimensions last published
  held,      \* the part of the published grid the viewer's mirror still holds
  edges,     \* claims, reports and departures so far
  flips      \* times the grid has changed

svars == <<grid, sub, resizeSeq, shrinking, step, wake, resync, shipped, held,
           edges, flips>>

Unset == <<0, 0>>
NoSub == [want |-> Unset, seq |-> 0, on |-> FALSE]
Goroutines == Viewers \cup {Timer}
Ready == [at |-> "idle"]
Picking(settled) == [at |-> "pick", settled |-> settled]

\* sizeOwnerSeq: restoreTab stamps a tab whose handoff says a viewer owned it.
SizeOwnerSeq == IF Carried THEN 1 ELSE 0

SInit ==
  /\ grid = FirstGrid
  /\ resizeSeq = SizeOwnerSeq
  /\ \/ /\ sub = [v \in Viewers |-> NoSub]
        /\ step = [g \in Goroutines |-> Ready]
     \/ /\ ~Carried
        /\ \E v \in Viewers :          \* v creates the tab
             step = [g \in Goroutines |-> IF g = v THEN [at |-> "created"] ELSE Ready]
        /\ sub = [v \in Viewers |-> [NoSub EXCEPT !.on = TRUE]]
  /\ shrinking = FALSE
  /\ wake = [v \in Viewers |-> sub[v].on]
  /\ resync = [v \in Viewers |-> FALSE]
  /\ shipped = [v \in Viewers |-> Unset]
  /\ held = [v \in Viewers |-> Unset]
  /\ edges = 0
  /\ flips = 0

At(g, s) == step[g].at = s
Sized(v) == sub[v].want # Unset
Common(a, b) == <<IF a[1] < b[1] THEN a[1] ELSE b[1],
                  IF a[2] < b[2] THEN a[2] ELSE b[2]>>
WakeAll == wake' = [v \in Viewers |-> wake[v] \/ sub[v].on]
Room == edges < MaxClaims

\* maxTabResizeSeq.
MaxSeq == CHOOSE m \in {sub[v].seq : v \in Viewers} \cup {SizeOwnerSeq} :
            \A v \in Viewers : sub[v].seq <= m /\ SizeOwnerSeq <= m

\* ClampTabDim, on both dimensions.
Clamp(size) == LET d(n) == IF n < 1 THEN 1 ELSE IF n > MaxDim THEN MaxDim ELSE n
               IN <<d(size[1]), d(size[2])>>

\* The viewers reconcileTabSizeSettled may pick: the highest stamp, and any of
\* them when several never claimed.
Winners == {v \in Viewers : Sized(v) /\ \A u \in Viewers :
              Sized(u) => sub[u].seq <= sub[v].seq}

-----------------------------------------------------------------------------
(* The read loops. *)

Subscribe(v) ==
  /\ At(v, "idle") /\ ~sub[v].on
  /\ sub' = [sub EXCEPT ![v] = [NoSub EXCEPT !.on = TRUE]]
  /\ wake' = [wake EXCEPT ![v] = TRUE]
  /\ resync' = [resync EXCEPT ![v] = FALSE]
  /\ shipped' = [shipped EXCEPT ![v] = Unset]
  /\ held' = [held EXCEPT ![v] = Unset]
  /\ UNCHANGED <<grid, resizeSeq, shrinking, step, edges, flips>>

\* stopAllSubs, for this tab: the next claimant takes over.
Depart(v) ==
  /\ At(v, "idle") /\ sub[v].on /\ Room
  /\ sub' = [sub EXCEPT ![v] = NoSub]
  /\ wake' = [wake EXCEPT ![v] = FALSE]
  /\ resync' = [resync EXCEPT ![v] = FALSE]
  /\ held' = [held EXCEPT ![v] = Unset]
  /\ step' = [step EXCEPT ![v] = Picking(FALSE)]
  /\ edges' = edges + 1
  /\ UNCHANGED <<grid, resizeSeq, shrinking, shipped, flips>>

\* handleResize reads whether anyone owns the tab, then takes subsMu.  The
\* viewer's own emulator took the size when it sent the request.
ReadOwned(v, want) ==
  /\ At(v, "idle") /\ sub[v].on /\ (want # sub[v].want => Room)
  /\ step' = [step EXCEPT ![v] = [at |-> "resize", want |-> want, owned |-> MaxSeq > 0]]
  /\ held' = [held EXCEPT ![v] = Common(@, want)]
  /\ UNCHANGED <<grid, sub, resizeSeq, shrinking, wake, resync, shipped, edges, flips>>

\* Mutant: every request counts as a new one.
NeverRepeated(v) == FALSE

\* A request repeated every half second is a level, not an edge.
Repeated(v) == step[v].want = sub[v].want

RepeatedRequest(v) ==
  /\ At(v, "resize") /\ Repeated(v)
  /\ step' = [step EXCEPT ![v] = Ready]
  /\ UNCHANGED <<grid, sub, resizeSeq, shrinking, wake, resync, shipped, held, edges, flips>>

\* The first report of a subscription claims nothing on a tab that is owned.
RecordSize(v) ==
  /\ At(v, "resize") /\ ~Repeated(v)
  /\ edges' = edges + (IF step[v].want # sub[v].want THEN 1 ELSE 0)
  /\ LET claims == Sized(v) \/ ~step[v].owned
     IN /\ sub' = [sub EXCEPT ![v].want = step[v].want,
                              ![v].seq = IF claims THEN resizeSeq + 1 ELSE @]
        /\ resizeSeq' = IF claims THEN resizeSeq + 1 ELSE resizeSeq
  /\ resync' = [resync EXCEPT ![v] = TRUE]
  /\ wake' = [wake EXCEPT ![v] = TRUE]
  /\ step' = [step EXCEPT ![v] = Picking(FALSE)]
  /\ UNCHANGED <<grid, shrinking, shipped, held, flips>>

\* noteSizeActivity: typing or pasting, by a viewer that is behind the owner.
Type(v) ==
  /\ At(v, "idle") /\ Sized(v) /\ sub[v].seq < MaxSeq /\ Room
  /\ step' = [step EXCEPT ![v] = [at |-> "claim"]]
  /\ UNCHANGED <<grid, sub, resizeSeq, shrinking, wake, resync, shipped, held, edges, flips>>

Claim(v) ==
  /\ At(v, "claim")
  /\ sub' = [sub EXCEPT ![v].seq = resizeSeq + 1]
  /\ resizeSeq' = resizeSeq + 1
  /\ step' = [step EXCEPT ![v] = Picking(FALSE)]
  /\ edges' = edges + 1
  /\ UNCHANGED <<grid, shrinking, wake, resync, shipped, held, flips>>

\* claimCreatedTab: the creator owns the grid the tab was made with.
ClaimCreated(v) ==
  /\ At(v, "created")
  /\ sub' = [sub EXCEPT ![v].want = grid, ![v].seq = resizeSeq + 1]
  /\ resizeSeq' = resizeSeq + 1
  /\ step' = [step EXCEPT ![v] = Ready]
  /\ UNCHANGED <<grid, shrinking, wake, resync, shipped, held, edges, flips>>

-----------------------------------------------------------------------------
(* reconcileTabSizeSettled: pick the winner, then act on it. *)

\* Nobody has asked for a size, or the carried owner stands.
PickNone(g) ==
  /\ At(g, "pick")
  /\ Winners = {} \/ \E v \in Winners : sub[v].seq < SizeOwnerSeq
  /\ step' = [step EXCEPT ![g] = Ready]
  /\ UNCHANGED <<grid, sub, resizeSeq, shrinking, wake, resync, shipped, held, edges, flips>>

Pick(g) ==
  /\ At(g, "pick")
  /\ \E v \in Winners :
       /\ sub[v].seq >= SizeOwnerSeq
       /\ step' = [step EXCEPT ![g] = [at |-> "apply", settled |-> step[g].settled,
                                       size |-> Clamp(sub[v].want)]]
  /\ UNCHANGED <<grid, sub, resizeSeq, shrinking, wake, resync, shipped, held, edges, flips>>

Smaller(a, b) == a[1] < b[1] \/ a[2] < b[2]
Defers(g) == ~step[g].settled /\ Smaller(step[g].size, grid)

\* Mutant: nobody is woken for the repaint a dropped shrink held back.
ReleaseNobody(g) == UNCHANGED wake
Release(g) == IF shrinking \/ step[g].settled THEN WakeAll ELSE UNCHANGED wake

\* Already there: a pending shrink is dropped, and the resyncs held for it go.
Keep(g) ==
  /\ At(g, "apply") /\ step[g].size = grid
  /\ shrinking' = FALSE
  /\ Release(g)
  /\ step' = [step EXCEPT ![g] = Ready]
  /\ UNCHANGED <<grid, sub, resizeSeq, resync, shipped, held, edges, flips>>

Defer(g) ==
  /\ At(g, "apply") /\ Defers(g)
  /\ shrinking' = TRUE
  /\ step' = [step EXCEPT ![g] = Ready]
  /\ UNCHANGED <<grid, sub, resizeSeq, wake, resync, shipped, held, edges, flips>>

Resize(g) ==
  /\ At(g, "apply") /\ step[g].size # grid /\ ~Defers(g)
  /\ shrinking' = FALSE
  /\ grid' = step[g].size
  /\ flips' = flips + 1
  /\ WakeAll
  /\ step' = [step EXCEPT ![g] = Ready]
  /\ UNCHANGED <<sub, resizeSeq, resync, shipped, held, edges>>

\* tab_resize of an agent sizes the PTY itself; no viewer's claim moves.
AgentResize(size) ==
  /\ Room /\ Clamp(size) # grid
  /\ grid' = Clamp(size)
  /\ edges' = edges + 1
  /\ flips' = flips + 1
  /\ WakeAll
  /\ UNCHANGED <<sub, resizeSeq, shrinking, step, resync, shipped, held>>

\* deferShrink's timer; a stopped or replaced one does nothing.
Fire ==
  /\ shrinking /\ At(Timer, "idle")
  /\ shrinking' = FALSE
  /\ step' = [step EXCEPT ![Timer] = Picking(TRUE)]
  /\ UNCHANGED <<grid, sub, resizeSeq, wake, resync, shipped, held, edges, flips>>

Due(v) == resync[v] /\ ~shrinking   \* shrinkPending

\* sendCellsAndCursor on the publish goroutine: a CellFull when the dimensions
\* moved or a resync is due and no shrink is pending, a diff otherwise.
Publish(v) ==
  /\ wake[v]
  /\ resync' = [resync EXCEPT ![v] = @ /\ ~Due(v)]
  /\ held' = [held EXCEPT ![v] = IF Due(v) \/ shipped[v] # grid THEN grid ELSE @]
  /\ shipped' = [shipped EXCEPT ![v] = grid]
  /\ wake' = [wake EXCEPT ![v] = FALSE]
  /\ UNCHANGED <<grid, sub, resizeSeq, shrinking, step, edges, flips>>

SNext ==
  \/ \E v \in Viewers :
       \/ Subscribe(v) \/ Depart(v) \/ RepeatedRequest(v) \/ RecordSize(v)
       \/ Type(v) \/ Claim(v) \/ ClaimCreated(v) \/ Publish(v)
       \/ \E w \in Wants : ReadOwned(v, w)
  \/ \E g \in Goroutines : PickNone(g) \/ Pick(g) \/ Keep(g) \/ Defer(g) \/ Resize(g)
  \/ \E w \in Wants : AgentResize(w)
  \/ Fire

SSpec == SInit /\ [][SNext]_svars

-----------------------------------------------------------------------------
(* The periodic requests of viewers that do not own the grid never move it:  *)
(* every change of the grid is paid for by a distinct claim, first report,   *)
(* departure or agent's resize (handleResize's edges, conn.go).              *)
FlipsAreEarned == flips <= edges

(* A repaint a viewer is owed is not forgotten.  Its window shows the part   *)
(* of the published grid that fits the size it asked for; when its mirror    *)
(* lost some of that to its own resizes, a publish is on its way, or a       *)
(* shrink or a reconciliation is in progress that will cause one             *)
(* (tabSub.resync, sendCellsAndCursor).                                      *)
NoTornMirror ==
  \A v \in Viewers :
     \/ LET seen == Common(sub[v].want, shipped[v]) IN Common(seen, held[v]) = seen
     \/ wake[v] \/ shrinking
     \/ \E g \in Goroutines : ~At(g, "idle")
=============================================================================

----------------------------- MODULE CrashRestore -----------------------------
(***************************************************************************)
(* A supervised daemon's session and what comes back of it.  The daemon    *)
(* reports each tab's descriptors when it spawns it and when it is gone    *)
(* (internal/daemon/supervised.go tabSpawned, tabGone), after it has       *)
(* released s.mu, and pushes a snapshot of the session some time after a   *)
(* change (pushState).  When it dies the supervisor builds a handoff from  *)
(* the last snapshot and the descriptors it holds (buildHandoff in         *)
(* internal/supervise/supervisor.go), and the next daemon resumes from it  *)
(* (ResumeFromHandoff in internal/daemon/upgrade.go).  The supervisor      *)
(* drains the control channel first, so a frame that was sent counts.      *)
(***************************************************************************)
EXTENDS Session

CONSTANTS Upgrades,    \* ways to upgrade: subset of {"inplace", "supervised"}
          MaxPushes,   \* snapshots that may be on their way at once
          MaxLives     \* bound on the daemons in a row

ASSUME CrashRestoreConstants ==
  /\ Upgrades \subseteq {"inplace", "supervised"}
  /\ MaxWinID \in Nat \ {0}   \* the one window of a session that lost them all
  /\ MaxPushes \in Nat \ {0} /\ MaxLives \in Nat

VARIABLES
  alive,       \* tabs whose shell runs
  foreign,     \* tabs whose shell an earlier daemon started
  instance,    \* the daemon's InstanceID
  owed,        \* frames and pushes goroutines are about to send
  due,         \* a state push is scheduled
  sending,     \* snapshots taken and not yet written to the channel
  plumb,       \* tabs the supervisor holds descriptors of
  marked,      \* tabs whose shell the supervisor saw exit
  lastState,   \* the last snapshot it received
  life         \* the daemons so far

pushVars == <<owed, due, sending>>
keptVars == <<plumb, marked, lastState>>
identity == <<foreign, instance, life>>
cvars == <<vars, alive, identity, pushVars, keptVars>>

NoInstance == 0

\* SnapshotState: the topology and counters under s.mu, and the live tabs.
SnapshotState ==
  [instance |-> instance, windows |-> windows, bars |-> tabIDs,
   front |-> winFocus, tabs |-> tabs \ exited, name |-> name,
   nextTab |-> nextTabID, nextWin |-> nextWinID, rev |-> revision]

\* What an empty handoff.State holds.
NoState ==
  [instance |-> NoInstance, windows |-> <<>>,
   bars |-> [w \in WinID |-> <<>>], front |-> [w \in WinID |-> NoTab],
   tabs |-> {}, name |-> [t \in TabID |-> NoName],
   nextTab |-> 0, nextWin |-> 0, rev |-> 0]

CInit ==
  /\ Init
  /\ alive = {} /\ foreign = {} /\ instance = 1 /\ life = 1
  /\ owed = {} /\ due = FALSE /\ sending = {}
  /\ plumb = {} /\ marked = {} /\ lastState = NoState

-----------------------------------------------------------------------------
(* The daemon at work.                                                     *)

Owe(frames) == owed' = owed \cup frames /\ UNCHANGED <<due, sending>>
PushOwed == <<"push", NoTab>>

\* A new tab; NewTab calls tabSpawned once it has released s.mu.
Create ==
  /\ \/ \E w \in AnyWindow : CreateUnnamed(w)
     \/ \E call \in pending : FinishSpawn(call)
  /\ alive' = alive \cup {nextTabID}
  /\ Owe({<<"spawned", nextTabID>>})
  /\ UNCHANGED <<foreign, instance, life, keptVars>>

\* The supervisor reaps a foreign shell and marks it.
Reaped(t) == marked' = IF t \in foreign \cap alive THEN marked \cup {t} ELSE marked

\* CloseTab kills the shell, then calls tabGone.
Close(t) ==
  /\ CloseTab(t)
  /\ alive' = alive \ {t}
  /\ foreign' = foreign \ {t}
  /\ Reaped(t)
  /\ Owe({<<"gone", t>>})
  /\ UNCHANGED <<instance, life, plumb, lastState>>

\* The child-exit callback calls tabGone.
Exit(t) ==
  /\ ChildExit(t)
  /\ alive' = alive \ {t}
  /\ Reaped(t)
  /\ Owe({<<"gone", t>>})
  /\ UNCHANGED <<identity, plumb, lastState>>

\* Mutant: the broadcast does not push.
RestructureUnpushed ==
  /\ \/ NewWindow
     \/ \E w \in WinID : CloseWindow(w)
     \/ \E t \in TabID, w \in WinID, i \in MoveIndex : MoveTab(t, w, i)
  /\ UNCHANGED <<alive, identity, pushVars, keptVars>>

\* Changes the funnel broadcasts, which pushes.
Restructure ==
  /\ \/ NewWindow
     \/ \E w \in WinID : CloseWindow(w)
     \/ \E t \in TabID, w \in WinID, i \in MoveIndex : MoveTab(t, w, i)
  /\ Owe({PushOwed})
  /\ UNCHANGED <<alive, identity, keptVars>>

\* RenameTab pushes itself.
Rename(t, n) ==
  /\ RenameTab(t, n)
  /\ due' = TRUE
  /\ UNCHANGED <<alive, identity, owed, sending, keptVars>>

\* Steps that push nothing.
Unreported ==
  /\ \/ \E w \in WinID, t \in TabID : SetWindowFocusedTab(w, t)
     \/ \E c \in Callers, n \in Names, w \in AnyWindow : BeginFindOrCreate(c, n, w)
     \/ \E c \in Callers : BeginEnsureInitial(c)
     \/ \E call \in pending : FailSpawn(call)
  /\ UNCHANGED <<alive, identity, pushVars, keptVars>>

-----------------------------------------------------------------------------
(* What reaches the supervisor.                                            *)

\* tabSpawned, which sends nothing when the terminal is closed by now, and the
\* push of the broadcast after it.
SendTab(t) ==
  /\ <<"spawned", t>> \in owed
  /\ owed' = owed \ {<<"spawned", t>>}
  /\ IF t \in tabs THEN plumb' = plumb \cup {t} /\ marked' = marked \ {t}
                   ELSE UNCHANGED <<plumb, marked>>
  /\ due' = TRUE
  /\ UNCHANGED <<vars, alive, identity, sending, lastState>>

SendTabGone(t) ==
  /\ <<"gone", t>> \in owed
  /\ owed' = owed \ {<<"gone", t>>}
  /\ plumb' = plumb \ {t}
  /\ marked' = marked \ {t}
  /\ due' = TRUE
  /\ UNCHANGED <<vars, alive, identity, sending, lastState>>

\* broadcastTopology's pushState.
SchedulePush ==
  /\ PushOwed \in owed
  /\ owed' = owed \ {PushOwed}
  /\ due' = TRUE
  /\ UNCHANGED <<vars, alive, identity, sending, keptVars>>

\* The timer fires: sendState takes its snapshot, and later writes it.
TakeState ==
  /\ due /\ Cardinality(sending) < MaxPushes
  /\ due' = FALSE
  /\ sending' = sending \cup {SnapshotState}
  /\ UNCHANGED <<vars, alive, identity, owed, keptVars>>

SendState(st) ==
  /\ st \in sending
  /\ sending' = sending \ {st}
  /\ lastState' = st
  /\ UNCHANGED <<vars, alive, identity, owed, due, plumb, marked>>

-----------------------------------------------------------------------------
(* The daemon goes and another one comes.                                  *)

\* Mutant: a tab the last snapshot does not list is dropped.
Listed == (plumb \ marked) \cap lastState.tabs

\* liveTabIDs
Live == plumb \ marked

\* The elements of a set of numbers in increasing order: the k-th has k of
\* them up to itself.
Sorted(S) == [k \in 1..Cardinality(S) |->
                CHOOSE x \in S : Cardinality({y \in S : y <= x}) = k]

\* A window references only tabs that are there, in the order they had.
Kept(bar, ids) ==
  LET at == Sorted({i \in DOMAIN bar : bar[i] \in ids})
  IN [k \in DOMAIN at |-> bar[at[k]]]

\* Mutant: the counter as it was sent.
NextTabAsSent(st) == st.nextTab

\* The next id is beyond the tabs the snapshot missed, too.
NextTab(st) == Max({st.nextTab} \cup {t + 1 : t \in Live})

\* The front tab of a window that lost it is its first.
FrontOf(front, bar) ==
  IF bar = <<>> \/ front \in Live THEN front ELSE bar[1]

\* The windows of st that hold a live tab, without the others; one window
\* for everything when there are none.
BuildHandoff(st) ==
  LET kept == [w \in WinID |-> Kept(st.bars[w], Live)]
      wins == Kept(st.windows, {w \in WinID : kept[w] # <<>>})
      all == Sorted(Live)
  IN [st EXCEPT
        !.tabs = Live,
        !.name = [t \in TabID |-> IF t \in Live \cap st.tabs THEN st.name[t]
                                                             ELSE NoName],
        !.windows = IF wins = <<>> THEN <<1>> ELSE wins,
        !.bars = IF wins = <<>> THEN [kept EXCEPT ![1] = all] ELSE kept,
        !.front = IF wins = <<>> THEN [st.front EXCEPT ![1] = all[1]]
                  ELSE [w \in WinID |-> FrontOf(st.front[w], kept[w])],
        !.nextWin = IF wins = <<>> THEN Max({@, 2}) ELSE @,
        !.nextTab = NextTab(st)]

\* The reuse index rebuilt tab by tab, in the order of a map: of two tabs with
\* one label either may win.
Reindex(st) ==
  {index \in [Names -> st.tabs \cup {NoTab}] :
     \A n \in Names : LET called == {t \in st.tabs : st.name[t] = n}
       IN index[n] \in IF called = {} THEN {NoTab} ELSE called}

\* ResumeFromHandoff: windows and counters as they are, the tabs rebuilt, the
\* bars without the tabs that did not make it; no tab focused.
ResumeFromHandoff(st) ==
  /\ windows' = st.windows
  /\ tabIDs' = [w \in WinID |->
       IF w \in Range(st.windows)
       THEN Kept(st.bars[w], st.tabs) ELSE <<>>]
  /\ winFocus' = [w \in WinID |->
       IF w \in Range(st.windows) THEN st.front[w] ELSE NoTab]
  /\ tabs' = st.tabs
  /\ name' = [t \in TabID |-> IF t \in st.tabs THEN st.name[t] ELSE NoName]
  /\ tabsByName' \in Reindex(st)
  /\ exited' = {} /\ focusedTabID' = NoTab /\ pending' = {}
  /\ revision' = st.rev /\ nextTabID' = st.nextTab /\ nextWinID' = st.nextWin

\* The next daemon starts with no tab, and a new identity.
StartFresh ==
  /\ windows' = <<>>
  /\ tabIDs' = [w \in WinID |-> <<>>] /\ winFocus' = [w \in WinID |-> NoTab]
  /\ tabs' = {} /\ name' = [t \in TabID |-> NoName]
  /\ tabsByName' = [n \in Names |-> NoTab]
  /\ exited' = {} /\ focusedTabID' = NoTab /\ pending' = {}
  /\ revision' = 0 /\ nextTabID' = 1 /\ nextWinID' = 1
  /\ foreign' = {} /\ instance' = life' /\ due' = FALSE

NextLife ==
  /\ life < MaxLives
  /\ life' = life + 1
  /\ owed' = {} /\ sending' = {}

\* The next child starts from what is left of st; a shell that was never
\* reported hangs up with the daemon that held its terminal.
Restart(st) ==
  /\ NextLife
  /\ IF Live = {} THEN StartFresh
     ELSE /\ ResumeFromHandoff(BuildHandoff(st))
          /\ foreign' = Live /\ instance' = st.instance /\ due' = TRUE
  /\ alive' = alive \cap plumb
  /\ UNCHANGED <<plumb, marked>>

\* A crash the supervisor resumes; where it gives up after too many, all
\* sessions go (GiveUp of Supervisor).
Crash == Restart(lastState) /\ UNCHANGED lastState

\* SerializeUpgrade under a supervisor: the child's full state is adopted.
UpgradeSupervised ==
  /\ "supervised" \in Upgrades
  /\ Restart(SnapshotState)
  /\ lastState' = SnapshotState

\* SerializeUpgrade where no supervisor runs upgrades (none, or one that is
\* too old): the daemon execs the new image itself, which resumes as it is.
UpgradeInPlace ==
  /\ "inplace" \in Upgrades
  /\ NextLife
  /\ ResumeFromHandoff(SnapshotState)
  /\ due' = TRUE
  /\ foreign' = foreign \ exited
  /\ UNCHANGED <<alive, instance, keptVars>>

Works ==
  \/ Create \/ Restructure \/ Unreported
  \/ \E t \in TabID : Close(t) \/ Exit(t) \/ SendTab(t) \/ SendTabGone(t)
  \/ \E t \in TabID, n \in RenameTo : Rename(t, n)
  \/ SchedulePush \/ TakeState
  \/ \E st \in sending : SendState(st)

CNext == Works \/ Crash \/ UpgradeSupervised \/ UpgradeInPlace

CSpec == CInit /\ [][CNext]_cvars

-----------------------------------------------------------------------------
(* Properties.                                                             *)

NextIdsAreFree ==
  /\ \A t \in tabs : t < nextTabID
  /\ \A w \in OpenWindows : w < nextWinID

BarsTruthful ==
  \A v, w \in OpenWindows : \A i \in DOMAIN tabIDs[v], j \in DOMAIN tabIDs[w] :
    /\ tabIDs[v][i] \in tabs
    /\ tabIDs[v][i] = tabIDs[w][j] => v = w /\ i = j

FrontTabsExist == \A w \in OpenWindows : winFocus[w] \in tabs \cup {NoTab}

\* Whatever was lost of the last changes, what a session resumes from agrees
\* with the tabs that came back: the counters are beyond every tab and window,
\* so that no id is given twice; the bars show tabs the session has, each in
\* one place; and the front tab, on which clients open a window, exists.
ResumedIsSound == NextIdsAreFree /\ BarsTruthful /\ FrontTabsExist

\* A daemon's death takes no running shell whose creation had finished: it is
\* in the session of the next daemon.
FinishedTabsSurvive ==
  [][ life' # life =>
        \A t \in tabs \ exited : <<"spawned", t>> \notin owed => t \in tabs' ]_cvars

\* What a list had of S is in the other one, in the order it had.
KeepsOrder(old, new, S) ==
  \A i, j \in DOMAIN old : i <= j /\ {old[i], old[j]} \subseteq S =>
    \E k, l \in DOMAIN new : k <= l /\ new[k] = old[i] /\ new[l] = old[j]

\* Every change of the session is followed by a push: a crash after the last
\* push arrived loses no running tab, none of their windows, bars and labels,
\* and no counter.  (Which tab is in front is not pushed, and a tab that was on
\* no bar may come back on one.)
QuietCrashLosesNothing ==
  [][ life' # life /\ owed = {} /\ ~due /\ sending = {} /\ tabs \ exited # {} =>
        LET running == tabs \ exited
            shown == {w \in WinID : \E t \in running : HasTab(w, t)}
        IN /\ KeepsOrder(windows, windows', shown)
           /\ \A w \in OpenWindows : KeepsOrder(tabIDs[w], tabIDs'[w], running)
           /\ \A t \in running : t \in tabs' /\ name'[t] = name[t]
           /\ nextTabID' = nextTabID ]_cvars

=============================================================================

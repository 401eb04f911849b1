-------------------------------- MODULE Layout --------------------------------
(***************************************************************************)
(* Several GUIs on one daemon and the tab bars they share                  *)
(* (internal/app/layout_reconcile.go, app.go): each shows the daemon's     *)
(* tabs in windows of its own, sends what its user does, follows the       *)
(* topology the others cause, and after a local edit pushes its layout     *)
(* over the daemon's record.                                               *)
(*                                                                         *)
(* Left out: tabs of other daemons and of no daemon, a daemon that does    *)
(* not answer CreateWindow, and attach (Init is the layout after it).  The *)
(* daemon's changes and their broadcast are one step, and a GUI that takes *)
(* a snapshot takes the newest (Funnel has them apart).                    *)
(***************************************************************************)
EXTENDS Integers, SequencesExt

CONSTANTS
  Guis,
  Scenes,            \* the tab bars all start with, and what may then happen:
                     \* how often each of Kinds
  MaxEdits,          \* and how often altogether
  MaxTabs, MaxWins   \* bounds on the ids the daemon gives out

ASSUME LayoutConstants ==
  /\ MaxEdits \in Nat /\ MaxTabs \in Nat /\ MaxWins \in Nat

VARIABLES
  rec,    \* the daemon's record: windows, tab bars, front tabs, revision
  gui,    \* the GUIs
  out,    \* what each has sent and the daemon has yet to read
  left,   \* what users may still do
  edits,  \* edits so far, by each user
  loose   \* tabs a user dragged, or an agent put there

gvars == <<rec, gui, out, left, edits, loose>>

\* A press on a tab, a slide along its bar, a drop on another window, a tear-off,
\* a tab closed, a window shut; a tab an agent starts.
Kinds == {"press", "slide", "drop", "tear", "kill", "shut", "agent"}

Nil == 0   \* no tab, no window
WinIds == 1..MaxWins
TabIds == 1..MaxTabs
Elems(s) == ToSet(s)
Drop(s, e) == SelectSeq(s, LAMBDA x : x # e)
IndexOf(s, e) == CHOOSE i \in DOMAIN s : s[i] = e

-----------------------------------------------------------------------------
(* The daemon's record; the plan runs the same on a copy. *)

Tabs(r) == UNION {Elems(r.bars[w]) : w \in Elems(r.order)}
Holder(r, t) == CHOOSE w \in DOMAIN r.bars : t \in Elems(r.bars[w])
Known(r, t) == \E w \in DOMAIN r.bars : t \in Elems(r.bars[w])

FrontAfter(bar, f, t) == IF f # t THEN f ELSE IF bar = <<>> THEN Nil ELSE bar[1]

\* r without tab t.
Lose(r, t) ==
  LET w == Holder(r, t)
      bar == Drop(r.bars[w], t)
  IN [r EXCEPT !.bars[w] = bar, !.front[w] = FrontAfter(bar, @, t)]

\* r with tab t put at index i of window w, the tail if there is no such index.
Place(r, t, w, i) ==
  LET at == IF i \in 0..Len(r.bars[w]) THEN i ELSE Len(r.bars[w])
  IN [r EXCEPT !.bars[w] = InsertAt(@, at + 1, t),
               !.front[w] = IF @ = Nil THEN t ELSE @]

Stamped(r) == [r EXCEPT !.rev = @ + 1]

Moved(r, t, w, i) ==
  IF ~Known(r, t) THEN r
  ELSE IF w \in Elems(r.order) THEN Stamped(Place(Lose(r, t), t, w, i))
  ELSE Place(Lose(r, t), t, Holder(r, t), -1)

Closed(r, w) ==
  LET rest == Drop(r.order, w)
      heir == IF rest = <<>> THEN r.next ELSE rest[1]
      bar == r.bars[heir] \o r.bars[w]
  IN IF w \notin Elems(r.order) THEN r
     ELSE IF r.bars[w] = <<>> THEN Stamped([r EXCEPT !.order = rest])
     ELSE Stamped([r EXCEPT !.order = IF rest = <<>> THEN <<heir>> ELSE rest,
                            !.next = IF rest = <<>> THEN @ + 1 ELSE @,
                            !.bars[heir] = bar, !.bars[w] = <<>>,
                            !.front[w] = Nil,
                            !.front[heir] = IF @ = Nil THEN bar[1] ELSE @])

Killed(r, t) == IF Known(r, t) THEN Stamped(Lose(r, t)) ELSE r

Fronted(r, w, t) ==
  IF w \in Elems(r.order) /\ t \in Elems(r.bars[w]) THEN [r EXCEPT !.front[w] = t] ELSE r

Opened(r) == Stamped([r EXCEPT !.order = Append(@, r.next), !.next = @ + 1])

Handled(r, m) ==
  CASE m.do = "move" -> Moved(r, m.tab, m.win, m.at)
    [] m.do = "front" -> Fronted(r, m.win, m.tab)
    [] m.do = "close" -> Closed(r, m.win)
    [] m.do = "kill" -> Killed(r, m.tab)

MoveMsg(t, w, i) == [do |-> "move", tab |-> t, win |-> w, at |-> i]
FocusMsg(w, t) == [do |-> "front", tab |-> t, win |-> w]
CloseMsg(w) == [do |-> "close", win |-> w]
KillMsg(t) == [do |-> "kill", tab |-> t]

-----------------------------------------------------------------------------
(* A GUI's windows. *)

Shown(g) == UNION {Elems(g.wins[k].bar) : k \in DOMAIN g.wins}
WindowShowing(g, t) == CHOOSE k \in DOMAIN g.wins : t \in Elems(g.wins[k].bar)
Fingerprint(g) == [k \in DOMAIN g.wins |-> <<g.wins[k].bar, g.wins[k].front>>]

\* Manager.RemoveTab: the neighbour that slides into its place comes to front.
Removed(w, t) ==
  LET i == IndexOf(w.bar, t)
      bar == Drop(w.bar, t)
  IN [w EXCEPT !.bar = bar,
               !.front = IF @ # t THEN @ ELSE IF bar = <<>> THEN Nil
                         ELSE IF i <= Len(bar) THEN bar[i] ELSE bar[Len(bar)]]

\* Manager.AdoptTab, which brings the tab to front, and the front tab restored.
Added(w, t) == [w EXCEPT !.bar = Append(@, t), !.front = IF @ = Nil THEN t ELSE @]
Adopted(w, t) == [w EXCEPT !.bar = Append(@, t), !.front = t]

NewWin(t, d) == [bar |-> <<t>>, front |-> t, dwin |-> d, sent |-> Nil, closing |-> FALSE]

\* windowIDForHub: window k without a daemon window has one minted.  The GUI
\* waits for the answer, so the daemon has read all that was sent before.
Minted(st, k) ==
  LET r == FoldLeft(Handled, st.r, st.out)
  IN IF st.g.wins[k].dwin # Nil THEN st
     ELSE [st EXCEPT !.g.wins[k].dwin = r.next, !.r = Opened(r), !.out = <<>>]

Sent(st, m) == [st EXCEPT !.out = Append(@, m)]

-----------------------------------------------------------------------------
(* What a frame does, in order.  st.g is the GUI, st.r the record, st.out   *)
(* what it sends.                                                          *)

\* syncDaemonFocus of window k.
SyncWindow(st, k) ==
  LET w == st.g.wins[k]
      st2 == Minted([st EXCEPT !.g.wins[k].sent = w.front], k)
  IN IF w.front = w.sent THEN st
     ELSE IF w.front = Nil THEN [st EXCEPT !.g.wins[k].sent = Nil]
     ELSE Sent(st2, FocusMsg(st2.g.wins[k].dwin, w.front))

SyncFocus(st) == FoldLeft(SyncWindow, st, [k \in DOMAIN st.g.wins |-> k])

\* closeVanishedTab.
Vanish(g, t) ==
  LET k == WindowShowing(g, t)
      h == [g EXCEPT !.wins[k] = Removed(@, t), !.parked[t] = Nil]
  IN IF g.fp = Fingerprint(g) THEN [h EXCEPT !.fp = Fingerprint(h)] ELSE h

Vanished(st) ==
  LET all == FlattenSeq([k \in DOMAIN st.g.wins |-> st.g.wins[k].bar])
      dead == Reverse(SelectSeq(all, LAMBDA t : t \in st.g.gone))
  IN [st EXCEPT !.g = [FoldLeft(Vanish, @, dead) EXCEPT !.gone = {}]]

\* reapClosedWindows: an empty window takes its daemon window with it, the
\* tabs of another one stay with the daemon.
Doomed(w) == w.closing \/ w.bar = <<>>

\* Mutant: the daemon window of any window that goes is closed.
DrainedAny(w) == w.dwin # Nil
Drained(w) == w.bar = <<>> /\ w.dwin # Nil   \* closeEmptyDaemonWindows

Reaped(st) ==
  LET doomed == SelectSeq(st.g.wins, Doomed)
      mapped == SelectSeq(doomed, Drained)
      let_go == UNION {Elems(doomed[k].bar) : k \in DOMAIN doomed}
  IN [st EXCEPT !.out = @ \o [k \in DOMAIN mapped |-> CloseMsg(mapped[k].dwin)],
                !.g.parked = [t \in TabIds |-> IF t \in let_go THEN Nil ELSE @[t]],
                !.g.wins = SelectSeq(@, LAMBDA w : ~Doomed(w))]

\* relocateDaemonTab.
Relocated(g, t, d) ==
  LET src == WindowShowing(g, t)
      dst == {k \in DOMAIN g.wins : k # src /\ g.wins[k].dwin = d}
      k == CHOOSE k \in dst : \A j \in dst : k <= j
      w == Removed(g.wins[src], t)
  IN IF d = Nil \/ g.wins[src].dwin = d \/ dst = {} THEN g
     ELSE [g EXCEPT !.wins[src] = [w EXCEPT !.closing = @ \/ w.bar = <<>>],
                    !.wins[k] = Added(@, t)]

\* targetWindowForDaemonTab.
Target(g, d) ==
  LET same == {k \in DOMAIN g.wins : g.wins[k].dwin = d}
      some == {k \in DOMAIN g.wins : g.wins[k].bar # <<>>}
  IN IF same # {} THEN Min(same) ELSE IF some # {} THEN Min(some) ELSE 1

\* reconcileDaemonTabs.
Reconciled(g, t) ==
  LET d == Holder(g.last, t)
      k == Target(g, d)
  IN IF t \in Shown(g) THEN Relocated(g, t, d)
     ELSE [g EXCEPT !.wins[k] = Added(@, t),
                    !.parked[t] = IF g.wins[k].dwin # d THEN d ELSE Nil]

\* applyPendingTopology.
Applied(st) ==
  LET synced == st.g.fp = Fingerprint(st.g)
      h == FoldLeft(Reconciled, st.g, st.g.pend)
  IN [st EXCEPT !.g = [h EXCEPT !.pend = <<>>,
                                !.fp = IF synced THEN Fingerprint(h) ELSE @]]

\* maybeReconcileLayout up to the test whether it is time.
Noticed(st) ==
  LET changed == st.g.fp # Fingerprint(st.g)
  IN [st EXCEPT !.g = [@ EXCEPT !.fp = Fingerprint(st.g),
                                !.dirty = @ \/ changed,
                                !.due = @ \/ changed \/ st.g.fresh,
                                !.fresh = FALSE]]

Framed(st) ==
  LET a == Reaped(Vanished(SyncFocus(st)))
  IN IF a.g.wins = <<>> THEN a ELSE Noticed(Applied(a))

-----------------------------------------------------------------------------
(* The pass. *)

Synth(k) == MaxWins + k
IsSynth(d) == d > MaxWins

\* Tabs of window k another GUI's window has: parked here, and no window of
\* this GUI is the one they came from.
Owned(g) == {g.wins[k].dwin : k \in {j \in DOMAIN g.wins : ~g.wins[j].closing}} \ {Nil}
Parked(g, k, t) ==
  g.parked[t] # Nil /\ g.parked[t] # g.wins[k].dwin /\ g.parked[t] \notin Owned(g)

\* Mutant: a pass that pushes nothing changes nothing.
FollowNothing(g, w) == w

\* followDaemonOrder.
FollowWindow(g, w) ==
  LET order == IF w.dwin \in Elems(g.last.order) THEN g.last.bars[w.dwin] ELSE <<>>
      picked == SelectSeq(order, LAMBDA t : t \in Elems(w.bar))
      nth(i) == Cardinality({j \in 1..i : w.bar[j] \in Elems(order)})
  IN IF w.closing THEN w
     ELSE [w EXCEPT !.bar = [i \in DOMAIN @ |->
             IF @[i] \in Elems(order) THEN picked[nth(i)] ELSE @[i]]]

Followed(g) == [g EXCEPT !.wins = [k \in DOMAIN @ |-> FollowWindow(g, @[k])]]

Live(g) == SelectSeq([k \in DOMAIN g.wins |-> k], LAMBDA k : ~g.wins[k].closing)
Dest(g, k) ==
  IF g.wins[k].dwin \in Elems(g.last.order) THEN g.wins[k].dwin ELSE Synth(k)

\* The tabs to be placed, each with its GUI window and its index there.
Items(g) ==
  LET own(k) == SelectSeq(g.wins[k].bar, LAMBDA t : ~Parked(g, k, t))
      of(k) == [i \in DOMAIN own(k) |-> [k |-> k, tab |-> own(k)[i], at |-> i - 1]]
  IN FlattenSeq([n \in DOMAIN Live(g) |-> of(Live(g)[n])])

Sim(r) ==
  [bars |-> [w \in 1..(2 * MaxWins) |-> IF w \in WinIds THEN r.bars[w] ELSE <<>>],
   front |-> [w \in 1..(2 * MaxWins) |-> IF w \in WinIds THEN r.front[w] ELSE Nil]]

Plan(g, push) ==
  LET moves(p, it) ==
        LET d == Dest(g, it.k)
            from == Holder(p.sim, it.tab)
        IN IF \/ ~Known(p.sim, it.tab)
              \/ from = d /\ IndexOf(p.sim.bars[d], it.tab) = it.at + 1
              \/ ~push /\ ~IsSynth(d)
           THEN p
           ELSE [sim |-> Place(Lose(p.sim, it.tab), it.tab, d, it.at),
                 ops |-> Append(p.ops, MoveMsg(it.tab, d, it.at)),
                 drained |-> IF from # d THEN p.drained \cup {from} ELSE p.drained]
      p == FoldLeft(moves, [sim |-> Sim(g.last), ops |-> <<>>, drained |-> {}], Items(g))
      \* the windows whose front tab the daemon has otherwise
      off == SelectSeq(Live(g), LAMBDA k :
               /\ g.wins[k].front \in Elems(p.sim.bars[Dest(g, k)])
               /\ g.wins[k].front # p.sim.front[Dest(g, k)])
      void == SelectSeq(g.last.order, LAMBDA w :
                p.sim.bars[w] = <<>> /\ w \in p.drained \cup Owned(g))
  IN IF ~push THEN p.ops
     ELSE p.ops \o [n \in DOMAIN off |-> FocusMsg(Dest(g, off[n]), g.wins[off[n]].front)]
                \o [n \in DOMAIN void |-> CloseMsg(void[n])]

\* reconcileDaemonLayout sends the plan op by op.  The first op for a window
\* the daemon does not have mints one in its place; a window it closes is
\* forgotten.
SendOp(st, op) ==
  LET k == op.win - MaxWins
      known == op.win \in WinIds \/ k \in st.minted
      s == IF known THEN st
           ELSE Minted([st EXCEPT !.minted = @ \cup {k}, !.g.wins[k].dwin = Nil], k)
      win == IF op.win \in WinIds THEN op.win ELSE s.g.wins[k].dwin
      forget(w) == IF op.do = "close" /\ w.dwin = win THEN [w EXCEPT !.dwin = Nil] ELSE w
  IN [Sent(s, [op EXCEPT !.win = win]) EXCEPT
        !.g.wins = [n \in DOMAIN @ |-> forget(@[n])]]

Ordered(st, push) ==
  LET res == FoldLeft(SendOp, [minted |-> {}] @@ st, Plan(st.g, push))
  IN [f \in DOMAIN st |-> res[f]]

\* guiLayoutFor: a tab this GUI has a window for is no longer parked.
Unparked(g) ==
  LET own(t) == \E k \in Elems(Live(g)) : t \in Elems(g.wins[k].bar) /\ ~Parked(g, k, t)
  IN [g EXCEPT !.parked = [t \in TabIds |-> IF own(t) THEN Nil ELSE @[t]]]

\* Mutant: every pass pushes.
PushAll(g) == TRUE
Pushes(g) == g.dirty   \* only what was changed on this GUI

Passed(st) ==
  LET push == Pushes(st.g)
      g == [Unparked(IF push THEN st.g ELSE Followed(st.g))
              EXCEPT !.dirty = FALSE, !.due = FALSE]
      seen(h) == IF push THEN h ELSE [h EXCEPT !.fp = Fingerprint(h)]
  IN [Ordered([st EXCEPT !.g = g], push) EXCEPT !.g = seen(@)]

-----------------------------------------------------------------------------
(* Steps. *)

State(g) == [g |-> gui[g], r |-> rec, out |-> out[g]]
Become(g, st) ==
  /\ st.r.next <= MaxWins + 1
  /\ gui' = [gui EXCEPT ![g] = st.g]
  /\ rec' = st.r
  /\ out' = [out EXCEPT ![g] = st.out]

Alive(g) == gui[g].wins # <<>>

Frame(g) ==
  LET st == Framed(State(g))
  IN /\ Alive(g)
     /\ st # State(g)
     /\ Become(g, st)
     /\ UNCHANGED <<left, edits, loose>>

\* A pass is due after a change, and whenever the slow timer fires; that one
\* counts if it finds something.
PassDue(g) == gui[g].due \/ Passed(State(g)) # State(g)

\* A pass comes when the layout and the daemon's record have been still for a
\* while: layoutSettle outlasts the way to the daemon and back.
Pass(g) ==
  /\ Alive(g)
  /\ out[g] = <<>> /\ gui[g].last.rev = rec.rev
  /\ Framed(State(g)) = State(g)
  /\ PassDue(g)
  /\ Become(g, Passed(State(g)))
  /\ UNCHANGED <<left, edits, loose>>

\* The daemon reads a message.
Handle(g) ==
  /\ out[g] # <<>>
  /\ rec' = Handled(rec, Head(out[g]))
  /\ rec'.next <= MaxWins + 1
  /\ out' = [out EXCEPT ![g] = Tail(@)]
  /\ UNCHANGED <<gui, left, edits, loose>>

\* A topology snapshot arrives: noteTopology, the tombstones and markVanished.
Receive(g) ==
  LET h == gui[g]
      there == h.tomb \cap Tabs(rec)
      all == FlattenSeq([n \in DOMAIN rec.order |-> rec.bars[rec.order[n]]])
      new == SelectSeq(all, LAMBDA t : t \notin there)
  IN /\ Alive(g) /\ h.last.rev # rec.rev
     /\ gui' = [gui EXCEPT ![g] = [h EXCEPT
          !.last = rec, !.pend = new, !.fresh = TRUE, !.tomb = there,
          !.gone = @ \cup (Shown(h) \ Elems(new))]]
     /\ out' = [out EXCEPT ![g] = @ \o [n \in DOMAIN SetToSeq(there) |-> KillMsg(SetToSeq(there)[n])]]
     /\ UNCHANGED <<rec, left, edits, loose>>

\* The user.
Spend(kind) ==
  /\ left[kind] > 0 /\ left.all > 0
  /\ left' = [left EXCEPT ![kind] = @ - 1, !.all = @ - 1]
Edit(g, kind, dragged) ==
  /\ Spend(kind)
  /\ edits' = [edits EXCEPT ![g] = @ + 1]
  /\ loose' = loose \cup dragged

Press(g, k, i) ==
  LET w == gui[g].wins[k]
  IN /\ Edit(g, "press", {})
     /\ Len(w.bar) > 1 /\ w.front # w.bar[i]
     /\ Become(g, [State(g) EXCEPT !.g.wins[k].front = w.bar[i]])

\* A drag is one step: while a tab is held, no topology is applied and no pass
\* made.  It begins with a press and the frame that tells the daemon.
Grabbed(st, k, i) ==
  SyncWindow([st EXCEPT !.g.wins[k].front = st.g.wins[k].bar[i]], k)

\* The tab leaves its window, which tells the daemon its new front tab.
Lifted(st, k, i) ==
  LET t == st.g.wins[k].bar[i]
  IN SyncWindow([Grabbed(st, k, i) EXCEPT !.g.wins[k] = Removed(@, t)], k)

Slide(g, k, i, j) ==
  LET t == gui[g].wins[k].bar[i]
      st == Minted(Grabbed(State(g), k, i), k)
  IN /\ Edit(g, "slide", {t})
     /\ i # j
     /\ Become(g, Sent([st EXCEPT !.g.wins[k].bar = InsertAt(RemoveAt(@, i), j, t)],
                       MoveMsg(t, st.g.wins[k].dwin, j - 1)))

DropOn(g, k, i, j) ==
  LET t == gui[g].wins[k].bar[i]
      st == Minted([Lifted(State(g), k, i) EXCEPT !.g.wins[j] = Adopted(@, t)], j)
  IN /\ Edit(g, "drop", {t})
     /\ j # k /\ Len(gui[g].wins[k].bar) > 1
     /\ Become(g, Sent(st, MoveMsg(t, st.g.wins[j].dwin, -1)))

TearOff(g, k, i) ==
  LET t == gui[g].wins[k].bar[i]
      n == Len(gui[g].wins) + 1
      st == Minted([Lifted(State(g), k, i) EXCEPT !.g.wins = Append(@, NewWin(t, Nil))], n)
  IN /\ Edit(g, "tear", {t})
     /\ Len(gui[g].wins[k].bar) > 1
     /\ Become(g, Sent(st, MoveMsg(t, st.g.wins[n].dwin, -1)))

KillTab(g, k, i) ==
  LET t == gui[g].wins[k].bar[i]
  IN /\ Edit(g, "kill", {})
     /\ Become(g, Sent([State(g) EXCEPT !.g.wins[k] = Removed(@, t),
                          !.g.tomb = @ \cup {t}], KillMsg(t)))

ShutWindow(g, k) ==
  /\ Edit(g, "shut", {})
  /\ Len(gui[g].wins) > 1 /\ ~gui[g].wins[k].closing
  /\ Become(g, [State(g) EXCEPT !.g.wins[k].closing = TRUE])

\* An agent has the daemon start a tab.
AgentTab(w) ==
  /\ Spend("agent")
  /\ w \in Elems(rec.order) /\ rec.tab <= MaxTabs
  /\ rec' = [Stamped(Place(rec, rec.tab, w, -1)) EXCEPT !.tab = @ + 1]
  /\ loose' = loose \cup {rec.tab}
  /\ UNCHANGED <<gui, out, edits>>

Start(bars) ==
  LET n == Len(bars)
      bar(w) == IF w \in 1..n THEN bars[w] ELSE <<>>
      front(w) == IF bar(w) = <<>> THEN Nil ELSE bar(w)[1]
      win(k) == [NewWin(front(k), k) EXCEPT !.bar = bar(k), !.sent = front(k)]
  IN /\ rec = [order |-> [k \in 1..n |-> k], bars |-> [w \in WinIds |-> bar(w)],
               front |-> [w \in WinIds |-> front(w)], rev |-> 0, next |-> n + 1,
               tab |-> Cardinality(UNION {Elems(bars[k]) : k \in 1..n}) + 1]
     /\ gui = [g \in Guis |->
          [wins |-> [k \in 1..n |-> win(k)], parked |-> [t \in TabIds |-> Nil],
           fp |-> [k \in 1..n |-> <<bar(k), front(k)>>],
           dirty |-> FALSE, due |-> FALSE, fresh |-> FALSE,
           last |-> rec, pend |-> <<>>, gone |-> {}, tomb |-> {}]]

GInit ==
  /\ \E s \in Scenes : Start(s.bars) /\ left = [all |-> MaxEdits] @@ s.edits
  /\ out = [g \in Guis |-> <<>>]
  /\ edits = [g \in Guis |-> 0]
  /\ loose = {}

GNext ==
  \/ \E g \in Guis :
       \/ Frame(g) \/ Pass(g) \/ Handle(g) \/ Receive(g)
       \/ Alive(g) /\ \E k \in DOMAIN gui[g].wins :
            \/ ShutWindow(g, k)
            \/ \E i \in DOMAIN gui[g].wins[k].bar :
                 \/ Press(g, k, i) \/ TearOff(g, k, i) \/ KillTab(g, k, i)
                 \/ \E j \in DOMAIN gui[g].wins[k].bar : Slide(g, k, i, j)
                 \/ \E j \in DOMAIN gui[g].wins : DropOn(g, k, i, j)
  \/ \E w \in WinIds : AgentTab(w)

GSpec == GInit /\ [][GNext]_gvars

-----------------------------------------------------------------------------
(* Properties. *)

\* GUI g has nothing left to do: no frame and no pass would change a thing,
\* and the daemon has read all it sent.
Resting(g) ==
  /\ out[g] = <<>>
  /\ Alive(g) => /\ gui[g].last.rev = rec.rev
                 /\ Framed(State(g)) = State(g) /\ ~PassDue(g)
Rest == \A g \in Guis : Resting(g)

\* Window k of g shows a tab that belongs to another of its windows.
Misplaced(g, k, t) ==
  /\ t \in Tabs(rec) /\ gui[g].wins[k].dwin # Holder(rec, t)
  /\ \E j \in DOMAIN gui[g].wins : gui[g].wins[j].dwin = Holder(rec, t)

\* Tabs that window k of g shares with its daemon window are in the order of
\* the newest snapshot.
InOrder(g, k) ==
  LET bar == gui[g].wins[k].bar
      order == IF gui[g].wins[k].dwin \in WinIds THEN gui[g].last.bars[gui[g].wins[k].dwin] ELSE <<>>
  IN SelectSeq(bar, LAMBDA t : t \in Elems(order)) = SelectSeq(order, LAMBDA t : t \in Elems(bar))

\* When all GUIs rest, each shows every tab it shows in the window the daemon
\* has it in and in the order of the newest snapshot, whatever the others did
\* at the same time and however their edits met.  (A move to a window that is
\* gone reorders the record without a revision, and no snapshot tells of it:
\* Session.MoveTab.)
BarsAgree ==
  Rest => \A g \in Guis : Alive(g) =>
    \A k \in DOMAIN gui[g].wins :
      InOrder(g, k) /\ \A t \in Elems(gui[g].wins[k].bar) : ~Misplaced(g, k, t)

\* GUIs that follow each other come to an end: an edit costs the daemon at
\* most three changes of its record, all that the others make of it included,
\* and edits that meet at most seven each.
NoFight ==
  LET n == MaxEdits - left.all
  IN rec.rev <= IF n = 1 THEN 3 ELSE 7 * n

\* Nothing but a user's drag takes a tab from one daemon window to another:
\* no follower, no pass and no window closed on screen moves a tab that nobody
\* touched.
UndraggedStays ==
  [][\A t \in Tabs(rec) \cap Tabs(rec') :
       Holder(rec, t) # Holder(rec', t) => t \in loose]_gvars

\* relocateDaemonTab: "A locally-initiated move may still be in flight - the
\* snapshot predates it.  Relocating now would yank the tab out from under the
\* user's drag".  While the daemon has yet to read the move of a tab, a frame
\* leaves the tab in the window its user put it in.
OwnMoveStands ==
  [][\A g \in Guis : \A t \in Shown(gui[g]) \cap Shown(gui'[g]) :
       /\ edits' = edits
       /\ \E n \in DOMAIN out[g] : out[g][n].do = "move" /\ out[g][n].tab = t
       => WindowShowing(gui[g], t) = WindowShowing(gui'[g], t)]_gvars
===============================================================================

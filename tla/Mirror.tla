------------------------------- MODULE Mirror --------------------------------
(***************************************************************************)
(* How a tab's screen and scrollback reach a client's mirror of them: the  *)
(* publish loop of one subscription (internal/daemon/conn.go), the         *)
(* connection's queue, the client's dispatcher and its one channel per     *)
(* message type (internal/clientproto/client.go), the router that takes    *)
(* from whichever channel is ready, and the Source's windowed mirror       *)
(* (internal/daemonsource).                                                *)
(*                                                                         *)
(* The screen is one value, a new one after each burst of output.  A       *)
(* scrollback row is <<g, i>>: the i-th row (from 0) after the g-th clear. *)
(***************************************************************************)
EXTENDS Integers, Sequences

CONSTANTS
  Batch,        \* scrollbackBatchMax
  Backfill,     \* initialBackfillRows
  QueueCap,     \* outQueueCap
  ChanCap,      \* the channels' capacities (one bound for all)
  WindowCap, FetchSpan, Prefetch, \* the Source's window tunables
  MaxScreens, MaxRows, MaxScrolls, \* bounds
  MaxUpsets     \* bound on clears and reconnections

ASSUME MirrorConstants ==
  /\ {Batch, Backfill, QueueCap, ChanCap, WindowCap, FetchSpan, Prefetch} \subseteq Nat \ {0}
  /\ {MaxScreens, MaxRows, MaxScrolls, MaxUpsets} \subseteq Nat

VARIABLES
  screen,  \* what the tab's viewport shows
  rows,    \* the scrollback's length
  clears,  \* clears of the scrollback so far
  flagged, \* clears the subscription has been told of (broadcastScrollbackCleared)
  loop,    \* where the publish goroutine is
  token,   \* sub.wake holds a token
  base,    \* sub.lastGrid, 0 when nil
  shipped, \* sub.lastScrollbackLen
  clearing,\* sub.clearPending
  queue,   \* the frames between the daemon and the dispatcher
  chan,    \* the client's channel of each type
  asked,   \* scrollback requests the daemon has not answered
  mirror,  \* the Source: [grid, start, win, total, req]
  view,    \* the row the user looks at, -1 at the live screen
  scrolls, redials \* scrolls, and reconnections, so far

mvars == <<screen, rows, clears, flagged, loop, token, base, shipped, clearing,
           queue, chan, asked, mirror, view, scrolls, redials>>
tab == <<screen, rows, clears, flagged>>
sub == <<loop, token, base, shipped, clearing>>
client == <<mirror, view, scrolls>>

Types == {"full", "diff", "append", "cleared", "range"}
NoReq == <<0, 0>>

MInit ==
  /\ screen = 1 /\ rows = 0 /\ clears = 0 /\ flagged = 0
  /\ loop = "cells" /\ token = FALSE /\ base = 0 /\ shipped = 0 /\ clearing = FALSE
  /\ queue = <<>> /\ chan = [t \in Types |-> <<>>] /\ asked = {}
  /\ mirror = [grid |-> 0, start |-> 0, win |-> <<>>, total |-> 0, req |-> NoReq]
  /\ view = -1 /\ scrolls = 0 /\ redials = 0

Row(i) == <<clears, i>>
Rows(lo, hi) == [k \in 1..(IF hi > lo THEN hi - lo ELSE 0) |-> Row(lo + k - 1)]
Least(a, b) == IF a < b THEN a ELSE b
Most(a, b) == IF a > b THEN a ELSE b

-----------------------------------------------------------------------------
(* The tab. *)

\* A burst of output rolls k rows off the screen, may leave it different, and
\* wakes every subscription (Terminal.OnData, WakeTabSubscribers).
Output(k) ==
  /\ rows + k <= MaxRows
  /\ \E s \in screen..Least(screen + 1, MaxScreens) : screen' = s /\ (k > 0 \/ s # screen)
  /\ rows' = rows + k
  /\ token' = TRUE
  /\ UNCHANGED <<clears, flagged, loop, base, shipped, clearing, queue, chan, asked,
                 client, redials>>

\* MsgClearScrollback from some client: the terminal first, then every
\* subscription's flag and wake.
ClearHistory ==
  /\ clears + redials < MaxUpsets /\ flagged = clears
  /\ rows' = 0 /\ clears' = clears + 1
  /\ UNCHANGED <<screen, flagged, sub, queue, chan, asked, client, redials>>

FlagClear ==
  /\ flagged < clears
  /\ flagged' = clears
  /\ clearing' = TRUE /\ token' = TRUE
  /\ UNCHANGED <<screen, rows, clears, loop, base, shipped, queue, chan, asked,
                 client, redials>>

-----------------------------------------------------------------------------
(* The publish loop: sendCellsAndCursor, then sendNewScrollback. *)

Fits == Len(queue) < QueueCap

Wakes ==
  /\ loop = "idle" /\ token
  /\ loop' = "cells" /\ token' = FALSE
  /\ UNCHANGED <<tab, base, shipped, clearing, queue, chan, asked, client, redials>>

\* trySend: a full queue drops the frame and leaves the baseline.
SendCells ==
  /\ loop = "cells"
  /\ loop' = "clear"
  /\ IF Fits /\ screen # base
     THEN /\ queue' = Append(queue, [t |-> IF base = 0 THEN "full" ELSE "diff", grid |-> screen])
          /\ base' = screen
     ELSE UNCHANGED <<queue, base>>
  /\ UNCHANGED <<tab, token, shipped, clearing, chan, asked, client, redials>>

\* send blocks on a full queue.
SendCleared ==
  /\ loop = "clear" /\ (clearing => Fits)
  /\ loop' = "append"
  /\ clearing' = FALSE
  /\ IF clearing
     THEN queue' = Append(queue, [t |-> "cleared"]) /\ shipped' = 0
     ELSE UNCHANGED <<queue, shipped>>
  /\ UNCHANGED <<tab, token, base, chan, asked, client, redials>>

\* Mutant: nothing wakes the loop for the rows a full batch leaves.
SelfWakeNever(end) == FALSE
SelfWake(end) == end < rows

\* At most Batch rows; what is left wakes the loop again.
SendAppend ==
  /\ loop = "append"
  /\ loop' = "idle"
  /\ IF rows > shipped
     THEN LET end == Least(rows, shipped + Batch)
          IN /\ Fits
             /\ queue' = Append(queue, [t |-> "append", from |-> shipped,
                                        rows |-> Rows(shipped, end), total |-> rows])
             /\ shipped' = end
             /\ token' = (token \/ SelfWake(end))
     ELSE UNCHANGED <<queue, shipped, token>>
  /\ UNCHANGED <<tab, base, clearing, chan, asked, client, redials>>

\* sendScrollbackRange, on a goroutine of its own.
AnswerRange(r) ==
  /\ r \in asked /\ Fits
  /\ asked' = asked \ {r}
  /\ queue' = Append(queue, [t |-> "range", from |-> r[1],
                             rows |-> Rows(r[1], Least(r[2], rows))])
  /\ UNCHANGED <<tab, sub, chan, client, redials>>

-----------------------------------------------------------------------------
(* The client. *)

\* dispatchLoop: one frame at a time, blocking on the channel of its type.
Dispatch ==
  /\ queue # <<>> /\ Len(chan[Head(queue).t]) < ChanCap
  /\ chan' = [chan EXCEPT ![Head(queue).t] = Append(@, Head(queue))]
  /\ queue' = Tail(queue)
  /\ UNCHANGED <<tab, sub, asked, client, redials>>

End(m) == m.start + Len(m.win)

\* Mutant: the window's start stays where it was.
EvictedInPlace(m) ==
  [m EXCEPT !.win = SubSeq(@, Most(0, Len(@) - WindowCap) + 1, Len(@))]

\* evictWindowFrontLocked.
Evicted(m) ==
  LET over == Most(0, Len(m.win) - WindowCap)
  IN [m EXCEPT !.win = SubSeq(@, over + 1, Len(@)), !.start = @ + over]

\* trimWindowLocked, around the row the user looks at.
Trimmed(m, anchor) ==
  LET hi == Least(Most(anchor - WindowCap \div 2, m.start) + WindowCap, End(m))
      lo == Most(hi - WindowCap, m.start)
  IN [m EXCEPT !.win = SubSeq(@, lo - m.start + 1, hi - m.start), !.start = lo]

Appended(m, f) ==
  LET t == [m EXCEPT !.total = Most(@, Most(f.total, f.from + Len(f.rows)))]
  IN Evicted(IF m.win = <<>> THEN [t EXCEPT !.start = f.from, !.win = f.rows]
             ELSE IF f.from = End(m) THEN [t EXCEPT !.win = @ \o f.rows]
             ELSE t)

\* applyScrollbackRange: a disjoint range replaces the window, another merges.
Ranged(m, f) ==
  LET to == f.from + Len(f.rows)
      lo == Least(m.start, f.from)
      disjoint == m.win = <<>> \/ to < m.start \/ f.from > End(m)
      At(i) == IF f.from <= i /\ i < to THEN f.rows[i - f.from + 1]
               ELSE m.win[i - m.start + 1]
      u == IF disjoint THEN [m EXCEPT !.start = f.from, !.win = f.rows]
           ELSE [m EXCEPT !.start = lo,
                          !.win = [k \in 1..(Most(End(m), to) - lo) |-> At(lo + k - 1)]]
      w == Trimmed([u EXCEPT !.req = NoReq], Most(view, 0))
  IN [w EXCEPT !.total = Most(@, End(w))]

Applied(m, f) ==
  CASE f.t \in {"full", "diff"} -> [m EXCEPT !.grid = f.grid]
    [] f.t = "cleared" -> [m EXCEPT !.start = 0, !.win = <<>>, !.total = 0, !.req = NoReq]
    [] f.t = "append"  -> Appended(m, f)
    [] f.t = "range"   -> Ranged(m, f)

\* Hub.route takes from any channel that is ready.
Route(t) ==
  /\ chan[t] # <<>>
  /\ mirror' = Applied(mirror, Head(chan[t]))
  /\ chan' = [chan EXCEPT ![t] = Tail(@)]
  /\ UNCHANGED <<tab, sub, queue, asked, view, scrolls, redials>>

\* The user scrolls to a row of the history, as far as the mirror knows it.
Scroll(i) ==
  /\ scrolls < MaxScrolls /\ i < mirror.total
  /\ view' = i /\ scrolls' = scrolls + 1
  /\ UNCHANGED <<tab, sub, queue, chan, asked, mirror, redials>>

\* EnsureScrollbackWindow, once per frame: what to fetch, if anything.
Wanted ==
  LET m == mirror  lo == m.start  hi == End(m)
      below == lo > 0 /\ view < lo + Prefetch
      above == hi < m.total /\ view + 1 > hi - Prefetch
      jump == m.win = <<>> \/ view + 1 <= lo \/ view >= hi
      from == IF jump THEN view - FetchSpan \div 2 ELSE IF below THEN lo - FetchSpan ELSE hi
      to == IF jump THEN from + FetchSpan ELSE IF below THEN lo ELSE hi + FetchSpan
  IN IF view >= 0 /\ view < m.total /\ (jump \/ below \/ above)
     THEN <<Most(0, from), Least(to, m.total)>> ELSE NoReq

FetchDue ==
  /\ Wanted[2] > Wanted[1]
  /\ ~(mirror.req[2] > mirror.req[1] /\ Wanted[1] >= mirror.req[1] /\ Wanted[2] <= mirror.req[2])

Fetch ==
  /\ FetchDue
  /\ mirror' = [mirror EXCEPT !.req = Wanted]
  /\ asked' = asked \cup {Wanted}
  /\ UNCHANGED <<tab, sub, queue, chan, view, scrolls, redials>>

\* The connection is replaced: what was in flight is gone, the daemon starts a
\* new subscription, the Source and its window stay.
Reconnect ==
  /\ clears + redials < MaxUpsets
  /\ redials' = redials + 1
  /\ queue' = <<>> /\ chan' = [t \in Types |-> <<>>] /\ asked' = {}
  /\ loop' = "cells" /\ token' = FALSE /\ base' = 0 /\ clearing' = FALSE
  /\ shipped' = Most(0, rows - Backfill)
  /\ flagged' = clears
  /\ UNCHANGED <<screen, rows, clears, client>>

MNext ==
  \/ \E k \in 0..MaxRows : Output(k)
  \/ ClearHistory \/ FlagClear
  \/ Wakes \/ SendCells \/ SendCleared \/ SendAppend
  \/ \E r \in asked : AnswerRange(r)
  \/ Dispatch \/ (\E t \in Types : Route(t))
  \/ (\E i \in 0..MaxRows-1 : Scroll(i)) \/ Fetch \/ Reconnect

MSpec == MInit /\ [][MNext]_mvars

-----------------------------------------------------------------------------
(* A row of the window is where the daemon had it, through batches,          *)
(* evictions, merges, trims, clears and reconnections, in whatever order the *)
(* router takes the frames (applyScrollbackAppend, applyScrollbackRange).    *)
RowsAtTheirIndex ==
  \A k \in 1..Len(mirror.win) : mirror.win[k][2] = mirror.start + k - 1

(* At rest, with no goroutine left to run and no frame that asks for more,   *)
(* the mirror of a history nobody cleared is whole: its length is the        *)
(* daemon's, also after a reconnection; while the connection holds, a viewer *)
(* who never scrolled has every row up to the live end, and one who did has  *)
(* the row scrolled to.  No batch is left behind and no fetch forgotten      *)
(* (sendNewScrollback's own wake, EnsureScrollbackWindow).                   *)
Quiet == queue = <<>> /\ \A t \in Types : chan[t] = <<>>
Rest == Quiet /\ loop = "idle" /\ ~token /\ asked = {} /\ ~FetchDue
RestingMirrorIsWhole ==
  (Rest /\ clears = 0) =>
     /\ mirror.total = rows
     /\ redials = 0 /\ scrolls = 0 => End(mirror) = rows
     /\ redials = 0 /\ view >= 0 => mirror.start <= view /\ view < End(mirror)

(* When nothing is in flight the mirror shows what the daemon takes it to    *)
(* show, the grid it computes the next diff from ("natural coalescing, never *)
(* a desync", sendCellsAndCursor).                                           *)
MirrorMatchesBaseline == (Quiet /\ base # 0) => mirror.grid = base
=============================================================================

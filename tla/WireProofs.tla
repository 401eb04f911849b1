----------------------------- MODULE WireProofs -----------------------------
(***************************************************************************)
(* What a connection between a daemon and a client keeps.  The mirror of a *)
(* tab, for any number of rows, screens, scrolls, clears and               *)
(* reconnections, any capacities and window tunables: every row of the     *)
(* window where the daemon had it, and at rest a history nobody cleared    *)
(* whole.  The heartbeat, for any window and any queues: an end that runs  *)
(* is not reaped.                                                          *)
(***************************************************************************)
EXTENDS Mirror, Heartbeat, SeqLemmas

-----------------------------------------------------------------------------
(* The invariant.                                                          *)

\* A row is <<g, i>>; a run of rows follows from a row if it is that one and
\* the next ones, in order.
Cell == Nat \X Nat
Reqs == Nat \X Int
Follow(s, from) == \A n \in 1..Len(s) : s[n][2] = from + n - 1

\* The frames, of the five types.
Shots == [t : {"full", "diff"}, grid : Nat]
Wipes == [t : {"cleared"}]
Tails == {f \in [t : {"append"}, from : Nat, rows : Seq(Cell), total : Nat] :
            Follow(f.rows, f.from)}
Spans == {f \in [t : {"range"}, from : Nat, rows : Seq(Cell)] : Follow(f.rows, f.from)}
Frames == Shots \cup Wipes \cup Tails \cup Spans

Mirrors == {m \in [grid : Nat, start : Nat, win : Seq(Cell), total : Nat, req : Reqs] :
              Follow(m.win, m.start)}

\* The rows of every frame are where it says, and every frame is of its channel.
MirrorTyped ==
  /\ screen \in Nat /\ rows \in Nat /\ clears \in Nat /\ flagged \in Nat
  /\ base \in Nat /\ shipped \in Nat
  /\ loop \in {"idle", "cells", "clear", "append"}
  /\ token \in BOOLEAN /\ clearing \in BOOLEAN
  /\ queue \in Seq(Frames) /\ chan \in [Types -> Seq(Frames)]
  /\ \A t \in Types : \A n \in 1..Len(chan[t]) : chan[t][n].t = t
  /\ asked \subseteq Reqs /\ mirror \in Mirrors
  /\ view \in Int /\ view >= -1 /\ scrolls \in Nat /\ redials \in Nat

InFlight == Range(queue) \cup UNION {Range(chan[t]) : t \in Types}
Beyond(f) == f.from + Len(f.rows)

\* Nobody cleared the history: the daemon ships all of it, and nothing the
\* mirror has or will get is past its end.
Intact ==
  /\ ~clearing /\ flagged = 0
  /\ shipped <= rows
  /\ shipped < rows => token \/ loop # "idle"
  /\ shipped = rows =>
       mirror.total >= rows \/ \E f \in InFlight : f.t = "append" /\ f.total >= rows
  /\ End(mirror) <= mirror.total /\ mirror.total <= rows
  /\ \A f \in InFlight : /\ f.t # "cleared"
                         /\ f.t \in {"append", "range"} => Beyond(f) <= rows
                         /\ f.t = "append" => f.total <= rows
  /\ \A r \in asked : r[1] <= rows
  /\ view >= 0 => view < mirror.total

\* A fetch the mirror waits for is on its way.
FetchIsOut ==
  mirror.req[2] > mirror.req[1] => asked # {} \/ \E f \in InFlight : f.t = "range"

\* The rows between the mirror's end and what was shipped are in flight, in
\* their order.
InOrder(f, g) == f.t = "append" /\ g.t = "append" => Beyond(f) <= g.from
Lined ==
  /\ \A i, j \in 1..Len(chan["append"]) : i < j => InOrder(chan["append"][i], chan["append"][j])
  /\ \A i \in 1..Len(chan["append"]), j \in 1..Len(queue) : InOrder(chan["append"][i], queue[j])
  /\ \A i, j \in 1..Len(queue) : i < j => InOrder(queue[i], queue[j])
Chained ==
  /\ view = -1 /\ asked = {} /\ \A f \in InFlight : f.t # "range"
  /\ End(mirror) <= shipped
  /\ \A f \in InFlight : f.t = "append" =>
       End(mirror) <= f.from /\ Len(f.rows) > 0 /\ Beyond(f) <= shipped
  /\ \A x \in Nat : End(mirror) <= x /\ x < shipped =>
       \E f \in InFlight : f.t = "append" /\ f.from <= x /\ x < Beyond(f)
  /\ Lined

\* What is promised of a history nobody cleared, of a connection never replaced,
\* of a viewer who never scrolled.
MirrorInv ==
  /\ MirrorTyped
  /\ clears = 0 => Intact
  /\ clears = 0 /\ redials = 0 => FetchIsOut
  /\ clears = 0 /\ redials = 0 /\ scrolls = 0 => Chained

-----------------------------------------------------------------------------
(* What the window operations make of a mirror.                            *)

LEMMA RowsFollow ==
  ASSUME clears \in Nat, NEW lo \in Nat, NEW hi \in Int
  PROVE  /\ Rows(lo, hi) \in Seq(Cell) /\ Follow(Rows(lo, hi), lo)
         /\ Len(Rows(lo, hi)) = IF hi > lo THEN hi - lo ELSE 0
<1> DEFINE n == IF hi > lo THEN hi - lo ELSE 0
           s == [k \in 1..n |-> <<clears, lo + k - 1>>]
<1>1. n \in Nat /\ Rows(lo, hi) = s
  BY DEF Rows, Row
<1> HIDE DEF n
<1>2. \A k \in 1..n : <<clears, lo + k - 1>> \in Cell /\ <<clears, lo + k - 1>>[2] = lo + k - 1
  BY <1>1 DEF Cell
<1>3. s \in [1..n -> Cell] /\ \A k \in 1..n : s[k] = <<clears, lo + k - 1>>
  BY <1>2
<1> HIDE DEF s
<1>4. s \in Seq(Cell) /\ Len(s) = n
  BY <1>1, <1>3, SeqDef, LenProperties
<1> QED BY <1>1, <1>2, <1>3, <1>4 DEF Follow, n

\* A frame put into a sequence of frames, or taken from it.
LEMMA FrameKinds ==
  ASSUME NEW f \in Frames
  PROVE  /\ f.t \in Types
         /\ f.t \in {"full", "diff"} => f.grid \in Nat
         /\ f.t \in {"append", "range"} =>
              f.from \in Nat /\ f.rows \in Seq(Cell) /\ Follow(f.rows, f.from)
         /\ f.t = "append" => f.total \in Nat
BY DEF Frames, Shots, Wipes, Tails, Spans, Types

LEMMA FramesMade ==
  /\ \A g \in Nat : \A t \in {"full", "diff"} : [t |-> t, grid |-> g] \in Frames
  /\ [t |-> "cleared"] \in Frames
  /\ \A lo \in Nat : \A s \in Seq(Cell) : \A n \in Nat : Follow(s, lo) =>
       /\ [t |-> "append", from |-> lo, rows |-> s, total |-> n] \in Frames
       /\ [t |-> "range", from |-> lo, rows |-> s] \in Frames
<1>1. \A g \in Nat : \A t \in {"full", "diff"} : [t |-> t, grid |-> g] \in Shots
  BY DEF Shots
<1>2. [t |-> "cleared"] \in Wipes
  BY DEF Wipes
<1>3. ASSUME NEW lo \in Nat, NEW s \in Seq(Cell), NEW n \in Nat, Follow(s, lo)
      PROVE  /\ [t |-> "append", from |-> lo, rows |-> s, total |-> n] \in Tails
             /\ [t |-> "range", from |-> lo, rows |-> s] \in Spans
  BY <1>3 DEF Tails, Spans
<1> QED BY <1>1, <1>2, <1>3 DEF Frames

Mir(grid, start, win, total, req) ==
  [grid |-> grid, start |-> start, win |-> win, total |-> total, req |-> req]

LEMMA MirrorFields ==
  ASSUME NEW m \in Mirrors
  PROVE  /\ m = Mir(m.grid, m.start, m.win, m.total, m.req)
         /\ m.grid \in Nat /\ m.start \in Nat /\ m.win \in Seq(Cell) /\ m.total \in Nat
         /\ m.req \in Reqs /\ Follow(m.win, m.start)
         /\ Len(m.win) \in Nat /\ End(m) = m.start + Len(m.win) /\ End(m) \in Nat
BY LenProperties DEF Mirrors, Mir, End

\* A stretch of a window.
LEMMA Stretch ==
  ASSUME NEW win \in Seq(Cell), NEW start \in Nat, Follow(win, start),
         NEW a \in 0..Len(win), NEW b \in a..Len(win)
  PROVE  /\ SubSeq(win, a + 1, b) \in Seq(Cell) /\ Len(SubSeq(win, a + 1, b)) = b - a
         /\ Follow(SubSeq(win, a + 1, b), start + a)
<1> DEFINE s == SubSeq(win, a + 1, b)
<1>1. Len(win) \in Nat /\ a \in Nat /\ b \in Nat /\ a <= b /\ b <= Len(win)
  BY LenProperties
<1>2. \A n \in (a + 1)..b : win[n] \in Cell
  BY <1>1, ElementOfSeq
<1>3. /\ s \in Seq(Cell) /\ Len(s) = IF a + 1 <= b THEN b - (a + 1) + 1 ELSE 0
      /\ \A n \in 1..(b - (a + 1) + 1) : s[n] = win[a + 1 + n - 1]
  BY <1>1, <1>2, SubSeqProperties
<1> HIDE DEF s
<1>4. Len(s) = b - a /\ \A n \in 1..(b - a) : s[n] = win[a + n]
  BY <1>1, <1>3
<1>5. Follow(s, start + a)
  <2>1. ASSUME NEW n \in 1..(b - a) PROVE s[n][2] = start + a + n - 1
    <3>1. a + n \in 1..Len(win) /\ s[n] = win[a + n]
      BY <1>1, <1>4
    <3>2. win[a + n][2] = start + (a + n) - 1
      BY <3>1 DEF Follow
    <3> QED BY <1>1, <3>1, <3>2
  <2> QED BY <1>4, <2>1 DEF Follow
<1> QED BY <1>3, <1>4, <1>5 DEF s

\* A mirror whose window is a stretch of another's.
LEMMA CutMirror ==
  ASSUME NEW g \in Nat, NEW s \in Nat, NEW w \in Seq(Cell), NEW t \in Nat,
         NEW r \in Reqs, Follow(w, s), NEW a \in 0..Len(w), NEW b \in a..Len(w)
  PROVE  LET m == Mir(g, s + a, SubSeq(w, a + 1, b), t, r)
         IN  /\ m \in Mirrors /\ End(m) = s + b
             /\ m.grid = g /\ m.start = s + a /\ m.total = t /\ m.req = r
<1> DEFINE v == SubSeq(w, a + 1, b)
           z == s + a
<1>1. v \in Seq(Cell) /\ Len(v) = b - a /\ Follow(v, z)
  BY Stretch
<1>2. Len(w) \in Nat /\ a \in Nat /\ b \in Nat /\ z \in Nat /\ z + (b - a) = s + b
  BY LenProperties
<1> HIDE DEF v, z
<1>3. LET m == Mir(g, z, v, t, r)
      IN  /\ m \in Mirrors /\ End(m) = z + Len(v)
          /\ m.grid = g /\ m.start = z /\ m.total = t /\ m.req = r
  BY <1>1, <1>2 DEF Mirrors, Mir, End
<1> QED BY <1>1, <1>2, <1>3 DEF v, z

LEMMA MirrorIs ==
  ASSUME NEW m \in Mirrors
  PROVE  \E g \in Nat, s \in Nat, w \in Seq(Cell), t \in Nat, r \in Reqs :
           Follow(w, s) /\ m = Mir(g, s, w, t, r)
BY DEF Mirrors, Mir

LEMMA EvictedMirror ==
  ASSUME NEW m \in Mirrors
  PROVE  /\ Evicted(m) \in Mirrors /\ End(Evicted(m)) = End(m)
         /\ Evicted(m).total = m.total /\ Evicted(m).req = m.req /\ Evicted(m).grid = m.grid
<1>1. PICK g \in Nat, s \in Nat, w \in Seq(Cell), t \in Nat, r \in Reqs :
        Follow(w, s) /\ m = Mir(g, s, w, t, r)
  BY MirrorIs
<1>2. m.win = w /\ m.start = s /\ m.total = t /\ m.req = r /\ m.grid = g /\ End(m) = s + Len(w)
  BY <1>1 DEF Mir, End
<1> DEFINE a == Most(0, Len(w) - WindowCap)
           v == SubSeq(w, a + 1, Len(w))
<1>3. WindowCap \in Nat /\ Len(w) \in Nat
  BY MirrorConstants, LenProperties
<1>4. a \in 0..Len(w) /\ Len(w) \in a..Len(w)
  BY <1>3 DEF Most
<1>5. Evicted(m) = Mir(g, s + a, v, t, r)
  <2>1. Evicted(m) = [[m EXCEPT !.win = v] EXCEPT !.start = s + a]
    BY <1>2 DEF Evicted
  <2> HIDE DEF a, v
  <2>2. [m EXCEPT !.win = v] = Mir(g, s, v, t, r)
    BY <1>1 DEF Mir
  <2>3. [Mir(g, s, v, t, r) EXCEPT !.start = s + a] = Mir(g, s + a, v, t, r)
    BY DEF Mir
  <2> QED BY <2>1, <2>2, <2>3
<1>6. LET e == Mir(g, s + a, v, t, r)
      IN  /\ e \in Mirrors /\ End(e) = s + Len(w)
          /\ e.grid = g /\ e.total = t /\ e.req = r
  <2> HIDE DEF a
  <2> QED BY <1>1, <1>4, CutMirror
<1> HIDE DEF a, v
<1> QED BY <1>2, <1>5, <1>6

LEMMA TrimmedMirror ==
  ASSUME NEW m \in Mirrors, NEW at \in Int
  PROVE  /\ Trimmed(m, at) \in Mirrors /\ End(Trimmed(m, at)) <= End(m)
         /\ Trimmed(m, at).total = m.total /\ Trimmed(m, at).req = m.req
         /\ Trimmed(m, at).grid = m.grid
<1>1. PICK g \in Nat, s \in Nat, w \in Seq(Cell), t \in Nat, r \in Reqs :
        Follow(w, s) /\ m = Mir(g, s, w, t, r)
  BY MirrorIs
<1>2. m.win = w /\ m.start = s /\ m.total = t /\ m.req = r /\ m.grid = g /\ End(m) = s + Len(w)
  BY <1>1 DEF Mir, End
<1> DEFINE half == WindowCap \div 2
           hi == Least(Most(at - half, s) + WindowCap, s + Len(w))
           lo == Most(hi - WindowCap, s)
           a == lo - s
           b == hi - s
           v == SubSeq(w, a + 1, b)
<1>3. WindowCap \in Nat /\ Len(w) \in Nat
  BY MirrorConstants, LenProperties
<1>4. half \in Int
  BY <1>3
<1>5. hi \in Int /\ s <= hi /\ hi <= s + Len(w)
  <2> HIDE DEF half
  <2> QED BY <1>3, <1>4 DEF Least, Most
<1>6. lo \in Int /\ s <= lo /\ lo <= hi
  <2> HIDE DEF hi
  <2> QED BY <1>3, <1>5 DEF Most
<1>7. a \in 0..Len(w) /\ b \in a..Len(w) /\ s + a = lo /\ s + b = hi
  <2> HIDE DEF lo, hi
  <2> QED BY <1>3, <1>5, <1>6
<1>8. Trimmed(m, at) = Mir(g, lo, v, t, r)
  <2>1. Trimmed(m, at) = [[m EXCEPT !.win = v] EXCEPT !.start = lo]
    BY <1>2 DEF Trimmed
  <2> HIDE DEF v, lo
  <2>2. [m EXCEPT !.win = v] = Mir(g, s, v, t, r)
    BY <1>1 DEF Mir
  <2>3. [Mir(g, s, v, t, r) EXCEPT !.start = lo] = Mir(g, lo, v, t, r)
    BY DEF Mir
  <2> QED BY <2>1, <2>2, <2>3
<1>9. LET e == Mir(g, s + a, v, t, r)
      IN  /\ e \in Mirrors /\ End(e) = s + b
          /\ e.grid = g /\ e.total = t /\ e.req = r
  <2> HIDE DEF a, b
  <2> QED BY <1>1, <1>7, CutMirror
<1> HIDE DEF a, b, v, lo, hi
<1> QED BY <1>2, <1>5, <1>7, <1>8, <1>9

\* Joining the rows that follow a window to it.
LEMMA JoinedRows ==
  ASSUME NEW s \in Nat, NEW w \in Seq(Cell), NEW v \in Seq(Cell), Follow(w, s), Follow(v, s + Len(w))
  PROVE  w \o v \in Seq(Cell) /\ Len(w \o v) = Len(w) + Len(v) /\ Follow(w \o v, s)
<1> DEFINE j == w \o v
<1>1. /\ j \in Seq(Cell) /\ Len(j) = Len(w) + Len(v) /\ Len(w) \in Nat /\ Len(v) \in Nat
      /\ \A n \in 1..(Len(w) + Len(v)) : j[n] = IF n <= Len(w) THEN w[n] ELSE v[n - Len(w)]
  BY ConcatProperties, LenProperties
<1> HIDE DEF j
<1>2. ASSUME NEW n \in 1..Len(j) PROVE j[n][2] = s + n - 1
  <2>1. CASE n <= Len(w)
    BY <1>1, <2>1 DEF Follow
  <2>2. CASE ~(n <= Len(w))
    <3>1. n - Len(w) \in 1..Len(v) /\ j[n] = v[n - Len(w)]
      BY <1>1, <2>2
    <3>2. v[n - Len(w)][2] = (s + Len(w)) + (n - Len(w)) - 1
      BY <3>1 DEF Follow
    <3> QED BY <1>1, <3>1, <3>2
  <2> QED BY <2>1, <2>2
<1> QED BY <1>1, <1>2 DEF Follow, j

\* What applyScrollbackAppend makes of a batch.
LEMMA AppendedMirror ==
  ASSUME NEW m \in Mirrors, NEW f \in Tails
  PROVE  /\ Appended(m, f) \in Mirrors
         /\ Appended(m, f).total = Most(m.total, Most(f.total, Beyond(f)))
         /\ Appended(m, f).req = m.req
         /\ End(Appended(m, f)) = IF m.win = <<>> \/ f.from = End(m) THEN Beyond(f) ELSE End(m)
<1>1. PICK g \in Nat, s \in Nat, w \in Seq(Cell), t \in Nat, r \in Reqs :
        Follow(w, s) /\ m = Mir(g, s, w, t, r)
  BY MirrorIs
<1>2. m.win = w /\ m.start = s /\ m.total = t /\ m.req = r /\ m.grid = g /\ End(m) = s + Len(w)
  BY <1>1 DEF Mir, End
<1>3. /\ f.from \in Nat /\ f.rows \in Seq(Cell) /\ f.total \in Nat /\ Follow(f.rows, f.from)
      /\ Len(f.rows) \in Nat /\ Len(w) \in Nat
  BY LenProperties DEF Tails
<1> DEFINE T == Most(t, Most(f.total, f.from + Len(f.rows)))
           t1 == Mir(g, s, w, T, r)
           c == IF w = <<>> THEN [t1 EXCEPT !.start = f.from, !.win = f.rows]
                ELSE IF f.from = s + Len(w) THEN [t1 EXCEPT !.win = w \o f.rows]
                ELSE t1
<1>4. T \in Nat
  BY <1>3 DEF Most
<1>5. Appended(m, f) = Evicted(c)
  <2> DEFINE t0 == [m EXCEPT !.total = Most(@, Most(f.total, f.from + Len(f.rows)))]
  <2>1. t0 = [m EXCEPT !.total = T]
    BY <1>2
  <2>2. [m EXCEPT !.total = T] = t1
    <3> HIDE DEF T
    <3> QED BY <1>1 DEF Mir
  <2>3. t0 = t1 /\ t1.win = w
    BY <2>1, <2>2 DEF Mir
  <2>4. Appended(m, f) =
          Evicted(IF m.win = <<>> THEN [t0 EXCEPT !.start = f.from, !.win = f.rows]
                  ELSE IF f.from = End(m) THEN [t0 EXCEPT !.win = @ \o f.rows]
                  ELSE t0)
    BY DEF Appended
  <2> HIDE DEF t0, t1
  <2>5. [t1 EXCEPT !.win = @ \o f.rows] = [t1 EXCEPT !.win = w \o f.rows]
    BY <2>3
  <2> QED BY <1>2, <2>3, <2>4, <2>5
<1>6. /\ c \in Mirrors /\ c.total = T /\ c.req = r
      /\ End(c) = IF w = <<>> \/ f.from = s + Len(w) THEN Beyond(f) ELSE s + Len(w)
  <2>1. CASE w = <<>>
    <3>1. c = Mir(g, f.from, f.rows, T, r)
      <4> HIDE DEF T
      <4> QED BY <2>1 DEF Mir
    <3> HIDE DEF T, c
    <3> QED BY <1>3, <1>4, <2>1, <3>1 DEF Mirrors, Mir, End, Beyond
  <2>2. CASE w # <<>> /\ f.from = s + Len(w)
    <3> DEFINE j == w \o f.rows
    <3>1. j \in Seq(Cell) /\ Len(j) = Len(w) + Len(f.rows) /\ Follow(j, s)
      BY <1>1, <1>3, <2>2, JoinedRows
    <3>2. c = Mir(g, s, j, T, r)
      <4> HIDE DEF T, j
      <4>1. c = [t1 EXCEPT !.win = j]
        BY <2>2 DEF j
      <4> HIDE DEF c
      <4> QED BY <4>1 DEF Mir
    <3> HIDE DEF T, c, j
    <3>3. c \in Mirrors /\ c.total = T /\ c.req = r /\ End(c) = s + Len(j)
      BY <1>4, <3>1, <3>2 DEF Mirrors, Mir, End
    <3>4. s + Len(j) = f.from + Len(f.rows)
      <4>1. PICK a \in Nat, d \in Nat : Len(w) = a /\ Len(f.rows) = d
        BY <1>3
      <4>2. f.from = s + a /\ Len(j) = a + d
        BY <2>2, <3>1, <4>1
      <4> QED BY <4>1, <4>2
    <3> QED BY <2>2, <3>3, <3>4 DEF Beyond
  <2>3. CASE w # <<>> /\ f.from # s + Len(w)
    <3>1. c = t1
      BY <2>3
    <3> HIDE DEF T, c
    <3> QED BY <1>1, <1>3, <1>4, <2>3, <3>1 DEF Mirrors, Mir, End
  <2> QED BY <2>1, <2>2, <2>3
<1> HIDE DEF c
<1>7. /\ Evicted(c) \in Mirrors /\ End(Evicted(c)) = End(c)
      /\ Evicted(c).total = c.total /\ Evicted(c).req = c.req
  BY <1>6, EvictedMirror
<1> QED BY <1>2, <1>5, <1>6, <1>7 DEF Beyond

\* Laying a range over a window it touches.
Covers(s, w, b, v, i) ==
  IF b <= i /\ i < b + Len(v) THEN v[i - b + 1] ELSE w[i - s + 1]
Laid(s, w, b, v, lo, hi) == [k \in 1..(hi - lo) |-> Covers(s, w, b, v, lo + k - 1)]

LEMMA MergedRows ==
  ASSUME NEW s \in Nat, NEW w \in Seq(Cell), Follow(w, s),
         NEW b \in Nat, NEW v \in Seq(Cell), Follow(v, b),
         b + Len(v) >= s, b <= s + Len(w), NEW lo, NEW hi,
         lo = Least(s, b), hi = Most(s + Len(w), b + Len(v))
  PROVE  /\ Laid(s, w, b, v, lo, hi) \in Seq(Cell) /\ Len(Laid(s, w, b, v, lo, hi)) = hi - lo
         /\ Follow(Laid(s, w, b, v, lo, hi), lo) /\ lo \in Nat /\ hi \in Nat /\ lo <= hi
<1> DEFINE p == Laid(s, w, b, v, lo, hi)
<1>1. Len(w) \in Nat /\ Len(v) \in Nat
  BY LenProperties
<1>2. lo \in Nat /\ hi \in Nat /\ lo <= hi /\ hi - lo \in Nat
  BY <1>1 DEF Least, Most
<1>3. DOMAIN p = 1..(hi - lo) /\ p = [k \in 1..(hi - lo) |-> p[k]]
  BY DEF Laid
<1>4. ASSUME NEW k \in 1..(hi - lo) PROVE p[k] \in Cell /\ p[k][2] = lo + k - 1
  <2>1. PICK i \in Int : i = lo + k - 1
    BY <1>2
  <2>2. p[k] = IF b <= i /\ i < b + Len(v) THEN v[i - b + 1] ELSE w[i - s + 1]
    <3>1. p[k] = Covers(s, w, b, v, i)
      BY <2>1 DEF Laid
    <3> HIDE DEF p
    <3> QED BY <3>1 DEF Covers
  <2> HIDE DEF p
  <2>3. lo <= i /\ i < hi
    <3>1. lo \in Int /\ hi \in Int /\ k \in Int /\ 1 <= k /\ k <= hi - lo
      BY <1>2
    <3> QED BY <2>1, <3>1
  <2>4. CASE b <= i /\ i < b + Len(v)
    <3>1. PICK n \in Int : n = i - b + 1
      OBVIOUS
    <3>2. n \in 1..Len(v) /\ b + n - 1 = i
      BY <1>1, <2>4, <3>1
    <3>3. v[n] \in Cell
      BY <3>2, ElementOfSeq
    <3>4. v[n][2] = b + n - 1
      BY <3>2 DEF Follow
    <3> QED BY <2>1, <2>2, <2>4, <3>1, <3>2, <3>3, <3>4
  <2>5. CASE ~(b <= i /\ i < b + Len(v))
    <3>1. PICK n \in Int : n = i - s + 1
      OBVIOUS
    <3>2. n \in 1..Len(w) /\ s + n - 1 = i
      BY <1>1, <2>3, <2>5, <3>1 DEF Least, Most
    <3>3. w[n] \in Cell
      BY <3>2, ElementOfSeq
    <3>4. w[n][2] = s + n - 1
      BY <3>2 DEF Follow
    <3> QED BY <2>1, <2>2, <2>5, <3>1, <3>2, <3>3, <3>4
  <2> QED BY <2>4, <2>5
<1> HIDE DEF p
<1>5. p \in [1..(hi - lo) -> Cell]
  BY <1>3, <1>4
<1>6. p \in Seq(Cell) /\ Len(p) = hi - lo
  <2>1. PICK n \in Nat : n = hi - lo
    BY <1>2
  <2>2. p \in [1..n -> Cell]
    BY <1>5, <2>1
  <2>3. p \in Seq(Cell) /\ Len(p) = n
    BY <2>2, SeqDef, LenProperties
  <2> QED BY <2>1, <2>3
<1> QED BY <1>2, <1>4, <1>6 DEF Follow, p

Joined(g, s, w, t, b, v) ==
  IF w = <<>> \/ b + Len(v) < s \/ b > s + Len(w)
  THEN Mir(g, b, v, t, NoReq)
  ELSE LET lo == Least(s, b)
       IN  Mir(g, lo, Laid(s, w, b, v, lo, Most(s + Len(w), b + Len(v))), t, NoReq)

LEMMA JoinedMirror ==
  ASSUME NEW g \in Nat, NEW s \in Nat, NEW w \in Seq(Cell), NEW t \in Nat, Follow(w, s),
         NEW b \in Nat, NEW v \in Seq(Cell), Follow(v, b)
  PROVE  LET q == Joined(g, s, w, t, b, v)
         IN  /\ q \in Mirrors /\ q.total = t /\ q.req = NoReq
             /\ End(q) <= Most(s + Len(w), b + Len(v))
<1> DEFINE q == Joined(g, s, w, t, b, v)
<1>1. Len(v) \in Nat /\ Len(w) \in Nat
  BY LenProperties
<1>2. NoReq \in Reqs
  BY DEF NoReq, Reqs
<1>3. CASE w = <<>> \/ b + Len(v) < s \/ b > s + Len(w)
  <2>1. q = Mir(g, b, v, t, NoReq)
    BY <1>3 DEF Joined
  <2> HIDE DEF q
  <2>2. q \in Mirrors /\ q.total = t /\ q.req = NoReq /\ End(q) = b + Len(v)
    BY <1>2, <2>1 DEF Mirrors, Mir, End
  <2>3. b + Len(v) <= Most(s + Len(w), b + Len(v))
    BY <1>1 DEF Most
  <2> HIDE DEF q
  <2> QED BY <2>2, <2>3 DEF q
<1>4. CASE ~(w = <<>> \/ b + Len(v) < s \/ b > s + Len(w))
  <2> DEFINE lo == Least(s, b)
             hi == Most(s + Len(w), b + Len(v))
             p == Laid(s, w, b, v, lo, hi)
  <2>1. b + Len(v) >= s /\ b <= s + Len(w)
    BY <1>1, <1>4
  <2>2. p \in Seq(Cell) /\ Len(p) = hi - lo /\ Follow(p, lo) /\ lo \in Nat /\ hi \in Nat
    BY <2>1, MergedRows
  <2>3. q = Mir(g, lo, p, t, NoReq)
    BY <1>4 DEF Joined
  <2> HIDE DEF q, p, lo, hi
  <2>4. q \in Mirrors /\ q.total = t /\ q.req = NoReq /\ End(q) = lo + Len(p)
    BY <1>2, <2>2, <2>3 DEF Mirrors, Mir, End
  <2>5. End(q) = hi
    BY <2>2, <2>4
  <2>6. End(q) <= Most(s + Len(w), b + Len(v))
    BY <2>2, <2>5 DEF hi
  <2> QED BY <2>4, <2>6 DEF q
<1> HIDE DEF q
<1> QED BY <1>3, <1>4 DEF q

\* What applyScrollbackRange makes of an answer.
LEMMA RangedIs ==
  ASSUME NEW g, NEW s, NEW w, NEW t, NEW r, NEW f
  PROVE  LET q == Joined(g, s, w, t, f.from, f.rows)
             c == Trimmed(q, Most(view, 0))
         IN  Ranged(Mir(g, s, w, t, r), f) = [c EXCEPT !.total = Most(@, End(c))]
<1> DEFINE m == Mir(g, s, w, t, r)
           to == f.from + Len(f.rows)
           lo == Least(m.start, f.from)
           hi == Most(End(m), to)
           apart == m.win = <<>> \/ to < m.start \/ f.from > End(m)
           At(i) == IF f.from <= i /\ i < to THEN f.rows[i - f.from + 1]
                    ELSE m.win[i - m.start + 1]
           p == [k \in 1..(hi - lo) |-> At(lo + k - 1)]
           u == IF apart THEN [m EXCEPT !.start = f.from, !.win = f.rows]
                ELSE [m EXCEPT !.start = lo, !.win = p]
           q == [u EXCEPT !.req = NoReq]
           c == Trimmed(q, Most(view, 0))
<1>1. Ranged(m, f) = [c EXCEPT !.total = Most(@, End(c))]
  <2> HIDE DEF m
  <2> QED BY DEF Ranged
<1>2. m.start = s /\ m.win = w /\ End(m) = s + Len(w)
  BY DEF Mir, End
<1>3. p = Laid(s, w, f.from, f.rows, lo, hi)
  <2>1. \A i : At(i) = Covers(s, w, f.from, f.rows, i)
    <3> HIDE DEF m
    <3> QED BY <1>2 DEF Covers
  <2> HIDE DEF lo, hi, m, At
  <2> QED BY <2>1 DEF Laid
<1>4. q = Joined(g, s, w, t, f.from, f.rows)
  <2>1. CASE apart
    <3>1. u = [m EXCEPT !.start = f.from, !.win = f.rows]
      BY <2>1
    <3> HIDE DEF u
    <3>2. u = Mir(g, f.from, f.rows, t, r)
      BY <3>1 DEF Mir
    <3>3. q = Mir(g, f.from, f.rows, t, NoReq)
      BY <3>2 DEF Mir
    <3> HIDE DEF q, m
    <3> QED BY <1>2, <2>1, <3>3 DEF Joined
  <2>2. CASE ~apart
    <3>1. u = [m EXCEPT !.start = lo, !.win = p]
      BY <2>2
    <3> HIDE DEF u, p, lo, hi
    <3>2. u = Mir(g, lo, p, t, r)
      BY <3>1 DEF Mir
    <3>3. q = Mir(g, lo, p, t, NoReq)
      BY <3>2 DEF Mir
    <3> HIDE DEF q, m
    <3>4. lo = Least(s, f.from) /\ hi = Most(s + Len(w), f.from + Len(f.rows))
      BY <1>2 DEF lo, hi
    <3> QED BY <1>2, <1>3, <2>2, <3>3, <3>4 DEF Joined
  <2> QED BY <2>1, <2>2
<1> HIDE DEF q
<1> QED BY <1>1, <1>4

LEMMA RangedMirror ==
  ASSUME NEW m \in Mirrors, NEW f \in Spans, view \in Int
  PROVE  /\ Ranged(m, f) \in Mirrors /\ Ranged(m, f).req = NoReq
         /\ Ranged(m, f).total = Most(m.total, End(Ranged(m, f)))
         /\ End(Ranged(m, f)) <= Most(End(m), Beyond(f))
<1>1. PICK g \in Nat, s \in Nat, w \in Seq(Cell), t \in Nat, r \in Reqs :
        Follow(w, s) /\ m = Mir(g, s, w, t, r)
  BY MirrorIs
<1>2. m.total = t /\ End(m) = s + Len(w)
  BY <1>1 DEF Mir, End
<1>3. PICK b \in Nat, v \in Seq(Cell) : f.from = b /\ f.rows = v /\ Follow(v, b)
  BY DEF Spans
<1>4. Len(v) \in Nat /\ Len(w) \in Nat /\ Beyond(f) = b + Len(v)
  BY <1>3, LenProperties DEF Beyond
<1> DEFINE q == Joined(g, s, w, t, b, v)
           c == Trimmed(q, Most(view, 0))
<1>5. Ranged(m, f) = [c EXCEPT !.total = Most(@, End(c))]
  BY <1>1, <1>3, RangedIs
<1>6. Most(view, 0) \in Int
  BY DEF Most
<1>7. q \in Mirrors /\ q.total = t /\ q.req = NoReq /\ End(q) <= Most(s + Len(w), b + Len(v))
  BY <1>1, <1>3, JoinedMirror
<1> HIDE DEF q
<1>8. c \in Mirrors /\ End(c) <= End(q) /\ c.total = t /\ c.req = NoReq
  BY <1>6, <1>7, TrimmedMirror
<1> HIDE DEF c
<1>9. PICK g2 \in Nat, s2 \in Nat, w2 \in Seq(Cell), t2 \in Nat, r2 \in Reqs :
        Follow(w2, s2) /\ c = Mir(g2, s2, w2, t2, r2)
  BY <1>8, MirrorIs
<1>10. c.total = t2 /\ t2 = t /\ r2 = NoReq /\ End(c) = s2 + Len(w2) /\ Len(w2) \in Nat
  BY <1>8, <1>9, LenProperties DEF Mir, End
<1> DEFINE T == Most(t2, s2 + Len(w2))
           e == Mir(g2, s2, w2, T, r2)
<1>11. T \in Nat
  BY <1>10 DEF Most
<1>12. Ranged(m, f) = e
  <2>1. Ranged(m, f) = [c EXCEPT !.total = T]
    BY <1>5, <1>10
  <2> HIDE DEF T
  <2> QED BY <1>9, <2>1 DEF Mir
<1>13. e \in Mirrors /\ e.total = T /\ e.req = r2 /\ End(e) = s2 + Len(w2)
  <2> HIDE DEF T
  <2> QED BY <1>9, <1>11 DEF Mirrors, Mir, End
<1> HIDE DEF e
<1>14. s2 + Len(w2) <= Most(s + Len(w), b + Len(v))
  <2>1. End(q) \in Nat
    BY <1>7, MirrorFields
  <2>2. Most(s + Len(w), b + Len(v)) \in Nat
    BY <1>4 DEF Most
  <2>3. End(c) \in Nat
    BY <1>10
  <2> QED BY <1>7, <1>8, <1>10, <2>1, <2>2, <2>3
<1>15. T = Most(m.total, End(e))
  BY <1>2, <1>10, <1>13
<1>16. End(e) <= Most(End(m), Beyond(f))
  BY <1>2, <1>4, <1>13, <1>14
<1> QED BY <1>10, <1>12, <1>13, <1>15, <1>16

-----------------------------------------------------------------------------
(* The frames in flight.                                                   *)

LEMMA FrameOf ==
  ASSUME NEW f \in Frames
  PROVE  /\ f.t = "append" => f \in Tails
         /\ f.t = "range" => f \in Spans
BY DEF Frames, Shots, Wipes, Tails, Spans

LEMMA FrameLength ==
  ASSUME NEW f \in Frames, f.t \in {"append", "range"}
  PROVE  f.from \in Nat /\ Len(f.rows) \in Nat /\ Beyond(f) = f.from + Len(f.rows)
BY FrameKinds, LenProperties DEF Beyond

LEMMA FlyingTyped == MirrorTyped => \A f \in InFlight : f \in Frames
<1> SUFFICES ASSUME MirrorTyped PROVE InFlight \subseteq Frames
  OBVIOUS
<1>1. queue \in Seq(Frames) /\ chan \in [Types -> Seq(Frames)]
  BY DEF MirrorTyped
<1>2. ASSUME NEW s \in Seq(Frames) PROVE Range(s) \subseteq Frames
  BY RangeOfSeq
<1> QED BY <1>1, <1>2 DEF InFlight

\* Frames that left both the queue and the channels alone.
LEMMA SameFlight ==
  ASSUME queue' = queue, chan' = chan
  PROVE  InFlight' = InFlight
BY DEF InFlight

\* A frame put in the connection's queue.
LEMMA PutInQueue ==
  ASSUME MirrorTyped, NEW f \in Frames, queue' = Append(queue, f), chan' = chan
  PROVE  /\ queue' \in Seq(Frames) /\ InFlight' = InFlight \cup {f}
         /\ Len(queue) \in Nat /\ Len(queue') = Len(queue) + 1 /\ queue'[Len(queue) + 1] = f
         /\ \A n \in 1..Len(queue) : queue'[n] = queue[n]
<1>1. queue \in Seq(Frames)
  BY DEF MirrorTyped
<1>2. Range(Append(queue, f)) = Range(queue) \cup {f}
  BY <1>1, AppendRange
<1>3. InFlight' = InFlight \cup {f}
  BY <1>2 DEF InFlight
<1>4. /\ queue' \in Seq(Frames) /\ Len(queue) \in Nat /\ Len(queue') = Len(queue) + 1
      /\ queue'[Len(queue) + 1] = f /\ \A n \in 1..Len(queue) : queue'[n] = queue[n]
  BY <1>1, AppendProperties, LenProperties
<1> QED BY <1>3, <1>4

\* The dispatcher hands a frame on.
LEMMA HandedOn ==
  ASSUME MirrorTyped, Dispatch
  PROVE  /\ queue' \in Seq(Frames) /\ chan' \in [Types -> Seq(Frames)]
         /\ InFlight' = InFlight
         /\ \E f \in Frames : \E t \in Types :
              /\ t = f.t /\ f = queue[1] /\ Len(queue) \in Nat \ {0} /\ Len(queue') = Len(queue) - 1
              /\ \A n \in 1..Len(queue') : queue'[n] = queue[n + 1]
              /\ \A u \in Types : u # t => chan'[u] = chan[u]
              /\ chan'[t] = Append(chan[t], f)
<1>1. queue \in Seq(Frames) /\ queue # <<>> /\ chan \in [Types -> Seq(Frames)]
  BY DEF MirrorTyped, Dispatch
<1>2. PICK f \in Frames : f = Head(queue)
  BY <1>1, TailRange
<1>3. PICK t \in Types : t = f.t
  BY FrameKinds
<1>4. queue' = Tail(queue) /\ chan' = [chan EXCEPT ![t] = Append(@, f)]
  BY <1>2, <1>3 DEF Dispatch
<1>5. /\ queue' \in Seq(Frames) /\ f = queue[1] /\ Len(queue) \in Nat \ {0}
      /\ Len(queue') = Len(queue) - 1 /\ \A n \in 1..Len(queue') : queue'[n] = queue[n + 1]
  BY <1>1, <1>2, <1>4, HeadTailProperties, LenProperties, EmptySeq
<1>6. Range(queue) = {f} \cup Range(queue')
  BY <1>1, <1>2, <1>4, TailRange
<1>7. /\ chan'[t] = Append(chan[t], f) /\ \A u \in Types : u # t => chan'[u] = chan[u]
      /\ chan[t] \in Seq(Frames)
  BY <1>1, <1>4
<1>8. chan'[t] \in Seq(Frames) /\ Range(chan'[t]) = Range(chan[t]) \cup {f}
  BY <1>7, AppendRange, AppendProperties
<1>9. chan' \in [Types -> Seq(Frames)]
  <2>1. \A u \in Types : chan'[u] \in Seq(Frames)
    BY <1>1, <1>7, <1>8
  <2>2. chan' = [u \in Types |-> chan'[u]]
    BY <1>1, <1>4
  <2> QED BY <2>1, <2>2
<1>10. UNION {Range(chan'[u]) : u \in Types} = (UNION {Range(chan[u]) : u \in Types}) \cup {f}
  <2> DEFINE R(u) == Range(chan[u])
             R2(u) == Range(chan'[u])
  <2>1. R2(t) = R(t) \cup {f} /\ \A u \in Types : u # t => R2(u) = R(u)
    BY <1>7, <1>8
  <2> HIDE DEF R, R2
  <2>2. UNION {R2(u) : u \in Types} = (UNION {R(u) : u \in Types}) \cup {f}
    BY <2>1
  <2> QED BY <2>2 DEF R, R2
<1>11. InFlight' = InFlight
  BY <1>6, <1>10 DEF InFlight
<1> QED BY <1>3, <1>5, <1>7, <1>9, <1>11

\* The router takes a frame.
LEMMA TakenOff ==
  ASSUME MirrorTyped, NEW t \in Types, chan[t] # <<>>, queue' = queue,
         chan' = [chan EXCEPT ![t] = Tail(@)]
  PROVE  /\ chan' \in [Types -> Seq(Frames)]
         /\ \E f \in Frames :
              /\ f = Head(chan[t]) /\ f.t = t /\ InFlight = InFlight' \cup {f}
              /\ Len(chan[t]) \in Nat \ {0} /\ f = chan[t][1] /\ Len(chan'[t]) = Len(chan[t]) - 1
              /\ \A n \in 1..Len(chan'[t]) : chan'[t][n] = chan[t][n + 1]
              /\ \A u \in Types : u # t => chan'[u] = chan[u]
<1>1. chan \in [Types -> Seq(Frames)] /\ chan[t] \in Seq(Frames)
  BY DEF MirrorTyped
<1>2. PICK f \in Frames : f = Head(chan[t])
  BY <1>1, TailRange
<1>3. chan'[t] = Tail(chan[t]) /\ \A u \in Types : u # t => chan'[u] = chan[u]
  BY <1>1
<1>4. /\ chan'[t] \in Seq(Frames) /\ f = chan[t][1] /\ Len(chan[t]) \in Nat \ {0}
      /\ Len(chan'[t]) = Len(chan[t]) - 1
      /\ \A n \in 1..Len(chan'[t]) : chan'[t][n] = chan[t][n + 1]
  BY <1>1, <1>2, <1>3, HeadTailProperties, LenProperties, EmptySeq
<1>5. Range(chan[t]) = {f} \cup Range(chan'[t])
  BY <1>1, <1>2, <1>3, TailRange
<1>6. f.t = t
  <2>1. 1 \in 1..Len(chan[t])
    BY <1>4
  <2> QED BY <1>4, <2>1 DEF MirrorTyped
<1>7. chan' \in [Types -> Seq(Frames)]
  <2>1. \A u \in Types : chan'[u] \in Seq(Frames)
    BY <1>1, <1>3, <1>4
  <2>2. chan' = [u \in Types |-> chan'[u]]
    BY <1>1
  <2> QED BY <2>1, <2>2
<1>8. UNION {Range(chan[u]) : u \in Types} = (UNION {Range(chan'[u]) : u \in Types}) \cup {f}
  <2> DEFINE R(u) == Range(chan[u])
             R2(u) == Range(chan'[u])
  <2>1. R(t) = R2(t) \cup {f} /\ \A u \in Types : u # t => R2(u) = R(u)
    BY <1>3, <1>5
  <2> HIDE DEF R, R2
  <2>2. UNION {R(u) : u \in Types} = (UNION {R2(u) : u \in Types}) \cup {f}
    BY <2>1
  <2> QED BY <2>2 DEF R, R2
<1>9. InFlight = InFlight' \cup {f}
  BY <1>8 DEF InFlight
<1> QED BY <1>2, <1>3, <1>4, <1>6, <1>7, <1>9

-----------------------------------------------------------------------------
(* Every step keeps the invariant.                                         *)

LEMMA NothingFlies ==
  ASSUME queue = <<>>, \A t \in Types : chan[t] = <<>>
  PROVE  InFlight = {}
<1>1. Range(<<>>) = {}
  BY DEF Range
<1> QED BY <1>1 DEF InFlight

LEMMA EmptyChannels ==
  LET c == [t \in Types |-> <<>>]
  IN  /\ c \in [Types -> Seq(Frames)]
      /\ \A t \in Types : c[t] = <<>> /\ \A n \in 1..Len(c[t]) : c[t][n].t = t
<1>1. <<>> \in Seq(Frames) /\ Len(<<>>) = 0
  BY EmptySeq
<1> QED BY <1>1

LEMMA MirrorInit == MInit => MirrorInv
<1> SUFFICES ASSUME MInit PROVE MirrorInv
  OBVIOUS
<1>1. mirror = Mir(0, 0, <<>>, 0, NoReq) /\ queue = <<>> /\ chan = [t \in Types |-> <<>>]
  BY DEF MInit, Mir
<1>2. <<>> \in Seq(Cell) /\ Follow(<<>>, 0) /\ NoReq \in Reqs /\ Len(<<>>) = 0
  BY DEF Follow, NoReq, Reqs
<1>3. mirror \in Mirrors /\ mirror.total = 0 /\ mirror.req = NoReq /\ End(mirror) = 0
  BY <1>1, <1>2 DEF Mirrors, Mir, End
<1>4. InFlight = {}
  BY <1>1, EmptyChannels, NothingFlies
<1>5. MirrorTyped
  <2>1. queue \in Seq(Frames)
    BY <1>1, EmptySeq
  <2>2. chan \in [Types -> Seq(Frames)] /\ \A t \in Types : \A n \in 1..Len(chan[t]) : chan[t][n].t = t
    BY <1>1, EmptyChannels
  <2> HIDE DEF MirrorTyped
  <2>3. /\ screen \in Nat /\ rows \in Nat /\ clears \in Nat /\ flagged \in Nat
        /\ base \in Nat /\ shipped \in Nat /\ loop \in {"idle", "cells", "clear", "append"}
        /\ token \in BOOLEAN /\ clearing \in BOOLEAN /\ asked \subseteq Reqs
        /\ scrolls \in Nat /\ redials \in Nat
    BY DEF MInit
  <2>4. view \in Int /\ view >= -1
    <3>1. view = -1
      BY DEF MInit
    <3> QED BY <3>1
  <2> QED BY <1>3, <2>1, <2>2, <2>3, <2>4 DEF MirrorTyped
<1>6. Intact
  BY <1>3, <1>4 DEF MInit, Intact
<1>7. FetchIsOut
  BY <1>3 DEF FetchIsOut, NoReq
<1>8. Lined
  <2>1. chan["append"] = <<>> /\ queue = <<>> /\ Len(<<>>) = 0
    BY <1>1, EmptyChannels, EmptySeq DEF Types
  <2> QED BY <2>1 DEF Lined
<1>9. Chained
  BY <1>3, <1>4, <1>8 DEF MInit, Chained
<1> QED BY <1>5, <1>6, <1>7, <1>9 DEF MirrorInv

\* Frames, mirror and view left alone.
LEMMA SameChain ==
  ASSUME UNCHANGED <<queue, chan, asked, mirror, view, shipped>>, Chained
  PROVE  Chained'
BY DEF Chained, Lined, InFlight, InOrder, Beyond, End

LEMMA SameFetch ==
  ASSUME UNCHANGED <<queue, chan, asked, mirror>>, FetchIsOut
  PROVE  FetchIsOut'
BY DEF FetchIsOut, InFlight

LEMMA OutputKeeps == ASSUME MirrorInv, NEW k \in 0..MaxRows, Output(k) PROVE MirrorInv'
<1>1. /\ MirrorTyped /\ k \in Nat /\ MaxScreens \in Nat
      /\ rows' = rows + k /\ token' = TRUE
      /\ UNCHANGED <<clears, flagged, loop, base, shipped, clearing, queue, chan, asked,
                     mirror, view, scrolls, redials>>
  BY MirrorConstants DEF MirrorInv, Output, client
<1>2. MirrorTyped'
  <2>1. PICK s \in screen..Least(screen + 1, MaxScreens) : screen' = s
    BY DEF Output
  <2>2. screen' \in Nat
    BY <1>1, <2>1 DEF MirrorTyped, Least
  <2> QED BY <1>1, <2>2 DEF MirrorTyped
<1>3. Intact => Intact'
  <2> SUFFICES ASSUME Intact PROVE Intact'
    OBVIOUS
  <2>1. rows \in Nat /\ rows' \in Nat /\ rows <= rows' /\ shipped \in Nat /\ (shipped = rows' => rows' = rows)
    BY <1>1 DEF MirrorTyped, Intact
  <2>2. InFlight' = InFlight
    BY <1>1, SameFlight
  <2>3. \A f \in InFlight : f.t \in {"append", "range"} => Beyond(f) \in Nat
    BY <1>1, FlyingTyped, FrameLength
  <2>4. \A f \in InFlight : f.t = "append" => f.total \in Nat
    BY <1>1, FlyingTyped, FrameKinds
  <2>5. \A r \in asked : r[1] \in Nat
    BY <1>1 DEF MirrorTyped, Reqs
  <2>6. mirror.total \in Nat
    BY <1>1, MirrorFields DEF MirrorTyped
  <2>7. \A f \in InFlight : /\ f.t # "cleared"
                            /\ f.t \in {"append", "range"} => Beyond(f) <= rows'
                            /\ f.t = "append" => f.total <= rows'
    BY <2>1, <2>3, <2>4 DEF Intact
  <2>8. (\A r \in asked' : r[1] <= rows') /\ mirror.total <= rows'
    BY <1>1, <2>1, <2>5, <2>6 DEF Intact
  <2>9. shipped' <= rows' /\ (shipped' < rows' => token' \/ loop' # "idle")
    BY <1>1, <2>1 DEF Intact
  <2>10. shipped' = rows' =>
           mirror'.total >= rows' \/ \E f \in InFlight' : f.t = "append" /\ f.total >= rows'
    BY <1>1, <2>1, <2>2 DEF Intact
  <2>11. ~clearing' /\ flagged' = 0 /\ End(mirror') <= mirror'.total /\ (view' >= 0 => view' < mirror'.total)
    BY <1>1 DEF Intact
  <2> HIDE DEF Intact, InFlight
  <2> QED BY <1>1, <2>2, <2>7, <2>8, <2>9, <2>10, <2>11 DEF Intact, Beyond
<1> QED BY <1>1, <1>2, <1>3, SameFetch, SameChain DEF MirrorInv

LEMMA SameIntact ==
  ASSUME UNCHANGED <<rows, flagged, shipped, queue, chan, asked, mirror, view>>,
         Intact, ~clearing', shipped < rows => token' \/ loop' # "idle"
  PROVE  Intact'
BY DEF Intact, InFlight, Beyond, End

LEMMA ClearHistoryKeeps == ASSUME MirrorInv, ClearHistory PROVE MirrorInv'
<1>1. /\ MirrorTyped /\ rows' = 0 /\ clears' = clears + 1
      /\ UNCHANGED <<screen, flagged, loop, token, base, shipped, clearing, queue, chan, asked,
                     mirror, view, scrolls, redials>>
  BY DEF MirrorInv, ClearHistory, sub, client
<1>2. MirrorTyped' /\ clears' # 0
  BY <1>1 DEF MirrorTyped
<1> QED BY <1>2 DEF MirrorInv

LEMMA FlagClearKeeps == ASSUME MirrorInv, FlagClear PROVE MirrorInv'
<1>1. /\ MirrorTyped /\ flagged < clears /\ flagged' = clears /\ clearing' = TRUE /\ token' = TRUE
      /\ UNCHANGED <<screen, rows, clears, loop, base, shipped, queue, chan, asked,
                     mirror, view, scrolls, redials>>
  BY DEF MirrorInv, FlagClear, client
<1>2. MirrorTyped' /\ clears' # 0
  BY <1>1 DEF MirrorTyped
<1> QED BY <1>2 DEF MirrorInv

LEMMA WakesKeeps == ASSUME MirrorInv, Wakes PROVE MirrorInv'
<1>1. /\ MirrorTyped /\ loop' = "cells" /\ token' = FALSE
      /\ UNCHANGED <<screen, rows, clears, flagged, base, shipped, clearing, queue, chan, asked,
                     mirror, view, scrolls, redials>>
  BY DEF MirrorInv, Wakes, tab, client
<1>2. MirrorTyped'
  BY <1>1 DEF MirrorTyped
<1>3. Intact => Intact'
  <2>1. Intact => ~clearing
    BY DEF Intact
  <2> QED BY <1>1, <2>1, SameIntact
<1> QED BY <1>1, <1>2, <1>3, SameFetch, SameChain DEF MirrorInv

LEMMA ScrollKeeps == ASSUME MirrorInv, NEW i \in 0..MaxRows-1, Scroll(i) PROVE MirrorInv'
<1>1. /\ MirrorTyped /\ i \in Nat /\ i < mirror.total /\ view' = i /\ scrolls' = scrolls + 1
      /\ UNCHANGED <<screen, rows, clears, flagged, loop, token, base, shipped, clearing, queue,
                     chan, asked, mirror, redials>>
  BY MirrorConstants DEF MirrorInv, Scroll, tab, sub
<1>2. MirrorTyped' /\ scrolls' # 0
  BY <1>1 DEF MirrorTyped
<1>3. Intact => Intact'
  BY <1>1 DEF Intact, InFlight, Beyond, End
<1> QED BY <1>1, <1>2, <1>3, SameFetch DEF MirrorInv

\* What a frame put in the queue does to the order of the batches.
LEMMA LinedPut ==
  ASSUME MirrorTyped, Lined, NEW f \in Frames, queue' = Append(queue, f), chan' = chan,
         \A g \in InFlight : InOrder(g, f)
  PROVE  Lined'
<1>1. /\ Len(queue) \in Nat /\ Len(queue') = Len(queue) + 1 /\ queue'[Len(queue) + 1] = f
      /\ \A n \in 1..Len(queue) : queue'[n] = queue[n]
  BY PutInQueue
<1>2. \A n \in 1..Len(queue) : queue[n] \in InFlight
  BY <1>1 DEF MirrorTyped, InFlight, Range
<1>3. \A n \in 1..Len(chan["append"]) : chan["append"][n] \in InFlight
  <2>1. "append" \in Types /\ chan["append"] \in Seq(Frames)
    BY DEF MirrorTyped, Types
  <2>2. \A n \in 1..Len(chan["append"]) : chan["append"][n] \in Range(chan["append"])
    BY <2>1 DEF Range
  <2> QED BY <2>1, <2>2 DEF InFlight
<1>4. ASSUME NEW i \in 1..Len(chan["append"]), NEW j \in 1..Len(queue')
      PROVE  InOrder(chan["append"][i], queue'[j])
  <2>1. CASE j \in 1..Len(queue)
    BY <1>1, <2>1 DEF Lined
  <2>2. CASE j = Len(queue) + 1
    BY <1>1, <1>3, <2>2
  <2> QED BY <1>1, <2>1, <2>2
<1>5. ASSUME NEW i \in 1..Len(queue'), NEW j \in 1..Len(queue'), i < j
      PROVE  InOrder(queue'[i], queue'[j])
  <2>1. i \in 1..Len(queue)
    BY <1>1, <1>5
  <2>2. CASE j \in 1..Len(queue)
    BY <1>1, <1>5, <2>1, <2>2 DEF Lined
  <2>3. CASE j = Len(queue) + 1
    BY <1>1, <1>2, <2>1, <2>3
  <2> QED BY <1>1, <2>2, <2>3
<1>6. ASSUME NEW i \in 1..Len(chan'["append"]), NEW j \in 1..Len(chan'["append"]), i < j
      PROVE  InOrder(chan'["append"][i], chan'["append"][j])
  BY <1>6 DEF Lined
<1> HIDE DEF InOrder
<1> QED BY <1>4, <1>5, <1>6 DEF Lined

\* A frame that is no batch and no answer.
LEMMA PlainPut ==
  ASSUME MirrorInv, NEW f \in Frames, f.t \in {"full", "diff"}, queue' = Append(queue, f),
         UNCHANGED <<rows, flagged, shipped, clearing, chan, asked, mirror, view>>,
         shipped < rows => token' \/ loop' # "idle"
  PROVE  (Intact => Intact') /\ (FetchIsOut => FetchIsOut') /\ (Chained => Chained')
<1>1. InFlight' = InFlight \cup {f} /\ InFlight \subseteq InFlight'
  BY PutInQueue DEF MirrorInv
<1>2. f.t # "append" /\ f.t # "range" /\ f.t # "cleared"
  OBVIOUS
<1> HIDE DEF InFlight
<1>3. Intact => Intact'
  BY <1>1, <1>2 DEF Intact, Beyond, End
<1>4. FetchIsOut => FetchIsOut'
  BY <1>1 DEF FetchIsOut
<1>5. Chained => Chained'
  <2> SUFFICES ASSUME Chained PROVE Chained'
    OBVIOUS
  <2>1. Lined'
    BY <1>2, LinedPut DEF Chained, InOrder, MirrorInv
  <2> HIDE DEF Lined
  <2> QED BY <1>1, <1>2, <2>1 DEF Chained, Beyond, End
<1> QED BY <1>3, <1>4, <1>5

LEMMA SendCellsKeeps == ASSUME MirrorInv, SendCells PROVE MirrorInv'
<1>1. /\ MirrorTyped /\ loop' = "clear"
      /\ UNCHANGED <<screen, rows, clears, flagged, token, shipped, clearing, chan, asked,
                     mirror, view, scrolls, redials>>
  BY DEF MirrorInv, SendCells, tab, client
<1>2. CASE UNCHANGED <<queue, base>>
  <2>1. MirrorTyped'
    BY <1>1, <1>2 DEF MirrorTyped
  <2>2. Intact => Intact'
    <3>1. Intact => ~clearing
      BY DEF Intact
    <3> QED BY <1>1, <1>2, <3>1, SameIntact
  <2> QED BY <1>1, <1>2, <2>1, <2>2, SameFetch, SameChain DEF MirrorInv
<1>3. CASE ~UNCHANGED <<queue, base>>
  <2>1. PICK f : /\ f \in Frames /\ f.t \in {"full", "diff"}
                 /\ queue' = Append(queue, f) /\ base' = screen
    <3>1. /\ queue' = Append(queue, [t |-> IF base = 0 THEN "full" ELSE "diff", grid |-> screen])
          /\ base' = screen
      BY <1>3 DEF SendCells
    <3>2. PICK t \in {"full", "diff"} : t = IF base = 0 THEN "full" ELSE "diff"
      OBVIOUS
    <3>3. [t |-> t, grid |-> screen] \in Frames /\ [t |-> t, grid |-> screen].t = t
      BY <1>1, FramesMade DEF MirrorTyped
    <3> QED BY <3>1, <3>2, <3>3
  <2>2. queue' \in Seq(Frames)
    BY <1>1, <2>1, PutInQueue
  <2>3. MirrorTyped'
    BY <1>1, <2>1, <2>2 DEF MirrorTyped
  <2>4. (Intact => Intact') /\ (FetchIsOut => FetchIsOut') /\ (Chained => Chained')
    BY <1>1, <2>1, PlainPut
  <2> QED BY <1>1, <2>3, <2>4 DEF MirrorInv
<1> QED BY <1>2, <1>3

LEMMA SendClearedKeeps == ASSUME MirrorInv, SendCleared PROVE MirrorInv'
<1>1. /\ MirrorTyped /\ loop' = "append" /\ clearing' = FALSE
      /\ UNCHANGED <<screen, rows, clears, flagged, token, base, chan, asked,
                     mirror, view, scrolls, redials>>
  BY DEF MirrorInv, SendCleared, tab, client
<1>2. CASE ~clearing
  <2>1. UNCHANGED <<queue, shipped>>
    BY <1>2 DEF SendCleared
  <2>2. MirrorTyped'
    BY <1>1, <2>1 DEF MirrorTyped
  <2>3. Intact => Intact'
    BY <1>1, <2>1, SameIntact
  <2> QED BY <1>1, <2>1, <2>2, <2>3, SameFetch, SameChain DEF MirrorInv
<1>3. CASE clearing
  <2>1. queue' = Append(queue, [t |-> "cleared"]) /\ shipped' = 0
    BY <1>3 DEF SendCleared
  <2>2. queue' \in Seq(Frames)
    BY <1>1, <2>1, PutInQueue, FramesMade
  <2>3. MirrorTyped'
    BY <1>1, <2>1, <2>2 DEF MirrorTyped
  <2>4. clears # 0
    BY <1>3 DEF MirrorInv, Intact
  <2> QED BY <1>1, <2>3, <2>4 DEF MirrorInv
<1> QED BY <1>2, <1>3

LEMMA SendAppendKeeps == ASSUME MirrorInv, SendAppend PROVE MirrorInv'
<1>1. /\ MirrorTyped /\ loop' = "idle"
      /\ UNCHANGED <<screen, rows, clears, flagged, base, clearing, chan, asked,
                     mirror, view, scrolls, redials>>
  BY DEF MirrorInv, SendAppend, tab, client
<1>2. rows \in Nat /\ shipped \in Nat /\ clears \in Nat /\ Batch \in Nat /\ Batch > 0
  BY <1>1, MirrorConstants DEF MirrorTyped
<1>3. CASE ~(rows > shipped)
  <2>1. UNCHANGED <<queue, shipped, token>>
    BY <1>3 DEF SendAppend
  <2>2. MirrorTyped'
    BY <1>1, <2>1 DEF MirrorTyped
  <2>3. Intact => Intact'
    <3>1. Intact => ~clearing'
      BY <1>1 DEF Intact
    <3> QED BY <1>1, <1>2, <1>3, <2>1, <3>1, SameIntact
  <2> QED BY <1>1, <2>1, <2>2, <2>3, SameFetch, SameChain DEF MirrorInv
<1>4. CASE rows > shipped
  <2>1. PICK end \in Nat : end = Least(rows, shipped + Batch) /\ shipped < end /\ end <= rows
    BY <1>2, <1>4 DEF Least
  <2>2. PICK s \in Seq(Cell) : s = Rows(shipped, end) /\ Follow(s, shipped) /\ Len(s) = end - shipped
    <3>1. end \in Int /\ end > shipped
      BY <1>2, <2>1
    <3> QED BY <1>2, <3>1, RowsFollow
  <2>3. PICK f : f = [t |-> "append", from |-> shipped, rows |-> s, total |-> rows]
    OBVIOUS
  <2>4. /\ f \in Frames /\ f.t = "append" /\ f.from = shipped /\ f.total = rows
        /\ Len(f.rows) = end - shipped /\ Len(f.rows) > 0 /\ Beyond(f) = end
    <3>1. f \in Frames
      BY <1>2, <2>2, <2>3, FramesMade
    <3> QED BY <1>2, <2>1, <2>2, <2>3, <3>1 DEF Beyond
  <2>5. /\ queue' = Append(queue, f) /\ shipped' = end
        /\ (end < rows => token') /\ token' \in BOOLEAN
    BY <1>1, <1>4, <2>1, <2>2, <2>3 DEF SendAppend, SelfWake, MirrorTyped
  <2>6. queue' \in Seq(Frames) /\ InFlight' = InFlight \cup {f}
    BY <1>1, <2>4, <2>5, PutInQueue
  <2>7. MirrorTyped'
    BY <1>1, <2>5, <2>6 DEF MirrorTyped
  <2> HIDE DEF InFlight
  <2>8. Intact => Intact'
    <3> SUFFICES ASSUME Intact PROVE Intact'
      OBVIOUS
    <3>1. shipped' = rows' => \E g \in InFlight' : g.t = "append" /\ g.total >= rows'
      BY <1>1, <1>2, <2>4, <2>6
    <3>2. \A g \in InFlight' : /\ g.t # "cleared"
                               /\ g.t \in {"append", "range"} => Beyond(g) <= rows'
                               /\ g.t = "append" => g.total <= rows'
      BY <1>1, <1>2, <2>1, <2>4, <2>6 DEF Intact
    <3>3. shipped' <= rows' /\ (shipped' < rows' => token')
      BY <1>1, <2>1, <2>5
    <3> QED BY <1>1, <3>1, <3>2, <3>3 DEF Intact, Beyond, End
  <2>9. FetchIsOut => FetchIsOut'
    BY <1>1, <2>6 DEF FetchIsOut
  <2>10. Chained => Chained'
    <3> SUFFICES ASSUME Chained PROVE Chained'
      OBVIOUS
    <3>1. Lined'
      BY <1>1, <2>4, <2>5, LinedPut DEF Chained, InOrder
    <3>2. End(mirror) \in Nat
      BY <1>1, MirrorFields DEF MirrorTyped
    <3>3. \A g \in InFlight : g.t = "append" => Beyond(g) \in Nat
      BY <1>1, FlyingTyped, FrameLength
    <3>4. \A g \in InFlight' : g.t = "append" =>
            End(mirror) <= g.from /\ Len(g.rows) > 0 /\ Beyond(g) <= shipped'
      BY <1>2, <2>1, <2>4, <2>5, <2>6, <3>3 DEF Chained
    <3>5. \A x \in Nat : End(mirror) <= x /\ x < shipped' =>
            \E g \in InFlight' : g.t = "append" /\ g.from <= x /\ x < Beyond(g)
      BY <1>2, <2>1, <2>4, <2>5, <2>6 DEF Chained
    <3>6. End(mirror) <= shipped' /\ \A g \in InFlight' : g.t # "range"
      BY <1>2, <2>1, <2>4, <2>5, <2>6, <3>2 DEF Chained
    <3> HIDE DEF Lined
    <3> QED BY <1>1, <3>1, <3>4, <3>5, <3>6 DEF Chained, Beyond, End
  <2> QED BY <1>1, <2>7, <2>8, <2>9, <2>10 DEF MirrorInv
<1> QED BY <1>3, <1>4

LEMMA AnswerRangeKeeps == ASSUME MirrorInv, NEW r \in asked, AnswerRange(r) PROVE MirrorInv'
<1>1. /\ MirrorTyped /\ asked' = asked \ {r}
      /\ UNCHANGED <<screen, rows, clears, flagged, loop, token, base, shipped, clearing, chan,
                     mirror, view, scrolls, redials>>
  BY DEF MirrorInv, AnswerRange, tab, sub, client
<1>2. rows \in Nat /\ clears \in Nat /\ r[1] \in Nat /\ r[2] \in Int
  BY <1>1 DEF MirrorTyped, Reqs
<1>3. PICK to \in Int : to = Least(r[2], rows) /\ to <= rows
  BY <1>2 DEF Least
<1>4. PICK s \in Seq(Cell) : /\ s = Rows(r[1], to) /\ Follow(s, r[1])
                             /\ Len(s) = IF to > r[1] THEN to - r[1] ELSE 0
  BY <1>2, RowsFollow
<1>5. PICK f : f = [t |-> "range", from |-> r[1], rows |-> s]
  OBVIOUS
<1>6. f \in Frames /\ f.t = "range" /\ f.from = r[1] /\ f.rows = s
  BY <1>2, <1>4, <1>5, FramesMade
<1>7. queue' = Append(queue, f)
  BY <1>3, <1>4, <1>5 DEF AnswerRange
<1>8. queue' \in Seq(Frames) /\ InFlight' = InFlight \cup {f}
  BY <1>1, <1>6, <1>7, PutInQueue
<1>9. MirrorTyped'
  BY <1>1, <1>8 DEF MirrorTyped
<1> HIDE DEF InFlight
<1>10. Intact => Intact'
  <2> SUFFICES ASSUME Intact PROVE Intact'
    OBVIOUS
  <2>1. Beyond(f) <= rows
    <3>1. r[1] <= rows
      BY DEF Intact
    <3> QED BY <1>2, <1>3, <1>4, <1>6, <3>1 DEF Beyond
  <2>2. \A g \in InFlight' : /\ g.t # "cleared"
                             /\ g.t \in {"append", "range"} => Beyond(g) <= rows'
                             /\ g.t = "append" => g.total <= rows'
    BY <1>1, <1>6, <1>8, <2>1 DEF Intact
  <2>3. shipped' = rows' =>
          mirror'.total >= rows' \/ \E g \in InFlight' : g.t = "append" /\ g.total >= rows'
    BY <1>1, <1>8 DEF Intact
  <2>4. \A q \in asked' : q[1] <= rows'
    BY <1>1 DEF Intact
  <2> QED BY <1>1, <2>2, <2>3, <2>4 DEF Intact, Beyond, End
<1>11. FetchIsOut'
  BY <1>6, <1>8 DEF FetchIsOut
<1>12. ~Chained
  BY DEF Chained
<1> QED BY <1>1, <1>9, <1>10, <1>11, <1>12 DEF MirrorInv

LEMMA DispatchKeeps == ASSUME MirrorInv, Dispatch PROVE MirrorInv'
<1>1. /\ MirrorTyped
      /\ UNCHANGED <<screen, rows, clears, flagged, loop, token, base, shipped, clearing, asked,
                     mirror, view, scrolls, redials>>
  BY DEF MirrorInv, Dispatch, tab, sub, client
<1>2. queue' \in Seq(Frames) /\ chan' \in [Types -> Seq(Frames)] /\ InFlight' = InFlight
  BY <1>1, HandedOn
<1>3. PICK f \in Frames : \E t \in Types :
        /\ t = f.t /\ f = queue[1] /\ Len(queue) \in Nat \ {0} /\ Len(queue') = Len(queue) - 1
        /\ \A n \in 1..Len(queue') : queue'[n] = queue[n + 1]
        /\ \A u \in Types : u # t => chan'[u] = chan[u]
        /\ chan'[t] = Append(chan[t], f)
  BY <1>1, HandedOn
<1>4. PICK t \in Types :
        /\ t = f.t /\ f = queue[1] /\ Len(queue) \in Nat \ {0} /\ Len(queue') = Len(queue) - 1
        /\ \A n \in 1..Len(queue') : queue'[n] = queue[n + 1]
        /\ \A u \in Types : u # t => chan'[u] = chan[u]
        /\ chan'[t] = Append(chan[t], f)
  BY <1>3
<1>5. /\ chan[t] \in Seq(Frames) /\ Len(chan[t]) \in Nat /\ Len(chan'[t]) = Len(chan[t]) + 1
      /\ chan'[t][Len(chan[t]) + 1] = f /\ \A n \in 1..Len(chan[t]) : chan'[t][n] = chan[t][n]
  <2>1. chan[t] \in Seq(Frames)
    BY <1>1 DEF MirrorTyped
  <2> QED BY <1>4, <2>1, AppendProperties, LenProperties
<1>6. MirrorTyped'
  <2>1. \A u \in Types : \A n \in 1..Len(chan'[u]) : chan'[u][n].t = u
    <3>1. ASSUME NEW n \in 1..Len(chan'[t]) PROVE chan'[t][n].t = t
      <4>1. CASE n \in 1..Len(chan[t])
        BY <1>1, <1>5, <4>1 DEF MirrorTyped
      <4>2. CASE n = Len(chan[t]) + 1
        BY <1>4, <1>5, <4>2
      <4> QED BY <1>5, <4>1, <4>2
    <3>2. ASSUME NEW u \in Types, u # t, NEW n \in 1..Len(chan'[u]) PROVE chan'[u][n].t = u
      BY <1>1, <1>4, <3>2 DEF MirrorTyped
    <3> QED BY <3>1, <3>2
  <2> QED BY <1>1, <1>2, <2>1 DEF MirrorTyped
<1> HIDE DEF InFlight
<1>7. Intact => Intact'
  BY <1>1, <1>2 DEF Intact, Beyond, End
<1>8. FetchIsOut => FetchIsOut'
  BY <1>1, <1>2 DEF FetchIsOut
<1>9. Lined => Lined'
  <2> SUFFICES ASSUME Lined PROVE Lined'
    OBVIOUS
  <2> DEFINE c == chan["append"]
             d == chan'["append"]
             q == queue'
  <2>1. "append" \in Types
    BY DEF Types
  <2>2. /\ \A i, j \in 1..Len(c) : i < j => InOrder(c[i], c[j])
        /\ \A i \in 1..Len(c), j \in 1..Len(queue) : InOrder(c[i], queue[j])
        /\ \A i, j \in 1..Len(queue) : i < j => InOrder(queue[i], queue[j])
    BY DEF Lined
  <2>3. \A i, j \in 1..Len(q) : i < j => InOrder(q[i], q[j])
    <3> SUFFICES ASSUME NEW i \in 1..Len(q), NEW j \in 1..Len(q), i < j PROVE InOrder(q[i], q[j])
      OBVIOUS
    <3>1. i + 1 \in 1..Len(queue) /\ j + 1 \in 1..Len(queue) /\ i + 1 < j + 1
      BY <1>4
    <3> QED BY <1>4, <2>2, <3>1
  <2>4. \A j \in 1..Len(q) : InOrder(f, q[j])
    <3> SUFFICES ASSUME NEW j \in 1..Len(q) PROVE InOrder(f, q[j])
      OBVIOUS
    <3>1. 1 \in 1..Len(queue) /\ j + 1 \in 1..Len(queue) /\ 1 < j + 1
      BY <1>4
    <3> QED BY <1>4, <2>2, <3>1
  <2>5. \A i \in 1..Len(c), j \in 1..Len(q) : InOrder(c[i], q[j])
    <3> SUFFICES ASSUME NEW i \in 1..Len(c), NEW j \in 1..Len(q) PROVE InOrder(c[i], q[j])
      OBVIOUS
    <3>1. j + 1 \in 1..Len(queue)
      BY <1>4
    <3> QED BY <1>4, <2>2, <3>1
  <2>6. \A i \in 1..Len(c) : InOrder(c[i], f)
    <3>1. 1 \in 1..Len(queue)
      BY <1>4
    <3> QED BY <1>4, <2>2, <3>1
  <2>7. CASE t # "append"
    <3>1. d = c
      BY <1>4, <2>1, <2>7
    <3> HIDE DEF c, d, q
    <3> QED BY <2>2, <2>3, <2>5, <3>1 DEF Lined, c, d, q
  <2>8. CASE t = "append"
    <3>1. /\ Len(c) \in Nat /\ Len(d) = Len(c) + 1 /\ d[Len(c) + 1] = f
          /\ \A n \in 1..Len(c) : d[n] = c[n]
      BY <1>5, <2>8
    <3> HIDE DEF c, d, q, InOrder
    <3>2. ASSUME NEW i \in 1..Len(d) PROVE i \in 1..Len(c) \/ (i = Len(c) + 1 /\ d[i] = f)
      BY <3>1
    <3>3. \A i, j \in 1..Len(d) : i < j => InOrder(d[i], d[j])
      <4> SUFFICES ASSUME NEW i \in 1..Len(d), NEW j \in 1..Len(d), i < j PROVE InOrder(d[i], d[j])
        OBVIOUS
      <4>1. i \in 1..Len(c)
        BY <3>1
      <4>2. CASE j \in 1..Len(c)
        BY <2>2, <3>1, <4>1, <4>2
      <4>3. CASE j = Len(c) + 1
        BY <2>6, <3>1, <4>1, <4>3
      <4> QED BY <3>2, <4>2, <4>3
    <3>4. \A i \in 1..Len(d), j \in 1..Len(q) : InOrder(d[i], q[j])
      <4> SUFFICES ASSUME NEW i \in 1..Len(d), NEW j \in 1..Len(q) PROVE InOrder(d[i], q[j])
        OBVIOUS
      <4>1. CASE i \in 1..Len(c)
        BY <2>5, <3>1, <4>1
      <4>2. CASE i = Len(c) + 1
        BY <2>4, <3>1, <4>2
      <4> QED BY <3>2, <4>1, <4>2
    <3> QED BY <2>3, <3>3, <3>4 DEF Lined, d, q
  <2> QED BY <2>7, <2>8
<1>10. Chained => Chained'
  <2> HIDE DEF Lined
  <2> QED BY <1>1, <1>2, <1>9 DEF Chained, Beyond, End
<1> QED BY <1>1, <1>6, <1>7, <1>8, <1>10 DEF MirrorInv

\* The first batch in flight is the one the mirror waits for.
LEMMA HeadJoins ==
  ASSUME MirrorTyped, Chained, chan["append"] # <<>>, NEW f \in Frames, f = chan["append"][1],
         f.t = "append"
  PROVE  f.from = End(mirror)
<1>1. "append" \in Types /\ chan["append"] \in Seq(Frames) /\ queue \in Seq(Frames)
  BY DEF MirrorTyped, Types
<1>2. Len(chan["append"]) \in Nat \ {0} /\ 1 \in 1..Len(chan["append"])
  BY <1>1, LenProperties, EmptySeq
<1>3. f \in InFlight
  <2>1. f \in Range(chan["append"])
    BY <1>1, <1>2 DEF Range
  <2> QED BY <1>1, <2>1 DEF InFlight
<1>4. End(mirror) \in Nat
  BY MirrorFields DEF MirrorTyped
<1>5. f.from \in Nat /\ Len(f.rows) \in Nat /\ Beyond(f) = f.from + Len(f.rows) /\ shipped \in Nat
  BY FrameLength DEF MirrorTyped
<1>6. End(mirror) <= f.from /\ Len(f.rows) > 0 /\ Beyond(f) <= shipped
  BY <1>3 DEF Chained
<1>7. End(mirror) < shipped
  BY <1>4, <1>5, <1>6
<1>8. PICK g \in InFlight : g.t = "append" /\ g.from <= End(mirror) /\ End(mirror) < Beyond(g)
  BY <1>4, <1>7 DEF Chained
<1>9. g \in Frames /\ g.from \in Nat /\ End(mirror) <= g.from
  BY <1>8, FlyingTyped, FrameLength DEF Chained
<1>10. g.from = End(mirror)
  BY <1>4, <1>8, <1>9
<1>11. g = f \/ Beyond(f) <= g.from
  <2>1. CASE g \in Range(queue)
    <3>1. PICK j \in 1..Len(queue) : queue[j] = g
      BY <1>1, <2>1, RangeEquality
    <3>2. InOrder(f, g)
      BY <1>2, <3>1 DEF Chained, Lined
    <3> QED BY <1>8, <3>2 DEF InOrder
  <2>2. CASE \E u \in Types : g \in Range(chan[u])
    <3>1. PICK u \in Types : g \in Range(chan[u])
      BY <2>2
    <3>2. chan[u] \in Seq(Frames)
      BY <3>1 DEF MirrorTyped
    <3>3. PICK j \in 1..Len(chan[u]) : chan[u][j] = g
      BY <3>1, <3>2, RangeEquality
    <3>4. u = "append"
      BY <1>8, <3>3 DEF MirrorTyped
    <3>5. CASE j = 1
      BY <3>3, <3>4, <3>5
    <3>6. CASE j # 1
      <4>1. 1 < j /\ j \in 1..Len(chan["append"])
        BY <1>2, <3>3, <3>4, <3>6
      <4>2. InOrder(chan["append"][1], chan["append"][j])
        BY <1>2, <4>1 DEF Chained, Lined
      <4>3. InOrder(f, g)
        BY <3>3, <3>4, <4>2
      <4> QED BY <1>8, <4>3 DEF InOrder
    <3> QED BY <3>5, <3>6
  <2> QED BY <2>1, <2>2 DEF InFlight
<1> QED BY <1>4, <1>5, <1>6, <1>10, <1>11

\* Taking a batch leaves the others in their order, all of them past it.
LEMMA LinedTake ==
  ASSUME MirrorTyped, Lined, NEW t \in Types, chan[t] # <<>>, queue' = queue,
         chan' = [chan EXCEPT ![t] = Tail(@)]
  PROVE  /\ Lined'
         /\ t = "append" =>
              \A g \in InFlight' : g.t = "append" => Beyond(chan[t][1]) <= g.from
<1>1. PICK f \in Frames :
        /\ f.t = t /\ Len(chan[t]) \in Nat \ {0} /\ f = chan[t][1]
        /\ Len(chan'[t]) = Len(chan[t]) - 1
        /\ \A n \in 1..Len(chan'[t]) : chan'[t][n] = chan[t][n + 1]
        /\ \A u \in Types : u # t => chan'[u] = chan[u]
  BY TakenOff
<1>2. chan' \in [Types -> Seq(Frames)] /\ queue \in Seq(Frames)
  BY TakenOff DEF MirrorTyped
<1> DEFINE c == chan["append"]
           d == chan'["append"]
<1>3. /\ \A i, j \in 1..Len(c) : i < j => InOrder(c[i], c[j])
      /\ \A i \in 1..Len(c), j \in 1..Len(queue) : InOrder(c[i], queue[j])
      /\ \A i, j \in 1..Len(queue) : i < j => InOrder(queue[i], queue[j])
  BY DEF Lined
<1>4. CASE t # "append"
  <2>1. d = c
    BY <1>1, <1>4 DEF Types
  <2> HIDE DEF c, d, InOrder
  <2> QED BY <1>3, <1>4, <2>1 DEF Lined, c, d
<1>5. CASE t = "append"
  <2>1. /\ Len(c) \in Nat \ {0} /\ Len(d) = Len(c) - 1 /\ f = c[1]
        /\ \A n \in 1..Len(d) : d[n] = c[n + 1]
    BY <1>1, <1>5
  <2>2. \A n \in 1..Len(d) : n + 1 \in 1..Len(c) /\ 1 < n + 1
    <3> HIDE DEF c, d
    <3> QED BY <2>1
  <2>3. \A i, j \in 1..Len(d) : i < j => InOrder(d[i], d[j])
    <3> HIDE DEF c, d, InOrder
    <3> SUFFICES ASSUME NEW i \in 1..Len(d), NEW j \in 1..Len(d), i < j PROVE InOrder(d[i], d[j])
      OBVIOUS
    <3>1. i + 1 < j + 1
      BY <2>1
    <3> QED BY <1>3, <2>1, <2>2, <3>1
  <2>4. \A i \in 1..Len(d), j \in 1..Len(queue) : InOrder(d[i], queue[j])
    <3> HIDE DEF c, d, InOrder
    <3> QED BY <1>3, <2>1, <2>2
  <2>5. Lined'
    <3> HIDE DEF c, d, InOrder
    <3> QED BY <1>3, <2>3, <2>4 DEF Lined, d
  <2>6. ASSUME NEW g \in InFlight', g.t = "append" PROVE Beyond(f) <= g.from
    <3>1. 1 \in 1..Len(c)
      <4> HIDE DEF c
      <4> QED BY <2>1
    <3>2. CASE g \in Range(queue)
      <4>1. PICK j \in 1..Len(queue) : queue[j] = g
        BY <1>2, <3>2, RangeEquality
      <4>2. InOrder(f, g)
        BY <1>3, <2>1, <3>1, <4>1
      <4> QED BY <1>1, <1>5, <2>6, <4>2 DEF InOrder
    <3>3. CASE \E u \in Types : g \in Range(chan'[u])
      <4>1. PICK u \in Types : g \in Range(chan'[u])
        BY <3>3
      <4>2. chan'[u] \in Seq(Frames)
        BY <1>2
      <4>3. PICK j \in 1..Len(chan'[u]) : chan'[u][j] = g
        <5> DEFINE e == chan'[u]
        <5>1. e \in Seq(Frames) /\ g \in Range(e)
          BY <4>1, <4>2
        <5> HIDE DEF e
        <5>2. \E j \in 1..Len(e) : e[j] = g
          BY <5>1, RangeEquality
        <5> QED BY <5>2 DEF e
      <4>4. CASE u = t
        <5>1. InOrder(c[1], c[j + 1]) /\ d[j] = g /\ d[j] = c[j + 1]
          <6>1. j \in 1..Len(d) /\ d[j] = g
            BY <1>5, <4>3, <4>4
          <6> HIDE DEF c, d, InOrder
          <6> QED BY <1>3, <2>1, <2>2, <3>1, <6>1
        <5>2. InOrder(f, g)
          BY <2>1, <5>1
        <5> QED BY <1>1, <1>5, <2>6, <5>2 DEF InOrder
      <4>5. CASE u # t
        <5>1. chan'[u] = chan[u]
          BY <1>1, <4>5
        <5>2. g.t = u
          BY <4>3, <5>1 DEF MirrorTyped
        <5> QED BY <1>5, <2>6, <4>5, <5>2
      <4> QED BY <4>4, <4>5
    <3> QED BY <3>2, <3>3 DEF InFlight
  <2> QED BY <1>1, <1>5, <2>5, <2>6
<1> QED BY <1>4, <1>5

LEMMA RouteKeeps == ASSUME MirrorInv, NEW t \in Types, Route(t) PROVE MirrorInv'
<1>1. /\ MirrorTyped /\ chan[t] # <<>> /\ chan' = [chan EXCEPT ![t] = Tail(@)]
      /\ UNCHANGED <<screen, rows, clears, flagged, loop, token, base, shipped, clearing, queue,
                     asked, view, scrolls, redials>>
  BY DEF MirrorInv, Route, tab, sub
<1>2. PICK f \in Frames :
        /\ f = Head(chan[t]) /\ f.t = t /\ InFlight = InFlight' \cup {f}
        /\ Len(chan[t]) \in Nat \ {0} /\ f = chan[t][1] /\ Len(chan'[t]) = Len(chan[t]) - 1
        /\ \A n \in 1..Len(chan'[t]) : chan'[t][n] = chan[t][n + 1]
        /\ \A u \in Types : u # t => chan'[u] = chan[u]
  BY <1>1, TakenOff
<1>3. mirror' = Applied(mirror, f) /\ mirror \in Mirrors /\ view \in Int
  BY <1>1, <1>2 DEF Route, MirrorTyped
<1>4. \A u \in Types : \A n \in 1..Len(chan'[u]) : chan'[u][n].t = u
  <2>1. ASSUME NEW n \in 1..Len(chan'[t]) PROVE chan'[t][n].t = t
    <3>1. n + 1 \in 1..Len(chan[t])
      BY <1>2
    <3> QED BY <1>1, <1>2, <3>1 DEF MirrorTyped
  <2>2. ASSUME NEW u \in Types, u # t, NEW n \in 1..Len(chan'[u]) PROVE chan'[u][n].t = u
    <3>1. chan'[u] = chan[u]
      BY <1>2, <2>2
    <3> QED BY <1>1, <2>2, <3>1 DEF MirrorTyped
  <2> QED BY <2>1, <2>2
<1>5. mirror' \in Mirrors => MirrorTyped'
  <2>1. chan' \in [Types -> Seq(Frames)]
    BY <1>1, TakenOff
  <2>2. queue' \in Seq(Frames) /\ asked' \subseteq Reqs
    BY <1>1 DEF MirrorTyped
  <2>3. /\ screen' \in Nat /\ rows' \in Nat /\ clears' \in Nat /\ flagged' \in Nat
        /\ base' \in Nat /\ shipped' \in Nat /\ loop' \in {"idle", "cells", "clear", "append"}
        /\ token' \in BOOLEAN /\ clearing' \in BOOLEAN
        /\ view' \in Int /\ view' >= -1 /\ scrolls' \in Nat /\ redials' \in Nat
    BY <1>1 DEF MirrorTyped
  <2> HIDE DEF Mirrors
  <2> QED BY <1>4, <2>1, <2>2, <2>3 DEF MirrorTyped
<1>6. /\ mirror.total \in Nat /\ End(mirror) \in Nat /\ rows \in Nat /\ shipped \in Nat
  BY <1>1, MirrorFields DEF MirrorTyped
<1>7. f \in InFlight
  BY <1>2
<1>8. Lined => Lined' /\ (t = "append" =>
                            \A g \in InFlight' : g.t = "append" => Beyond(f) <= g.from)
  BY <1>1, <1>2, LinedTake
<1> HIDE DEF InFlight, Lined
<1>9. CASE t \in {"full", "diff"}
  <2>1. mirror' = [mirror EXCEPT !.grid = f.grid] /\ f.grid \in Nat
    BY <1>2, <1>3, <1>9, FrameKinds DEF Applied
  <2>2. /\ mirror' \in Mirrors /\ mirror'.total = mirror.total /\ mirror'.req = mirror.req
        /\ End(mirror') = End(mirror)
    BY <1>3, <2>1 DEF Mirrors, End
  <2>3. f.t # "append" /\ f.t # "range"
    BY <1>2, <1>9
  <2>4. Intact => Intact'
    BY <1>1, <1>2, <2>2, <2>3 DEF Intact, Beyond
  <2>5. FetchIsOut => FetchIsOut'
    BY <1>1, <1>2, <2>2, <2>3 DEF FetchIsOut
  <2>6. Chained => Chained'
    BY <1>1, <1>2, <1>8, <2>2, <2>3 DEF Chained, Beyond
  <2> QED BY <1>1, <1>5, <2>2, <2>4, <2>5, <2>6 DEF MirrorInv
<1>10. CASE t = "cleared"
  <2>1. mirror' = [mirror EXCEPT !.start = 0, !.win = <<>>, !.total = 0, !.req = NoReq]
    BY <1>2, <1>3, <1>10 DEF Applied
  <2>2. mirror' \in Mirrors
    <3>1. <<>> \in Seq(Cell) /\ Follow(<<>>, 0) /\ NoReq \in Reqs
      BY DEF Follow, NoReq, Reqs
    <3>2. PICK g \in Nat, s \in Nat, w \in Seq(Cell), k \in Nat, r \in Reqs : mirror = Mir(g, s, w, k, r)
      BY <1>3, MirrorIs
    <3>3. mirror' = Mir(g, 0, <<>>, 0, NoReq)
      BY <2>1, <3>2 DEF Mir
    <3> QED BY <3>1, <3>2, <3>3 DEF Mirrors, Mir
  <2>3. clears # 0
    BY <1>2, <1>7, <1>10 DEF MirrorInv, Intact
  <2> QED BY <1>1, <1>5, <2>2, <2>3 DEF MirrorInv
<1>11. CASE t = "append"
  <2>1. mirror' = Appended(mirror, f) /\ f \in Tails
    BY <1>2, <1>3, <1>11, FrameOf DEF Applied
  <2>2. /\ mirror' \in Mirrors /\ mirror'.req = mirror.req
        /\ mirror'.total = Most(mirror.total, Most(f.total, Beyond(f)))
        /\ End(mirror') = IF mirror.win = <<>> \/ f.from = End(mirror) THEN Beyond(f) ELSE End(mirror)
    BY <1>3, <2>1, AppendedMirror
  <2>3. f.total \in Nat /\ Beyond(f) \in Nat
    BY <1>2, <1>11, FrameKinds, FrameLength
  <2>4. Intact => Intact'
    <3> SUFFICES ASSUME Intact PROVE Intact'
      OBVIOUS
    <3>1. f.total <= rows /\ Beyond(f) <= rows /\ mirror.total <= rows
      BY <1>2, <1>7, <1>11 DEF Intact
    <3>2. /\ mirror'.total \in Nat /\ mirror'.total <= rows /\ mirror.total <= mirror'.total
          /\ f.total <= mirror'.total /\ Beyond(f) <= mirror'.total
      BY <1>6, <2>2, <2>3, <3>1 DEF Most
    <3>3. End(mirror') <= mirror'.total
      <4>1. End(mirror) <= mirror.total
        BY DEF Intact
      <4> QED BY <1>6, <2>2, <2>3, <3>2, <4>1
    <3>4. shipped' = rows' =>
            mirror'.total >= rows' \/ \E g \in InFlight' : g.t = "append" /\ g.total >= rows'
      BY <1>1, <1>2, <1>6, <2>3, <3>2 DEF Intact
    <3>5. view' >= 0 => view' < mirror'.total
      BY <1>1, <1>3, <1>6, <3>2 DEF Intact
    <3>6. \A g \in InFlight' : /\ g.t # "cleared"
                               /\ g.t \in {"append", "range"} => Beyond(g) <= rows'
                               /\ g.t = "append" => g.total <= rows'
      BY <1>1, <1>2 DEF Intact
    <3> QED BY <1>1, <3>2, <3>3, <3>4, <3>5, <3>6 DEF Intact, Beyond
  <2>5. FetchIsOut => FetchIsOut'
    <3>1. f.t # "range"
      BY <1>2, <1>11
    <3> QED BY <1>1, <1>2, <2>2, <3>1 DEF FetchIsOut
  <2>6. Chained => Chained'
    <3> SUFFICES ASSUME Chained PROVE Chained'
      OBVIOUS
    <3>1. f.from = End(mirror)
      BY <1>1, <1>2, <1>11, HeadJoins
    <3>2. End(mirror') = Beyond(f)
      BY <2>2, <3>1
    <3>3. Beyond(f) <= shipped
      BY <1>2, <1>7, <1>11 DEF Chained
    <3>4. End(mirror) <= Beyond(f)
      BY <1>2, <1>11, <3>1, FrameLength
    <3>5. Lined' /\ \A g \in InFlight' : g.t = "append" => Beyond(f) <= g.from
      BY <1>8, <1>11 DEF Chained
    <3>6. \A g \in InFlight' : g.t # "range" /\
            (g.t = "append" => Beyond(f) <= g.from /\ Len(g.rows) > 0 /\ Beyond(g) <= shipped')
      BY <1>1, <1>2, <3>5 DEF Chained
    <3>7. \A x \in Nat : Beyond(f) <= x /\ x < shipped' =>
            \E g \in InFlight' : g.t = "append" /\ g.from <= x /\ x < Beyond(g)
      <4> SUFFICES ASSUME NEW x \in Nat, Beyond(f) <= x, x < shipped
                   PROVE  \E g \in InFlight' : g.t = "append" /\ g.from <= x /\ x < Beyond(g)
        BY <1>1
      <4>1. End(mirror) <= x
        BY <1>6, <2>3, <3>4
      <4>2. PICK g \in InFlight : g.t = "append" /\ g.from <= x /\ x < Beyond(g)
        BY <4>1 DEF Chained
      <4>3. g # f
        BY <2>3, <4>2
      <4> QED BY <1>2, <4>2, <4>3
    <3> QED BY <1>1, <3>2, <3>3, <3>5, <3>6, <3>7 DEF Chained, Beyond
  <2> QED BY <1>1, <1>5, <2>2, <2>4, <2>5, <2>6 DEF MirrorInv
<1>12. CASE t = "range"
  <2>1. mirror' = Ranged(mirror, f) /\ f \in Spans
    BY <1>2, <1>3, <1>12, FrameOf DEF Applied
  <2>2. /\ mirror' \in Mirrors /\ mirror'.req = NoReq
        /\ mirror'.total = Most(mirror.total, End(mirror'))
        /\ End(mirror') <= Most(End(mirror), Beyond(f))
    BY <1>3, <2>1, RangedMirror
  <2>3. Beyond(f) \in Nat /\ End(mirror') \in Nat
    BY <1>2, <1>12, <2>2, FrameLength, MirrorFields
  <2>4. Intact => Intact'
    <3> SUFFICES ASSUME Intact PROVE Intact'
      OBVIOUS
    <3>1. Beyond(f) <= rows /\ mirror.total <= rows /\ End(mirror) <= mirror.total
      BY <1>2, <1>7, <1>12 DEF Intact
    <3>2. /\ mirror'.total \in Nat /\ mirror'.total <= rows /\ mirror.total <= mirror'.total
          /\ End(mirror') <= mirror'.total
      BY <1>6, <2>2, <2>3, <3>1 DEF Most
    <3>3. f.t # "append"
      BY <1>2, <1>12
    <3>4. shipped' = rows' =>
            mirror'.total >= rows' \/ \E g \in InFlight' : g.t = "append" /\ g.total >= rows'
      BY <1>1, <1>2, <1>6, <3>2, <3>3 DEF Intact
    <3>5. view' >= 0 => view' < mirror'.total
      BY <1>1, <1>3, <1>6, <3>2 DEF Intact
    <3>6. \A g \in InFlight' : /\ g.t # "cleared"
                               /\ g.t \in {"append", "range"} => Beyond(g) <= rows'
                               /\ g.t = "append" => g.total <= rows'
      BY <1>1, <1>2 DEF Intact
    <3> QED BY <1>1, <3>2, <3>4, <3>5, <3>6 DEF Intact, Beyond
  <2>5. FetchIsOut'
    BY <2>2 DEF FetchIsOut, NoReq
  <2>6. ~Chained
    BY <1>2, <1>7, <1>12 DEF Chained
  <2> QED BY <1>1, <1>5, <2>2, <2>4, <2>5, <2>6 DEF MirrorInv
<1> QED BY <1>9, <1>10, <1>11, <1>12 DEF Types

LEMMA WantedIs ==
  ASSUME MirrorTyped
  PROVE  /\ Wanted \in Reqs
         /\ Wanted[2] > Wanted[1] => view >= 0 /\ Wanted[1] < mirror.total
<1>1. mirror.total \in Nat /\ mirror.start \in Nat /\ End(mirror) \in Nat /\ view \in Int
  BY MirrorFields DEF MirrorTyped
<1>2. FetchSpan \in Nat /\ FetchSpan \div 2 \in Int
  BY MirrorConstants
<1> DEFINE lo == mirror.start
           hi == End(mirror)
           below == lo > 0 /\ view < lo + Prefetch
           above == hi < mirror.total /\ view + 1 > hi - Prefetch
           jump == mirror.win = <<>> \/ view + 1 <= lo \/ view >= hi
           from == IF jump THEN view - FetchSpan \div 2 ELSE IF below THEN lo - FetchSpan ELSE hi
           to == IF jump THEN from + FetchSpan ELSE IF below THEN lo ELSE hi + FetchSpan
           due == view >= 0 /\ view < mirror.total /\ (jump \/ below \/ above)
<1>3. Wanted = IF due THEN <<Most(0, from), Least(to, mirror.total)>> ELSE NoReq
  BY DEF Wanted
<1>4. from \in Int /\ to \in Int
  <2> HIDE DEF jump, below
  <2> QED BY <1>1, <1>2
<1>5. CASE ~due
  <2>1. Wanted = <<0, 0>>
    BY <1>3, <1>5 DEF NoReq
  <2> QED BY <2>1 DEF Reqs
<1>6. CASE due
  <2>1. view >= 0
    BY <1>6
  <2> HIDE DEF from, to, due
  <2>2. Wanted = <<Most(0, from), Least(to, mirror.total)>>
    BY <1>3, <1>6
  <2>3. Most(0, from) \in Nat /\ Least(to, mirror.total) \in Int /\ Least(to, mirror.total) <= mirror.total
    BY <1>1, <1>4 DEF Most, Least
  <2> QED BY <1>1, <2>1, <2>2, <2>3 DEF Reqs
<1> QED BY <1>5, <1>6

LEMMA FetchKeeps == ASSUME MirrorInv, Fetch PROVE MirrorInv'
<1>1. /\ MirrorTyped /\ FetchDue /\ mirror' = [mirror EXCEPT !.req = Wanted]
      /\ asked' = asked \cup {Wanted}
      /\ UNCHANGED <<screen, rows, clears, flagged, loop, token, base, shipped, clearing, queue,
                     chan, view, scrolls, redials>>
  BY DEF MirrorInv, Fetch, tab, sub
<1>2. Wanted \in Reqs /\ view >= 0 /\ Wanted[1] < mirror.total
  BY <1>1, WantedIs DEF FetchDue
<1>3. PICK q \in Reqs : q = Wanted
  BY <1>2
<1>4. mirror \in Mirrors /\ mirror' = [mirror EXCEPT !.req = q]
  BY <1>1, <1>3 DEF MirrorTyped
<1>5. mirror' \in Mirrors /\ mirror'.total = mirror.total /\ End(mirror') = End(mirror)
  BY <1>4 DEF Mirrors, End
<1>6. MirrorTyped'
  <2>1. asked' \subseteq Reqs
    BY <1>1, <1>2 DEF MirrorTyped
  <2> HIDE DEF Mirrors
  <2> QED BY <1>1, <1>5, <2>1 DEF MirrorTyped
<1>7. InFlight' = InFlight
  BY <1>1, SameFlight
<1> HIDE DEF InFlight
<1>8. Intact => Intact'
  <2> SUFFICES ASSUME Intact PROVE Intact'
    OBVIOUS
  <2>1. mirror.total \in Nat /\ rows \in Nat /\ q[1] \in Nat /\ q[1] < mirror.total
    BY <1>1, <1>2, <1>3, MirrorFields DEF MirrorTyped, Reqs
  <2>2. q[1] <= rows
    BY <2>1 DEF Intact
  <2>3. \A r \in asked' : r[1] <= rows'
    BY <1>1, <1>3, <2>2 DEF Intact
  <2>4. \A f \in InFlight' : /\ f.t # "cleared"
                             /\ f.t \in {"append", "range"} => Beyond(f) <= rows'
                             /\ f.t = "append" => f.total <= rows'
    BY <1>1, <1>7 DEF Intact
  <2>5. shipped' = rows' =>
          mirror'.total >= rows' \/ \E f \in InFlight' : f.t = "append" /\ f.total >= rows'
    BY <1>1, <1>5, <1>7 DEF Intact
  <2> QED BY <1>1, <1>5, <2>3, <2>4, <2>5 DEF Intact, Beyond
<1>9. FetchIsOut'
  BY <1>1 DEF FetchIsOut
<1>10. ~Chained
  BY <1>2 DEF Chained
<1> QED BY <1>1, <1>6, <1>8, <1>9, <1>10 DEF MirrorInv

LEMMA ReconnectKeeps == ASSUME MirrorInv, Reconnect PROVE MirrorInv'
<1>1. /\ MirrorTyped /\ redials' = redials + 1
      /\ queue' = <<>> /\ chan' = [t \in Types |-> <<>>] /\ asked' = {}
      /\ loop' = "cells" /\ token' = FALSE /\ base' = 0 /\ clearing' = FALSE
      /\ shipped' = Most(0, rows - Backfill) /\ flagged' = clears
      /\ UNCHANGED <<screen, rows, clears, mirror, view, scrolls>>
  BY DEF MirrorInv, Reconnect, client
<1>2. rows \in Nat /\ Backfill \in Nat \ {0}
  BY <1>1, MirrorConstants DEF MirrorTyped
<1>3. shipped' \in Nat /\ shipped' <= rows /\ (shipped' = rows => rows = 0)
  BY <1>1, <1>2 DEF Most
<1>4. InFlight' = {}
  <2>1. \A t \in Types : chan'[t] = <<>>
    BY <1>1
  <2>2. Range(<<>>) = {}
    BY DEF Range
  <2> QED BY <1>1, <2>1, <2>2 DEF InFlight
<1>5. MirrorTyped'
  <2>1. chan' \in [Types -> Seq(Frames)] /\ \A t \in Types : \A n \in 1..Len(chan'[t]) : chan'[t][n].t = t
    BY <1>1, EmptyChannels
  <2>2. queue' \in Seq(Frames) /\ asked' \subseteq Reqs /\ redials' \in Nat /\ redials' # 0
    BY <1>1, EmptySeq DEF MirrorTyped
  <2>3. /\ screen' \in Nat /\ rows' \in Nat /\ clears' \in Nat /\ flagged' \in Nat
        /\ base' \in Nat /\ loop' \in {"idle", "cells", "clear", "append"}
        /\ token' \in BOOLEAN /\ clearing' \in BOOLEAN /\ mirror' \in Mirrors
        /\ view' \in Int /\ view' >= -1 /\ scrolls' \in Nat
    BY <1>1 DEF MirrorTyped
  <2> HIDE DEF Mirrors
  <2> QED BY <1>3, <2>1, <2>2, <2>3 DEF MirrorTyped
<1> HIDE DEF InFlight
<1>6. clears = 0 /\ Intact => Intact'
  <2> SUFFICES ASSUME clears = 0, Intact PROVE Intact'
    OBVIOUS
  <2>1. mirror.total \in Nat
    BY <1>1, MirrorFields DEF MirrorTyped
  <2>2. shipped' = rows' => mirror'.total >= rows'
    BY <1>1, <1>3, <2>1
  <2> QED BY <1>1, <1>3, <1>4, <2>2 DEF Intact, End
<1>7. redials' # 0
  BY <1>1 DEF MirrorTyped
<1> QED BY <1>1, <1>5, <1>6, <1>7 DEF MirrorInv

LEMMA MirrorNext == MirrorInv /\ [MNext]_mvars => MirrorInv'
<1> SUFFICES ASSUME MirrorInv, [MNext]_mvars PROVE MirrorInv'
  OBVIOUS
<1>1. CASE UNCHANGED mvars
  BY <1>1 DEF mvars, MirrorInv, MirrorTyped, Intact, FetchIsOut, Chained, Lined, InFlight, InOrder,
              Beyond, End
<1>2. CASE \E k \in 0..MaxRows : Output(k)
  BY <1>2, OutputKeeps
<1>3. CASE ClearHistory
  BY <1>3, ClearHistoryKeeps
<1>4. CASE FlagClear
  BY <1>4, FlagClearKeeps
<1>5. CASE Wakes
  BY <1>5, WakesKeeps
<1>6. CASE SendCells
  BY <1>6, SendCellsKeeps
<1>7. CASE SendCleared
  BY <1>7, SendClearedKeeps
<1>8. CASE SendAppend
  BY <1>8, SendAppendKeeps
<1>9. CASE \E r \in asked : AnswerRange(r)
  BY <1>9, AnswerRangeKeeps
<1>10. CASE Dispatch
  BY <1>10, DispatchKeeps
<1>11. CASE \E t \in Types : Route(t)
  BY <1>11, RouteKeeps
<1>12. CASE \E i \in 0..MaxRows-1 : Scroll(i)
  BY <1>12, ScrollKeeps
<1>13. CASE Fetch
  BY <1>13, FetchKeeps
<1>14. CASE Reconnect
  BY <1>14, ReconnectKeeps
<1> QED BY <1>1, <1>2, <1>3, <1>4, <1>5, <1>6, <1>7, <1>8, <1>9, <1>10, <1>11, <1>12, <1>13,
           <1>14 DEF MNext

LEMMA Mirrored == MSpec => []MirrorInv
BY MirrorInit, MirrorNext, PTL DEF MSpec

\* A row of the window is where the daemon had it, whatever order the router
\* takes the frames in (applyScrollbackAppend, applyScrollbackRange).
THEOREM RowsStayAtTheirIndex == MSpec => []RowsAtTheirIndex
<1>1. MirrorInv => RowsAtTheirIndex
  BY DEF MirrorInv, MirrorTyped, Mirrors, Follow, RowsAtTheirIndex
<1> QED BY <1>1, Mirrored, PTL

\* At rest the mirror of a history nobody cleared is whole: its length is the
\* daemon's; while the connection holds, a viewer who never scrolled has every
\* row up to the live end, and one who did has the row scrolled to.
THEOREM MirrorComesToRestWhole == MSpec => []RestingMirrorIsWhole
<1>1. MirrorInv => RestingMirrorIsWhole
  <2> SUFFICES ASSUME MirrorInv, Rest, clears = 0
               PROVE  /\ mirror.total = rows
                      /\ redials = 0 /\ scrolls = 0 => End(mirror) = rows
                      /\ redials = 0 /\ view >= 0 => mirror.start <= view /\ view < End(mirror)
    BY DEF RestingMirrorIsWhole
  <2>1. MirrorTyped /\ Intact
    BY DEF MirrorInv
  <2>2. InFlight = {} /\ loop = "idle" /\ ~token /\ asked = {} /\ ~FetchDue
    BY NothingFlies DEF Rest, Quiet
  <2>3. /\ rows \in Nat /\ shipped \in Nat /\ view \in Int
        /\ mirror.total \in Nat /\ mirror.start \in Nat /\ End(mirror) \in Nat
    BY <2>1, MirrorFields DEF MirrorTyped
  <2>4. shipped = rows
    BY <2>1, <2>2, <2>3 DEF Intact
  <2>5. mirror.total = rows
    BY <2>1, <2>2, <2>3, <2>4 DEF Intact
  <2>6. ASSUME redials = 0, scrolls = 0 PROVE End(mirror) = rows
    <3>1. Chained
      BY <2>6 DEF MirrorInv
    <3>2. ~(End(mirror) < shipped)
      BY <2>2, <2>3, <3>1 DEF Chained
    <3>3. End(mirror) <= shipped
      BY <3>1 DEF Chained
    <3> QED BY <2>3, <2>4, <3>2, <3>3
  <2>7. ASSUME redials = 0, view >= 0, ~(mirror.start <= view /\ view < End(mirror)) PROVE FALSE
    <3>1. ~(mirror.req[2] > mirror.req[1])
      BY <2>2, <2>7 DEF MirrorInv, FetchIsOut
    <3>2. ~(Wanted[2] > Wanted[1])
      BY <2>2, <3>1 DEF FetchDue
    <3>3. view < mirror.total
      BY <2>1, <2>7 DEF Intact
    <3>4. view + 1 <= mirror.start \/ view >= End(mirror)
      BY <2>3, <2>7
    <3> DEFINE half == FetchSpan \div 2
               from == view - half
    <3>5. Wanted = <<Most(0, from), Least(from + FetchSpan, mirror.total)>>
      BY <2>7, <3>3, <3>4 DEF Wanted
    <3>6. half \in Nat /\ half < FetchSpan /\ FetchSpan \in Nat
      BY MirrorConstants
    <3> HIDE DEF half
    <3>7. from \in Int /\ from <= view /\ view < from + FetchSpan
      BY <2>3, <3>6
    <3> HIDE DEF from
    <3>8. Least(from + FetchSpan, mirror.total) > Most(0, from)
      BY <2>3, <2>7, <3>3, <3>6, <3>7 DEF Least, Most
    <3> QED BY <3>2, <3>5, <3>8
  <2> QED BY <2>5, <2>6, <2>7
<1> QED BY <1>1, Mirrored, PTL

-----------------------------------------------------------------------------
(* The heartbeat.  The payload frames of a link, and those ahead of place j. *)

Ahead(s, j) == Cardinality({i \in DOMAIN s : i < j /\ s[i] = "payload"})
One(b) == IF b THEN 1 ELSE 0
Holds(s, f) == \E j \in DOMAIN s : s[j] = f

\* Frame f is on its way behind no more payloads than k ticks leave room for.
NearIn(s, f, k) == \E j \in DOMAIN s : s[j] = f /\ Ahead(s, j) + k <= Buffer

\* What Put makes of a link.
Taken(s, f) == IF f # "payload" /\ s # <<>> /\ Last(s) = f THEN s ELSE Append(s, f)

\* What waits in the FIFO of a daemon.
Backlog(w) == IF w = D THEN {"payload"} ELSE {"payload", "pong"}

BeatTyped ==
  /\ watch \in Ends /\ hung \subseteq Ends
  /\ outCh = [e \in Ends |-> outCh[e]] /\ outCh[C] \in Seq({"payload"})
  /\ outCh[D] \in Seq(Backlog(watch))
  /\ inflight = [e \in Ends |-> inflight[e]]
  /\ inflight[watch] \in Seq({"payload", "ping"})
  /\ inflight[Peer(watch)] \in Seq({"payload", "pong"})
  /\ \A e \in Ends : Payloads(inflight[e]) <= Buffer
  /\ pinging \in BOOLEAN /\ ponging \in BOOLEAN /\ reaped \in BOOLEAN
  /\ ponging => watch = D
  /\ proof \in Nat /\ pong \in Nat /\ moved \in [Ends -> BOOLEAN]

\* The intervals since both clocks were last set.
Stale == IF proof < pong THEN proof ELSE pong

\* The daemon's clocks: while it writes nothing, its own link empties by one an
\* interval, so its ping gets through; then the pong does.
DaemonBeat ==
  /\ Payloads(inflight[D]) > 0 /\ proof >= 1 =>
       Payloads(inflight[D]) + proof + One(moved[D]) <= Buffer + 1
  /\ Stale >= 1 =>
       pinging \/ Holds(inflight[D], "ping") \/ ponging \/ Holds(inflight[C], "pong")
  /\ Stale >= Buffer + 2 =>
       NearIn(inflight[C], "pong", Stale - (Buffer + 2) + One(moved[C]))

\* The client's: while it reads nothing, the daemon's link is empty, so only the
\* ping waits behind anything.
ClientBeat ==
  /\ proof >= 1 => ~moved[D]
  /\ Stale >= 1 => \/ pinging \/ Holds(inflight[C], "ping")
                   \/ Holds(outCh[D], "pong") \/ Holds(inflight[D], "pong")
  /\ Stale >= 2 => \/ NearIn(inflight[C], "ping", Stale - 2 + One(moved[C]))
                   \/ Holds(outCh[D], "pong") \/ Holds(inflight[D], "pong")

BeatInv ==
  /\ BeatTyped
  /\ LiveNotReaped
  /\ hung = {} => IF watch = D THEN DaemonBeat ELSE ClientBeat

-----------------------------------------------------------------------------
LEMMA PayloadsCounted ==
  ASSUME NEW S, NEW s \in Seq(S), NEW j \in Int
  PROVE  /\ Payloads(s) \in Nat /\ Ahead(s, j) \in Nat /\ Ahead(s, j) <= Payloads(s)
         /\ IsFiniteSet({i \in DOMAIN s : s[i] = "payload"})
         /\ IsFiniteSet({i \in DOMAIN s : i < j /\ s[i] = "payload"})
<1> DEFINE P == {i \in DOMAIN s : s[i] = "payload"}
           A == {i \in DOMAIN s : i < j /\ s[i] = "payload"}
<1>1. IsFiniteSet(DOMAIN s)
  <2>1. DOMAIN s = 1..Len(s) /\ Len(s) \in Nat
    OBVIOUS
  <2> QED BY <2>1, FS_Interval
<1>2. IsFiniteSet(P)
  <2>1. P \in SUBSET DOMAIN s
    OBVIOUS
  <2> QED BY <1>1, <2>1, FS_Subset
<1>3. IsFiniteSet(A) /\ Cardinality(A) <= Cardinality(P)
  <2>1. A \in SUBSET P
    OBVIOUS
  <2> QED BY <1>2, <2>1, FS_Subset
<1>4. Cardinality(P) \in Nat /\ Cardinality(A) \in Nat
  BY <1>2, <1>3, FS_CardinalityType
<1> QED BY <1>2, <1>3, <1>4 DEF Payloads, Ahead

\* A frame at the end adds itself, and leaves the ones before it.
LEMMA PayloadAppended ==
  ASSUME NEW S, NEW s \in Seq(S), NEW f
  PROVE  /\ Payloads(Append(s, f)) = Payloads(s) + One(f = "payload")
         /\ \A j \in DOMAIN s : /\ j \in DOMAIN Append(s, f) /\ Append(s, f)[j] = s[j]
                                /\ Ahead(Append(s, f), j) = Ahead(s, j)
         /\ Holds(Append(s, f), f)
<1> DEFINE t == Append(s, f)
           P == {i \in DOMAIN s : s[i] = "payload"}
           Q == {i \in DOMAIN t : t[i] = "payload"}
           n == Len(s) + 1
<1>1. /\ DOMAIN s = 1..Len(s) /\ Len(s) \in Nat /\ DOMAIN t = 1..n
      /\ t[n] = f /\ \A i \in 1..Len(s) : t[i] = s[i]
  OBVIOUS
<1>2. IsFiniteSet(P) /\ Cardinality(P) \in Nat
  BY PayloadsCounted, 0 \in Int DEF Payloads
<1>3. n \notin P
  BY <1>1
<1>4. Cardinality(Q) = Cardinality(P) + One(f = "payload")
  <2>1. CASE f = "payload"
    <3>1. Q = P \cup {n}
      BY <1>1, <2>1
    <3> HIDE DEF P, Q, n, t
    <3> QED BY <1>2, <1>3, <2>1, <3>1, FS_AddElement DEF One
  <2>2. CASE f # "payload"
    <3>1. Q = P
      BY <1>1, <2>2
    <3> HIDE DEF P, Q, n, t
    <3> QED BY <1>2, <2>2, <3>1 DEF One
  <2> QED BY <2>1, <2>2
<1>5. ASSUME NEW j \in DOMAIN s
      PROVE  /\ j \in DOMAIN t /\ t[j] = s[j] /\ Ahead(t, j) = Ahead(s, j)
  <2>1. {i \in DOMAIN t : i < j /\ t[i] = "payload"} = {i \in DOMAIN s : i < j /\ s[i] = "payload"}
    BY <1>1, <1>5
  <2>2. Ahead(t, j) = Ahead(s, j)
    BY <2>1 DEF Ahead
  <2> QED BY <1>1, <1>5, <2>2
<1>6. Holds(t, f)
  BY <1>1 DEF Holds
<1> QED BY <1>4, <1>5, <1>6 DEF Payloads

\* A frame read at the head is one fewer, and the rest move up.
LEMMA PayloadShifted ==
  ASSUME NEW S, NEW s \in Seq(S), s # <<>>, NEW j \in Int
  PROVE  LET t == Tail(s)
             A == {i \in DOMAIN s : i < j /\ s[i] = "payload"}
             B == {i \in DOMAIN t : i < j - 1 /\ t[i] = "payload"}
         IN  Cardinality(B) = Cardinality(A \ {1}) /\ IsFiniteSet(A \ {1})
<1> DEFINE t == Tail(s)
           A == {i \in DOMAIN s : i < j /\ s[i] = "payload"}
           B == {i \in DOMAIN t : i < j - 1 /\ t[i] = "payload"}
           F == [i \in A \ {1} |-> i - 1]
<1>1. /\ DOMAIN s = 1..Len(s) /\ Len(s) \in Nat \ {0} /\ DOMAIN t = 1..(Len(s) - 1)
      /\ \A i \in 1..(Len(s) - 1) : t[i] = s[i + 1]
  OBVIOUS
<1>2. IsFiniteSet(A \ {1})
  <2>1. IsFiniteSet(A)
    BY PayloadsCounted
  <2> HIDE DEF A
  <2> QED BY <2>1, FS_RemoveElement
<1>3. F \in Bijection(A \ {1}, B)
  <2>1. ASSUME NEW i \in A \ {1}
        PROVE  i - 1 \in B /\ i \in Int
    BY <1>1, <2>1
  <2>2. F \in [A \ {1} -> B]
    BY <2>1
  <2>3. \A a, b \in A \ {1} : F[a] = F[b] => a = b
    BY <2>1
  <2>4. ASSUME NEW b \in B
        PROVE  \E a \in A \ {1} : F[a] = b
    <3>1. b + 1 \in A \ {1}
      BY <1>1, <2>4
    <3>2. F[b + 1] = b
      BY <1>1, <2>4, <3>1
    <3> QED BY <3>1, <3>2
  <2>5. F \in Injection(A \ {1}, B)
    BY <2>2, <2>3 DEF Injection, IsInjective
  <2>6. F \in Surjection(A \ {1}, B)
    BY <2>2, <2>4 DEF Surjection
  <2> QED BY <2>5, <2>6 DEF Bijection
<1>4. ExistsBijection(A \ {1}, B)
  BY <1>3 DEF ExistsBijection
<1>5. Cardinality(B) = Cardinality(A \ {1})
  <2> HIDE DEF A, B
  <2> QED BY <1>2, <1>4, FS_Bijection
<1> QED BY <1>2, <1>5

LEMMA PayloadRead ==
  ASSUME NEW S, NEW s \in Seq(S), s # <<>>
  PROVE  /\ Payloads(Tail(s)) = Payloads(s) - One(Head(s) = "payload")
         /\ \A j \in 2..Len(s) :
              /\ j - 1 \in DOMAIN Tail(s) /\ Tail(s)[j - 1] = s[j]
              /\ Ahead(Tail(s), j - 1) = Ahead(s, j) - One(Head(s) = "payload")
<1> DEFINE t == Tail(s)
<1>1. /\ DOMAIN s = 1..Len(s) /\ Len(s) \in Nat \ {0} /\ DOMAIN t = 1..(Len(s) - 1)
      /\ Head(s) = s[1] /\ \A i \in 1..(Len(s) - 1) : t[i] = s[i + 1]
  OBVIOUS
<1>2. ASSUME NEW j \in Int, j > 1
      PROVE  Ahead(t, j - 1) = Ahead(s, j) - One(Head(s) = "payload")
  <2> DEFINE A == {i \in DOMAIN s : i < j /\ s[i] = "payload"}
             B == {i \in DOMAIN t : i < j - 1 /\ t[i] = "payload"}
  <2>1. Cardinality(B) = Cardinality(A \ {1})
    BY PayloadShifted
  <2>2. IsFiniteSet(A) /\ Cardinality(A) \in Nat
    BY PayloadsCounted DEF Ahead
  <2>3. 1 \in A <=> Head(s) = "payload"
    BY <1>1, <1>2
  <2>4. Cardinality(A \ {1}) = IF 1 \in A THEN Cardinality(A) - 1 ELSE Cardinality(A)
    <3> HIDE DEF A
    <3> QED BY <2>2, FS_RemoveElement
  <2>5. Cardinality(B) = Cardinality(A) - One(Head(s) = "payload")
    <3> HIDE DEF A, B
    <3> QED BY <2>1, <2>2, <2>3, <2>4 DEF One
  <2> QED BY <2>5 DEF Ahead
<1>3. Ahead(s, Len(s) + 1) = Payloads(s) /\ Ahead(t, Len(s)) = Payloads(t)
  <2>1. {i \in DOMAIN s : i < Len(s) + 1 /\ s[i] = "payload"} = {i \in DOMAIN s : s[i] = "payload"}
    BY <1>1
  <2>2. {i \in DOMAIN t : i < Len(s) /\ t[i] = "payload"} = {i \in DOMAIN t : t[i] = "payload"}
    BY <1>1
  <2> QED BY <2>1, <2>2 DEF Ahead, Payloads
<1>4. Payloads(t) = Payloads(s) - One(Head(s) = "payload")
  <2>1. Ahead(t, (Len(s) + 1) - 1) = Ahead(s, Len(s) + 1) - One(Head(s) = "payload")
    BY <1>1, <1>2
  <2>2. (Len(s) + 1) - 1 = Len(s)
    BY <1>1
  <2> QED BY <1>3, <2>1, <2>2
<1>5. ASSUME NEW j \in 2..Len(s)
      PROVE  /\ j - 1 \in DOMAIN t /\ t[j - 1] = s[j]
             /\ Ahead(t, j - 1) = Ahead(s, j) - One(Head(s) = "payload")
  <2>1. j - 1 \in 1..(Len(s) - 1) /\ (j - 1) + 1 = j /\ j \in Int /\ j > 1
    BY <1>1, <1>5
  <2> QED BY <1>1, <1>2, <2>1
<1> QED BY <1>4, <1>5

LEMMA TakenIs ==
  ASSUME NEW S, NEW s \in Seq(S), NEW f \in S
  PROVE  /\ Taken(s, f) \in Seq(S)
         /\ Payloads(Taken(s, f)) = Payloads(s) + One(f = "payload")
         /\ Holds(Taken(s, f), f)
         /\ \A g : Holds(s, g) => Holds(Taken(s, f), g)
         /\ \A g, k : NearIn(s, g, k) => NearIn(Taken(s, f), g, k)
<1>1. CASE f # "payload" /\ s # <<>> /\ Last(s) = f
  <2>1. Taken(s, f) = s
    BY <1>1 DEF Taken
  <2>2. Holds(s, f)
    <3>1. Len(s) \in DOMAIN s /\ s[Len(s)] = f
      BY <1>1 DEF Last
    <3> QED BY <3>1 DEF Holds
  <2>3. Payloads(s) = Payloads(s) + One(f = "payload")
    <3>1. Payloads(s) \in Nat
      BY PayloadsCounted, 0 \in Int
    <3> QED BY <1>1, <3>1 DEF One
  <2> QED BY <2>1, <2>2, <2>3
<1>2. CASE ~(f # "payload" /\ s # <<>> /\ Last(s) = f)
  <2>1. Taken(s, f) = Append(s, f)
    BY <1>2 DEF Taken
  <2>2. Append(s, f) \in Seq(S)
    OBVIOUS
  <2>3. \A g : Holds(s, g) => Holds(Append(s, f), g)
    BY PayloadAppended DEF Holds
  <2>4. \A g, k : NearIn(s, g, k) => NearIn(Append(s, f), g, k)
    BY PayloadAppended DEF NearIn
  <2> QED BY <2>1, <2>2, <2>3, <2>4, PayloadAppended
<1> QED BY <1>1, <1>2

LEMMA ReadIs ==
  ASSUME NEW S, NEW s \in Seq(S), s # <<>>
  PROVE  /\ Tail(s) \in Seq(S) /\ Head(s) \in S
         /\ Payloads(Tail(s)) = Payloads(s) - One(Head(s) = "payload")
         /\ \A g : g # Head(s) /\ Holds(s, g) => Holds(Tail(s), g)
         /\ \A g : \A k \in Int : g # Head(s) /\ NearIn(s, g, k) =>
                      NearIn(Tail(s), g, k + One(Head(s) = "payload"))
<1>1. /\ Tail(s) \in Seq(S) /\ Head(s) \in S /\ Head(s) = s[1]
      /\ Len(s) \in Nat \ {0} /\ DOMAIN s = 1..Len(s)
  OBVIOUS
<1>2. ASSUME NEW g, g # Head(s), NEW j \in DOMAIN s, s[j] = g
      PROVE  j \in 2..Len(s)
  BY <1>1, <1>2
<1>3. ASSUME NEW g, g # Head(s), Holds(s, g)
      PROVE  Holds(Tail(s), g)
  BY <1>2, <1>3, PayloadRead DEF Holds
<1>4. ASSUME NEW g, NEW k \in Int, g # Head(s), NearIn(s, g, k)
      PROVE  NearIn(Tail(s), g, k + One(Head(s) = "payload"))
  <2>1. PICK j \in DOMAIN s : s[j] = g /\ Ahead(s, j) + k <= Buffer
    BY <1>4 DEF NearIn
  <2>2. j \in 2..Len(s)
    BY <1>2, <1>4, <2>1
  <2>3. /\ j - 1 \in DOMAIN Tail(s) /\ Tail(s)[j - 1] = g
        /\ Ahead(Tail(s), j - 1) = Ahead(s, j) - One(Head(s) = "payload")
    BY <2>1, <2>2, PayloadRead
  <2>4. Ahead(s, j) \in Nat
    <3>1. j \in Int
      BY <2>2
    <3> QED BY <3>1, PayloadsCounted
  <2>5. Ahead(Tail(s), j - 1) + (k + One(Head(s) = "payload")) <= Buffer
    BY <1>4, <2>1, <2>3, <2>4, HeartbeatConstants DEF One
  <2> QED BY <2>3, <2>5 DEF NearIn
<1> QED BY <1>1, <1>3, <1>4, PayloadRead

\* Nothing has more ahead of it than the link has.
LEMMA NearAtFirst ==
  ASSUME NEW S, NEW s \in Seq(S), NEW f, Holds(s, f), Payloads(s) <= Buffer
  PROVE  NearIn(s, f, 0)
<1>1. PICK j \in DOMAIN s : s[j] = f
  BY DEF Holds
<1>2. Ahead(s, j) \in Nat /\ Ahead(s, j) <= Payloads(s) /\ Payloads(s) \in Nat
  <2>1. j \in Int
    OBVIOUS
  <2> QED BY <2>1, PayloadsCounted
<1> QED BY <1>1, <1>2, HeartbeatConstants DEF NearIn

LEMMA PayloadAhead ==
  ASSUME NEW S, NEW s \in Seq(S), s # <<>>, Head(s) = "payload"
  PROVE  /\ Payloads(s) >= 1
         /\ \A f : \A k \in Int : f # "payload" /\ NearIn(s, f, k) => k + 1 <= Buffer
<1>1. Payloads(s) >= 1
  <2>1. Payloads(Tail(s)) = Payloads(s) - 1
    BY PayloadRead DEF One
  <2>2. Tail(s) \in Seq(S)
    OBVIOUS
  <2>3. Payloads(Tail(s)) \in Nat /\ Payloads(s) \in Nat
    BY <2>2, PayloadsCounted, 0 \in Int
  <2> QED BY <2>1, <2>3
<1>2. ASSUME NEW f, NEW k \in Int, f # "payload", NearIn(s, f, k)
      PROVE  k + 1 <= Buffer
  <2>1. NearIn(Tail(s), f, k + 1)
    BY <1>2, ReadIs DEF One
  <2>2. PICK j \in DOMAIN Tail(s) : Ahead(Tail(s), j) + (k + 1) <= Buffer
    BY <2>1 DEF NearIn
  <2>3. Tail(s) \in Seq(S) /\ j \in Int
    OBVIOUS
  <2>4. Ahead(Tail(s), j) \in Nat
    BY <2>3, PayloadsCounted
  <2> QED BY <1>2, <2>2, <2>4, HeartbeatConstants
<1> QED BY <1>1, <1>2

-----------------------------------------------------------------------------
(* The type part, by action.                                                *)

LEMMA PutIs ==
  ASSUME NEW e, NEW f, Put(e, f)
  PROVE  \/ inflight' = [inflight EXCEPT ![e] = Taken(inflight[e], f)]
         \/ inflight' = inflight /\ Taken(inflight[e], f) = inflight[e]
BY DEF Put, Taken

\* The links after a write.
LEMMA LinkAfterPut ==
  ASSUME BeatTyped, NEW e \in Ends, NEW f, Put(e, f), Peer(watch) \in Ends,
         f \in (IF e = watch THEN {"payload", "ping"} ELSE {"payload", "pong"}),
         f = "payload" => HasRoom(e)
  PROVE  /\ inflight' = [x \in Ends |-> inflight'[x]]
         /\ inflight'[e] = Taken(inflight[e], f)
         /\ \A x \in Ends : x # e => inflight'[x] = inflight[x]
         /\ inflight'[watch] \in Seq({"payload", "ping"})
         /\ inflight'[Peer(watch)] \in Seq({"payload", "pong"})
         /\ \A x \in Ends : Payloads(inflight'[x]) <= Buffer
<1> DEFINE s == inflight[e]
<1>1. /\ inflight = [x \in Ends |-> inflight[x]] /\ watch \in Ends /\ Peer(watch) # watch
      /\ e = watch \/ e = Peer(watch)
      /\ inflight[watch] \in Seq({"payload", "ping"})
      /\ inflight[Peer(watch)] \in Seq({"payload", "pong"})
      /\ \A x \in Ends : Payloads(inflight[x]) <= Buffer
  BY DEF BeatTyped, Ends, Peer, D, C
<1>2. /\ inflight' = [x \in Ends |-> inflight'[x]]
      /\ inflight'[e] = Taken(inflight[e], f)
      /\ \A x \in Ends : x # e => inflight'[x] = inflight[x]
  <2>1. CASE inflight' = [inflight EXCEPT ![e] = Taken(inflight[e], f)]
    BY <1>1, <2>1
  <2>2. CASE inflight' = inflight /\ Taken(inflight[e], f) = inflight[e]
    BY <1>1, <2>2
  <2> QED BY <2>1, <2>2, PutIs
<1>3. PICK S : S = IF e = watch THEN {"payload", "ping"} ELSE {"payload", "pong"}
  OBVIOUS
<1>4. s \in Seq(S) /\ f \in S
  BY <1>1, <1>3
<1>5. /\ Taken(s, f) \in Seq(S) /\ Payloads(Taken(s, f)) = Payloads(s) + One(f = "payload")
      /\ Payloads(s) \in Nat
  BY <1>4, TakenIs, PayloadsCounted, 0 \in Int
<1>6. Payloads(inflight'[e]) <= Buffer
  BY <1>1, <1>2, <1>5, HeartbeatConstants DEF HasRoom, One
<1> QED BY <1>1, <1>2, <1>3, <1>5, <1>6

LEMMA TwoEnds ==
  ASSUME watch \in Ends
  PROVE  /\ Ends = {D, C} /\ D # C /\ Peer(watch) \in Ends /\ Peer(watch) # watch
         /\ Peer(D) = C /\ Peer(C) = D
BY DEF Ends, Peer, D, C

LEMMA FifoOf ==
  ASSUME NEW S, NEW s \in Seq(S), NEW x \in S
  PROVE  /\ Append(s, x) \in Seq(S)
         /\ s # <<>> => Tail(s) \in Seq(S) /\ Head(s) \in S
OBVIOUS

LEMMA EnqueueTyped ==
  ASSUME BeatTyped, NEW e \in Ends, Enqueue(e)
  PROVE  BeatTyped'
<1>1. /\ outCh' = [outCh EXCEPT ![e] = Append(@, "payload")]
      /\ UNCHANGED <<watch, pinging, ponging, inflight, proof, pong, moved, hung, reaped>>
  BY DEF Enqueue
<1>2. /\ outCh' = [x \in Ends |-> outCh'[x]]
      /\ \A x \in Ends : outCh'[x] = IF x = e THEN Append(outCh[x], "payload") ELSE outCh[x]
  BY <1>1 DEF BeatTyped
<1>3. /\ outCh[C] \in Seq({"payload"}) /\ Append(outCh[C], "payload") \in Seq({"payload"})
      /\ outCh[D] \in Seq(Backlog(watch)) /\ Append(outCh[D], "payload") \in Seq(Backlog(watch))
  <2>1. "payload" \in {"payload"} /\ "payload" \in Backlog(watch)
    BY DEF Backlog
  <2>2. outCh[C] \in Seq({"payload"}) /\ outCh[D] \in Seq(Backlog(watch))
    BY DEF BeatTyped
  <2> QED BY <2>1, <2>2, FifoOf
<1>4. outCh'[C] \in Seq({"payload"}) /\ outCh'[D] \in Seq(Backlog(watch))
  BY <1>2, <1>3 DEF Ends
<1> QED BY <1>1, <1>2, <1>3, <1>4 DEF BeatTyped, Peer

LEMMA WritePingTyped ==
  ASSUME BeatTyped, WritePing
  PROVE  BeatTyped'
<1>1. /\ Put(watch, "ping") /\ pinging' = FALSE
      /\ UNCHANGED <<watch, outCh, ponging, pong, moved, hung, reaped>>
      /\ proof' \in {0, proof}
  BY DEF WritePing, Progress
<1>2. /\ watch \in Ends /\ Peer(watch) \in Ends /\ "ping" \in {"payload", "ping"}
      /\ proof' \in Nat
  BY <1>1, TwoEnds DEF BeatTyped
<1>3. /\ inflight' = [x \in Ends |-> inflight'[x]]
      /\ inflight'[watch] \in Seq({"payload", "ping"})
      /\ inflight'[Peer(watch)] \in Seq({"payload", "pong"})
      /\ \A x \in Ends : Payloads(inflight'[x]) <= Buffer
  BY <1>1, <1>2, LinkAfterPut
<1> QED BY <1>1, <1>2, <1>3 DEF BeatTyped, Peer

LEMMA WritePongTyped ==
  ASSUME BeatTyped, WritePong
  PROVE  BeatTyped'
<1>1. /\ Put(C, "pong") /\ ponging /\ ponging' = FALSE
      /\ UNCHANGED <<watch, outCh, pinging, proof, pong, moved, hung, reaped>>
  BY DEF WritePong
<1>2. watch = D /\ Peer(watch) = C /\ C \in Ends /\ C # watch /\ Peer(watch) \in Ends
  BY <1>1 DEF BeatTyped, Peer, Ends, C, D
<1>3. /\ inflight' = [x \in Ends |-> inflight'[x]]
      /\ inflight'[watch] \in Seq({"payload", "ping"})
      /\ inflight'[Peer(watch)] \in Seq({"payload", "pong"})
      /\ \A x \in Ends : Payloads(inflight'[x]) <= Buffer
  BY <1>1, <1>2, LinkAfterPut
<1> QED BY <1>1, <1>2, <1>3 DEF BeatTyped, Peer

LEMMA WriteNextTyped ==
  ASSUME BeatTyped, NEW e \in Ends, WriteNext(e)
  PROVE  BeatTyped'
<1> DEFINE f == Head(outCh[e])
<1>1. /\ Put(e, f) /\ outCh[e] # <<>> /\ (f = "payload" => HasRoom(e))
      /\ outCh' = [outCh EXCEPT ![e] = Tail(@)] /\ proof' \in {0, proof}
      /\ UNCHANGED <<watch, pinging, ponging, pong, moved, hung, reaped>>
  BY DEF WriteNext, CanWrite, Progress
<1>2. /\ outCh' = [x \in Ends |-> outCh'[x]]
      /\ outCh'[C] \in Seq({"payload"})
      /\ outCh'[D] \in Seq(Backlog(watch))
  <2>1. /\ outCh' = [x \in Ends |-> outCh'[x]]
        /\ \A x \in Ends : outCh'[x] = IF x = e THEN Tail(outCh[x]) ELSE outCh[x]
    BY <1>1 DEF BeatTyped
  <2>2. /\ outCh[C] \in Seq({"payload"}) /\ outCh[D] \in Seq(Backlog(watch))
    BY DEF BeatTyped
  <2>3. /\ outCh[C] # <<>> => Tail(outCh[C]) \in Seq({"payload"})
        /\ outCh[D] # <<>> => Tail(outCh[D]) \in Seq(Backlog(watch))
    BY <2>2
  <2> QED BY <1>1, <2>1, <2>2, <2>3 DEF Ends
<1>3. f \in (IF e = watch THEN {"payload", "ping"} ELSE {"payload", "pong"})
  <2>1. CASE e = C
    <3>1. f = "payload"
      BY <1>1, <2>1 DEF BeatTyped
    <3> QED BY <3>1
  <2>2. CASE e = D /\ watch = D
    <3>1. f = "payload"
      BY <1>1, <2>2 DEF BeatTyped, Backlog
    <3> QED BY <3>1
  <2>3. CASE e = D /\ watch # D
    <3>1. f \in {"payload", "pong"}
      BY <1>1, <2>3 DEF BeatTyped, Backlog
    <3> QED BY <2>3, <3>1
  <2> QED BY <2>1, <2>2, <2>3 DEF Ends
<1>4. Peer(watch) \in Ends
  BY TwoEnds DEF BeatTyped
<1>5. /\ inflight' = [x \in Ends |-> inflight'[x]]
      /\ inflight'[watch] \in Seq({"payload", "ping"})
      /\ inflight'[Peer(watch)] \in Seq({"payload", "pong"})
      /\ \A x \in Ends : Payloads(inflight'[x]) <= Buffer
  <2> HIDE DEF f
  <2> QED BY <1>1, <1>3, <1>4, LinkAfterPut
<1> QED BY <1>1, <1>2, <1>5 DEF BeatTyped, Peer

\* The links after a read.
LEMMA LinkAfterRead ==
  ASSUME BeatTyped, NEW e \in Ends, ReadFrame(e)
  PROVE  /\ inflight' = [x \in Ends |-> inflight'[x]]
         /\ inflight'[Peer(e)] = Tail(inflight[Peer(e)]) /\ inflight'[e] = inflight[e]
         /\ inflight[Peer(e)] # <<>>
         /\ Head(inflight[Peer(e)]) \in
              (IF e = watch THEN {"payload", "pong"} ELSE {"payload", "ping"})
         /\ inflight'[watch] \in Seq({"payload", "ping"})
         /\ inflight'[Peer(watch)] \in Seq({"payload", "pong"})
         /\ \A x \in Ends : Payloads(inflight'[x]) <= Buffer
<1> DEFINE p == Peer(e)
           s == inflight[p]
<1>1. /\ s # <<>> /\ inflight' = [inflight EXCEPT ![p] = Tail(@)]
  BY DEF ReadFrame, CanRead
<1>2. /\ p \in Ends /\ p # e /\ \A x \in Ends : x = p \/ x = e
      /\ watch \in Ends /\ Peer(watch) \in Ends /\ (e = watch => p = Peer(watch))
      /\ (e # watch => p = watch /\ e = Peer(watch)) /\ Peer(watch) # watch
  BY DEF BeatTyped, Ends, Peer, C, D
<1>3. /\ inflight' = [x \in Ends |-> inflight'[x]]
      /\ inflight'[p] = Tail(s) /\ inflight'[e] = inflight[e]
  <2> HIDE DEF p
  <2> QED BY <1>1, <1>2 DEF BeatTyped
<1>4. PICK S : S = IF e = watch THEN {"payload", "pong"} ELSE {"payload", "ping"}
  OBVIOUS
<1>5. s \in Seq(S)
  BY <1>2, <1>4 DEF BeatTyped
<1>6. Tail(s) \in Seq(S) /\ Head(s) \in S /\ Payloads(Tail(s)) = Payloads(s) - One(Head(s) = "payload")
  <2> HIDE DEF s
  <2> QED BY <1>1, <1>5, ReadIs
<1>7. Payloads(inflight'[p]) <= Buffer
  <2>1. Payloads(s) \in Nat /\ Payloads(s) <= Buffer
    BY <1>2, <1>5, PayloadsCounted, 0 \in Int DEF BeatTyped
  <2> HIDE DEF s, p
  <2> QED BY <1>3, <1>6, <2>1, HeartbeatConstants DEF One
<1>8. \A x \in Ends : Payloads(inflight'[x]) <= Buffer
  <2> HIDE DEF s, p
  <2> QED BY <1>2, <1>3, <1>7 DEF BeatTyped
<1>9. /\ inflight'[watch] \in Seq({"payload", "ping"})
      /\ inflight'[Peer(watch)] \in Seq({"payload", "pong"})
  <2>1. CASE e = watch
    <3> HIDE DEF s, p
    <3> QED BY <1>2, <1>3, <1>4, <1>6, <2>1 DEF BeatTyped
  <2>2. CASE e # watch
    <3> HIDE DEF s, p
    <3> QED BY <1>2, <1>3, <1>4, <1>6, <2>2 DEF BeatTyped
  <2> QED BY <2>1, <2>2
<1> QED BY <1>1, <1>3, <1>4, <1>6, <1>8, <1>9

LEMMA ReadTyped ==
  ASSUME BeatTyped, NEW e \in Ends, ReadFrame(e)
  PROVE  BeatTyped'
<1> DEFINE f == Head(inflight[Peer(e)])
<1>1. /\ outCh' = IF f = "ping" /\ e = D THEN [outCh EXCEPT ![D] = Append(@, "pong")] ELSE outCh
      /\ ponging' = (ponging \/ (f = "ping" /\ e = C))
      /\ pong' \in {0, pong} /\ proof' \in {0, proof}
      /\ moved' = IF f = "payload" THEN [moved EXCEPT ![Peer(e)] = TRUE] ELSE moved
      /\ UNCHANGED <<watch, pinging, hung, reaped>>
  BY DEF ReadFrame
<1>2. f \in IF e = watch THEN {"payload", "pong"} ELSE {"payload", "ping"}
  BY LinkAfterRead
<1>3. /\ watch \in Ends /\ D # C /\ Ends = {D, C} /\ Peer(e) \in Ends
  BY DEF BeatTyped, Ends, Peer, C, D
<1>4. /\ outCh' = [x \in Ends |-> outCh'[x]]
      /\ outCh'[C] \in Seq({"payload"})
      /\ outCh'[D] \in Seq(Backlog(watch))
  <2>1. CASE f = "ping" /\ e = D
    <3>1. watch # D
      BY <1>2, <2>1
    <3>2. outCh' = [outCh EXCEPT ![D] = Append(@, "pong")]
      BY <1>1, <2>1
    <3>3. outCh'[D] = Append(outCh[D], "pong") /\ outCh'[C] = outCh[C]
          /\ outCh' = [x \in Ends |-> outCh'[x]]
      BY <1>3, <3>2 DEF BeatTyped
    <3>4. outCh[D] \in Seq(Backlog(watch)) /\ "pong" \in Backlog(watch)
      BY <3>1 DEF BeatTyped, Backlog
    <3>5. outCh'[D] \in Seq(Backlog(watch))
      BY <3>3, <3>4
    <3> QED BY <3>1, <3>3, <3>5 DEF BeatTyped
  <2>2. CASE ~(f = "ping" /\ e = D)
    BY <1>1, <2>2 DEF BeatTyped
  <2> QED BY <2>1, <2>2
<1>5. ponging' \in BOOLEAN /\ (ponging' => watch = D)
  BY <1>1, <1>2, <1>3 DEF BeatTyped
<1>6. moved' \in [Ends -> BOOLEAN]
  BY <1>1, <1>3 DEF BeatTyped
<1> QED BY <1>1, <1>4, <1>5, <1>6, LinkAfterRead DEF BeatTyped, Peer

LEMMA TickTyped ==
  ASSUME BeatTyped, Tick
  PROVE  BeatTyped'
<1>1. proof' \in Nat /\ pong' \in Nat
  BY HeartbeatConstants DEF BeatTyped, Tick, Aged
<1>2. pinging' \in BOOLEAN /\ reaped' \in BOOLEAN /\ moved' \in [Ends -> BOOLEAN]
  BY DEF BeatTyped, Tick, Reaps, Expired
<1> QED BY <1>1, <1>2 DEF BeatTyped, Tick, Peer

-----------------------------------------------------------------------------
(* The clocks, by action.                                                   *)

Beat == IF watch = D THEN DaemonBeat ELSE ClientBeat

LEMMA EnqueueBeats ==
  ASSUME BeatTyped, Beat, NEW e \in Ends, Enqueue(e)
  PROVE  Beat'
<1>1. /\ outCh' = [outCh EXCEPT ![e] = Append(@, "payload")]
      /\ UNCHANGED <<watch, pinging, ponging, inflight, proof, pong, moved, hung, reaped>>
  BY DEF Enqueue
<1>2. Holds(outCh[D], "pong") => Holds(outCh'[D], "pong")
  <2>1. outCh'[D] = outCh[D] \/ outCh'[D] = Append(outCh[D], "payload")
    BY <1>1 DEF BeatTyped, Ends
  <2>2. outCh[D] \in Seq(Backlog(watch))
    BY DEF BeatTyped
  <2>3. Holds(outCh[D], "pong") => Holds(Append(outCh[D], "payload"), "pong")
    BY <2>2, PayloadAppended DEF Holds
  <2> QED BY <2>1, <2>3
<1>3. CASE watch = D
  BY <1>1, <1>3 DEF Beat, DaemonBeat, Stale
<1>4. CASE watch # D
  BY <1>1, <1>2, <1>4 DEF Beat, ClientBeat, Stale
<1> QED BY <1>3, <1>4

\* The links whose frames each clock depends on.
LEMMA LinkKinds ==
  ASSUME BeatTyped
  PROVE  /\ watch = D => /\ inflight[D] \in Seq({"payload", "ping"})
                         /\ inflight[C] \in Seq({"payload", "pong"})
         /\ watch # D => /\ inflight[C] \in Seq({"payload", "ping"})
                         /\ inflight[D] \in Seq({"payload", "pong"})
         /\ \A e \in Ends : Payloads(inflight[e]) \in Nat /\ Payloads(inflight[e]) <= Buffer
         /\ moved[D] \in BOOLEAN /\ moved[C] \in BOOLEAN
         /\ D \in Ends /\ C \in Ends /\ D # C /\ Stale \in Nat /\ (watch # D => watch = C)
<1>1. /\ watch = D => /\ inflight[D] \in Seq({"payload", "ping"})
                      /\ inflight[C] \in Seq({"payload", "pong"})
      /\ watch # D => /\ inflight[C] \in Seq({"payload", "ping"})
                      /\ inflight[D] \in Seq({"payload", "pong"})
      /\ D \in Ends /\ C \in Ends /\ D # C /\ (watch # D => watch = C)
  BY DEF BeatTyped, Peer, Ends, D, C
<1>2. ASSUME NEW e \in Ends
      PROVE  Payloads(inflight[e]) \in Nat /\ Payloads(inflight[e]) <= Buffer
  <2>1. PICK S : inflight[e] \in Seq(S)
    BY <1>1 DEF Ends
  <2> QED BY <2>1, PayloadsCounted, 0 \in Int DEF BeatTyped
<1>3. moved[D] \in BOOLEAN /\ moved[C] \in BOOLEAN /\ Stale \in Nat
  BY <1>1 DEF BeatTyped, Stale
<1> QED BY <1>1, <1>2, <1>3

LEMMA WritePingBeats ==
  ASSUME BeatTyped, Beat, WritePing
  PROVE  Beat'
<1>1. /\ Put(watch, "ping")
      /\ UNCHANGED <<watch, outCh, ponging, proof, pong, moved, hung, reaped>>
  BY DEF WritePing, Progress, CountsAsWrite
<1>2. /\ Peer(watch) \in Ends /\ "ping" \in {"payload", "ping"} /\ watch \in Ends
  BY TwoEnds DEF BeatTyped
<1>3. /\ inflight'[watch] = Taken(inflight[watch], "ping")
      /\ \A x \in Ends : x # watch => inflight'[x] = inflight[x]
  BY <1>1, <1>2, LinkAfterPut
<1>4. CASE watch = D
  <2>1. inflight[D] \in Seq({"payload", "ping"})
    BY <1>4, LinkKinds
  <2>2. /\ Holds(inflight'[D], "ping")
        /\ Payloads(inflight'[D]) = Payloads(inflight[D])
        /\ inflight'[C] = inflight[C]
    <3>1. inflight'[D] = Taken(inflight[D], "ping") /\ inflight'[C] = inflight[C]
      BY <1>3, <1>4, LinkKinds
    <3>2. Payloads(inflight[D]) \in Nat
      BY LinkKinds
    <3>3. /\ Holds(Taken(inflight[D], "ping"), "ping")
          /\ Payloads(Taken(inflight[D], "ping")) = Payloads(inflight[D]) + One("ping" = "payload")
      BY <1>2, <2>1, TakenIs
    <3> QED BY <3>1, <3>2, <3>3 DEF One
  <2> QED BY <1>1, <1>4, <2>2 DEF Beat, DaemonBeat, Stale
<1>5. CASE watch # D
  <2>1. inflight[C] \in Seq({"payload", "ping"}) /\ watch = C
    BY <1>5, LinkKinds
  <2>2. /\ Holds(inflight'[C], "ping")
        /\ \A k : NearIn(inflight[C], "ping", k) => NearIn(inflight'[C], "ping", k)
        /\ inflight'[D] = inflight[D]
    <3>1. inflight'[C] = Taken(inflight[C], "ping") /\ inflight'[D] = inflight[D]
      BY <1>3, <2>1, LinkKinds
    <3>2. /\ Holds(Taken(inflight[C], "ping"), "ping")
          /\ \A k : NearIn(inflight[C], "ping", k) => NearIn(Taken(inflight[C], "ping"), "ping", k)
      BY <1>2, <2>1, TakenIs
    <3> QED BY <3>1, <3>2
  <2> QED BY <1>1, <1>5, <2>2 DEF Beat, ClientBeat, Stale
<1> QED BY <1>4, <1>5

LEMMA WritePongBeats ==
  ASSUME BeatTyped, Beat, WritePong
  PROVE  Beat'
<1>1. /\ Put(C, "pong") /\ ponging
      /\ UNCHANGED <<watch, outCh, pinging, proof, pong, moved, hung, reaped>>
  BY DEF WritePong
<1>2. watch = D /\ Peer(watch) = C /\ C \in Ends /\ C # watch /\ Peer(watch) \in Ends
  BY <1>1 DEF BeatTyped, Peer, Ends, C, D
<1>3. /\ inflight'[C] = Taken(inflight[C], "pong") /\ inflight'[D] = inflight[D]
  BY <1>1, <1>2, LinkAfterPut, LinkKinds
<1>4. /\ Holds(inflight'[C], "pong")
      /\ \A k : NearIn(inflight[C], "pong", k) => NearIn(inflight'[C], "pong", k)
  <2>1. inflight[C] \in Seq({"payload", "pong"})
    BY <1>2, LinkKinds
  <2> QED BY <1>3, <2>1, TakenIs
<1> QED BY <1>1, <1>2, <1>3, <1>4 DEF Beat, DaemonBeat, Stale

LEMMA WriteNextBeats ==
  ASSUME BeatTyped, Beat, NEW e \in Ends, WriteNext(e)
  PROVE  Beat'
<1>0. PICK f : f = Head(outCh[e])
  OBVIOUS
<1>1. /\ Put(e, f) /\ outCh[e] # <<>> /\ (f = "payload" => HasRoom(e))
      /\ outCh' = [outCh EXCEPT ![e] = Tail(@)] /\ SlotsEmpty(e)
      /\ proof' = IF watch = D /\ e = D /\ f = "payload" THEN 0 ELSE proof
      /\ UNCHANGED <<watch, pinging, ponging, pong, moved, hung, reaped>>
  BY <1>0 DEF WriteNext, CanWrite, Progress, CountsAsWrite
<1>2. /\ e = C => f = "payload"
      /\ e = D => f \in Backlog(watch)
  BY <1>0, <1>1 DEF BeatTyped
<1>3. f \in (IF e = watch THEN {"payload", "ping"} ELSE {"payload", "pong"})
  BY <1>2 DEF Ends, Backlog
<1>4. /\ inflight'[e] = Taken(inflight[e], f)
      /\ \A x \in Ends : x # e => inflight'[x] = inflight[x]
  <2>1. Peer(watch) \in Ends
    BY TwoEnds DEF BeatTyped
  <2> QED BY <1>1, <1>3, <2>1, LinkAfterPut
<1>5. /\ \A g : Holds(inflight[e], g) => Holds(inflight'[e], g)
      /\ \A g, k : NearIn(inflight[e], g, k) => NearIn(inflight'[e], g, k)
      /\ Holds(inflight'[e], f)
  <2>1. PICK S : S = IF e = watch THEN {"payload", "ping"} ELSE {"payload", "pong"}
    OBVIOUS
  <2>2. inflight[e] \in Seq(S)
    BY <2>1, LinkKinds DEF Ends
  <2> QED BY <1>3, <1>4, <2>1, <2>2, TakenIs
<1>6. \A x \in Ends : /\ \A g : Holds(inflight[x], g) => Holds(inflight'[x], g)
                      /\ \A g, k : NearIn(inflight[x], g, k) => NearIn(inflight'[x], g, k)
  BY <1>4, <1>5
<1>7. CASE watch = D
  <2>1. CASE e = D
    <3>1. f = "payload"
      BY <1>2, <1>7, <2>1 DEF Backlog
    <3>2. proof' = 0
      BY <1>1, <1>7, <2>1, <3>1
    <3>3. Stale' = 0
      BY <1>1, <3>2 DEF Stale, BeatTyped
    <3> QED BY <1>1, <1>7, <3>2, <3>3, HeartbeatConstants DEF Beat, DaemonBeat
  <2>2. CASE e # D
    <3>1. inflight'[D] = inflight[D] /\ proof' = proof
      BY <1>1, <1>4, <2>2, LinkKinds
    <3>2. Stale' = Stale
      BY <1>1, <3>1 DEF Stale
    <3> QED BY <1>1, <1>6, <1>7, <3>1, <3>2, LinkKinds DEF Beat, DaemonBeat
  <2> QED BY <2>1, <2>2
<1>8. CASE watch # D
  <2>1. proof' = proof /\ Stale' = Stale
    BY <1>1, <1>8 DEF Stale
  <2>2. Holds(outCh[D], "pong") => Holds(outCh'[D], "pong") \/ Holds(inflight'[D], "pong")
    <3>1. CASE e = D
      <4>1. outCh[D] \in Seq(Backlog(watch)) /\ outCh'[D] = Tail(outCh[D])
        BY <1>1, <3>1 DEF BeatTyped
      <4>2. CASE f = "pong"
        BY <1>5, <3>1, <4>2
      <4>3. CASE f # "pong"
        BY <1>0, <1>1, <3>1, <4>1, <4>3, ReadIs
      <4> QED BY <4>2, <4>3
    <3>2. CASE e # D
      BY <1>1, <3>2 DEF BeatTyped, Ends
    <3> QED BY <3>1, <3>2
  <2> QED BY <1>1, <1>6, <1>8, <2>1, <2>2, LinkKinds DEF Beat, ClientBeat
<1> QED BY <1>7, <1>8

LEMMA NearLess ==
  ASSUME NEW S, NEW s \in Seq(S), NEW f, NEW k \in Int, NEW l \in Int, l <= k, NearIn(s, f, k)
  PROVE  NearIn(s, f, l)
<1>1. PICK j \in DOMAIN s : s[j] = f /\ Ahead(s, j) + k <= Buffer
  BY DEF NearIn
<1>2. Ahead(s, j) \in Nat
  <2>1. j \in Int
    OBVIOUS
  <2> QED BY <2>1, PayloadsCounted
<1>3. Ahead(s, j) + l <= Buffer
  BY <1>1, <1>2, HeartbeatConstants
<1> QED BY <1>1, <1>3 DEF NearIn

\* What a read of payload or token leaves of the link it is read from.
LEMMA ReadLeaves ==
  ASSUME NEW S, NEW s \in Seq(S), s # <<>>, NEW g, g # Head(s), NEW was \in BOOLEAN,
         NEW now, now = (was \/ Head(s) = "payload"), NEW age \in Int
  PROVE  /\ Holds(s, g) => Holds(Tail(s), g)
         /\ NearIn(s, g, age + One(was)) => NearIn(Tail(s), g, age + One(now))
<1>1. Holds(s, g) => Holds(Tail(s), g)
  BY ReadIs
<1>2. ASSUME NearIn(s, g, age + One(was))
      PROVE  NearIn(Tail(s), g, age + One(now))
  <2>1. PICK k, l : k = age + One(was) + One(Head(s) = "payload") /\ l = age + One(now)
    OBVIOUS
  <2>2. k \in Int /\ l \in Int /\ l <= k /\ age + One(was) \in Int
    BY <2>1 DEF One
  <2>3. NearIn(Tail(s), g, k) /\ Tail(s) \in Seq(S)
    BY <1>2, <2>1, <2>2, ReadIs
  <2> QED BY <2>1, <2>2, <2>3, NearLess
<1> QED BY <1>1, <1>2

LEMMA ReadBeats ==
  ASSUME BeatTyped, Beat, NEW e \in Ends, ReadFrame(e)
  PROVE  Beat'
<1>0. PICK f, s : s = inflight[Peer(e)] /\ f = Head(s)
  OBVIOUS
<1>1. /\ outCh' = IF f = "ping" /\ e = D THEN [outCh EXCEPT ![D] = Append(@, "pong")] ELSE outCh
      /\ ponging' = (ponging \/ (f = "ping" /\ e = C))
      /\ pong' = IF f = "pong" THEN 0 ELSE pong
      /\ moved' = IF f = "payload" THEN [moved EXCEPT ![Peer(e)] = TRUE] ELSE moved
      /\ proof' = IF e = C /\ watch = C THEN 0 ELSE proof
      /\ UNCHANGED <<watch, pinging, hung, reaped>>
  BY <1>0 DEF ReadFrame
<1>2. /\ inflight'[Peer(e)] = Tail(s) /\ inflight'[e] = inflight[e] /\ s # <<>>
      /\ f \in IF e = watch THEN {"payload", "pong"} ELSE {"payload", "ping"}
  BY <1>0, LinkAfterRead
<1>3. /\ Peer(D) = C /\ Peer(C) = D /\ D # C /\ (e = D \/ e = C)
      /\ D \in Ends /\ C \in Ends /\ Stale \in Nat
      /\ moved'[Peer(e)] = (moved[Peer(e)] \/ f = "payload") /\ moved'[e] = moved[e]
  BY <1>1, LinkKinds DEF BeatTyped, Peer, Ends
<1>4. CASE watch = D /\ e = D
  <2>1. s \in Seq({"payload", "pong"}) /\ s = inflight[C] /\ moved[C] \in BOOLEAN
    BY <1>0, <1>3, <1>4, LinkKinds
  <2>2. /\ proof' = proof /\ inflight'[D] = inflight[D] /\ moved'[D] = moved[D]
        /\ watch' = D /\ pinging' = pinging /\ (ponging => ponging')
    BY <1>1, <1>2, <1>3, <1>4
  <2>3. CASE f = "pong"
    <3>1. Stale' = 0
      BY <1>1, <2>2, <2>3 DEF Stale, BeatTyped
    <3>2. ~(Stale' >= 1) /\ ~(Stale' >= Buffer + 2)
      BY <3>1, HeartbeatConstants
    <3> QED BY <1>4, <2>2, <3>2 DEF Beat, DaemonBeat
  <2>4. CASE f = "payload"
    <3>1. Stale' = Stale
      BY <1>1, <2>2, <2>4 DEF Stale
    <3>2. PICK age : age = Stale - (Buffer + 2)
      OBVIOUS
    <3>3. age \in Int
      BY <1>3, <3>2, HeartbeatConstants
    <3>4. /\ Holds(inflight[C], "pong") => Holds(inflight'[C], "pong")
          /\ NearIn(inflight[C], "pong", age + One(moved[C])) =>
               NearIn(inflight'[C], "pong", age + One(moved'[C]))
      <4>1. PICK now : now = (moved[C] \/ Head(s) = "payload")
        OBVIOUS
      <4>2. moved'[C] = now
        BY <1>0, <1>3, <1>4, <4>1
      <4>3. "pong" # Head(s)
        BY <1>0, <2>4
      <4>4. /\ Holds(s, "pong") => Holds(Tail(s), "pong")
            /\ NearIn(s, "pong", age + One(moved[C])) => NearIn(Tail(s), "pong", age + One(now))
        BY <1>2, <2>1, <3>3, <4>1, <4>3, ReadLeaves
      <4> QED BY <1>2, <1>3, <1>4, <2>1, <4>2, <4>4
    <3> QED BY <1>4, <2>2, <3>1, <3>2, <3>4 DEF Beat, DaemonBeat
  <2> QED BY <1>2, <1>4, <2>3, <2>4
<1>5. CASE watch = D /\ e = C
  <2>1. s \in Seq({"payload", "ping"}) /\ s = inflight[D] /\ moved[D] \in BOOLEAN
    BY <1>0, <1>3, <1>5, LinkKinds
  <2>0. f \in {"payload", "ping"}
    BY <1>2, <1>3, <1>5
  <2>2. /\ proof' = proof /\ pong' = pong /\ inflight'[C] = inflight[C] /\ moved'[C] = moved[C]
        /\ inflight'[D] = Tail(s) /\ watch' = D /\ pinging' = pinging /\ (ponging => ponging')
        /\ moved'[D] = (moved[D] \/ f = "payload")
    <3>1. /\ proof' = proof /\ pong' = pong /\ watch' = D /\ pinging' = pinging
          /\ (ponging => ponging')
      BY <1>1, <1>3, <1>5, <2>0
    <3>2. /\ inflight'[C] = inflight[C] /\ inflight'[D] = Tail(s)
      BY <1>2, <1>3, <1>5
    <3>3. moved'[C] = moved[C] /\ moved'[D] = (moved[D] \/ f = "payload")
      BY <1>3, <1>5, Zenon
    <3> QED BY <3>1, <3>2, <3>3
  <2>7. Stale' = Stale
    BY <2>2 DEF Stale
  <2>3. Payloads(inflight[D]) \in Nat /\ proof \in Nat
    BY <1>3, LinkKinds DEF BeatTyped
  <2>4. Payloads(inflight'[D]) = Payloads(inflight[D]) - One(f = "payload")
    BY <1>0, <1>2, <2>1, <2>2, ReadIs
  <2>5. Payloads(inflight'[D]) > 0 /\ proof >= 1 =>
          Payloads(inflight'[D]) + proof + One(moved'[D]) <= Buffer + 1
    <3>1. Payloads(inflight[D]) > 0 /\ proof >= 1 =>
            Payloads(inflight[D]) + proof + One(moved[D]) <= Buffer + 1
      BY <1>5 DEF Beat, DaemonBeat
    <3>2. CASE f = "payload"
      BY <2>1, <2>2, <2>3, <2>4, <3>1, <3>2, HeartbeatConstants DEF One
    <3>3. CASE f # "payload"
      BY <2>1, <2>2, <2>3, <2>4, <3>1, <3>3, HeartbeatConstants DEF One
    <3> QED BY <3>2, <3>3
  <2>6. Holds(inflight[D], "ping") => Holds(inflight'[D], "ping") \/ ponging'
    <3>1. CASE f = "ping"
      BY <1>1, <1>5, <3>1
    <3>2. CASE f # "ping"
      BY <1>0, <1>2, <2>1, <2>2, <3>2, ReadIs
    <3> QED BY <3>1, <3>2
  <2> QED BY <1>5, <2>2, <2>7, <2>5, <2>6 DEF Beat, DaemonBeat
<1>6. CASE watch # D /\ e = C
  <2>1. proof' = 0 /\ Stale' = 0
    BY <1>1, <1>6, LinkKinds DEF Stale, BeatTyped
  <2> QED BY <1>1, <1>6, <2>1 DEF Beat, ClientBeat
<1>7. CASE watch # D /\ e = D
  <2>1. s \in Seq({"payload", "ping"}) /\ s = inflight[C] /\ moved[C] \in BOOLEAN
    BY <1>0, <1>3, <1>7, LinkKinds
  <2>2. f \in {"payload", "ping"}
    BY <1>2, <1>7
  <2>3. /\ proof' = proof /\ pong' = pong /\ inflight'[D] = inflight[D] /\ moved'[D] = moved[D]
        /\ inflight'[C] = Tail(s) /\ watch' = watch /\ pinging' = pinging
        /\ moved'[C] = (moved[C] \/ f = "payload")
    <3>1. proof' = proof /\ pong' = pong /\ watch' = watch /\ pinging' = pinging
      BY <1>1, <1>3, <1>7, <2>2
    <3>2. inflight'[D] = inflight[D] /\ inflight'[C] = Tail(s)
      BY <1>2, <1>3, <1>7
    <3>3. moved'[D] = moved[D] /\ moved'[C] = (moved[C] \/ f = "payload")
      BY <1>3, <1>7, Zenon
    <3> QED BY <3>1, <3>2, <3>3
  <2>6. Stale' = Stale
    BY <2>3 DEF Stale
  <2>4. CASE f = "ping"
    <3>1. outCh'[D] = Append(outCh[D], "pong") /\ outCh[D] \in Seq(Backlog(watch))
      BY <1>1, <1>3, <1>7, <2>4 DEF BeatTyped
    <3>2. Holds(outCh'[D], "pong")
      BY <3>1, PayloadAppended
    <3> QED BY <1>7, <2>3, <2>6, <3>2 DEF Beat, ClientBeat
  <2>5. CASE f = "payload"
    <3>1. outCh' = outCh
      BY <1>1, <2>5
    <3>2. PICK age, now : age = Stale - 2 /\ now = (moved[C] \/ Head(s) = "payload")
      OBVIOUS
    <3>3. age \in Int /\ moved'[C] = now /\ "ping" # Head(s)
      BY <1>0, <1>3, <2>3, <2>5, <3>2
    <3>4. /\ Holds(s, "ping") => Holds(Tail(s), "ping")
          /\ NearIn(s, "ping", age + One(moved[C])) => NearIn(Tail(s), "ping", age + One(now))
      BY <1>2, <2>1, <3>2, <3>3, ReadLeaves
    <3> QED BY <1>7, <2>1, <2>3, <2>6, <3>1, <3>2, <3>3, <3>4 DEF Beat, ClientBeat
  <2> QED BY <2>2, <2>4, <2>5
<1> QED BY <1>3, <1>4, <1>5, <1>6, <1>7

LEMMA NotHeld ==
  /\ \A f : ~Holds(<<>>, f)
  /\ Payloads(<<>>) = 0
<1>1. {i \in DOMAIN <<>> : <<>>[i] = "payload"} = {}
  OBVIOUS
<1>2. Payloads(<<>>) = 0
  BY <1>1, FS_EmptySet DEF Payloads
<1> QED BY <1>2 DEF Holds

\* What an interval leaves: slots empty, and links blocked by payload that moves.
LEMMA IntervalEnds ==
  ASSUME BeatTyped, hung = {}, Tick
  PROVE  /\ ~pinging /\ ~ponging
         /\ inflight[D] # <<>> => Head(inflight[D]) = "payload" /\ moved[D]
         /\ watch = D /\ inflight[C] # <<>> => Head(inflight[C]) = "payload" /\ moved[C]
         /\ inflight[D] = <<>> => outCh[D] = <<>>
         /\ inflight[C] # <<>> /\ outCh[D] = <<>> => Head(inflight[C]) = "payload" /\ moved[C]
<1>1. /\ Runs(D) /\ Runs(C) /\ Settled(D) /\ Settled(C) /\ Peer(D) = C /\ Peer(C) = D /\ D # C
  BY DEF Tick, Runs, Peer, C, D
<1>2. ~pinging /\ ~ponging
  BY <1>1, LinkKinds DEF Settled, SlotsEmpty
<1>3. inflight[D] # <<>> => Head(inflight[D]) = "payload" /\ moved[D]
  BY <1>1 DEF Settled, CanRead
<1>4. watch = D /\ inflight[C] # <<>> => Head(inflight[C]) = "payload" /\ moved[C]
  <2>1. ASSUME watch = D, inflight[C] # <<>>
        PROVE  CanRead(D)
    <3>1. inflight[C] \in Seq({"payload", "pong"})
      BY <2>1, LinkKinds
    <3>2. Head(inflight[C]) # "ping"
      BY <2>1, <3>1
    <3> QED BY <1>1, <2>1, <3>2 DEF CanRead
  <2> QED BY <1>1, <2>1 DEF Settled
<1>5. ASSUME inflight[D] = <<>>, outCh[D] # <<>>
      PROVE  FALSE
  <2>1. Payloads(inflight[D]) = 0
    BY <1>5, NotHeld
  <2>2. CanWrite(D)
    BY <1>1, <1>5, <2>1, HeartbeatConstants DEF CanWrite, HasRoom, Settled
  <2> QED BY <1>1, <2>2 DEF Settled
<1>6. ASSUME inflight[C] # <<>>, outCh[D] = <<>>
      PROVE  Head(inflight[C]) = "payload" /\ moved[C]
  <2>1. Len(outCh[D]) < OutCap
    BY <1>6, HeartbeatConstants
  <2>2. CanRead(D)
    BY <1>1, <1>6, <2>1 DEF CanRead
  <2> QED BY <1>1, <2>2 DEF Settled
<1> QED BY <1>2, <1>3, <1>4, <1>5, <1>6

\* The daemon's clocks at the end of an interval.
LEMMA DaemonTick ==
  ASSUME BeatTyped, DaemonBeat, watch = D, hung = {}, Tick
  PROVE  /\ Stale <= 2 * Buffer
         /\ Stale >= Buffer + 1 => Holds(inflight[C], "pong")
         /\ Stale >= Buffer + 2 => NearIn(inflight[C], "pong", Stale - (Buffer + 2) + 1)
<1>1. /\ inflight[D] \in Seq({"payload", "ping"}) /\ inflight[C] \in Seq({"payload", "pong"})
      /\ Payloads(inflight[D]) \in Nat /\ Stale \in Nat /\ proof \in Nat /\ Stale <= proof
  BY LinkKinds, HeartbeatConstants DEF BeatTyped, Stale
<1>2. ASSUME Stale >= Buffer + 1
      PROVE  Holds(inflight[C], "pong")
  <2>1. ~Holds(inflight[D], "ping")
    <3> SUFFICES ASSUME Holds(inflight[D], "ping") PROVE FALSE
      OBVIOUS
    <3>1. inflight[D] # <<>>
      BY NotHeld
    <3>2. Payloads(inflight[D]) >= 1 /\ moved[D]
      BY <1>1, <3>1, IntervalEnds, PayloadAhead
    <3>3. Payloads(inflight[D]) + proof + 1 <= Buffer + 1
      BY <1>1, <1>2, <3>2, HeartbeatConstants DEF DaemonBeat, One
    <3> QED BY <1>1, <1>2, <3>2, <3>3, HeartbeatConstants
  <2>2. Stale >= 1
    BY <1>1, <1>2, HeartbeatConstants
  <2> QED BY <2>1, <2>2, IntervalEnds DEF DaemonBeat
<1>3. ASSUME Stale >= Buffer + 2
      PROVE  /\ NearIn(inflight[C], "pong", Stale - (Buffer + 2) + 1)
             /\ Stale <= 2 * Buffer
  <2>1. Holds(inflight[C], "pong")
    BY <1>1, <1>2, <1>3, HeartbeatConstants
  <2>2. inflight[C] # <<>>
    BY <2>1, NotHeld
  <2>3. Head(inflight[C]) = "payload" /\ moved[C]
    BY <2>2, IntervalEnds
  <2>4. NearIn(inflight[C], "pong", Stale - (Buffer + 2) + 1)
    BY <1>3, <2>3 DEF DaemonBeat, One
  <2>5. PICK k \in Int : k = Stale - (Buffer + 2) + 1
    BY <1>1, HeartbeatConstants
  <2>6. k + 1 <= Buffer
    BY <1>1, <2>2, <2>3, <2>4, <2>5, PayloadAhead
  <2>7. Stale <= 2 * Buffer
    BY <1>1, <2>5, <2>6, HeartbeatConstants
  <2> QED BY <2>4, <2>7
<1>4. Stale <= 2 * Buffer
  BY <1>1, <1>3, HeartbeatConstants
<1> QED BY <1>2, <1>3, <1>4

\* The client's.
LEMMA ClientTick ==
  ASSUME BeatTyped, ClientBeat, watch # D, hung = {}, Tick
  PROVE  /\ Stale <= 2 * Buffer
         /\ Stale >= 1 => Holds(inflight[C], "ping")
         /\ Stale >= 2 => NearIn(inflight[C], "ping", Stale - 2 + 1)
<1>1. /\ inflight[C] \in Seq({"payload", "ping"}) /\ Stale \in Nat /\ proof \in Nat /\ Stale <= proof
  BY LinkKinds, HeartbeatConstants DEF BeatTyped, Stale
<1>2. ASSUME Stale >= 1
      PROVE  outCh[D] = <<>> /\ inflight[D] = <<>>
  <2>1. ~moved[D]
    BY <1>1, <1>2 DEF ClientBeat
  <2> QED BY <2>1, IntervalEnds
<1>3. ASSUME Stale >= 1
      PROVE  Holds(inflight[C], "ping")
  <2>1. ~pinging /\ ~Holds(outCh[D], "pong") /\ ~Holds(inflight[D], "pong")
    BY <1>2, <1>3, NotHeld, IntervalEnds
  <2> QED BY <1>3, <2>1 DEF ClientBeat
<1>4. ASSUME Stale >= 2
      PROVE  /\ NearIn(inflight[C], "ping", Stale - 2 + 1)
             /\ Stale <= 2 * Buffer
  <2>0. Stale >= 1
    BY <1>1, <1>4
  <2>1. ~Holds(outCh[D], "pong") /\ ~Holds(inflight[D], "pong") /\ outCh[D] = <<>>
    BY <1>2, <2>0, NotHeld
  <2>2. inflight[C] # <<>>
    BY <1>3, <2>0, NotHeld
  <2>3. Head(inflight[C]) = "payload" /\ moved[C]
    BY <2>1, <2>2, IntervalEnds
  <2>4. NearIn(inflight[C], "ping", Stale - 2 + 1)
    BY <1>4, <2>1, <2>3 DEF ClientBeat, One
  <2>5. PICK k \in Int : k = Stale - 2 + 1
    BY <1>1
  <2>6. k + 1 <= Buffer
    BY <1>1, <2>2, <2>3, <2>4, <2>5, PayloadAhead
  <2>7. Stale <= 2 * Buffer
    BY <1>1, <2>5, <2>6, HeartbeatConstants
  <2> QED BY <2>4, <2>7
<1>5. Stale <= 2 * Buffer
  BY <1>1, <1>4, HeartbeatConstants
<1> QED BY <1>3, <1>4, <1>5

LEMMA ClocksAge ==
  ASSUME BeatTyped, Tick
  PROVE  /\ Stale' \in Nat /\ Stale' <= Stale + 1 /\ proof' \in Nat /\ proof' <= proof + 1
         /\ Stale <= 2 * Buffer => ~Reaps
<1>1. proof \in Nat /\ pong \in Nat /\ proof' = Aged(proof) /\ pong' = Aged(pong)
  BY DEF BeatTyped, Tick
<1>2. \A a \in Nat : Aged(a) \in Nat /\ Aged(a) <= a + 1 /\ (Aged(a) > Window => a >= Window)
  BY HeartbeatConstants DEF Aged
<1>3. Stale' \in Nat /\ Stale' <= Stale + 1
  BY <1>1, <1>2 DEF Stale
<1>4. ASSUME Stale <= 2 * Buffer, Reaps
      PROVE  FALSE
  <2>1. proof >= Window /\ pong >= Window
    BY <1>1, <1>2, <1>4 DEF Reaps, Expired
  <2>2. Stale >= Window
    BY <1>1, <2>1 DEF Stale
  <2> QED BY <1>1, <1>4, <2>2, HeartbeatConstants DEF Stale
<1> QED BY <1>1, <1>2, <1>3, <1>4

\* A token gets closer by one an interval from the first on that it is late.
LEMMA NearNext ==
  ASSUME NEW S, NEW s \in Seq(S), NEW f, Payloads(s) <= Buffer,
         NEW from \in Nat, NEW a \in Nat, NEW b \in Nat, b <= a + 1, b >= from,
         a >= from - 1 => Holds(s, f),
         a >= from => NearIn(s, f, a - from + 1)
  PROVE  NearIn(s, f, b - from)
<1>1. CASE a >= from
  <2>1. a - from + 1 \in Int /\ b - from \in Int /\ b - from <= a - from + 1
    OBVIOUS
  <2> QED BY <1>1, <2>1, NearLess
<1>2. CASE a < from
  <2>1. b - from = 0 /\ a >= from - 1
    BY <1>2
  <2>2. NearIn(s, f, 0)
    BY <2>1, NearAtFirst
  <2> QED BY <2>1, <2>2
<1> QED BY <1>1, <1>2

LEMMA TickBeats ==
  ASSUME BeatTyped, Beat, hung = {}, Tick
  PROVE  Beat' /\ ~reaped'
<1>1. /\ UNCHANGED <<watch, outCh, ponging, inflight, hung>>
      /\ moved' = [x \in Ends |-> FALSE] /\ reaped' = Reaps
      /\ pinging' = (watch \notin hung /\ ~Reaps)
  BY DEF Tick
<1>2. PICK a, b, p, h \in Nat :
        /\ a = Stale /\ b = Stale' /\ p = proof /\ h = proof'
        /\ b <= a + 1 /\ h <= p + 1
  BY ClocksAge, LinkKinds DEF BeatTyped
<1>3. ~moved'[D] /\ ~moved'[C] /\ One(moved'[D]) = 0 /\ One(moved'[C]) = 0
  BY <1>1, LinkKinds DEF One
<1>4. CASE watch = D
  <2>1. DaemonBeat
    BY <1>4 DEF Beat
  <2>2. ~Reaps /\ pinging'
    BY <1>1, <1>4, <2>1, DaemonTick, ClocksAge
  <2>3. PICK n \in Nat : n = Payloads(inflight[D]) /\ n <= Buffer
    BY LinkKinds
  <2>4. n > 0 => n + h + 0 <= Buffer + 1
    <3> SUFFICES ASSUME n > 0 PROVE n + h + 0 <= Buffer + 1
      OBVIOUS
    <3>1. moved[D]
      BY <2>3, NotHeld, IntervalEnds
    <3>2. p >= 1 => n + p + 1 <= Buffer + 1
      BY <1>2, <2>1, <2>3, <3>1 DEF DaemonBeat, One
    <3> QED BY <1>2, <2>3, <3>2, HeartbeatConstants
  <2>5. PICK from \in Nat : from = Buffer + 2
    BY HeartbeatConstants
  <2>6. b >= from => NearIn(inflight[C], "pong", b - from + 0)
    <3> SUFFICES ASSUME b >= from PROVE NearIn(inflight[C], "pong", b - from + 0)
      OBVIOUS
    <3>1. /\ inflight[C] \in Seq({"payload", "pong"}) /\ Payloads(inflight[C]) <= Buffer
      BY <1>4, LinkKinds
    <3>2. from - 1 = Buffer + 1
      BY <2>5, HeartbeatConstants
    <3>3. /\ a >= from - 1 => Holds(inflight[C], "pong")
          /\ a >= from => NearIn(inflight[C], "pong", a - from + 1)
      BY <1>2, <1>4, <2>1, <2>5, <3>2, DaemonTick
    <3>4. NearIn(inflight[C], "pong", b - from)
      BY <1>2, <3>1, <3>3, NearNext
    <3>5. b - from + 0 = b - from
      OBVIOUS
    <3> QED BY <3>4, <3>5
  <2>7. DaemonBeat'
    BY <1>1, <1>2, <1>3, <2>2, <2>3, <2>4, <2>5, <2>6 DEF DaemonBeat
  <2> QED BY <1>1, <1>4, <2>2, <2>7 DEF Beat
<1>5. CASE watch # D
  <2>1. ClientBeat
    BY <1>5 DEF Beat
  <2>2. ~Reaps /\ pinging'
    BY <1>1, <1>5, <2>1, ClientTick, ClocksAge
  <2>3. b >= 2 => NearIn(inflight[C], "ping", b - 2 + 0)
    <3> SUFFICES ASSUME b >= 2 PROVE NearIn(inflight[C], "ping", b - 2 + 0)
      OBVIOUS
    <3>1. /\ inflight[C] \in Seq({"payload", "ping"}) /\ Payloads(inflight[C]) <= Buffer
      BY <1>5, LinkKinds
    <3>2. /\ a >= 2 - 1 => Holds(inflight[C], "ping")
          /\ a >= 2 => NearIn(inflight[C], "ping", a - 2 + 1)
      BY <1>2, <1>5, <2>1, ClientTick
    <3>3. NearIn(inflight[C], "ping", b - 2)
      BY <1>2, <3>1, <3>2, NearNext
    <3>4. b - 2 + 0 = b - 2
      OBVIOUS
    <3> QED BY <3>3, <3>4
  <2>4. ClientBeat'
    BY <1>1, <1>2, <1>3, <2>2, <2>3 DEF ClientBeat
  <2> QED BY <1>1, <1>5, <2>2, <2>4 DEF Beat
<1> QED BY <1>4, <1>5

-----------------------------------------------------------------------------
LEMMA BeatStep ==
  ASSUME BeatInv, [HNext]_hvars
  PROVE  BeatInv'
<1>0. BeatTyped /\ LiveNotReaped /\ (hung = {} => Beat)
  BY DEF BeatInv, Beat
<1>1. ASSUME NEW e \in Ends, Enqueue(e) \/ WriteNext(e) \/ ReadFrame(e)
      PROVE  BeatInv'
  <2>1. BeatTyped'
    BY <1>0, <1>1, EnqueueTyped, WriteNextTyped, ReadTyped
  <2>2. hung' = hung /\ reaped' = reaped /\ watch' = watch
    BY <1>1 DEF Enqueue, WriteNext, ReadFrame
  <2>3. hung = {} => Beat'
    BY <1>0, <1>1, EnqueueBeats, WriteNextBeats, ReadBeats
  <2> QED BY <1>0, <2>1, <2>2, <2>3 DEF BeatInv, Beat, LiveNotReaped, Peer
<1>2. ASSUME WritePing \/ WritePong
      PROVE  BeatInv'
  <2>1. BeatTyped'
    BY <1>0, <1>2, WritePingTyped, WritePongTyped
  <2>2. hung' = hung /\ reaped' = reaped /\ watch' = watch
    BY <1>2 DEF WritePing, WritePong
  <2>3. hung = {} => Beat'
    BY <1>0, <1>2, WritePingBeats, WritePongBeats
  <2> QED BY <1>0, <2>1, <2>2, <2>3 DEF BeatInv, Beat, LiveNotReaped, Peer
<1>3. ASSUME NEW e \in Ends, Hang(e)
      PROVE  BeatInv'
  <2>1. /\ hung' = {e} /\ ~reaped
        /\ UNCHANGED <<watch, outCh, pinging, ponging, inflight, proof, pong, moved, reaped>>
    BY <1>3 DEF Hang
  <2>2. BeatTyped'
    BY <1>0, <1>3, <2>1 DEF BeatTyped, Peer
  <2> QED BY <2>1, <2>2 DEF BeatInv, LiveNotReaped
<1>4. ASSUME Tick
      PROVE  BeatInv'
  <2>1. BeatTyped'
    BY <1>0, <1>4, TickTyped
  <2>2. ~reaped /\ hung' = hung /\ watch' = watch /\ (reaped' => watch \notin hung)
    BY <1>4 DEF Tick, Reaps
  <2>3. CASE hung = {}
    BY <1>0, <1>4, <2>1, <2>2, <2>3, TickBeats DEF BeatInv, Beat, LiveNotReaped
  <2>4. CASE hung # {}
    <3>1. reaped' => Peer(watch) \in hung
      BY <1>0, <2>2, <2>4 DEF BeatTyped, Ends, Peer
    <3> QED BY <2>1, <2>2, <2>4, <3>1 DEF BeatInv, LiveNotReaped, Peer
  <2> QED BY <2>3, <2>4
<1>5. ASSUME UNCHANGED hvars
      PROVE  BeatInv'
  BY <1>5 DEF BeatInv, BeatTyped, LiveNotReaped, DaemonBeat, ClientBeat, Stale, Peer, hvars
<1> QED BY <1>1, <1>2, <1>3, <1>4, <1>5 DEF HNext

LEMMA BeatInit ==
  ASSUME HInit
  PROVE  BeatInv
<1>1. /\ watch \in Ends /\ hung = {} /\ ~reaped /\ proof = 0 /\ pong = 0
      /\ pinging = FALSE /\ ponging = FALSE /\ reaped = FALSE
      /\ outCh = [e \in Ends |-> <<>>] /\ inflight = [e \in Ends |-> <<>>]
      /\ moved = [e \in Ends |-> FALSE] /\ D \in Ends /\ C \in Ends /\ Peer(watch) \in Ends
  BY DEF HInit, Ends, Peer
<1>2. \A S : <<>> \in Seq(S)
  OBVIOUS
<1>3. BeatTyped
  <2>1. /\ \A e \in Ends : outCh[e] = <<>> /\ inflight[e] = <<>>
        /\ outCh = [e \in Ends |-> outCh[e]] /\ inflight = [e \in Ends |-> inflight[e]]
    BY <1>1
  <2>2. \A e \in Ends : Payloads(inflight[e]) <= Buffer
    BY <2>1, NotHeld, HeartbeatConstants
  <2>3. moved \in [Ends -> BOOLEAN]
    BY <1>1
  <2>4. /\ outCh[C] \in Seq({"payload"}) /\ outCh[D] \in Seq(Backlog(watch))
        /\ inflight[watch] \in Seq({"payload", "ping"})
        /\ inflight[Peer(watch)] \in Seq({"payload", "pong"})
    BY <1>1, <1>2, <2>1
  <2> QED BY <1>1, <2>1, <2>2, <2>3, <2>4 DEF BeatTyped
<1>4. Stale = 0
  BY <1>1 DEF Stale
<1>5. ~(proof >= 1) /\ ~(Stale >= 1) /\ ~(Stale >= 2) /\ ~(Stale >= Buffer + 2)
  BY <1>1, <1>4, HeartbeatConstants
<1>6. DaemonBeat /\ ClientBeat
  BY <1>5 DEF DaemonBeat, ClientBeat
<1> QED BY <1>1, <1>3, <1>6 DEF BeatInv, LiveNotReaped

\* No end is reaped while it runs: for any window longer than two full buffers,
\* any queues and any backlog, ping and pong get through behind the payload
\* before both clocks run out (heartbeatLoop of the daemon and of the client).
THEOREM LiveIsNotReaped == HSpec => []LiveNotReaped
<1>1. HInit => BeatInv
  BY BeatInit
<1>2. BeatInv /\ [HNext]_hvars => BeatInv'
  BY BeatStep
<1>3. BeatInv => LiveNotReaped
  BY DEF BeatInv
<1> QED BY <1>1, <1>2, <1>3, PTL DEF HSpec
=============================================================================

---------------------------- MODULE DaemonProofs ----------------------------
(***************************************************************************)
(* What the daemon keeps for any number of viewers, agents, size requests  *)
(* and answers: the grid moves only for an edge, a repaint that is owed is *)
(* not forgotten, and a proposal is typed once.  And what a line of        *)
(* daemons keeps, each resuming what the one before it left, for any       *)
(* number of tabs, windows and daemons.                                    *)
(***************************************************************************)
EXTENDS TabSize, Proposals, CrashRestore, SessionProofs

-----------------------------------------------------------------------------
(* Every change of the grid is paid for.                                   *)

\* An edge pays for one reconciliation, which a deferred shrink carries on.
Busy == {g \in Goroutines : step[g].at \in {"pick", "apply"}}

EarnInv ==
  /\ flips \in Nat /\ edges \in Nat /\ shrinking \in BOOLEAN
  /\ step = [g \in Goroutines |-> step[g]]
  /\ IsFiniteSet(Busy)
  /\ flips + Cardinality(Busy) + (IF shrinking THEN 1 ELSE 0) <= edges

LEMMA BusyAfter ==
  ASSUME EarnInv, NEW g \in Goroutines, NEW s, step' = [step EXCEPT ![g] = s]
  PROVE  /\ step' = [h \in Goroutines |-> step'[h]]
         /\ IsFiniteSet(Busy') /\ Cardinality(Busy) \in Nat /\ Cardinality(Busy') \in Nat
         /\ Cardinality(Busy') =
              IF s.at \in {"pick", "apply"}
              THEN IF step[g].at \in {"pick", "apply"} THEN Cardinality(Busy)
                                                      ELSE Cardinality(Busy) + 1
              ELSE IF step[g].at \in {"pick", "apply"} THEN Cardinality(Busy) - 1
                                                      ELSE Cardinality(Busy)
<1>1. step' = [h \in Goroutines |-> IF h = g THEN s ELSE step[h]]
  BY DEF EarnInv
<1>2. Busy' = IF s.at \in {"pick", "apply"} THEN Busy \cup {g} ELSE Busy \ {g}
  BY <1>1 DEF Busy
<1>3. g \in Busy <=> step[g].at \in {"pick", "apply"}
  BY DEF Busy
<1>4. IsFiniteSet(Busy) /\ Cardinality(Busy) \in Nat
  BY FS_CardinalityType DEF EarnInv
<1>5. /\ IsFiniteSet(Busy \cup {g})
      /\ Cardinality(Busy \cup {g}) = IF g \in Busy THEN Cardinality(Busy)
                                                    ELSE Cardinality(Busy) + 1
  BY <1>4, FS_AddElement
<1>6. /\ IsFiniteSet(Busy \ {g})
      /\ Cardinality(Busy \ {g}) = IF g \in Busy THEN Cardinality(Busy) - 1
                                                 ELSE Cardinality(Busy)
  BY <1>4, FS_RemoveElement
<1>7. IsFiniteSet(Busy') /\ Cardinality(Busy') \in Nat
  BY <1>2, <1>5, <1>6, FS_CardinalityType
<1>8. step' = [h \in Goroutines |-> step'[h]]
  BY <1>1
<1> DEFINE before == step[g].at \in {"pick", "apply"}
           after == s.at \in {"pick", "apply"}
           c == Cardinality(Busy')
           b == Cardinality(Busy)
<1>9. c = IF after THEN (IF before THEN b ELSE b + 1)
                   ELSE (IF before THEN b - 1 ELSE b)
  <2>1. CASE after
    <3>1. c = Cardinality(Busy \cup {g})
      BY <1>2, <2>1
    <3> HIDE DEF after, before
    <3> QED BY <1>3, <1>5, <2>1, <3>1 DEF before
  <2>2. CASE ~after
    <3>1. c = Cardinality(Busy \ {g})
      BY <1>2, <2>2
    <3> HIDE DEF after, before
    <3> QED BY <1>3, <1>6, <2>2, <3>1 DEF before
  <2> QED BY <2>1, <2>2
<1>10. b \in Nat /\ c \in Nat
  BY <1>4, <1>7
<1> HIDE DEF b, c
<1>11. IsFiniteSet(Busy') /\ step' = [h \in Goroutines |-> step'[h]]
  BY <1>7, <1>8
<1> QED BY <1>9, <1>10, <1>11 DEF b, c

\* A read loop that changes nothing but where it is, and starts no
\* reconciliation or pays for it.
LEMMA LoopEarns ==
  ASSUME EarnInv, NEW g \in Goroutines, NEW s, step' = [step EXCEPT ![g] = s],
         UNCHANGED <<flips, shrinking>>,
         \/ edges' = edges /\ s.at \notin {"pick", "apply"}
         \/ edges' = edges /\ step[g].at \in {"pick", "apply"}
         \/ edges' = edges + 1
  PROVE  EarnInv'
<1> DEFINE b == Cardinality(Busy)
           c == Cardinality(Busy')
<1>1. /\ step' = [h \in Goroutines |-> step'[h]]
      /\ IsFiniteSet(Busy') /\ b \in Nat /\ c \in Nat
      /\ c = IF s.at \in {"pick", "apply"}
             THEN IF step[g].at \in {"pick", "apply"} THEN b ELSE b + 1
             ELSE IF step[g].at \in {"pick", "apply"} THEN b - 1 ELSE b
  BY BusyAfter
<1>2. flips + b + (IF shrinking THEN 1 ELSE 0) <= edges /\ flips \in Nat /\ edges \in Nat
      /\ shrinking \in BOOLEAN
  BY DEF EarnInv
<1> HIDE DEF b
<1>3. flips' + c + (IF shrinking' THEN 1 ELSE 0) <= edges'
  <2> HIDE DEF c
  <2> QED BY <1>1, <1>2
<1> QED BY <1>1, <1>2, <1>3 DEF EarnInv

LEMMA LoopsEarn ==
  ASSUME EarnInv, NEW v \in Viewers,
         \/ RepeatedRequest(v) \/ RecordSize(v) \/ Depart(v) \/ Type(v) \/ Claim(v)
         \/ ClaimCreated(v) \/ \E w \in Wants : ReadOwned(v, w)
  PROVE  EarnInv'
<1>1. v \in Goroutines
  BY DEF Goroutines
<1>2. CASE RepeatedRequest(v) \/ ClaimCreated(v) \/ Type(v) \/ \E w \in Wants : ReadOwned(v, w)
  <2>1. PICK s : /\ step' = [step EXCEPT ![v] = s] /\ s.at \notin {"pick", "apply"}
                 /\ UNCHANGED <<flips, shrinking, edges>>
    BY <1>2 DEF RepeatedRequest, ClaimCreated, Type, ReadOwned, Ready
  <2> QED BY <1>1, <2>1, LoopEarns
<1>3. CASE Depart(v) \/ Claim(v)
  BY <1>1, <1>3, LoopEarns DEF Depart, Claim
<1>4. CASE RecordSize(v)
  <2>1. edges' = edges + 1
    BY <1>4 DEF RecordSize, Repeated
  <2> QED BY <1>1, <1>4, <2>1, LoopEarns DEF RecordSize
<1> QED BY <1>2, <1>3, <1>4

LEMMA ReconcilesEarn ==
  ASSUME EarnInv, NEW g \in Goroutines,
         PickNone(g) \/ Pick(g) \/ Keep(g) \/ Defer(g) \/ Resize(g)
  PROVE  EarnInv'
<1>1. CASE PickNone(g) \/ Pick(g)
  <2>1. PICK s : /\ step' = [step EXCEPT ![g] = s] /\ step[g].at = "pick"
                 /\ UNCHANGED <<flips, shrinking, edges>>
    BY <1>1 DEF PickNone, Pick, At
  <2> QED BY <2>1, LoopEarns
<1>2. CASE Keep(g) \/ Defer(g) \/ Resize(g)
  <2> DEFINE b == Cardinality(Busy)
             c == Cardinality(Busy')
  <2>1. /\ step' = [step EXCEPT ![g] = Ready] /\ step[g].at = "apply" /\ edges' = edges
        /\ \/ flips' = flips /\ shrinking' \in BOOLEAN
           \/ flips' = flips + 1 /\ shrinking' = FALSE
    BY <1>2 DEF Keep, Defer, Resize, At
  <2>2. Ready.at = "idle"
    BY DEF Ready
  <2>3. /\ step' = [h \in Goroutines |-> step'[h]]
        /\ IsFiniteSet(Busy') /\ b \in Nat /\ c \in Nat /\ c = b - 1
    BY <2>1, <2>2, BusyAfter
  <2>4. flips + b + (IF shrinking THEN 1 ELSE 0) <= edges /\ flips \in Nat /\ edges \in Nat
        /\ shrinking \in BOOLEAN
    BY DEF EarnInv
  <2> HIDE DEF b
  <2>5. flips' + c + (IF shrinking' THEN 1 ELSE 0) <= edges'
    <3> HIDE DEF c
    <3> QED BY <2>1, <2>3, <2>4
  <2>6. flips' \in Nat /\ edges' \in Nat
    BY <2>1, <2>4
  <2>7. shrinking' \in BOOLEAN
    BY <2>1, Zenon
  <2> QED BY <2>3, <2>5, <2>6, <2>7 DEF EarnInv
<1> QED BY <1>1, <1>2

\* The timer takes over what the deferred shrink was paid for with.
LEMMA FireEarns ==
  ASSUME EarnInv, Fire
  PROVE  EarnInv'
<1> DEFINE b == Cardinality(Busy)
           c == Cardinality(Busy')
<1>1. /\ step' = [step EXCEPT ![Timer] = Picking(TRUE)] /\ step[Timer].at = "idle"
      /\ shrinking = TRUE /\ shrinking' = FALSE /\ UNCHANGED <<flips, edges>>
  BY DEF Fire, At, EarnInv
<1>2. Picking(TRUE).at = "pick" /\ Timer \in Goroutines
  BY DEF Picking, Goroutines
<1>3. /\ step' = [h \in Goroutines |-> step'[h]]
      /\ IsFiniteSet(Busy') /\ b \in Nat /\ c \in Nat /\ c = b + 1
  BY <1>1, <1>2, BusyAfter
<1>4. flips + b + 1 <= edges /\ flips \in Nat /\ edges \in Nat
  BY <1>1 DEF EarnInv
<1> HIDE DEF b
<1>5. flips' + c + 0 <= edges'
  <2> HIDE DEF c
  <2> QED BY <1>1, <1>3, <1>4
<1> QED BY <1>1, <1>3, <1>4, <1>5 DEF EarnInv

LEMMA NextEarns == EarnInv /\ [SNext]_svars => EarnInv'
<1> SUFFICES ASSUME EarnInv, [SNext]_svars PROVE EarnInv'
  OBVIOUS
<1>1. CASE \E w \in Wants : AgentResize(w)
  <2>1. /\ flips' = flips + 1 /\ edges' = edges + 1 /\ UNCHANGED <<step, shrinking>>
    BY <1>1 DEF AgentResize
  <2>2. Busy' = Busy /\ Cardinality(Busy) \in Nat
    BY <2>1, FS_CardinalityType DEF Busy, EarnInv
  <2> QED BY <2>1, <2>2 DEF EarnInv
<1>2. CASE \/ \E v \in Viewers : Subscribe(v) \/ Publish(v)
           \/ UNCHANGED svars
  <2>1. UNCHANGED <<step, shrinking, flips, edges>>
    BY <1>2 DEF Subscribe, Publish, svars
  <2>2. Busy' = Busy
    BY <2>1 DEF Busy
  <2> QED BY <2>1, <2>2 DEF EarnInv
<1>3. CASE \E v \in Viewers :
             \/ RepeatedRequest(v) \/ RecordSize(v) \/ Depart(v) \/ Type(v) \/ Claim(v)
             \/ ClaimCreated(v) \/ \E w \in Wants : ReadOwned(v, w)
  BY <1>3, LoopsEarn
<1>4. CASE \E g \in Goroutines : PickNone(g) \/ Pick(g) \/ Keep(g) \/ Defer(g) \/ Resize(g)
  BY <1>4, ReconcilesEarn
<1>5. CASE Fire
  BY <1>5, FireEarns
<1> QED BY <1>1, <1>2, <1>3, <1>4, <1>5 DEF SNext

LEMMA InitEarned == SInit => EarnInv
<1> SUFFICES ASSUME SInit PROVE EarnInv
  OBVIOUS
<1>1. /\ flips = 0 /\ edges = 0 /\ shrinking = FALSE
      /\ step = [g \in Goroutines |-> step[g]]
      /\ \A g \in Goroutines : step[g].at = "idle" \/ step[g].at = "created"
  BY DEF SInit, Ready
<1>2. Busy = {}
  BY <1>1 DEF Busy
<1>3. IsFiniteSet(Busy) /\ Cardinality(Busy) = 0
  BY <1>2, FS_EmptySet
<1>4. flips + Cardinality(Busy) + (IF shrinking THEN 1 ELSE 0) <= edges
  BY <1>1, <1>3
<1>5. flips \in Nat /\ edges \in Nat
  BY <1>1
<1>6. shrinking \in BOOLEAN
  BY <1>1, Zenon
<1> QED BY <1>1, <1>3, <1>4, <1>5, <1>6 DEF EarnInv

\* However many viewers ask for their own size again and again, the grid has
\* changed at most as often as someone did something that may change it: no
\* viewer that is not the owner ever moves it, and a deferred shrink is applied
\* once (handleResize, reconcileTabSizeSettled and deferShrink).
THEOREM GridFlipsAreEarned == SSpec => []FlipsAreEarned
<1>1. EarnInv => FlipsAreEarned
  <2> SUFFICES ASSUME EarnInv PROVE FlipsAreEarned
    OBVIOUS
  <2>1. Cardinality(Busy) \in Nat
    BY FS_CardinalityType DEF EarnInv
  <2> QED BY <2>1 DEF EarnInv, FlipsAreEarned
<1> QED BY <1>1, InitEarned, NextEarns, PTL DEF SSpec

-----------------------------------------------------------------------------
(* A repaint that is owed.                                                 *)

Pair == Nat \X Nat
Grids == (1..MaxDim) \X (1..MaxDim)

SizeTypes ==
  /\ grid \in Grids
  /\ sub \in [Viewers -> [want : Pair, seq : Nat, on : BOOLEAN]]
  /\ resizeSeq \in Nat /\ resizeSeq >= SizeOwnerSeq
  /\ \A v \in Viewers : sub[v].seq <= resizeSeq
  /\ shipped \in [Viewers -> Pair] /\ held \in [Viewers -> Pair]
  /\ wake \in [Viewers -> BOOLEAN] /\ resync \in [Viewers -> BOOLEAN]
  /\ shrinking \in BOOLEAN

StepTypes ==
  /\ step = [g \in Goroutines |-> step[g]]
  /\ \A v \in Viewers : At(v, "resize") => step[v].want \in Wants
  /\ \A g \in Goroutines : At(g, "apply") => step[g].size \in Grids
  /\ \A v \in Viewers :
       step[v].at \in {"idle", "created", "claim", "resize", "pick", "apply"}
  /\ At(Timer, "idle") \/ (step[Timer].at \in {"pick", "apply"} /\ step[Timer].settled = TRUE)

\* The mirror of v shows all that fits of the published grid.
Fits(v) == LET seen == Common(sub[v].want, shipped[v]) IN Common(seen, held[v]) = seen

\* v asked for another size, and its read loop is about to record it.
Asking(v) == At(v, "resize") /\ step[v].want # sub[v].want

\* What is true of each viewer.  A torn mirror is due a resync, and something is
\* going to publish it; and who never claimed the grid, and so cannot be the one
\* the settled shrink is measured against, has no torn mirror: that is why the
\* timer that finds no winner may go back to sleep without waking anyone.
ViewerInv(v) ==
  /\ wake[v] \/ resync[v] \/ Sized(v) => sub[v].on
  /\ step[v].at \in {"resize", "created", "claim"} => sub[v].on
  /\ At(v, "created") => ~Sized(v)
  /\ sub[v].on /\ ~Sized(v) =>
       \/ held[v] = shipped[v]
       \/ At(v, "resize") /\ held[v] = Common(shipped[v], step[v].want)
  /\ Carried /\ sub[v].seq = 0 => Fits(v) \/ Asking(v)
  /\ \/ Fits(v) \/ Asking(v)
     \/ resync[v] /\ (wake[v] \/ shrinking \/ ~At(Timer, "idle"))

MirrorInv == SizeTypes /\ StepTypes /\ \A v \in Viewers : ViewerInv(v)

-----------------------------------------------------------------------------
(* Grids.                                                                  *)

LEMMA CommonFacts ==
  ASSUME NEW a \in Pair, NEW b \in Pair, NEW c \in Pair
  PROVE  /\ Common(a, b) \in Pair
         /\ Common(Common(a, b), b) = Common(a, b)
         /\ Common(Common(a, b), Common(b, a)) = Common(a, b)
         /\ Common(Common(a, b), c) = Common(a, b)
              => Common(Common(a, b), Common(c, a)) = Common(a, b)
         /\ Common(Common(Unset, b), c) = Common(Unset, b)
<1>0. \A p \in Pair : \E x, y \in Nat : p = <<x, y>>
  BY DEF Pair
<1>1. PICK a1, a2, b1, b2, c1, c2 \in Nat :
        a = <<a1, a2>> /\ b = <<b1, b2>> /\ c = <<c1, c2>>
  BY <1>0
<1> DEFINE m(x, y) == IF x < y THEN x ELSE y
<1>2. \A x, y \in Nat : m(x, y) \in Nat
  OBVIOUS
<1>3. \A x1, x2, y1, y2 : Common(<<x1, x2>>, <<y1, y2>>) = <<m(x1, y1), m(x2, y2)>>
  BY DEF Common
<1>4. \A x, y \in Nat : m(m(x, y), y) = m(x, y) /\ m(m(x, y), m(y, x)) = m(x, y)
                        /\ m(m(0, x), y) = m(0, x)
  OBVIOUS
<1>5. \A x, y, z \in Nat : m(m(x, y), z) = m(x, y) => m(m(x, y), m(z, x)) = m(x, y)
  OBVIOUS
<1> HIDE DEF m
<1>6. Common(a, b) = <<m(a1, b1), m(a2, b2)>> /\ Common(a, b) \in Pair
  <2>1. Common(a, b) = <<m(a1, b1), m(a2, b2)>>
    BY <1>1, <1>3
  <2>2. m(a1, b1) \in Nat /\ m(a2, b2) \in Nat
    BY <1>2
  <2> QED BY <2>1, <2>2 DEF Pair
<1>7. Common(Common(a, b), b) = Common(a, b)
  BY <1>1, <1>3, <1>4, <1>6
<1>8. Common(Common(a, b), Common(b, a)) = Common(a, b)
  BY <1>1, <1>3, <1>4, <1>6
<1>9. Common(Common(a, b), c) = Common(a, b)
              => Common(Common(a, b), Common(c, a)) = Common(a, b)
  <2>1. Common(Common(a, b), c) = <<m(m(a1, b1), c1), m(m(a2, b2), c2)>>
    BY <1>1, <1>3, <1>6
  <2>2. Common(Common(a, b), Common(c, a)) = <<m(m(a1, b1), m(c1, a1)), m(m(a2, b2), m(c2, a2))>>
    BY <1>1, <1>3, <1>6
  <2> QED BY <1>5, <1>6, <2>1, <2>2
<1>10. Common(Common(Unset, b), c) = Common(Unset, b)
  BY <1>1, <1>3, <1>4 DEF Unset
<1> QED BY <1>6, <1>7, <1>8, <1>9, <1>10

LEMMA ClampFits == ASSUME NEW a \in Pair PROVE Clamp(a) \in Grids
<1>1. PICK a1 \in Nat, a2 \in Nat : a = <<a1, a2>>
  BY DEF Pair
<1> DEFINE d(n) == IF n < 1 THEN 1 ELSE IF n > MaxDim THEN MaxDim ELSE n
<1>2. \A n \in Nat : d(n) \in 1..MaxDim
  BY TabSizeConstants
<1>3. Clamp(a) = <<d(a1), d(a2)>>
  BY <1>1 DEF Clamp
<1> HIDE DEF d
<1> QED BY <1>2, <1>3 DEF Grids

LEMMA PairsTyped ==
  /\ Grids \subseteq Pair /\ Wants \subseteq Pair /\ Unset \in Pair
  /\ Unset \notin Wants /\ Unset \notin Grids
<1>1. (1..MaxDim) \subseteq Nat \ {0}
  BY TabSizeConstants
<1>2. Unset = <<0, 0>>
  BY DEF Unset
<1> QED BY <1>1, <1>2, TabSizeConstants DEF Pair, Grids

\* Some viewer has the highest stamp of those that asked for a size.
LEMMA SomeoneWins ==
  ASSUME SizeTypes, NEW v \in Viewers, Sized(v)
  PROVE  /\ Winners # {}
         /\ \A u \in Winners : sub[v].seq <= sub[u].seq
<1> DEFINE sized == {u \in Viewers : Sized(u)}
           gap == {resizeSeq - sub[u].seq : u \in sized}
<1>1. \A u \in Viewers : sub[u].seq \in Nat /\ sub[u].seq <= resizeSeq /\ resizeSeq \in Nat
  BY DEF SizeTypes
<1>2. gap \subseteq Nat /\ gap # {}
  BY <1>1
<1>3. Min(gap) \in gap /\ \A y \in gap : Min(gap) <= y
  <2> HIDE DEF gap
  <2> QED BY <1>2, MinFacts
<1>4. PICK u \in sized : \A y \in gap : resizeSeq - sub[u].seq <= y
  BY <1>3
<1>5. ASSUME NEW x \in sized PROVE sub[x].seq <= sub[u].seq
  <2>1. resizeSeq - sub[u].seq <= resizeSeq - sub[x].seq
    BY <1>4
  <2> QED BY <1>1, <2>1
<1>6. u \in Winners
  BY <1>5 DEF Winners
<1> QED BY <1>6 DEF Winners

-----------------------------------------------------------------------------
(* Types.                                                                  *)

Subscription == [want : Pair, seq : Nat, on : BOOLEAN]

\* One viewer's subscription changes.
LEMMA OneSubChanges ==
  ASSUME SizeTypes, NEW v \in Viewers, NEW r \in Subscription,
         sub' = [sub EXCEPT ![v] = r],
         resizeSeq' \in Nat, resizeSeq <= resizeSeq', r.seq <= resizeSeq'
  PROVE  /\ sub' \in [Viewers -> Subscription]
         /\ \A u \in Viewers : sub'[u].seq <= resizeSeq'
         /\ resizeSeq' >= SizeOwnerSeq
<1>1. sub \in [Viewers -> Subscription] /\ resizeSeq \in Nat /\ SizeOwnerSeq \in Nat
      /\ resizeSeq >= SizeOwnerSeq
  BY DEF SizeTypes, Subscription, SizeOwnerSeq
<1>2. sub' \in [Viewers -> Subscription]
  BY <1>1
<1>3. ASSUME NEW u \in Viewers PROVE sub'[u].seq <= resizeSeq'
  <2>1. CASE u = v
    BY <1>1, <2>1
  <2>2. CASE u # v
    <3>1. sub'[u] = sub[u] /\ sub[u].seq \in Nat /\ sub[u].seq <= resizeSeq
      BY <1>1, <2>2 DEF SizeTypes
    <3> QED BY <1>1, <3>1
  <2> QED BY <2>1, <2>2
<1> QED BY <1>1, <1>2, <1>3

\* What its fields become.
Records(v, w, n) == sub' = [sub EXCEPT ![v].want = w, ![v].seq = n]
Stamps(v, n) == sub' = [sub EXCEPT ![v].seq = n]

LEMMA Recorded ==
  ASSUME SizeTypes, NEW v \in Viewers, NEW w, NEW n, Records(v, w, n)
  PROVE  sub' = [sub EXCEPT ![v] = [want |-> w, seq |-> n, on |-> sub[v].on]]
<1> DEFINE sized == [sub[v] EXCEPT !.want = w]
           both == [sized EXCEPT !.seq = n]
<1>1. sub[v] = [want |-> sub[v].want, seq |-> sub[v].seq, on |-> sub[v].on]
      /\ sub = [u \in Viewers |-> sub[u]]
  BY DEF SizeTypes
<1>2. sized = [want |-> w, seq |-> sub[v].seq, on |-> sub[v].on]
  BY <1>1
<1>3. sub' = [sub EXCEPT ![v] = both]
  BY <1>1 DEF Records
<1> HIDE DEF sized
<1>4. both = [want |-> w, seq |-> n, on |-> sub[v].on]
  BY <1>2
<1> HIDE DEF both
<1> QED BY <1>3, <1>4

LEMMA Stamped ==
  ASSUME SizeTypes, NEW v \in Viewers, NEW n, Stamps(v, n)
  PROVE  sub' = [sub EXCEPT ![v] = [want |-> sub[v].want, seq |-> n, on |-> sub[v].on]]
<1> DEFINE both == [sub[v] EXCEPT !.seq = n]
<1>1. sub[v] = [want |-> sub[v].want, seq |-> sub[v].seq, on |-> sub[v].on]
      /\ sub = [u \in Viewers |-> sub[u]]
  BY DEF SizeTypes
<1>2. both = [want |-> sub[v].want, seq |-> n, on |-> sub[v].on]
  BY <1>1
<1>3. sub' = [sub EXCEPT ![v] = both]
  BY <1>1 DEF Stamps
<1> HIDE DEF both
<1> QED BY <1>2, <1>3

LEMMA NextSizeTyped == SizeTypes /\ StepTypes /\ [SNext]_svars => SizeTypes'
<1> SUFFICES ASSUME SizeTypes, StepTypes, [SNext]_svars PROVE SizeTypes'
  OBVIOUS
<1>1. ASSUME NEW v \in Viewers, Subscribe(v) \/ Depart(v) PROVE SizeTypes'
  <2>1. NoSub \in Subscription /\ NoSub.seq = 0
        /\ [NoSub EXCEPT !.on = TRUE] \in Subscription /\ [NoSub EXCEPT !.on = TRUE].seq = 0
    BY PairsTyped DEF NoSub, Subscription
  <2>2. PICK r \in Subscription : r.seq = 0 /\ sub' = [sub EXCEPT ![v] = r]
    BY <1>1, <2>1 DEF Subscribe, Depart
  <2>3. UNCHANGED <<grid, resizeSeq, shrinking>>
    BY <1>1 DEF Subscribe, Depart
  <2>4. wake' \in [Viewers -> BOOLEAN] /\ resync' \in [Viewers -> BOOLEAN]
    BY <1>1 DEF Subscribe, Depart, SizeTypes
  <2>5. shipped' \in [Viewers -> Pair] /\ held' \in [Viewers -> Pair]
    <3>1. CASE Subscribe(v)
      BY <3>1, PairsTyped DEF Subscribe, SizeTypes
    <3>2. CASE Depart(v)
      BY <3>2, PairsTyped DEF Depart, SizeTypes
    <3> QED BY <1>1, <3>1, <3>2
  <2>6. resizeSeq' \in Nat /\ resizeSeq <= resizeSeq' /\ 0 <= resizeSeq'
    BY <2>3 DEF SizeTypes
  <2>7. /\ sub' \in [Viewers -> Subscription]
        /\ \A u \in Viewers : sub'[u].seq <= resizeSeq'
        /\ resizeSeq' >= SizeOwnerSeq
    BY <2>2, <2>6, OneSubChanges
  <2> QED BY <2>3, <2>4, <2>5, <2>6, <2>7 DEF SizeTypes, SizeOwnerSeq, Subscription
<1>2. ASSUME NEW v \in Viewers, NEW w \in Wants, ReadOwned(v, w) PROVE SizeTypes'
  <2>1. Common(held[v], w) \in Pair
    BY CommonFacts, PairsTyped DEF SizeTypes
  <2> QED BY <1>2, <2>1 DEF ReadOwned, SizeTypes, SizeOwnerSeq
<1>3. ASSUME NEW v \in Viewers, RecordSize(v) PROVE SizeTypes'
  <2>1. step[v].want \in Pair
    BY <1>3, PairsTyped DEF RecordSize, StepTypes
  <2>2. PICK n \in {sub[v].seq, resizeSeq + 1} :
          /\ Records(v, step[v].want, n)
          /\ resizeSeq' = IF n = resizeSeq + 1 THEN resizeSeq + 1 ELSE resizeSeq
    <3>1. CASE Sized(v) \/ ~step[v].owned
      BY <1>3, <3>1 DEF RecordSize, Records
    <3>2. CASE ~(Sized(v) \/ ~step[v].owned)
      <4>1. sub[v].seq # resizeSeq + 1
        BY DEF SizeTypes
      <4>2. Records(v, step[v].want, sub[v].seq) /\ resizeSeq' = resizeSeq
        BY <1>3, <3>2 DEF RecordSize, Records
      <4> QED BY <4>1, <4>2
    <3> QED BY <3>1, <3>2
  <2>3. /\ n \in Nat /\ resizeSeq' \in Nat /\ resizeSeq <= resizeSeq' /\ n <= resizeSeq'
    BY <2>2 DEF SizeTypes
  <2>4. sub' = [sub EXCEPT ![v] = [want |-> step[v].want, seq |-> n, on |-> sub[v].on]]
    BY <2>2, Recorded
  <2>5. [want |-> step[v].want, seq |-> n, on |-> sub[v].on] \in Subscription
    BY <2>1, <2>3 DEF SizeTypes, Subscription
  <2>6. /\ sub' \in [Viewers -> Subscription]
        /\ \A u \in Viewers : sub'[u].seq <= resizeSeq'
        /\ resizeSeq' >= SizeOwnerSeq
    BY <2>3, <2>4, <2>5, OneSubChanges
  <2>7. /\ UNCHANGED <<grid, shrinking, shipped, held>>
        /\ wake' \in [Viewers -> BOOLEAN] /\ resync' \in [Viewers -> BOOLEAN]
    BY <1>3 DEF RecordSize, SizeTypes
  <2> QED BY <2>3, <2>6, <2>7 DEF SizeTypes, SizeOwnerSeq, Subscription
<1>4. ASSUME NEW v \in Viewers, Claim(v) \/ ClaimCreated(v) PROVE SizeTypes'
  <2>1. /\ resizeSeq' = resizeSeq + 1
        /\ UNCHANGED <<grid, shrinking, wake, resync, shipped, held>>
    BY <1>4 DEF Claim, ClaimCreated
  <2>2. PICK w \in {sub[v].want, grid} :
          sub' = [sub EXCEPT ![v] = [want |-> w, seq |-> resizeSeq + 1, on |-> sub[v].on]]
    <3>1. CASE Claim(v)
      <4> DEFINE n == resizeSeq + 1
      <4>1. Stamps(v, n)
        BY <3>1, Zenon DEF Claim, Stamps
      <4> HIDE DEF n
      <4>2. sub' = [sub EXCEPT ![v] = [want |-> sub[v].want, seq |-> n, on |-> sub[v].on]]
        BY <4>1, Stamped
      <4> QED BY <4>2 DEF n
    <3>2. CASE ClaimCreated(v)
      <4> DEFINE n == resizeSeq + 1
      <4>1. Records(v, grid, n)
        BY <3>2, Zenon DEF ClaimCreated, Records
      <4> HIDE DEF n
      <4>2. sub' = [sub EXCEPT ![v] = [want |-> grid, seq |-> n, on |-> sub[v].on]]
        BY <4>1, Recorded
      <4> QED BY <4>2 DEF n
    <3> QED BY <1>4, <3>1, <3>2
  <2>3. resizeSeq' \in Nat /\ resizeSeq <= resizeSeq' /\ resizeSeq + 1 <= resizeSeq'
    BY <2>1 DEF SizeTypes
  <2>4. w \in Pair
    BY PairsTyped DEF SizeTypes
  <2>5. [want |-> w, seq |-> resizeSeq + 1, on |-> sub[v].on] \in Subscription
    BY <2>1, <2>3, <2>4 DEF SizeTypes, Subscription
  <2>6. /\ sub' \in [Viewers -> Subscription]
        /\ \A u \in Viewers : sub'[u].seq <= resizeSeq'
        /\ resizeSeq' >= SizeOwnerSeq
    BY <2>2, <2>3, <2>5, OneSubChanges
  <2> QED BY <2>1, <2>3, <2>6 DEF SizeTypes, SizeOwnerSeq, Subscription
<1>5. ASSUME NEW g \in Goroutines, Keep(g) \/ Resize(g) \/ Defer(g) PROVE SizeTypes'
  <2>1. /\ grid' \in Grids /\ shrinking' \in BOOLEAN /\ wake' \in [Viewers -> BOOLEAN]
        /\ UNCHANGED <<sub, resizeSeq, resync, shipped, held>>
    BY <1>5 DEF Keep, Resize, Defer, Release, WakeAll, StepTypes, SizeTypes
  <2> QED BY <2>1 DEF SizeTypes, SizeOwnerSeq
<1>6. ASSUME NEW w \in Wants, AgentResize(w) PROVE SizeTypes'
  <2>1. Clamp(w) \in Grids
    BY ClampFits, PairsTyped
  <2> QED BY <1>6, <2>1 DEF AgentResize, WakeAll, SizeTypes, SizeOwnerSeq
<1>7. ASSUME NEW v \in Viewers, Publish(v) PROVE SizeTypes'
  <2>1. grid \in Pair
    BY PairsTyped DEF SizeTypes
  <2> QED BY <1>7, <2>1 DEF Publish, SizeTypes, SizeOwnerSeq
<1>8. CASE Fire
  BY <1>8 DEF Fire, SizeTypes, SizeOwnerSeq
<1>9. CASE \/ \E v \in Viewers : RepeatedRequest(v) \/ Type(v)
           \/ \E g \in Goroutines : PickNone(g) \/ Pick(g)
           \/ UNCHANGED svars
  <2>1. UNCHANGED <<grid, sub, resizeSeq, shrinking, wake, resync, shipped, held>>
    BY <1>9 DEF RepeatedRequest, Type, PickNone, Pick, svars
  <2> QED BY <2>1 DEF SizeTypes, SizeOwnerSeq
<1> QED BY <1>1, <1>2, <1>3, <1>4, <1>5, <1>6, <1>7, <1>8, <1>9 DEF SNext

\* One goroutine moves to a place that is one of its own.
LEMMA MovedStep ==
  ASSUME StepTypes, NEW g \in Goroutines, NEW s, step' = [step EXCEPT ![g] = s],
         g \in Viewers => s.at \in {"idle", "created", "claim", "resize", "pick", "apply"},
         s.at = "resize" => s.want \in Wants,
         s.at = "apply" => s.size \in Grids,
         g = Timer => s.at = "idle" \/ (s.at \in {"pick", "apply"} /\ s.settled = TRUE)
  PROVE  StepTypes'
<1>1. step' = [h \in Goroutines |-> step'[h]] /\ step'[g] = s
      /\ \A h \in Goroutines \ {g} : step'[h] = step[h]
  BY DEF StepTypes
<1>2. Viewers \subseteq Goroutines /\ Timer \in Goroutines
  BY DEF Goroutines
<1>3. \A v \in Viewers : At(v, "resize")' => step'[v].want \in Wants
  BY <1>1, <1>2 DEF StepTypes, At
<1>4. \A h \in Goroutines : At(h, "apply")' => step'[h].size \in Grids
  BY <1>1 DEF StepTypes, At
<1>5. \A v \in Viewers :
        step'[v].at \in {"idle", "created", "claim", "resize", "pick", "apply"}
  BY <1>1, <1>2 DEF StepTypes
<1>6. At(Timer, "idle")' \/ (step'[Timer].at \in {"pick", "apply"} /\ step'[Timer].settled = TRUE)
  BY <1>1, <1>2 DEF StepTypes, At
<1> QED BY <1>1, <1>3, <1>4, <1>5, <1>6 DEF StepTypes

LEMMA NextStepTyped == SizeTypes /\ StepTypes /\ [SNext]_svars => StepTypes'
<1> SUFFICES ASSUME SizeTypes, StepTypes, [SNext]_svars PROVE StepTypes'
  OBVIOUS
<1>0. Viewers \subseteq Goroutines /\ Timer \in Goroutines /\ Timer \notin Viewers
  BY TabSizeConstants DEF Goroutines
<1>1. ASSUME NEW v \in Viewers,
             \/ RepeatedRequest(v) \/ RecordSize(v) \/ Depart(v) \/ Type(v) \/ Claim(v)
             \/ ClaimCreated(v) \/ \E w \in Wants : ReadOwned(v, w)
      PROVE  StepTypes'
  <2>1. \/ step' = [step EXCEPT ![v] = Ready]
        \/ step' = [step EXCEPT ![v] = [at |-> "claim"]]
        \/ step' = [step EXCEPT ![v] = Picking(FALSE)]
        \/ \E w \in Wants : step' =
             [step EXCEPT ![v] = [at |-> "resize", want |-> w, owned |-> MaxSeq > 0]]
    BY <1>1 DEF RepeatedRequest, RecordSize, Depart, Type, Claim, ClaimCreated, ReadOwned
  <2>2. /\ Ready.at = "idle" /\ [at |-> "claim"].at = "claim" /\ Picking(FALSE).at = "pick"
        /\ \A w \in Wants : \A b :
             /\ [at |-> "resize", want |-> w, owned |-> b].at = "resize"
             /\ [at |-> "resize", want |-> w, owned |-> b].want = w
    BY DEF Ready, Picking
  <2>3. PICK s : /\ step' = [step EXCEPT ![v] = s]
                 /\ s.at \in {"idle", "claim", "resize", "pick"}
                 /\ s.at = "resize" => s.want \in Wants
    <3>1. CASE \E w \in Wants : step' =
                 [step EXCEPT ![v] = [at |-> "resize", want |-> w, owned |-> MaxSeq > 0]]
      <4>0. PICK b : b = (MaxSeq > 0)
        OBVIOUS
      <4>1. PICK w \in Wants : step' = [step EXCEPT ![v] = [at |-> "resize", want |-> w, owned |-> b]]
        BY <3>1, <4>0
      <4> DEFINE t == [at |-> "resize", want |-> w, owned |-> b]
      <4>2. t.at = "resize" /\ t.want = w /\ step' = [step EXCEPT ![v] = t]
        BY <4>1
      <4> HIDE DEF t
      <4> QED BY <4>2
    <3>2. CASE step' = [step EXCEPT ![v] = Ready]
      BY <2>2, <3>2
    <3>3. CASE step' = [step EXCEPT ![v] = Picking(FALSE)]
      BY <2>2, <3>3
    <3>4. CASE step' = [step EXCEPT ![v] = [at |-> "claim"]]
      <4> DEFINE t == [at |-> "claim"]
      <4>1. t.at = "claim" /\ step' = [step EXCEPT ![v] = t]
        BY <3>4
      <4> HIDE DEF t
      <4> QED BY <4>1
    <3> QED BY <2>1, <3>1, <3>2, <3>3, <3>4
  <2> QED BY <1>0, <2>3, MovedStep
<1>2. ASSUME NEW g \in Goroutines, PickNone(g) \/ Keep(g) \/ Defer(g) \/ Resize(g)
      PROVE  StepTypes'
  <2>1. step' = [step EXCEPT ![g] = Ready] /\ Ready.at = "idle"
    BY <1>2 DEF PickNone, Keep, Defer, Resize, Ready
  <2> QED BY <2>1, MovedStep
<1>3. ASSUME NEW g \in Goroutines, Pick(g) PROVE StepTypes'
  <2>1. PICK v \in Viewers :
          step' = [step EXCEPT ![g] = [at |-> "apply", settled |-> step[g].settled,
                                       size |-> Clamp(sub[v].want)]]
    <3>1. PICK v \in Winners :
          step' = [step EXCEPT ![g] = [at |-> "apply", settled |-> step[g].settled,
                                       size |-> Clamp(sub[v].want)]]
      BY <1>3 DEF Pick
    <3>2. v \in Viewers
      BY DEF Winners
    <3> QED BY <3>1, <3>2
  <2>2. Clamp(sub[v].want) \in Grids
    BY ClampFits DEF SizeTypes
  <2>3. g = Timer => step[g].settled = TRUE
    BY <1>3 DEF Pick, StepTypes, At
  <2> DEFINE s == [at |-> "apply", settled |-> step[g].settled, size |-> Clamp(sub[v].want)]
  <2>4. s.at = "apply" /\ s.size \in Grids /\ s.settled = step[g].settled
    BY <2>2
  <2> HIDE DEF s
  <2>5. step' = [step EXCEPT ![g] = s]
    BY <2>1 DEF s
  <2> QED BY <2>3, <2>4, <2>5, MovedStep
<1>4. CASE Fire
  <2>1. step' = [step EXCEPT ![Timer] = Picking(TRUE)]
        /\ Picking(TRUE).at = "pick" /\ Picking(TRUE).settled = TRUE
    BY <1>4 DEF Fire, Picking
  <2> QED BY <1>0, <2>1, MovedStep
<1>5. CASE \/ \E v \in Viewers : Subscribe(v) \/ Publish(v)
           \/ \E w \in Wants : AgentResize(w)
           \/ UNCHANGED svars
  <2>1. step' = step
    BY <1>5 DEF Subscribe, Publish, AgentResize, svars
  <2> QED BY <2>1 DEF StepTypes, At
<1> QED BY <1>1, <1>2, <1>3, <1>4, <1>5 DEF SNext

-----------------------------------------------------------------------------
(* What each step leaves of what is true of a viewer.                      *)

\* Nothing about u changes, or only where its read loop is and that it is woken.
LEMMA ViewerKept ==
  ASSUME NEW u \in Viewers, ViewerInv(u),
         sub'[u] = sub[u], resync'[u] = resync[u],
         shipped'[u] = shipped[u], held'[u] = held[u],
         \/ step'[u] = step[u]
         \/ /\ ~At(u, "resize") /\ step'[u].at \notin {"resize", "created"}
            /\ step'[u].at = "claim" => sub[u].on,
         wake'[u] => wake[u] \/ sub[u].on,
         resync[u] /\ (wake[u] \/ shrinking \/ ~At(Timer, "idle"))
           => \/ wake'[u] \/ shrinking' \/ ~At(Timer, "idle")'
              \/ Fits(u) \/ Asking(u)
  PROVE  ViewerInv(u)'
<1>1. (Fits(u)' <=> Fits(u)) /\ (Sized(u)' <=> Sized(u))
  BY DEF Fits, Sized
<1>2. Asking(u) => Asking(u)'
  BY DEF Asking, At
<1>3. At(u, "resize") => step'[u] = step[u]
  OBVIOUS
<1>4. \/ Fits(u)' \/ Asking(u)'
      \/ resync'[u] /\ (wake'[u] \/ shrinking' \/ ~At(Timer, "idle")')
  BY <1>1, <1>2 DEF ViewerInv
<1>5. At(u, "created")' => ~Sized(u)'
  BY <1>1 DEF ViewerInv, At
<1>6. sub'[u].on /\ ~Sized(u)' =>
       \/ held'[u] = shipped'[u]
       \/ At(u, "resize")' /\ held'[u] = Common(shipped'[u], step'[u].want)
  BY <1>1, <1>3 DEF ViewerInv, At
<1>7. Carried /\ sub'[u].seq = 0 => Fits(u)' \/ Asking(u)'
  BY <1>1, <1>2 DEF ViewerInv
<1>8. wake'[u] \/ resync'[u] \/ Sized(u)' => sub'[u].on
  BY <1>1 DEF ViewerInv
<1>9. step'[u].at \in {"resize", "created", "claim"} => sub'[u].on
  BY DEF ViewerInv
<1> QED BY <1>4, <1>5, <1>6, <1>7, <1>8, <1>9 DEF ViewerInv

\* A mirror that shows what was last published of the size its viewer wants.
LEMMA PublishedFits ==
  ASSUME NEW w \in Pair, NEW s \in Pair, NEW x \in Pair, NEW h
  PROVE  /\ w = Unset => Common(Common(w, s), x) = Common(w, s)
         /\ h = s \/ h = Common(s, w) => Common(Common(w, s), h) = Common(w, s)
         /\ Common(Common(w, s), x) = Common(w, s)
              => Common(Common(w, s), Common(x, w)) = Common(w, s)
<1>1. w = Unset => Common(Common(w, s), x) = Common(w, s)
  BY CommonFacts
<1>2. Common(Common(w, s), s) = Common(w, s)
      /\ Common(Common(w, s), Common(s, w)) = Common(w, s)
  BY CommonFacts
<1>3. Common(Common(w, s), x) = Common(w, s)
        => Common(Common(w, s), Common(x, w)) = Common(w, s)
  BY CommonFacts
<1> QED BY <1>1, <1>2, <1>3

LEMMA UnsizedFits ==
  ASSUME SizeTypes, NEW u \in Viewers, ~Sized(u)
  PROVE  Fits(u)
<1>1. sub[u].want \in Pair /\ shipped[u] \in Pair /\ held[u] \in Pair
  BY DEF SizeTypes
<1> QED BY <1>1, PublishedFits DEF Fits, Sized

\* The read loop and the publisher of one viewer touch nothing of another's.
LEMMA OthersKept ==
  ASSUME MirrorInv, NEW v \in Viewers, NEW u \in Viewers, u # v,
         \/ Subscribe(v) \/ Depart(v) \/ RepeatedRequest(v) \/ RecordSize(v)
         \/ Type(v) \/ Claim(v) \/ ClaimCreated(v) \/ Publish(v)
         \/ \E w \in Wants : ReadOwned(v, w)
  PROVE  ViewerInv(u)'
<1>1. Timer # v
  BY TabSizeConstants
<1>2. shrinking' = shrinking
  BY DEF Subscribe, Depart, RepeatedRequest, RecordSize, Type, Claim, ClaimCreated, Publish, ReadOwned
<1>3. sub'[u] = sub[u]
  BY DEF Subscribe, Depart, RepeatedRequest, RecordSize, Type, Claim, ClaimCreated, Publish, ReadOwned,
         MirrorInv, SizeTypes
<1>4. wake'[u] = wake[u] /\ resync'[u] = resync[u]
  BY DEF Subscribe, Depart, RepeatedRequest, RecordSize, Type, Claim, ClaimCreated, Publish, ReadOwned,
         MirrorInv, SizeTypes
<1>5. shipped'[u] = shipped[u] /\ held'[u] = held[u]
  BY DEF Subscribe, Depart, RepeatedRequest, RecordSize, Type, Claim, ClaimCreated, Publish, ReadOwned,
         MirrorInv, SizeTypes
<1>6. ASSUME NEW g \in Goroutines, g # v PROVE step'[g] = step[g]
  <2>1. step' = step \/ \E x : step' = [step EXCEPT ![v] = x]
    BY DEF Subscribe, Depart, RepeatedRequest, RecordSize, Type, Claim, ClaimCreated, Publish, ReadOwned
  <2> QED BY <1>6, <2>1 DEF MirrorInv, StepTypes
<1>7. step'[u] = step[u] /\ step'[Timer] = step[Timer]
  BY <1>1, <1>6 DEF Goroutines
<1> QED BY <1>2, <1>3, <1>4, <1>5, <1>7, ViewerKept DEF MirrorInv, At

\* A subscription starts, or ends, with no size and nothing published.
LEMMA SubscribeKeeps ==
  ASSUME MirrorInv, NEW v \in Viewers, Subscribe(v) \/ Depart(v)
  PROVE  ViewerInv(v)'
<1>1. sub'[v].want = Unset /\ (wake'[v] => sub'[v].on)
  <2>1. CASE Subscribe(v)
    <3>1. sub'[v] = [want |-> Unset, seq |-> 0, on |-> TRUE]
      BY <2>1 DEF Subscribe, NoSub, MirrorInv, SizeTypes
    <3> QED BY <3>1
  <2>2. CASE Depart(v)
    <3>1. sub'[v].want = Unset
      BY <2>2 DEF Depart, NoSub, MirrorInv, SizeTypes
    <3>2. wake'[v] = FALSE
      BY <2>2 DEF Depart, MirrorInv, SizeTypes
    <3> QED BY <3>1, <3>2
  <2> QED BY <2>1, <2>2
<1>2. resync'[v] = FALSE
  BY DEF Subscribe, Depart, MirrorInv, SizeTypes
<1>3. held'[v] = Unset /\ (sub'[v].on => shipped'[v] = Unset)
  <2>1. CASE Subscribe(v)
    BY <2>1 DEF Subscribe, MirrorInv, SizeTypes
  <2>2. CASE Depart(v)
    <3>1. held'[v] = Unset
      BY <2>2 DEF Depart, MirrorInv, SizeTypes
    <3>2. sub'[v].on = FALSE
      BY <2>2 DEF Depart, NoSub, MirrorInv, SizeTypes
    <3> QED BY <3>1, <3>2
  <2> QED BY <2>1, <2>2
<1>4. step'[v].at \in {"idle", "pick"}
  BY DEF Subscribe, Depart, At, Picking, MirrorInv, StepTypes, Goroutines
<1>5. shipped'[v] \in Pair /\ held'[v] \in Pair
  BY NextSizeTyped DEF MirrorInv, SNext, SizeTypes
<1>6. Fits(v)'
  BY <1>1, <1>5, PairsTyped, PublishedFits DEF Fits
<1>7. ~Sized(v)'
  BY <1>1 DEF Sized
<1> QED BY <1>1, <1>2, <1>3, <1>4, <1>6, <1>7 DEF ViewerInv, At

\* The request takes from the mirror what does not fit; a window of the size it
\* had loses nothing by that.
LEMMA ReadOwnedKeeps ==
  ASSUME MirrorInv, NEW v \in Viewers, NEW w \in Wants, ReadOwned(v, w)
  PROVE  ViewerInv(v)'
<1>1. /\ UNCHANGED <<sub, resync, shipped, wake, shrinking>>
      /\ At(v, "idle") /\ sub[v].on
  BY DEF ReadOwned
<1>2. held'[v] = Common(held[v], w)
  BY DEF ReadOwned, MirrorInv, SizeTypes
<1>3. step'[v].at = "resize" /\ step'[v].want = w
  BY DEF ReadOwned, MirrorInv, StepTypes, Goroutines
<1>4. step'[Timer] = step[Timer]
  BY TabSizeConstants DEF ReadOwned, MirrorInv, StepTypes, Goroutines
<1>5. sub[v].want \in Pair /\ shipped[v] \in Pair /\ held[v] \in Pair /\ w \in Pair
  BY PairsTyped DEF MirrorInv, SizeTypes
<1>6. Fits(v) => Fits(v)' \/ Asking(v)'
  <2>1. CASE w = sub[v].want
    BY <1>1, <1>2, <1>5, <2>1, PublishedFits DEF Fits
  <2>2. CASE w # sub[v].want
    BY <1>1, <1>3, <2>2 DEF Asking, At
  <2> QED BY <2>1, <2>2
<1>7. ViewerInv(v) /\ ~Asking(v) /\ ~At(v, "resize")
  BY <1>1 DEF MirrorInv, Asking, At
<1>8. sub'[v].on /\ ~Sized(v)' => At(v, "resize")' /\ held'[v] = Common(shipped'[v], step'[v].want)
  BY <1>1, <1>2, <1>3, <1>7 DEF ViewerInv, Sized, At
<1>9. Carried /\ sub'[v].seq = 0 => Fits(v)' \/ Asking(v)'
  BY <1>1, <1>6, <1>7 DEF ViewerInv
<1>10. \/ Fits(v)' \/ Asking(v)'
       \/ resync'[v] /\ (wake'[v] \/ shrinking' \/ ~At(Timer, "idle")')
  BY <1>1, <1>4, <1>6, <1>7 DEF ViewerInv, At
<1> QED BY <1>1, <1>3, <1>8, <1>9, <1>10 DEF ViewerInv, At, Sized

LEMMA RecordSizeKeeps ==
  ASSUME MirrorInv, NEW v \in Viewers, RecordSize(v)
  PROVE  ViewerInv(v)'
<1>1. /\ At(v, "resize") /\ sub[v].on /\ step[v].want \in Wants /\ ViewerInv(v)
  BY DEF RecordSize, MirrorInv, StepTypes, ViewerInv, At
<1>2. /\ resync'[v] = TRUE /\ wake'[v] = TRUE /\ shipped' = shipped /\ held' = held
  BY DEF RecordSize, MirrorInv, SizeTypes
<1>3. step'[v].at = "pick"
  BY DEF RecordSize, Picking, MirrorInv, StepTypes, Goroutines
<1>4. /\ sub'[v].want = step[v].want /\ sub'[v].on = sub[v].on
      /\ sub'[v].seq = (IF Sized(v) \/ ~step[v].owned THEN resizeSeq + 1 ELSE sub[v].seq)
  BY DEF RecordSize, MirrorInv, SizeTypes
<1>5. Sized(v)'
  BY <1>1, <1>4, PairsTyped DEF Sized
<1>6. sub'[v].seq = 0 => Fits(v)'
  <2> SUFFICES ASSUME sub'[v].seq = 0 PROVE Fits(v)'
    OBVIOUS
  <2>1. ~Sized(v)
    BY <1>4 DEF MirrorInv, SizeTypes
  <2>2. held[v] = shipped[v] \/ held[v] = Common(shipped[v], step[v].want)
    BY <1>1, <2>1 DEF ViewerInv
  <2>3. step[v].want \in Pair /\ shipped[v] \in Pair /\ held[v] \in Pair
    BY <1>1, PairsTyped DEF MirrorInv, SizeTypes
  <2> QED BY <1>2, <1>4, <2>2, <2>3, PublishedFits DEF Fits
<1> QED BY <1>1, <1>2, <1>3, <1>4, <1>5, <1>6 DEF ViewerInv, At

\* The creator owns the grid its tab was made with, and its mirror is at it.
LEMMA ClaimKeeps ==
  ASSUME MirrorInv, NEW v \in Viewers, Claim(v) \/ ClaimCreated(v)
  PROVE  ViewerInv(v)'
<1>1. /\ UNCHANGED <<resync, wake, shipped, held, shrinking>>
      /\ At(v, "claim") \/ At(v, "created")
      /\ ViewerInv(v)
  BY DEF Claim, ClaimCreated, MirrorInv
<1>2. step'[v].at \in {"pick", "idle"}
  BY DEF Claim, ClaimCreated, Picking, Ready, MirrorInv, StepTypes, Goroutines
<1>3. step'[Timer] = step[Timer]
  BY TabSizeConstants DEF Claim, ClaimCreated, MirrorInv, StepTypes, Goroutines
<1>4. ~Asking(v) /\ ~At(v, "resize") /\ sub[v].on
  BY <1>1 DEF Asking, At, ViewerInv
<1>5. sub'[v].on = sub[v].on /\ sub'[v].seq = resizeSeq + 1 /\ sub'[v].seq # 0
  <2>1. CASE Claim(v)
    BY <2>1 DEF Claim, MirrorInv, SizeTypes
  <2>2. CASE ClaimCreated(v)
    <3>1. sub'[v].on = sub[v].on
      BY <2>2 DEF ClaimCreated, MirrorInv, SizeTypes
    <3>2. sub'[v].seq = resizeSeq + 1
      BY <2>2 DEF ClaimCreated, MirrorInv, SizeTypes
    <3>3. resizeSeq + 1 # 0
      BY DEF MirrorInv, SizeTypes
    <3> QED BY <3>1, <3>2, <3>3
  <2> QED BY <2>1, <2>2
<1>6. CASE Claim(v)
  <2>1. sub'[v].want = sub[v].want
    BY <1>6 DEF Claim, MirrorInv, SizeTypes
  <2>2. (Fits(v)' <=> Fits(v)) /\ (Sized(v)' <=> Sized(v))
    BY <1>1, <2>1 DEF Fits, Sized
  <2>3. \/ Fits(v)'
        \/ resync'[v] /\ (wake'[v] \/ shrinking' \/ ~At(Timer, "idle")')
    BY <1>1, <1>3, <1>4, <2>2 DEF ViewerInv, At
  <2>4. sub'[v].on /\ ~Sized(v)' => held'[v] = shipped'[v]
    BY <1>1, <1>4, <1>5, <2>2 DEF ViewerInv
  <2> QED BY <1>1, <1>2, <1>4, <1>5, <2>2, <2>3, <2>4 DEF ViewerInv, At
<1>7. CASE ClaimCreated(v)
  <2>1. sub'[v].want = grid
    BY <1>7 DEF ClaimCreated, MirrorInv, SizeTypes
  <2>2. held[v] = shipped[v]
    BY <1>1, <1>4, <1>7 DEF ViewerInv, ClaimCreated
  <2>3. grid \in Pair /\ grid # Unset /\ shipped[v] \in Pair
    BY PairsTyped DEF MirrorInv, SizeTypes
  <2>4. Fits(v)' /\ Sized(v)'
    BY <1>1, <2>1, <2>2, <2>3, PublishedFits DEF Fits, Sized
  <2> QED BY <1>1, <1>2, <1>4, <1>5, <2>4 DEF ViewerInv, At
<1> QED BY <1>6, <1>7

LEMMA RestKeeps ==
  ASSUME MirrorInv, NEW v \in Viewers, RepeatedRequest(v) \/ Type(v)
  PROVE  ViewerInv(v)'
<1>1. /\ UNCHANGED <<sub, resync, wake, shipped, held, shrinking>> /\ ViewerInv(v)
  BY DEF RepeatedRequest, Type, MirrorInv
<1>2. step'[Timer] = step[Timer]
  BY TabSizeConstants DEF RepeatedRequest, Type, MirrorInv, StepTypes, Goroutines
<1>3. CASE Type(v)
  <2>1. At(v, "idle") /\ sub[v].on
    BY <1>1, <1>3 DEF Type, ViewerInv
  <2>2. step'[v].at = "claim"
    BY <1>3 DEF Type, MirrorInv, StepTypes, Goroutines
  <2> QED BY <1>1, <1>2, <2>1, <2>2, ViewerKept DEF At
<1>4. CASE RepeatedRequest(v)
  <2>1. ~Asking(v) /\ Sized(v)
    BY <1>4, PairsTyped DEF RepeatedRequest, Repeated, Asking, Sized, MirrorInv, StepTypes
  <2>2. step'[v].at = "idle"
    BY <1>4 DEF RepeatedRequest, Ready, MirrorInv, StepTypes, Goroutines
  <2>3. (Fits(v)' <=> Fits(v)) /\ (Sized(v)' <=> Sized(v))
    BY <1>1 DEF Fits, Sized
  <2> QED BY <1>1, <1>2, <2>1, <2>2, <2>3 DEF ViewerInv, At
<1> QED BY <1>3, <1>4

\* A full repaint shows what was published; a diff leaves a resync that is due
\* for a shrink that is still pending.
LEMMA PublishKeeps ==
  ASSUME MirrorInv, NEW v \in Viewers, Publish(v)
  PROVE  ViewerInv(v)'
<1>1. /\ UNCHANGED <<sub, step, shrinking, grid>> /\ ViewerInv(v) /\ wake[v]
  BY DEF Publish, MirrorInv
<1>2. shipped'[v] = grid /\ wake'[v] = FALSE
  BY DEF Publish, MirrorInv, SizeTypes
<1>3. /\ sub[v].want \in Pair /\ grid \in Pair
  BY PairsTyped DEF MirrorInv, SizeTypes
<1>4. sub[v].on /\ (Asking(v)' <=> Asking(v))
  BY <1>1 DEF ViewerInv, Asking, At
<1>5. CASE Due(v) \/ shipped[v] # grid
  <2>1. held'[v] = grid
    BY <1>5 DEF Publish, MirrorInv, SizeTypes
  <2>2. Fits(v)'
    BY <1>1, <1>2, <1>3, <2>1, PublishedFits DEF Fits
  <2> QED BY <1>1, <1>2, <1>4, <2>1, <2>2 DEF ViewerInv, At, Sized
<1>6. CASE ~Due(v) /\ shipped[v] = grid
  <2>1. held'[v] = held[v] /\ shipped'[v] = shipped[v]
    BY <1>2, <1>6 DEF Publish, MirrorInv, SizeTypes
  <2>2. resync'[v] <=> resync[v]
    BY <1>6 DEF Publish, MirrorInv, SizeTypes
  <2>3. resync[v] => shrinking
    BY <1>6 DEF Due
  <2>4. (Fits(v)' <=> Fits(v)) /\ (Sized(v)' <=> Sized(v))
    BY <1>1, <2>1 DEF Fits, Sized
  <2> QED BY <1>1, <1>2, <1>4, <2>1, <2>2, <2>3, <2>4 DEF ViewerInv, At
<1> QED BY <1>5, <1>6

-----------------------------------------------------------------------------
(* The reconciliation, of a read loop or of the timer.                      *)

\* It moves one goroutine between "pick", "apply" and "idle".
LEMMA ReconcileMoves ==
  ASSUME MirrorInv, NEW g \in Goroutines,
         PickNone(g) \/ Pick(g) \/ Keep(g) \/ Defer(g) \/ Resize(g)
  PROVE  /\ UNCHANGED <<sub, resync, shipped, held>>
         /\ \A u \in Viewers :
              \/ step'[u] = step[u]
              \/ ~At(u, "resize") /\ step'[u].at \notin {"resize", "created", "claim"}
         /\ g # Timer => step'[Timer] = step[Timer]
<1>1. UNCHANGED <<sub, resync, shipped, held>>
  BY DEF PickNone, Pick, Keep, Defer, Resize
<1>2. step[g].at \in {"pick", "apply"}
  BY DEF PickNone, Pick, Keep, Defer, Resize, At
<1>3. PICK s : step' = [step EXCEPT ![g] = s] /\ s.at \in {"idle", "apply"}
  <2>1. CASE Pick(g)
    <3>1. PICK z : step' = [step EXCEPT ![g] = [at |-> "apply", settled |-> step[g].settled, size |-> z]]
      BY <2>1 DEF Pick
    <3> DEFINE t == [at |-> "apply", settled |-> step[g].settled, size |-> z]
    <3>2. step' = [step EXCEPT ![g] = t] /\ t.at = "apply"
      BY <3>1
    <3> HIDE DEF t
    <3> QED BY <3>2
  <2>2. CASE PickNone(g) \/ Keep(g) \/ Defer(g) \/ Resize(g)
    <3>1. step' = [step EXCEPT ![g] = Ready] /\ Ready.at = "idle"
      BY <2>2 DEF PickNone, Keep, Defer, Resize, Ready
    <3> QED BY <3>1
  <2> QED BY <2>1, <2>2
<1>4. /\ step'[g] = s
      /\ \A h \in Goroutines : h # g => step'[h] = step[h]
  BY <1>3 DEF MirrorInv, StepTypes
<1>5. Timer \in Goroutines /\ Viewers \subseteq Goroutines
  BY DEF Goroutines
<1>6. \A u \in Viewers :
        \/ step'[u] = step[u]
        \/ ~At(u, "resize") /\ step'[u].at \notin {"resize", "created", "claim"}
  BY <1>2, <1>3, <1>4, <1>5 DEF At
<1> QED BY <1>1, <1>4, <1>5, <1>6

LEMMA ApplyKeeps ==
  ASSUME MirrorInv, NEW g \in Goroutines, Keep(g) \/ Defer(g) \/ Resize(g),
         NEW u \in Viewers
  PROVE  ViewerInv(u)'
<1>1. /\ UNCHANGED <<sub, resync, shipped, held>>
      /\ \/ step'[u] = step[u]
         \/ ~At(u, "resize") /\ step'[u].at \notin {"resize", "created", "claim"}
      /\ g # Timer => step'[Timer] = step[Timer]
  BY ReconcileMoves
<1>2. ViewerInv(u) /\ (resync[u] => sub[u].on)
  BY DEF MirrorInv, ViewerInv
<1>3. wake'[u] => wake[u] \/ sub[u].on
  BY DEF Keep, Defer, Resize, Release, WakeAll
<1>4. resync[u] /\ (wake[u] \/ shrinking \/ ~At(Timer, "idle"))
        => wake'[u] \/ shrinking' \/ ~At(Timer, "idle")'
  <2>1. CASE Resize(g)
    BY <1>2, <2>1 DEF Resize, WakeAll
  <2>2. CASE Defer(g)
    BY <2>2 DEF Defer
  <2>3. CASE Keep(g)
    <3>1. CASE shrinking \/ step[g].settled
      BY <1>2, <2>3, <3>1 DEF Keep, Release, WakeAll
    <3>2. CASE ~(shrinking \/ step[g].settled)
      <4>1. g # Timer
        BY <2>3, <3>2 DEF Keep, MirrorInv, StepTypes, At
      <4> QED BY <1>1, <2>3, <3>2, <4>1 DEF Keep, Release, At
    <3> QED BY <3>1, <3>2
  <2> QED BY <2>1, <2>2, <2>3
<1> QED BY <1>1, <1>2, <1>3, <1>4, ViewerKept

\* The timer that finds nobody to measure its shrink against wakes nobody: then
\* nobody sized the tab since it was resumed, and no mirror is torn.
LEMMA PickKeeps ==
  ASSUME MirrorInv, NEW g \in Goroutines, PickNone(g) \/ Pick(g), NEW u \in Viewers
  PROVE  ViewerInv(u)'
<1>1. /\ UNCHANGED <<sub, resync, shipped, held>>
      /\ \/ step'[u] = step[u]
         \/ ~At(u, "resize") /\ step'[u].at \notin {"resize", "created", "claim"}
      /\ g # Timer => step'[Timer] = step[Timer]
  BY ReconcileMoves
<1>2. UNCHANGED <<wake, shrinking>> /\ ViewerInv(u) /\ SizeTypes
  BY DEF Pick, PickNone, MirrorInv
<1>3. ~At(Timer, "idle") => ~At(Timer, "idle")' \/ Fits(u) \/ Asking(u)
  <2>1. CASE g # Timer
    BY <1>1, <2>1 DEF At
  <2>2. CASE g = Timer /\ Pick(g)
    <3>1. PICK z : step' = [step EXCEPT ![g] = [at |-> "apply", settled |-> step[g].settled, size |-> z]]
      BY <2>2 DEF Pick
    <3>2. step'[Timer].at = "apply"
      BY <2>2, <3>1 DEF MirrorInv, StepTypes
    <3> QED BY <3>2 DEF At
  <2>3. CASE PickNone(g)
    <3> SUFFICES ASSUME ~Fits(u) PROVE Asking(u)
      OBVIOUS
    <3>1. Sized(u)
      BY <1>2, UnsizedFits
    <3>2. Winners # {}
      BY <1>2, <3>1, SomeoneWins
    <3>3. PICK v \in Winners : sub[v].seq < SizeOwnerSeq
      BY <2>3, <3>2 DEF PickNone
    <3>4. v \in Viewers /\ sub[u].seq <= sub[v].seq
      BY <3>1, <3>3 DEF Winners
    <3>5. sub[u].seq \in Nat /\ sub[v].seq \in Nat
      BY <1>2, <3>4 DEF SizeTypes
    <3>6. Carried /\ sub[u].seq = 0
      BY <3>3, <3>4, <3>5 DEF SizeOwnerSeq
    <3> QED BY <1>2, <3>6 DEF ViewerInv
  <2> QED BY <2>1, <2>2, <2>3
<1> QED BY <1>1, <1>2, <1>3, ViewerKept

LEMMA GridKeeps ==
  ASSUME MirrorInv, Fire \/ \E w \in Wants : AgentResize(w), NEW u \in Viewers
  PROVE  ViewerInv(u)'
<1>1. ViewerInv(u) /\ (resync[u] => sub[u].on)
  BY DEF MirrorInv, ViewerInv
<1>2. CASE Fire
  <2>1. UNCHANGED <<sub, resync, shipped, held, wake>>
    BY <1>2 DEF Fire
  <2>2. step'[Timer].at = "pick" /\ step'[u] = step[u]
    BY <1>2, TabSizeConstants DEF Fire, Picking, MirrorInv, StepTypes, Goroutines
  <2> QED BY <1>1, <2>1, <2>2, ViewerKept DEF At
<1>3. CASE \E w \in Wants : AgentResize(w)
  <2>1. UNCHANGED <<sub, resync, shipped, held, step>>
        /\ wake' = [v \in Viewers |-> wake[v] \/ sub[v].on]
    BY <1>3 DEF AgentResize, WakeAll
  <2>2. wake'[u] <=> wake[u] \/ sub[u].on
    BY <2>1
  <2> QED BY <1>1, <2>1, <2>2, ViewerKept
<1> QED BY <1>2, <1>3

LEMMA NextMirror == MirrorInv /\ [SNext]_svars => MirrorInv'
<1> SUFFICES ASSUME MirrorInv, [SNext]_svars PROVE MirrorInv'
  OBVIOUS
<1>1. SizeTypes' /\ StepTypes'
  BY NextSizeTyped, NextStepTyped DEF MirrorInv
<1>2. ASSUME NEW u \in Viewers PROVE ViewerInv(u)'
  <2>1. ASSUME NEW v \in Viewers,
               \/ Subscribe(v) \/ Depart(v) \/ RepeatedRequest(v) \/ RecordSize(v)
               \/ Type(v) \/ Claim(v) \/ ClaimCreated(v) \/ Publish(v)
               \/ \E w \in Wants : ReadOwned(v, w)
        PROVE  ViewerInv(u)'
    <3>1. CASE u # v
      BY <2>1, <3>1, OthersKept
    <3>2. CASE u = v
      BY <2>1, <3>2, SubscribeKeeps, ReadOwnedKeeps, RecordSizeKeeps, ClaimKeeps, RestKeeps,
         PublishKeeps
    <3> QED BY <3>1, <3>2
  <2>2. ASSUME NEW g \in Goroutines, PickNone(g) \/ Pick(g) \/ Keep(g) \/ Defer(g) \/ Resize(g)
        PROVE  ViewerInv(u)'
    BY <2>2, PickKeeps, ApplyKeeps
  <2>3. CASE Fire \/ \E w \in Wants : AgentResize(w)
    BY <2>3, GridKeeps
  <2>4. CASE UNCHANGED svars
    <3>1. ViewerInv(u)
      BY DEF MirrorInv
    <3> QED BY <2>4, <3>1, ViewerKept DEF svars, At
  <2> QED BY <2>1, <2>2, <2>3, <2>4 DEF SNext
<1> QED BY <1>1, <1>2 DEF MirrorInv

LEMMA InitMirror == SInit => MirrorInv
<1> SUFFICES ASSUME SInit PROVE MirrorInv
  OBVIOUS
<1> DEFINE joined == [NoSub EXCEPT !.on = TRUE]
<1>1. /\ NoSub \in Subscription /\ NoSub.want = Unset /\ NoSub.seq = 0
      /\ joined \in Subscription /\ joined.want = Unset /\ joined.seq = 0 /\ joined.on = TRUE
  BY PairsTyped DEF NoSub, Subscription
<1> HIDE DEF joined
<1>2. /\ sub \in [Viewers -> {NoSub, joined}]
      /\ step = [g \in Goroutines |-> step[g]]
      /\ \A g \in Goroutines :
           \/ step[g].at = "idle"
           \/ step[g].at = "created" /\ g \in Viewers /\ \A v \in Viewers : sub[v] = joined
  <2>1. CASE /\ sub = [v \in Viewers |-> NoSub]
             /\ step = [g \in Goroutines |-> Ready]
    BY <2>1 DEF Ready
  <2>2. CASE /\ \E v \in Viewers :
                  step = [g \in Goroutines |-> IF g = v THEN [at |-> "created"] ELSE Ready]
             /\ sub = [v \in Viewers |-> joined]
    BY <2>2 DEF Ready
  <2> QED BY <2>1, <2>2 DEF SInit, joined
<1>3. /\ grid \in Grids /\ resizeSeq = SizeOwnerSeq /\ SizeOwnerSeq \in Nat
      /\ shrinking = FALSE
      /\ wake = [v \in Viewers |-> sub[v].on] /\ resync = [v \in Viewers |-> FALSE]
      /\ shipped = [v \in Viewers |-> Unset] /\ held = [v \in Viewers |-> Unset]
  BY TabSizeConstants DEF SInit, Grids, SizeOwnerSeq
<1>4. sub \in [Viewers -> Subscription] /\ \A v \in Viewers : sub[v].seq = 0
  BY <1>1, <1>2
<1>5. /\ shipped \in [Viewers -> Pair] /\ held \in [Viewers -> Pair]
      /\ resync \in [Viewers -> BOOLEAN]
  BY <1>3, PairsTyped
<1>6. wake \in [Viewers -> BOOLEAN]
  BY <1>3, <1>4 DEF Subscription
<1>7. shrinking \in BOOLEAN
  BY <1>3, Zenon
<1>8. resizeSeq \in Nat /\ resizeSeq >= SizeOwnerSeq /\ \A v \in Viewers : sub[v].seq <= resizeSeq
  BY <1>3, <1>4
<1>9. SizeTypes
  BY <1>3, <1>4, <1>5, <1>6, <1>7, <1>8 DEF SizeTypes, Subscription
<1>10. StepTypes
  <2>1. Viewers \subseteq Goroutines /\ Timer \in Goroutines /\ Timer \notin Viewers
    BY TabSizeConstants DEF Goroutines
  <2> QED BY <1>2, <2>1 DEF StepTypes, At
<1>11. ASSUME NEW v \in Viewers PROVE ViewerInv(v)
  <2>1. sub[v].want = Unset /\ ~Sized(v)
    BY <1>1, <1>2 DEF Sized
  <2>2. Fits(v) /\ held[v] = shipped[v]
    BY <1>3, <1>9, <2>1, UnsizedFits
  <2>3. (wake[v] \/ resync[v] => sub[v].on) /\ v \in Goroutines
    BY <1>3 DEF Goroutines
  <2>4. step[v].at \in {"resize", "created", "claim"} => sub[v].on
    BY <1>1, <1>2, <2>3
  <2> QED BY <2>1, <2>2, <2>3, <2>4 DEF ViewerInv
<1> QED BY <1>9, <1>10, <1>11 DEF MirrorInv

\* However the size requests, claims, departures, agents' resizes, shrink timers
\* and publishes of any number of viewers meet, a viewer whose mirror lacks part
\* of the published grid has a publish, a shrink or a reconciliation coming
\* (handleResize, reconcileTabSizeSettled, deferShrink and sendCellsAndCursor).
THEOREM RepaintsAreOwed == SSpec => []NoTornMirror
<1>1. MirrorInv => NoTornMirror
  <2> SUFFICES ASSUME MirrorInv, NEW v \in Viewers
               PROVE  \/ Fits(v) \/ wake[v] \/ shrinking
                      \/ \E g \in Goroutines : ~At(g, "idle")
    BY DEF NoTornMirror, Fits
  <2>1. v \in Goroutines /\ Timer \in Goroutines
    BY DEF Goroutines
  <2>2. \/ Fits(v) \/ Asking(v)
        \/ wake[v] \/ shrinking \/ ~At(Timer, "idle")
    BY DEF MirrorInv, ViewerInv
  <2>3. Asking(v) => ~At(v, "idle")
    BY DEF Asking, At
  <2> QED BY <2>1, <2>2, <2>3
<1> QED BY <1>1, InitMirror, NextMirror, PTL DEF SSpec

-----------------------------------------------------------------------------
(* A proposal is typed once.                                               *)

Answer == [index : Nat \ {0}, ok : BOOLEAN]

\* A proposal is in the queue, or an approval holds it, or it was typed or
\* dropped: an approval takes it out before it writes, so no two hold the same.
TypingTypes ==
  /\ made \in Nat /\ made <= MaxProposals
  /\ proposed \in Seq(1..made) /\ IsInjective(proposed)
  /\ answers \in [Guis -> Seq(Answer)]
  /\ typed \in [1..MaxProposals -> Nat]
  /\ task = [h \in Handlers |-> task[h]]
  /\ \A h \in Handlers : task[h].at = "fill" =>
       task[h] = [at |-> "fill", list |-> task[h].list, todo |-> task[h].todo]

Taken(p) == p \in 1..made /\ p \notin Range(proposed)

TypingInv ==
  /\ TypingTypes
  /\ \A p \in 1..MaxProposals : typed[p] <= 1 /\ (typed[p] = 1 => Taken(p))
  /\ \A h \in Handlers : task[h].at = "write" =>
       /\ Taken(task[h].p) /\ typed[task[h].p] = 0
       /\ \A k \in Handlers \ {h} : task[k].at = "write" => task[k].p # task[h].p

\* A handler moves on and holds nothing that it writes.
LEMMA HandlerMoves ==
  ASSUME TypingInv, UNCHANGED <<made, typed>>,
         proposed' \in Seq(1..made), IsInjective(proposed'), Range(proposed') \subseteq Range(proposed),
         answers' \in [Guis -> Seq(Answer)],
         NEW h \in Handlers, NEW t, task' = [task EXCEPT ![h] = t], t.at # "write",
         t.at = "fill" => t = [at |-> "fill", list |-> t.list, todo |-> t.todo]
  PROVE  TypingInv'
<1>1. /\ task' = [k \in Handlers |-> task'[k]] /\ task'[h] = t
      /\ \A k \in Handlers \ {h} : task'[k] = task[k]
  BY DEF TypingInv, TypingTypes
<1>2. TypingTypes'
  BY <1>1 DEF TypingInv, TypingTypes
<1>3. \A p : Taken(p) => Taken(p)'
  BY DEF Taken
<1>4. \A p \in 1..MaxProposals : typed'[p] <= 1 /\ (typed'[p] = 1 => Taken(p)')
  BY <1>3 DEF TypingInv
<1>5. \A k \in Handlers : task'[k].at = "write" => task'[k] = task[k]
  BY <1>1
<1>6. ASSUME NEW k \in Handlers, task'[k].at = "write"
      PROVE  /\ task'[k].p \in 1..made' /\ task'[k].p \notin Range(proposed')
             /\ typed'[task'[k].p] = 0
             /\ \A j \in Handlers \ {k} : task'[j].at = "write" => task'[j].p # task'[k].p
  <2>1. task'[k] = task[k] /\ \A j \in Handlers : task'[j].at = "write" => task'[j] = task[j]
    BY <1>3, <1>5, <1>6
  <2>2. /\ Taken(task[k].p) /\ typed[task[k].p] = 0
        /\ \A j \in Handlers \ {k} : task[j].at = "write" => task[j].p # task[k].p
    BY <1>6, <2>1 DEF TypingInv
  <2>3. task[k].p \in 1..made' /\ task[k].p \notin Range(proposed')
    BY <1>3, <1>5, <2>2 DEF Taken
  <2> QED BY <1>3, <1>5, <1>6, <2>1, <2>2, <2>3
<1> QED BY <1>2, <1>4, <1>6 DEF TypingInv, Taken

LEMMA TrimmedFacts ==
  ASSUME NEW S, NEW q \in Seq(S), IsInjective(q)
  PROVE  /\ Trimmed(q) \in Seq(S) /\ IsInjective(Trimmed(q))
         /\ Range(Trimmed(q)) \subseteq Range(q)
<1>1. CASE Len(q) <= ProposedCap
  <2>1. Trimmed(q) = q
    BY <1>1, ProposalConstants, LenProperties DEF Trimmed
  <2> QED BY <2>1
<1>2. CASE ~(Len(q) <= ProposedCap)
  <2> DEFINE m == Len(q) - ProposedCap + 1
             r == SubSeq(q, m, Len(q))
  <2>1. Len(q) \in Nat /\ ProposedCap \in Nat \ {0} /\ DOMAIN q = 1..Len(q)
    BY ProposalConstants, LenProperties
  <2>2. Len(q) > ProposedCap
    BY <1>2, <2>1
  <2>3. m \in 1..Len(q) /\ Trimmed(q) = r
    BY <2>1, <2>2 DEF Trimmed
  <2> HIDE DEF m
  <2>4. \A i \in m..Len(q) : q[i] \in S
    BY <2>1, <2>3, ElementOfSeq
  <2>5. /\ r \in Seq(S) /\ Len(r) = Len(q) - m + 1
        /\ \A i \in 1..Len(r) : r[i] = q[m + i - 1]
    <3>1. m \in Int /\ Len(q) \in Int
      BY <2>1, <2>3
    <3>2. /\ r \in Seq(S)
          /\ Len(r) = IF m <= Len(q) THEN Len(q) - m + 1 ELSE 0
          /\ \A i \in 1..(Len(q) - m + 1) : r[i] = q[m + i - 1]
      BY <2>1, <2>3, <2>4, <3>1, SubSeqProperties
    <3>3. Len(r) = Len(q) - m + 1
      BY <2>1, <2>3, <3>2
    <3> QED BY <3>2, <3>3
  <2> HIDE DEF r
  <2>6. DOMAIN r = 1..Len(r) /\ \A i \in 1..Len(r) : m + i - 1 \in 1..Len(q)
    BY <2>1, <2>3, <2>5, LenProperties
  <2>7. Range(r) \subseteq Range(q)
    BY <2>1, <2>5, <2>6 DEF Range
  <2>8. IsInjective(r)
    <3>1. ASSUME NEW i \in 1..Len(r), NEW j \in 1..Len(r), r[i] = r[j] PROVE i = j
      <4>1. q[m + i - 1] = q[m + j - 1]
        BY <2>5, <3>1
      <4>2. m + i - 1 = m + j - 1
        BY <2>1, <2>6, <4>1 DEF IsInjective
      <4> QED BY <2>3, <4>2
    <3> QED BY <2>6, <3>1 DEF IsInjective
  <2> QED BY <2>3, <2>5, <2>7, <2>8
<1> QED BY <1>1, <1>2

LEMMA QueueTypes ==
  ASSUME TypingInv, NEW a \in Agents, Queue(a)
  PROVE  TypingInv'
<1>1. /\ made' = made + 1 /\ made < MaxProposals /\ UNCHANGED <<typed, answers>>
      /\ proposed' = Trimmed(Append(proposed, made + 1))
      /\ task' = [task EXCEPT ![a] = ToNotify]
  BY DEF Queue
<1>2. made \in Nat /\ MaxProposals \in Nat /\ proposed \in Seq(1..made) /\ IsInjective(proposed)
  BY ProposalConstants DEF TypingInv, TypingTypes
<1>3. Range(proposed) \subseteq 1..made
  BY <1>2, RangeOfSeq DEF Range
<1>4. /\ made + 1 \notin Range(proposed) /\ made + 1 \in 1..(made + 1)
      /\ 1..made \subseteq 1..(made + 1)
  BY <1>2, <1>3
<1>5. proposed \in Seq(1..(made + 1))
  BY <1>2, <1>4, SeqMonotonic
<1> DEFINE r == Append(proposed, made + 1)
<1>6. /\ r \in Seq(1..(made + 1)) /\ IsInjective(r)
      /\ Range(r) = Range(proposed) \cup {made + 1}
  BY <1>2, <1>4, <1>5, AppendElements, AppendProperties
<1> HIDE DEF r
<1>7. /\ proposed' \in Seq(1..made') /\ IsInjective(proposed')
      /\ Range(proposed') \subseteq Range(proposed) \cup {made + 1}
  BY <1>1, <1>6, TrimmedFacts DEF r
<1>8. a \in Handlers /\ ToNotify.at = "notify"
  BY DEF Handlers, ToNotify
<1>9. /\ task' = [k \in Handlers |-> task'[k]] /\ task'[a] = ToNotify
      /\ \A k \in Handlers \ {a} : task'[k] = task[k]
  BY <1>1, <1>8 DEF TypingInv, TypingTypes
<1>10. TypingTypes'
  BY <1>1, <1>2, <1>7, <1>8, <1>9 DEF TypingInv, TypingTypes
<1>11. \A p : Taken(p) => Taken(p)'
  BY <1>1, <1>2, <1>7 DEF Taken
<1>12. \A p \in 1..MaxProposals : typed'[p] <= 1 /\ (typed'[p] = 1 => Taken(p)')
  BY <1>1, <1>11 DEF TypingInv
<1>13. \A k \in Handlers : task'[k].at = "write" => task'[k] = task[k]
  BY <1>8, <1>9
<1>14. ASSUME NEW k \in Handlers, task'[k].at = "write"
      PROVE  /\ task'[k].p \in 1..made' /\ task'[k].p \notin Range(proposed')
             /\ typed'[task'[k].p] = 0
             /\ \A j \in Handlers \ {k} : task'[j].at = "write" => task'[j].p # task'[k].p
  <2>1. task'[k] = task[k] /\ \A j \in Handlers : task'[j].at = "write" => task'[j] = task[j]
    BY <1>1, <1>11, <1>13, <1>14
  <2>2. /\ Taken(task[k].p) /\ typed[task[k].p] = 0
        /\ \A j \in Handlers \ {k} : task[j].at = "write" => task[j].p # task[k].p
    BY <1>14, <2>1 DEF TypingInv
  <2>3. task[k].p \in 1..made' /\ task[k].p \notin Range(proposed')
    BY <1>1, <1>11, <1>13, <2>2 DEF Taken
  <2> QED BY <1>1, <1>11, <1>13, <1>14, <2>1, <2>2, <2>3
<1> QED BY <1>10, <1>12, <1>14 DEF TypingInv, Taken

\* What an answer names, when it is not stale, is in the queue and leaves it.
LEMMA AnswerTakes ==
  ASSUME TypingInv, NEW g \in Guis, answers[g] # <<>>, Head(answers[g]).index <= Len(proposed),
         proposed' = Take(proposed, Head(answers[g]).index),
         answers' = [answers EXCEPT ![g] = Tail(@)], UNCHANGED made
  PROVE  /\ Head(answers[g]).index \in 1..Len(proposed)
         /\ proposed[Head(answers[g]).index] \in 1..made
         /\ proposed[Head(answers[g]).index] \in Range(proposed)
         /\ proposed' \in Seq(1..made) /\ IsInjective(proposed')
         /\ Range(proposed') = Range(proposed) \ {proposed[Head(answers[g]).index]}
         /\ answers' \in [Guis -> Seq(Answer)]
<1>1. /\ proposed \in Seq(1..made) /\ IsInjective(proposed)
      /\ answers \in [Guis -> Seq(Answer)]
  BY DEF TypingInv, TypingTypes
<1>2. Head(answers[g]) \in Answer /\ Tail(answers[g]) \in Seq(Answer)
  BY <1>1, HeadTailProperties
<1>3. PICK n \in 1..Len(proposed) : n = Head(answers[g]).index
  BY <1>1, <1>2, LenProperties DEF Answer
<1>4. /\ proposed' \in Seq(1..made) /\ IsInjective(proposed')
      /\ Range(proposed') = Range(proposed) \ {proposed[n]}
  BY <1>1, <1>3, RemoveAtFacts, RemoveAtElements DEF Take
<1>5. proposed[n] \in 1..made /\ proposed[n] \in Range(proposed)
  BY <1>1, LenProperties, ElementOfSeq DEF Range
<1>6. answers' \in [Guis -> Seq(Answer)]
  BY <1>1, <1>2
<1> QED BY <1>3, <1>4, <1>5, <1>6

LEMMA ApproveTypes ==
  ASSUME TypingInv, NEW g \in Guis, Approve(g)
  PROVE  TypingInv'
<1>1. PICK n : n = Head(answers[g]).index
  OBVIOUS
<1>2. /\ answers[g] # <<>> /\ n <= Len(proposed) /\ proposed' = Take(proposed, n)
      /\ task' = [task EXCEPT ![g] = IF tabOpen THEN [at |-> "write", p |-> proposed[n]]
                                     ELSE Free]
      /\ answers' = [answers EXCEPT ![g] = Tail(@)] /\ UNCHANGED <<made, typed>>
      /\ task[g] = Free
  BY <1>1 DEF Approve
<1>3. /\ n \in 1..Len(proposed) /\ proposed[n] \in 1..made /\ proposed[n] \in Range(proposed)
      /\ proposed' \in Seq(1..made) /\ IsInjective(proposed')
      /\ Range(proposed') = Range(proposed) \ {proposed[n]}
      /\ answers' \in [Guis -> Seq(Answer)]
  BY <1>1, <1>2, AnswerTakes
<1>4. g \in Handlers /\ Free.at = "free"
  BY DEF Handlers, Free
<1>5. CASE ~tabOpen
  <2>1. task' = [task EXCEPT ![g] = Free]
    BY <1>2, <1>5
  <2> QED BY <1>2, <1>3, <1>4, <2>1, HandlerMoves
<1>6. CASE tabOpen
  <2> DEFINE t == [at |-> "write", p |-> proposed[n]]
  <2>1. t.at = "write" /\ t.p = proposed[n] /\ task' = [task EXCEPT ![g] = t]
    BY <1>2, <1>6
  <2> HIDE DEF t
  <2>2. /\ task' = [k \in Handlers |-> task'[k]] /\ task'[g] = t
        /\ \A k \in Handlers \ {g} : task'[k] = task[k]
    BY <1>4, <2>1 DEF TypingInv, TypingTypes
  <2>3. TypingTypes'
    BY <1>2, <1>3, <2>1, <2>2 DEF TypingInv, TypingTypes
  <2>4. \A p : Taken(p) => Taken(p)'
    BY <1>2, <1>3 DEF Taken
  <2>5. \A p \in 1..MaxProposals : typed'[p] <= 1 /\ (typed'[p] = 1 => Taken(p)')
    BY <1>2, <2>4 DEF TypingInv
  <2>6. typed[proposed[n]] = 0 /\ ~Taken(proposed[n])
    <3>1. ~Taken(proposed[n])
      BY <1>3 DEF Taken
    <3>2. proposed[n] \in 1..MaxProposals
      BY <1>3, ProposalConstants DEF TypingInv, TypingTypes
    <3>3. typed[proposed[n]] \in Nat /\ typed[proposed[n]] <= 1 /\ typed[proposed[n]] # 1
      BY <3>1, <3>2 DEF TypingInv, TypingTypes
    <3> QED BY <3>1, <3>3
  <2>7. ASSUME NEW k \in Handlers, k # g, task'[k].at = "write"
        PROVE  /\ Taken(task[k].p) /\ typed[task[k].p] = 0 /\ task[k].p # proposed[n]
               /\ \A j \in Handlers \ {k} : task[j].at = "write" => task[j].p # task[k].p
               /\ task'[k] = task[k]
    BY <2>2, <2>6, <2>7 DEF TypingInv
  <2>8. ASSUME NEW k \in Handlers, task'[k].at = "write"
        PROVE  /\ task'[k].p \in 1..made' /\ task'[k].p \notin Range(proposed')
               /\ typed'[task'[k].p] = 0
               /\ \A j \in Handlers \ {k} : task'[j].at = "write" => task'[j].p # task'[k].p
    <3>1. CASE k = g
      <4>1. \A j \in Handlers \ {g} : task'[j].at = "write" => task'[j].p # proposed[n]
        BY <2>7
      <4> QED BY <1>2, <1>3, <2>1, <2>2, <2>6, <3>1, <4>1
    <3>2. CASE k # g
      <4>1. /\ Taken(task[k].p) /\ typed[task[k].p] = 0 /\ task[k].p # proposed[n]
            /\ task'[k] = task[k]
            /\ \A j \in Handlers \ {k} : task[j].at = "write" => task[j].p # task[k].p
        BY <2>7, <2>8, <3>2
      <4>2. task[k].p \in 1..made' /\ task[k].p \notin Range(proposed')
        BY <1>2, <1>3, <4>1 DEF Taken
      <4>3. ASSUME NEW j \in Handlers \ {k}, task'[j].at = "write" PROVE task'[j].p # task'[k].p
        <5>1. CASE j = g
          BY <2>1, <2>2, <4>1, <5>1
        <5>2. CASE j # g
          BY <2>2, <4>1, <4>3, <5>2
        <5> QED BY <5>1, <5>2
      <4> QED BY <1>2, <4>1, <4>2, <4>3
    <3> QED BY <3>1, <3>2
  <2> QED BY <2>3, <2>5, <2>8 DEF TypingInv, Taken
<1> QED BY <1>5, <1>6

LEMMA WriteTypes ==
  ASSUME TypingInv, NEW g \in Guis, Write(g)
  PROVE  TypingInv'
<1>1. PICK q : q = task[g].p
  OBVIOUS
<1>2. /\ task[g].at = "write" /\ task' = [task EXCEPT ![g] = ToNotify]
      /\ typed' = [typed EXCEPT ![q] = @ + 1] /\ UNCHANGED <<made, proposed, answers>>
  BY <1>1 DEF Write
<1>3. g \in Handlers /\ ToNotify.at = "notify"
  BY DEF Handlers, ToNotify
<1>4. /\ Taken(q) /\ typed[q] = 0
      /\ \A j \in Handlers \ {g} : task[j].at = "write" => task[j].p # q
  BY <1>1, <1>2, <1>3 DEF TypingInv
<1>5. q \in 1..MaxProposals /\ made \in Nat
  BY <1>4, ProposalConstants DEF Taken, TypingInv, TypingTypes
<1>6. typed' \in [1..MaxProposals -> Nat] /\ typed'[q] = 1
      /\ \A p \in 1..MaxProposals \ {q} : typed'[p] = typed[p]
  BY <1>2, <1>4, <1>5 DEF TypingInv, TypingTypes
<1>7. /\ task' = [k \in Handlers |-> task'[k]] /\ task'[g] = ToNotify
      /\ \A k \in Handlers \ {g} : task'[k] = task[k]
  BY <1>2, <1>3 DEF TypingInv, TypingTypes
<1>8. TypingTypes'
  BY <1>2, <1>3, <1>6, <1>7 DEF TypingInv, TypingTypes
<1>9. \A p : Taken(p)' <=> Taken(p)
  BY <1>2 DEF Taken
<1>10. \A p \in 1..MaxProposals : typed'[p] <= 1 /\ (typed'[p] = 1 => Taken(p)')
  BY <1>4, <1>6, <1>9 DEF TypingInv
<1>11. ASSUME NEW k \in Handlers, task'[k].at = "write"
       PROVE  /\ task'[k].p \in 1..made' /\ task'[k].p \notin Range(proposed')
              /\ typed'[task'[k].p] = 0
              /\ \A j \in Handlers \ {k} : task'[j].at = "write" => task'[j].p # task'[k].p
  <2>1. k # g /\ task'[k] = task[k]
        /\ \A j \in Handlers : task'[j].at = "write" => task'[j] = task[j]
    BY <1>3, <1>7, <1>11
  <2>2. /\ Taken(task[k].p) /\ typed[task[k].p] = 0 /\ task[k].p # q
        /\ \A j \in Handlers \ {k} : task[j].at = "write" => task[j].p # task[k].p
    BY <1>4, <1>11, <2>1 DEF TypingInv
  <2>3. task[k].p \in 1..MaxProposals /\ typed'[task[k].p] = 0
    BY <1>5, <1>6, <2>2, ProposalConstants DEF Taken, TypingInv, TypingTypes
  <2> QED BY <1>2, <1>11, <2>1, <2>2, <2>3 DEF Taken
<1> QED BY <1>8, <1>10, <1>11 DEF TypingInv, Taken

LEMMA NextTypes == TypingInv /\ [PNext]_pvars => TypingInv'
<1> SUFFICES ASSUME TypingInv, [PNext]_pvars PROVE TypingInv'
  OBVIOUS
<1>0. /\ proposed \in Seq(1..made) /\ IsInjective(proposed)
      /\ answers \in [Guis -> Seq(Answer)]
      /\ Guis \subseteq Handlers /\ task = [h \in Handlers |-> task[h]]
  BY DEF TypingInv, TypingTypes, Handlers
<1>1. ASSUME NEW a \in Agents, Queue(a) PROVE TypingInv'
  BY <1>1, QueueTypes
<1>2. ASSUME NEW g \in Guis, Approve(g) \/ Write(g) PROVE TypingInv'
  BY <1>2, ApproveTypes, WriteTypes
<1>3. ASSUME NEW g \in Guis, Discard(g) PROVE TypingInv'
  <2>1. PICK n : n = Head(answers[g]).index
    OBVIOUS
  <2>2. /\ answers[g] # <<>> /\ n <= Len(proposed) /\ proposed' = Take(proposed, n)
        /\ task' = [task EXCEPT ![g] = ToNotify]
        /\ answers' = [answers EXCEPT ![g] = Tail(@)] /\ UNCHANGED <<made, typed>>
    BY <1>3, <2>1 DEF Discard
  <2>3. /\ proposed' \in Seq(1..made) /\ IsInjective(proposed')
        /\ Range(proposed') \subseteq Range(proposed)
        /\ answers' \in [Guis -> Seq(Answer)]
    BY <2>1, <2>2, AnswerTakes
  <2>4. ToNotify.at = "notify" /\ g \in Handlers
    BY <1>0 DEF ToNotify
  <2> QED BY <2>2, <2>3, <2>4, HandlerMoves
<1>4. ASSUME NEW h \in Handlers, List(h) PROVE TypingInv'
  <2> DEFINE t == [at |-> "fill", list |-> proposed, todo |-> Guis]
  <2>1. /\ task' = [task EXCEPT ![h] = t] /\ t.at = "fill"
        /\ t = [at |-> "fill", list |-> t.list, todo |-> t.todo]
        /\ UNCHANGED <<made, typed, proposed, answers>>
    BY <1>4 DEF List
  <2> HIDE DEF t
  <2> QED BY <1>0, <2>1, HandlerMoves
<1>5. ASSUME NEW h \in Handlers, NEW g \in Guis, Fill(h, g) PROVE TypingInv'
  <2>1. /\ task[h] = [at |-> "fill", list |-> task[h].list, todo |-> task[h].todo]
        /\ UNCHANGED <<made, typed, proposed, answers>>
    BY <1>5 DEF Fill, TypingInv, TypingTypes
  <2>2. CASE task[h].todo = {g}
    <3>1. task' = [task EXCEPT ![h] = Free] /\ Free.at = "free"
      BY <1>5, <2>2 DEF Fill, Free
    <3> QED BY <1>0, <2>1, <3>1, HandlerMoves
  <2>3. CASE task[h].todo # {g}
    <3> DEFINE t == [task[h] EXCEPT !.todo = task[h].todo \ {g}]
    <3>1. task' = [task EXCEPT ![h] = t]
      BY <1>5, <2>3 DEF Fill
    <3>2. t = [at |-> "fill", list |-> task[h].list, todo |-> task[h].todo \ {g}]
      BY <2>1
    <3> HIDE DEF t
    <3>3. t.at = "fill" /\ t = [at |-> "fill", list |-> t.list, todo |-> t.todo]
      BY <3>2
    <3> QED BY <1>0, <2>1, <3>1, <3>3, HandlerMoves
  <2> QED BY <2>2, <2>3
<1>6. CASE \/ \E g \in Guis : \/ Stale(g) \/ Show(g)
                              \/ \E i \in 1..MaxProposals, ok \in BOOLEAN : Answer1(g, i, ok)
           \/ TabCloses \/ UNCHANGED pvars
  <2>1. UNCHANGED <<made, typed, proposed, task>>
    BY <1>6 DEF Stale, Show, Answer1, TabCloses, pvars
  <2>2. answers' \in [Guis -> Seq(Answer)]
    <3>1. ASSUME NEW g \in Guis, Stale(g) PROVE answers' \in [Guis -> Seq(Answer)]
      <4>1. Tail(answers[g]) \in Seq(Answer)
        BY <1>0, <3>1, HeadTailProperties DEF Stale
      <4> QED BY <1>0, <3>1, <4>1 DEF Stale
    <3>2. ASSUME NEW g \in Guis, NEW i \in 1..MaxProposals, NEW ok \in BOOLEAN, Answer1(g, i, ok)
          PROVE  answers' \in [Guis -> Seq(Answer)]
      <4>1. [index |-> i, ok |-> ok] \in Answer
        BY ProposalConstants DEF Answer
      <4>2. Append(answers[g], [index |-> i, ok |-> ok]) \in Seq(Answer)
        BY <1>0, <4>1, AppendProperties
      <4> QED BY <1>0, <3>2, <4>2 DEF Answer1
    <3>3. CASE UNCHANGED answers
      BY <1>0, <3>3
    <3> QED BY <1>6, <3>1, <3>2, <3>3 DEF Show, TabCloses, pvars
  <2>3. TypingTypes'
    BY <2>1, <2>2 DEF TypingInv, TypingTypes
  <2> QED BY <2>1, <2>3 DEF TypingInv, Taken
<1> QED BY <1>1, <1>2, <1>3, <1>4, <1>5, <1>6 DEF PNext

LEMMA InitTypes == PInit => TypingInv
<1> SUFFICES ASSUME PInit PROVE TypingInv
  OBVIOUS
<1>1. /\ proposed = [i \in 1..Waiting |-> i] /\ made = Waiting
      /\ task = [h \in Handlers |-> Free] /\ Free.at = "free"
      /\ answers = [g \in Guis |-> <<>>]
      /\ typed = [p \in 1..MaxProposals |-> 0]
  BY DEF PInit, Free
<1>2. Waiting \in Nat /\ Waiting <= MaxProposals
  BY ProposalConstants
<1>3. proposed \in Seq(1..made) /\ IsInjective(proposed)
  <2>1. proposed \in [1..Waiting -> 1..Waiting]
    BY <1>1
  <2> QED BY <1>1, <1>2, <2>1 DEF IsInjective
<1>4. answers \in [Guis -> Seq(Answer)]
  BY <1>1
<1>5. typed \in [1..MaxProposals -> Nat] /\ \A p \in 1..MaxProposals : typed[p] = 0
  BY <1>1
<1>6. TypingTypes
  BY <1>1, <1>2, <1>3, <1>4, <1>5 DEF TypingTypes
<1> QED BY <1>1, <1>5, <1>6 DEF TypingInv

\* Whoever answers at once, with whichever stale list on the screen: a proposal
\* is typed at most once, one that still waits was not typed, and no two answers
\* are about to type the same (ApproveProposal, DropProposal and
\* QueueProposedInput).
THEOREM ProposalsAreTypedOnce == PSpec => []TypedOnce
<1>1. TypingInv => TypedOnce
  <2> SUFFICES ASSUME TypingInv, NEW p \in 1..MaxProposals
               PROVE  /\ typed[p] + Cardinality({i \in DOMAIN proposed : proposed[i] = p}) <= 1
                      /\ \A g, h \in Guis :
                           (g # h /\ task[g].at = "write" /\ task[h].at = "write")
                             => task[g].p # task[h].p
    BY DEF TypedOnce
  <2> DEFINE places == {i \in DOMAIN proposed : proposed[i] = p}
  <2>1. \A g, h \in Guis : (g # h /\ task[g].at = "write" /\ task[h].at = "write")
                             => task[g].p # task[h].p
    BY DEF TypingInv, Handlers
  <2>2. typed[p] \in Nat /\ typed[p] <= 1 /\ (typed[p] = 1 => p \notin Range(proposed))
    BY DEF TypingInv, TypingTypes, Taken
  <2>3. CASE places = {}
    <3>1. Cardinality(places) = 0
      BY <2>3, FS_EmptySet
    <3> HIDE DEF places
    <3> QED BY <2>1, <2>2, <3>1 DEF places
  <2>4. CASE places # {}
    <3>1. PICK i \in places : TRUE
      BY <2>4
    <3>2. places = {i}
      BY <3>1 DEF TypingInv, TypingTypes, IsInjective
    <3>3. Cardinality(places) = 1
      BY <3>2, FS_Singleton
    <3>4. p \in Range(proposed)
      BY <3>1 DEF Range
    <3>5. typed[p] = 0
      BY <2>2, <3>4
    <3> HIDE DEF places
    <3> QED BY <2>1, <3>3, <3>5 DEF places
  <2> QED BY <2>3, <2>4
<1> QED BY <1>1, InitTypes, NextTypes, PTL DEF PSpec

-----------------------------------------------------------------------------
(* Lists cut down to what is left.                                         *)

USE SessionConstants, CrashRestoreConstants

\* Sorting a set lists each of its elements once.
LEMMA SortedFacts ==
  ASSUME NEW S, IsFiniteSet(S), S \subseteq Nat
  PROVE  /\ Cardinality(S) \in Nat
         /\ Sorted(S) \in [1..Cardinality(S) -> S]
         /\ IsInjective(Sorted(S))
         /\ Range(Sorted(S)) = S
         /\ \A k, l \in DOMAIN Sorted(S) : Sorted(S)[k] <= Sorted(S)[l] => k <= l
<1> DEFINE n == Cardinality(S)
           upTo(x) == {y \in S : y <= x}
           rank == [x \in S |-> Cardinality(upTo(x))]
<1>1. n \in Nat /\ IsFiniteSet(1..n) /\ Cardinality(1..n) = n
  <2>1. n \in Nat
    BY FS_CardinalityType
  <2> HIDE DEF n
  <2> QED BY <2>1, FS_Interval
<1>2. ASSUME NEW x \in S
      PROVE  IsFiniteSet(upTo(x)) /\ Cardinality(upTo(x)) \in 1..n
  <2>1. upTo(x) \in SUBSET S /\ x \in upTo(x)
    OBVIOUS
  <2> HIDE DEF upTo
  <2>2. IsFiniteSet(upTo(x)) /\ Cardinality(upTo(x)) <= n
    BY <2>1, FS_Subset
  <2>3. Cardinality(upTo(x)) \in Nat /\ Cardinality(upTo(x)) # 0
    BY <2>1, <2>2, FS_CardinalityType, FS_EmptySet
  <2> HIDE DEF n
  <2> QED BY <1>1, <2>2, <2>3
<1>3. ASSUME NEW a \in S, NEW b \in S, a < b
      PROVE  Cardinality(upTo(a)) # Cardinality(upTo(b))
  <2>0. a \in Nat /\ b \in Nat
    OBVIOUS
  <2>1. ASSUME NEW y \in S, y <= a PROVE y <= b
    BY <1>3, <2>0, <2>1
  <2>2. b <= b /\ ~(b <= a)
    BY <1>3, <2>0
  <2>3. upTo(a) \in SUBSET upTo(b) /\ b \in upTo(b) /\ b \notin upTo(a)
    BY <2>1, <2>2
  <2> HIDE DEF upTo
  <2> QED BY <1>2, <2>3, FS_Subset
<1>4. rank \in Injection(S, 1..n)
  <2>1. rank \in [S -> 1..n]
    BY <1>2
  <2>2. ASSUME NEW a \in S, NEW b \in S, rank[a] = rank[b] PROVE a = b
    <3>1. ~(a < b) /\ ~(b < a)
      BY <1>3, <2>2
    <3> QED BY <3>1
  <2> HIDE DEF rank
  <2> QED BY <2>1, <2>2 DEF Injection, IsInjective
<1>5. rank \in Surjection(S, 1..n)
  <2> HIDE DEF rank
  <2> QED BY <1>1, <1>4, FS_Injection
<1>6. \A k \in 1..n : \E x \in S : Cardinality(upTo(x)) = k
  <2>1. \A k \in 1..n : \E x \in S : rank[x] = k
    <3> HIDE DEF rank
    <3> QED BY <1>5 DEF Surjection
  <2> QED BY <2>1
<1>7. Sorted(S) = [k \in 1..n |-> CHOOSE x \in S : Cardinality(upTo(x)) = k]
  BY DEF Sorted
<1>8. \A a, b \in S : Cardinality(upTo(a)) = Cardinality(upTo(b)) => a = b
  <2>1. \A a, b \in S : a < b \/ b < a \/ a = b
    OBVIOUS
  <2> QED BY <1>3, <2>1
<1>9. ASSUME NEW a \in S, NEW b \in S, a <= b
      PROVE  upTo(a) \in SUBSET upTo(b)
  <2>1. a \in Nat /\ b \in Nat
    OBVIOUS
  <2>2. ASSUME NEW y \in S, y <= a PROVE y <= b
    BY <1>9, <2>1, <2>2
  <2> QED BY <2>2
<1> HIDE DEF n, upTo
<1>10. \A k \in 1..n : Sorted(S)[k] \in S /\ Cardinality(upTo(Sorted(S)[k])) = k
  BY <1>6, <1>7
<1>11. Sorted(S) \in [1..n -> S]
  BY <1>7, <1>10
<1>12. ASSUME NEW x \in S PROVE x \in Range(Sorted(S))
  <2>1. Cardinality(upTo(x)) \in DOMAIN Sorted(S)
    BY <1>2, <1>11
  <2>2. Sorted(S)[Cardinality(upTo(x))] = x
    BY <1>2, <1>8, <1>10
  <2> QED BY <2>1, <2>2 DEF Range
<1>13. IsInjective(Sorted(S))
  <2>1. DOMAIN Sorted(S) = 1..n
    BY <1>11
  <2> QED BY <1>10, <2>1 DEF IsInjective
<1>14. Range(Sorted(S)) \subseteq S
  BY <1>11 DEF Range
<1>15. ASSUME NEW k \in DOMAIN Sorted(S), NEW l \in DOMAIN Sorted(S),
              Sorted(S)[k] <= Sorted(S)[l]
       PROVE  k <= l
  <2>1. k \in 1..n /\ l \in 1..n
    BY <1>11
  <2>2. PICK a \in S, b \in S :
          a = Sorted(S)[k] /\ b = Sorted(S)[l] /\ a <= b
    BY <1>11, <1>15, <2>1
  <2>3. upTo(a) \in SUBSET upTo(b)
    BY <2>2, <1>9
  <2>4. Cardinality(upTo(a)) <= Cardinality(upTo(b))
    BY <1>2, <2>3, FS_Subset
  <2> QED BY <1>10, <2>1, <2>2, <2>4
<1> QED BY <1>1, <1>11, <1>12, <1>13, <1>14, <1>15 DEF n

\* What is kept of a list is what both have, in one place each.
LEMMA KeptFacts ==
  ASSUME NEW T, NEW bar \in Seq(T), IsInjective(bar), NEW ids
  PROVE  /\ Kept(bar, ids) \in Seq(T)
         /\ Range(Kept(bar, ids)) = Range(bar) \cap ids
         /\ IsInjective(Kept(bar, ids))
         /\ KeepsOrder(bar, Kept(bar, ids), ids)
<1> DEFINE S == {i \in DOMAIN bar : bar[i] \in ids}
           at == Sorted(S)
<1>1. DOMAIN bar = 1..Len(bar) /\ Len(bar) \in Nat /\ S \in SUBSET (1..Len(bar))
      /\ \A i \in 1..Len(bar) : bar[i] \in T
  BY LenProperties, ElementOfSeq
<1>2. S \subseteq Nat /\ IsFiniteSet(S)
  <2>1. IsFiniteSet(1..Len(bar)) /\ S \subseteq Nat
    BY <1>1, FS_Interval
  <2> HIDE DEF S
  <2> QED BY <1>1, <2>1, FS_Subset
<1>3. \A i : i \in S <=> i \in DOMAIN bar /\ bar[i] \in ids
  OBVIOUS
<1>4. Kept(bar, ids) = [k \in DOMAIN at |-> bar[at[k]]]
  BY DEF Kept
<1> HIDE DEF S
<1>5. /\ Cardinality(S) \in Nat /\ at \in [1..Cardinality(S) -> S]
      /\ IsInjective(at) /\ Range(at) = S
      /\ \A k, l \in DOMAIN at : at[k] <= at[l] => k <= l
  BY <1>2, SortedFacts
<1> HIDE DEF at
<1>6. Kept(bar, ids) \in [1..Cardinality(S) -> T]
  BY <1>1, <1>3, <1>4, <1>5
<1>7. Range(Kept(bar, ids)) = Range(bar) \cap ids
  <2>1. ASSUME NEW e \in Range(Kept(bar, ids)) PROVE e \in Range(bar) \cap ids
    BY <1>3, <1>4, <1>5 DEF Range
  <2>2. ASSUME NEW e \in Range(bar) \cap ids PROVE e \in Range(Kept(bar, ids))
    <3>1. PICK i \in DOMAIN bar : bar[i] = e
      BY DEF Range
    <3>2. i \in Range(at)
      BY <1>3, <1>5, <3>1
    <3>3. PICK k \in DOMAIN at : at[k] = i
      BY <3>2 DEF Range
    <3> QED BY <1>4, <3>1, <3>3 DEF Range
  <2> QED BY <2>1, <2>2
<1>8. IsInjective(Kept(bar, ids))
  BY <1>1, <1>3, <1>4, <1>5 DEF IsInjective
<1>9. ASSUME NEW i \in DOMAIN bar, NEW j \in DOMAIN bar,
             i <= j, {bar[i], bar[j]} \subseteq ids
      PROVE  \E k, l \in DOMAIN Kept(bar, ids) :
               k <= l /\ Kept(bar, ids)[k] = bar[i] /\ Kept(bar, ids)[l] = bar[j]
  <2>1. i \in Range(at) /\ j \in Range(at)
    BY <1>3, <1>5, <1>9
  <2>2. PICK k \in DOMAIN at, l \in DOMAIN at : at[k] = i /\ at[l] = j
    BY <2>1 DEF Range
  <2>3. k <= l
    BY <1>5, <1>9, <2>2
  <2> QED BY <1>4, <2>2, <2>3
<1> QED BY <1>5, <1>6, <1>7, <1>8, <1>9 DEF KeepsOrder

-----------------------------------------------------------------------------
(* What a snapshot holds.                                                  *)

StateType ==
  [instance : Nat, windows : Seq(WinID), bars : [WinID -> Seq(TabID)],
   front : [WinID -> TabID \cup {NoTab}], tabs : SUBSET TabID,
   name : [TabID -> Labels], nextTab : 0..(MaxTabID + 1),
   nextWin : 0..(MaxWinID + 1), rev : 0..MaxRevision]

\* Its windows are different ones and were handed out, and no tab is on two
\* bars or twice on one.  (A bar may list a tab whose shell has exited, and a
\* tab may be on no bar.)
StateSound(st) ==
  /\ st \in StateType
  /\ IsInjective(st.windows)
  /\ \A w \in Range(st.windows) : w < st.nextWin
  /\ \A w \in WinID : IsInjective(st.bars[w])
  /\ \A v, w \in Range(st.windows) :
       \A t : t \in Range(st.bars[v]) /\ t \in Range(st.bars[w]) => v = w

\* A window with tabs has one of them in front.
FrontsListed(st) ==
  \A w \in Range(st.windows) :
    IF Range(st.bars[w]) = {} THEN st.front[w] = NoTab
                              ELSE st.front[w] \in Range(st.bars[w])

\* Its counters are beyond what it lists.
IdsBeyond(st) ==
  /\ st.nextTab # 0 /\ st.nextWin # 0
  /\ \A t \in st.tabs : t < st.nextTab

\* No bar lists a tab the session lacks.
BarsListed(st) == \A w \in Range(st.windows) : Range(st.bars[w]) \subseteq st.tabs

LEMMA NoStateSound == StateSound(NoState) /\ FrontsListed(NoState)
<1>1. NoState.windows = <<>> /\ NoState.bars = [w \in WinID |-> <<>>]
  BY DEF NoState
<1>2. NoState \in StateType
  <2>1. /\ <<>> \in Seq(WinID) /\ [w \in WinID |-> <<>>] \in [WinID -> Seq(TabID)]
        /\ [w \in WinID |-> NoTab] \in [WinID -> TabID \cup {NoTab}]
        /\ {} \in SUBSET TabID
    BY EmptySeq
  <2>2. [t \in TabID |-> NoName] \in [TabID -> Labels]
    BY DEF Labels
  <2>3. /\ NoInstance \in Nat /\ 0 \in 0..(MaxTabID + 1) /\ 0 \in 0..(MaxWinID + 1)
        /\ 0 \in 0..MaxRevision
    BY DEF NoInstance
  <2> HIDE DEF NoInstance, TabID, WinID, Labels, NoTab
  <2> QED BY <2>1, <2>2, <2>3 DEF NoState, StateType
<1>3. Range(<<>>) = {} /\ IsInjective(<<>>)
  BY DEF Range, IsInjective
<1> QED BY <1>1, <1>2, <1>3 DEF StateSound, FrontsListed

\* A snapshot of a session that is in order.
LEMMA SnapshotStateSound ==
  ASSUME TidyInv, instance \in Nat
  PROVE  /\ StateSound(SnapshotState) /\ IdsBeyond(SnapshotState)
         /\ FrontInv => FrontsListed(SnapshotState)
         /\ exited = {} => BarsListed(SnapshotState)
<1>1. /\ SnapshotState \in StateType
      /\ SnapshotState.windows = windows /\ SnapshotState.bars = tabIDs
      /\ SnapshotState.front = winFocus /\ SnapshotState.tabs = tabs \ exited
      /\ SnapshotState.nextTab = nextTabID /\ SnapshotState.nextWin = nextWinID
  BY DEF SnapshotState, StateType, TidyInv, IndexInv, TypeOK
<1>2. OpenWindows \subseteq WinID /\ OpenWindows = Range(windows)
  BY OpenWindowsTyped DEF TidyInv, IndexInv, TypeOK, OpenWindows
<1>3. StateSound(SnapshotState)
  BY <1>1, <1>2 DEF StateSound, TidyInv, Tidy, Held
<1>4. IdsBeyond(SnapshotState)
  BY <1>1 DEF IdsBeyond, TidyInv, IndexInv, IdsSpent, TypeOK
<1>5. FrontInv => FrontsListed(SnapshotState)
  BY <1>1, <1>2 DEF FrontInv, FrontsListed, Held
<1>6. exited = {} => BarsListed(SnapshotState)
  BY <1>1, <1>2 DEF BarsListed, TidyInv, Tidy, Held
<1> QED BY <1>3, <1>4, <1>5, <1>6

-----------------------------------------------------------------------------
(* Resuming.                                                               *)

LEMMA ResumedTyped ==
  ASSUME NEW st, StateSound(st), IdsBeyond(st), ResumeFromHandoff(st)
  PROVE  TypeOK'
<1>1. \A w \in WinID : Kept(st.bars[w], st.tabs) \in Seq(TabID)
  BY KeptFacts DEF StateSound, StateType
<1>2. tabIDs' \in [WinID -> Seq(TabID)] /\ winFocus' \in [WinID -> TabID \cup {NoTab}]
  BY <1>1, EmptySeq DEF ResumeFromHandoff, StateSound, StateType
<1>3. name' \in [TabID -> Labels]
  BY DEF ResumeFromHandoff, StateSound, StateType, Labels
<1>4. tabsByName' \in [Names -> TabID \cup {NoTab}]
  BY DEF ResumeFromHandoff, Reindex, StateSound, StateType
<1>5. /\ windows' \in Seq(WinID) /\ tabs' \subseteq TabID
      /\ exited' = {} /\ focusedTabID' = NoTab /\ pending' = {}
      /\ revision' \in 0..MaxRevision
      /\ nextTabID' \in 1..(MaxTabID + 1) /\ nextWinID' \in 1..(MaxWinID + 1)
  BY DEF ResumeFromHandoff, StateSound, StateType, IdsBeyond
<1> QED BY <1>2, <1>3, <1>4, <1>5 DEF TypeOK

\* A session that resumes from a sound state is in order, and keeps what was in
\* front if the bars lost nothing on the way.
LEMMA ResumedTidy ==
  ASSUME NEW st, StateSound(st), IdsBeyond(st), ResumeFromHandoff(st)
  PROVE  /\ TidyInv'
         /\ FrontsListed(st) /\ BarsListed(st) => FrontInv'
<1>1. /\ windows' = st.windows /\ tabs' = st.tabs /\ nextWinID' = st.nextWin
      /\ nextTabID' = st.nextTab
      /\ tabIDs' = [w \in WinID |-> IF w \in Range(st.windows)
                                    THEN Kept(st.bars[w], st.tabs) ELSE <<>>]
      /\ winFocus' = [w \in WinID |-> IF w \in Range(st.windows)
                                      THEN st.front[w] ELSE NoTab]
      /\ name' = [t \in TabID |-> IF t \in st.tabs THEN st.name[t] ELSE NoName]
      /\ tabsByName' \in Reindex(st)
  BY DEF ResumeFromHandoff
<1>2. TypeOK'
  BY ResumedTyped
<1>3. IdsSpent'
  BY <1>1 DEF IdsSpent, IdsBeyond
<1>4. IndexInLockstep'
  <2>1. ASSUME NEW n \in Names, tabsByName'[n] # NoTab
        PROVE  tabsByName'[n] \in tabs' /\ name'[tabsByName'[n]] = n
    <3>1. tabsByName'[n] \in {t \in st.tabs : st.name[t] = n}
      BY <1>1, <2>1 DEF Reindex
    <3>2. tabsByName'[n] \in st.tabs /\ st.tabs \subseteq TabID /\ st.name[tabsByName'[n]] = n
      BY <3>1 DEF StateSound, StateType
    <3> QED BY <1>1, <3>2
  <2> QED BY <2>1 DEF IndexInLockstep
<1>5. \A w \in WinID :
        IF w \in Range(st.windows)
        THEN Range(tabIDs'[w]) = Range(st.bars[w]) \cap st.tabs /\ IsInjective(tabIDs'[w])
        ELSE Range(tabIDs'[w]) = {} /\ IsInjective(tabIDs'[w])
  <2>1. Range(<<>>) = {} /\ IsInjective(<<>>)
    BY DEF Range, IsInjective
  <2>2. ASSUME NEW w \in WinID
        PROVE  /\ Range(Kept(st.bars[w], st.tabs)) = Range(st.bars[w]) \cap st.tabs
               /\ IsInjective(Kept(st.bars[w], st.tabs))
    BY KeptFacts DEF StateSound, StateType
  <2> QED BY <1>1, <2>1, <2>2
<1>6. OpenWindows' = Range(st.windows)
  BY <1>1 DEF OpenWindows
<1>7. Range(st.windows) \subseteq WinID
  BY LenProperties, ElementOfSeq DEF StateSound, StateType, Range
<1>8. Tidy'
  BY <1>1, <1>5, <1>6, <1>7 DEF Tidy, Held, StateSound
<1>9. ASSUME FrontsListed(st), BarsListed(st) PROVE FrontInv'
  <2>1. ASSUME NEW w \in WinID
        PROVE  IF Held(w)' = {} THEN winFocus'[w] = NoTab ELSE winFocus'[w] \in Held(w)'
    <3>1. CASE w \in Range(st.windows)
      <4>1. Held(w)' = Range(st.bars[w]) /\ winFocus'[w] = st.front[w]
        BY <1>1, <1>5, <1>9, <3>1 DEF Held, BarsListed
      <4> QED BY <1>9, <3>1, <4>1 DEF FrontsListed
    <3>2. CASE w \notin Range(st.windows)
      BY <1>1, <1>5, <3>2 DEF Held
    <3> QED BY <3>1, <3>2
  <2> QED BY <2>1 DEF FrontInv
<1> QED BY <1>2, <1>3, <1>4, <1>8, <1>9 DEF TidyInv, IndexInv

\* What the supervisor builds for the next daemon from a sound state and the
\* shells it still has is sound, in order, and shows a live tab in front of
\* every window.
LEMMA BuiltSound ==
  ASSUME NEW st, StateSound(st), Live \subseteq TabID, Live # {}
  PROVE  /\ StateSound(BuildHandoff(st)) /\ IdsBeyond(BuildHandoff(st))
         /\ BarsListed(BuildHandoff(st))
         /\ FrontsListed(st) => FrontsListed(BuildHandoff(st))
<1> DEFINE kept == [w \in WinID |-> Kept(st.bars[w], Live)]
           wins == Kept(st.windows, {w \in WinID : kept[w] # <<>>})
           all == Sorted(Live)
           built == BuildHandoff(st)
<1>1. /\ st \in StateType
      /\ st.windows \in Seq(WinID) /\ st.bars \in [WinID -> Seq(TabID)]
      /\ st.front \in [WinID -> TabID \cup {NoTab}] /\ st.name \in [TabID -> Labels]
      /\ st.nextTab \in 0..(MaxTabID + 1) /\ st.nextWin \in 0..(MaxWinID + 1)
      /\ Range(st.windows) \subseteq WinID /\ IsInjective(st.windows)
      /\ \A w \in WinID : IsInjective(st.bars[w])
  BY LenProperties, ElementOfSeq DEF StateSound, StateType, Range
<1>2. /\ built.tabs = Live /\ built.nextTab = NextTab(st)
      /\ built.name = [t \in TabID |-> IF t \in Live \cap st.tabs THEN st.name[t] ELSE NoName]
      /\ built.windows = IF wins = <<>> THEN <<1>> ELSE wins
      /\ built.bars = IF wins = <<>> THEN [kept EXCEPT ![1] = all] ELSE kept
      /\ built.front = IF wins = <<>> THEN [st.front EXCEPT ![1] = all[1]]
                       ELSE [w \in WinID |-> FrontOf(st.front[w], kept[w])]
      /\ built.nextWin = IF wins = <<>> THEN Max({st.nextWin, 2}) ELSE st.nextWin
      /\ built.instance = st.instance /\ built.rev = st.rev
      /\ built = [instance |-> built.instance, windows |-> built.windows,
                  bars |-> built.bars, front |-> built.front, tabs |-> built.tabs,
                  name |-> built.name, nextTab |-> built.nextTab,
                  nextWin |-> built.nextWin, rev |-> built.rev]
  <2> DEFINE labelled == [t \in TabID |-> IF t \in Live \cap st.tabs THEN st.name[t] ELSE NoName]
             fronts == IF wins = <<>> THEN [st.front EXCEPT ![1] = all[1]]
                       ELSE [w \in WinID |-> FrontOf(st.front[w], kept[w])]
             bars == IF wins = <<>> THEN [kept EXCEPT ![1] = all] ELSE kept
             open == IF wins = <<>> THEN <<1>> ELSE wins
             next == IF wins = <<>> THEN Max({st.nextWin, 2}) ELSE st.nextWin
  <2>1. built = [st EXCEPT !.tabs = Live, !.name = labelled, !.windows = open, !.bars = bars,
                           !.front = fronts, !.nextWin = next, !.nextTab = NextTab(st)]
    BY DEF BuildHandoff
  <2>2. st = [instance |-> st.instance, windows |-> st.windows, bars |-> st.bars,
              front |-> st.front, tabs |-> st.tabs, name |-> st.name,
              nextTab |-> st.nextTab, nextWin |-> st.nextWin, rev |-> st.rev]
    BY <1>1 DEF StateType
  <2> HIDE DEF built, labelled, fronts, bars, open, next
  <2>3. built = [instance |-> st.instance, windows |-> open, bars |-> bars,
                 front |-> fronts, tabs |-> Live, name |-> labelled,
                 nextTab |-> NextTab(st), nextWin |-> next, rev |-> st.rev]
    BY <2>1, <2>2
  <2>4. /\ built.tabs = Live /\ built.nextTab = NextTab(st)
        /\ built.name = labelled /\ built.windows = open /\ built.bars = bars
        /\ built.front = fronts /\ built.nextWin = next
        /\ built.instance = st.instance /\ built.rev = st.rev
    BY <2>3
  <2> QED BY <2>3, <2>4 DEF labelled, fronts, bars, open, next
<1>3. ASSUME NEW w \in WinID
      PROVE  /\ kept[w] \in Seq(TabID) /\ IsInjective(kept[w])
             /\ Range(kept[w]) = Range(st.bars[w]) \cap Live
             /\ kept[w] # <<>> <=> Range(kept[w]) # {}
  <2>1. st.bars[w] \in Seq(TabID) /\ IsInjective(st.bars[w])
    BY <1>1
  <2>2. kept[w] = Kept(st.bars[w], Live)
    OBVIOUS
  <2> HIDE DEF kept
  <2> QED BY <2>1, <2>2, KeptFacts, EmptyBar
<1>4. /\ Cardinality(Live) \in Nat \ {0} /\ all \in Seq(TabID) /\ IsInjective(all)
      /\ Range(all) = Live /\ all[1] \in Live
  <2>1. IsFiniteSet(1..MaxTabID) /\ 1..MaxTabID \subseteq Nat
    BY FS_Interval
  <2>2. IsFiniteSet(Live) /\ Live \subseteq Nat
    BY <2>1, FS_Subset DEF TabID
  <2>3. Cardinality(Live) \in Nat \ {0}
    BY <2>2, FS_CardinalityType, FS_EmptySet
  <2>4. /\ all \in [1..Cardinality(Live) -> Live] /\ IsInjective(all) /\ Range(all) = Live
    BY <2>2, SortedFacts
  <2> HIDE DEF all
  <2>5. all \in [1..Cardinality(Live) -> TabID]
    BY <2>4
  <2>6. all[1] \in Live
    BY <2>3, <2>4
  <2> QED BY <2>3, <2>4, <2>5, <2>6
<1>5. /\ wins \in Seq(WinID) /\ IsInjective(wins)
      /\ Range(wins) = {w \in Range(st.windows) : kept[w] # <<>>}
  <2>1. /\ wins \in Seq(WinID) /\ IsInjective(wins)
        /\ Range(wins) = Range(st.windows) \cap {w \in WinID : kept[w] # <<>>}
    <3> HIDE DEF kept
    <3> QED BY <1>1, KeptFacts
  <2> QED BY <1>1, <2>1
<1>6. /\ NextTab(st) \in 1..(MaxTabID + 1)
      /\ \A t \in Live : t < NextTab(st)
  <2> DEFINE T == {st.nextTab} \cup {t + 1 : t \in Live}
  <2>0. ASSUME NEW t \in Live PROVE t \in Nat /\ t + 1 \in 0..(MaxTabID + 1)
    BY DEF TabID
  <2>1. T \subseteq 0..(MaxTabID + 1) /\ T # {} /\ MaxTabID + 1 \in Nat
    <3>1. ASSUME NEW y \in T PROVE y \in 0..(MaxTabID + 1)
      BY <1>1, <2>0
    <3>2. st.nextTab \in T
      OBVIOUS
    <3> HIDE DEF T
    <3> QED BY <3>1, <3>2
  <2>2. NextTab(st) = Max(T)
    BY DEF NextTab
  <2>3. \A t \in Live : t + 1 \in T
    OBVIOUS
  <2> HIDE DEF T
  <2>4. Max(T) \in T /\ \A y \in T : y <= Max(T)
    BY <2>1, MaxFacts
  <2>5. PICK m \in 0..(MaxTabID + 1) : m = Max(T)
    BY <2>1, <2>4
  <2>6. ASSUME NEW t \in Live PROVE t < m
    <3>1. t + 1 <= m /\ t \in Nat
      BY <2>0, <2>3, <2>4, <2>5
    <3> QED BY <3>1
  <2>7. PICK t \in Live : t < m /\ t \in Nat
    BY <2>0, <2>6
  <2> QED BY <2>2, <2>5, <2>6, <2>7
<1> HIDE DEF kept, wins, all, built
<1>7. CASE wins = <<>>
  <2>1. /\ built.windows = <<1>> /\ built.bars = [kept EXCEPT ![1] = all]
        /\ built.front = [st.front EXCEPT ![1] = all[1]]
        /\ built.nextWin = Max({st.nextWin, 2})
    BY <1>2, <1>7
  <2>2. built.nextWin \in 2..(MaxWinID + 1)
    <3>1. {st.nextWin, 2} \subseteq 0..(MaxWinID + 1) /\ MaxWinID + 1 \in Nat
      BY <1>1
    <3>2. Max({st.nextWin, 2}) \in {st.nextWin, 2} /\ 2 <= Max({st.nextWin, 2})
      BY <3>1, MaxFacts
    <3> QED BY <2>1, <3>1, <3>2
  <2>3. 1 \in WinID /\ Range(<<1>>) = {1} /\ IsInjective(<<1>>) /\ <<1>> \in Seq(WinID)
    <3>1. 1 \in WinID /\ DOMAIN <<1>> = {1} /\ <<1>>[1] = 1
      BY DEF WinID
    <3> QED BY <3>1 DEF Range, IsInjective
  <2>4. built.bars[1] = all /\ \A w \in WinID \ {1} : built.bars[w] = kept[w]
    BY <2>1, <2>3 DEF kept
  <2>5. built.bars \in [WinID -> Seq(TabID)]
    <3>1. kept \in [WinID -> Seq(TabID)]
      BY <1>3 DEF kept
    <3> QED BY <1>4, <2>1, <3>1
  <2>6. built.front \in [WinID -> TabID \cup {NoTab}] /\ built.front[1] = all[1]
    BY <1>1, <1>4, <2>1, <2>3
  <2>7. built \in StateType
    <3>1. built.name \in [TabID -> Labels] /\ built.tabs \in SUBSET TabID
      BY <1>1, <1>2 DEF Labels
    <3>2. built.windows \in Seq(WinID) /\ built.nextWin \in 0..(MaxWinID + 1)
      BY <2>1, <2>2, <2>3
    <3>3. built.instance \in Nat /\ built.rev \in 0..MaxRevision
      BY <1>1, <1>2 DEF StateType
    <3>4. built.nextTab \in 0..(MaxTabID + 1)
      BY <1>2, <1>6
    <3> QED BY <1>2, <2>5, <2>6, <3>1, <3>2, <3>3, <3>4 DEF StateType
  <2>8. StateSound(built)
    BY <1>3, <1>4, <2>1, <2>2, <2>3, <2>4, <2>7 DEF StateSound
  <2>9. IdsBeyond(built)
    BY <1>2, <1>6, <2>2 DEF IdsBeyond
  <2>10. BarsListed(built) /\ FrontsListed(built)
    BY <1>2, <1>4, <2>1, <2>3, <2>4, <2>6 DEF BarsListed, FrontsListed
  <2> QED BY <2>8, <2>9, <2>10 DEF built
<1>8. CASE wins # <<>>
  <2>1. /\ built.windows = wins /\ built.bars = kept
        /\ built.front = [w \in WinID |-> FrontOf(st.front[w], kept[w])]
        /\ built.nextWin = st.nextWin
    BY <1>2, <1>8
  <2>2. /\ Range(wins) # {} /\ Range(wins) \subseteq Range(st.windows) /\ Range(wins) \subseteq WinID
    BY <1>1, <1>5, <1>8, EmptyBar
  <2>3. ASSUME NEW w \in WinID
        PROVE  FrontOf(st.front[w], kept[w]) \in TabID \cup {NoTab}
    <3>1. kept[w] # <<>> => kept[w][1] \in TabID
      BY <1>3, FirstHeld
    <3> QED BY <1>1, <3>1 DEF FrontOf
  <2>4. built \in StateType
    <3>1. built.name \in [TabID -> Labels] /\ built.tabs \in SUBSET TabID
      BY <1>1, <1>2 DEF Labels
    <3>2. built.windows \in Seq(WinID) /\ built.nextWin \in 0..(MaxWinID + 1)
      BY <1>1, <1>5, <2>1
    <3>3. built.instance \in Nat /\ built.rev \in 0..MaxRevision
      BY <1>1, <1>2 DEF StateType
    <3>4. built.nextTab \in 0..(MaxTabID + 1)
      BY <1>2, <1>6
    <3>5. built.front \in [WinID -> TabID \cup {NoTab}]
      BY <2>1, <2>3
    <3>6. built.bars \in [WinID -> Seq(TabID)]
      BY <1>3, <2>1 DEF kept
    <3> QED BY <1>2, <3>1, <3>2, <3>3, <3>4, <3>5, <3>6 DEF StateType
  <2>5. StateSound(built)
    <3>1. IsInjective(built.windows) /\ \A w \in Range(built.windows) : w < built.nextWin
      BY <1>5, <2>1, <2>2 DEF StateSound
    <3>2. \A w \in WinID : IsInjective(built.bars[w])
      BY <1>3, <2>1
    <3>3. ASSUME NEW v \in Range(built.windows), NEW w \in Range(built.windows),
                 NEW t \in Range(built.bars[v]), t \in Range(built.bars[w])
          PROVE  v = w
      <4>1. v \in WinID /\ w \in WinID /\ v \in Range(st.windows) /\ w \in Range(st.windows)
        BY <2>1, <2>2
      <4>2. t \in Range(st.bars[v]) /\ t \in Range(st.bars[w])
        BY <1>3, <2>1, <3>3, <4>1
      <4> QED BY <4>1, <4>2 DEF StateSound
    <3> QED BY <2>4, <3>1, <3>2, <3>3 DEF StateSound
  <2>6. IdsBeyond(built)
    <3>1. PICK w \in WinID : w < st.nextWin
      BY <2>2 DEF StateSound
    <3>2. st.nextWin # 0
      BY <1>1, <3>1 DEF WinID
    <3> QED BY <1>2, <1>6, <2>1, <3>2 DEF IdsBeyond
  <2>7. BarsListed(built)
    BY <1>2, <1>3, <2>1, <2>2 DEF BarsListed
  <2>8. ASSUME FrontsListed(st), NEW w \in Range(wins)
        PROVE  Range(kept[w]) # {} /\ FrontOf(st.front[w], kept[w]) \in Range(kept[w])
    <3>1. w \in WinID /\ kept[w] # <<>> /\ w \in Range(st.windows)
      BY <1>5, <2>2
    <3>2. kept[w][1] \in Range(kept[w]) /\ Range(kept[w]) # {}
      BY <1>3, <3>1, FirstHeld
    <3>3. CASE st.front[w] \in Live
      <4>1. st.front[w] # NoTab
        BY <3>3 DEF TabID, NoTab
      <4>2. st.front[w] \in Range(st.bars[w])
        BY <2>8, <3>1, <4>1 DEF FrontsListed
      <4> QED BY <1>3, <3>1, <3>2, <3>3, <4>2 DEF FrontOf
    <3>4. CASE st.front[w] \notin Live
      BY <3>1, <3>2, <3>4 DEF FrontOf
    <3> QED BY <3>3, <3>4
  <2>9. FrontsListed(st) => FrontsListed(built)
    BY <2>1, <2>2, <2>8 DEF FrontsListed
  <2> QED BY <2>5, <2>6, <2>7, <2>9 DEF built
<1> QED BY <1>7, <1>8

-----------------------------------------------------------------------------
(* A line of daemons.                                                      *)

CrashTypes == life \in Nat /\ instance \in Nat /\ plumb \subseteq TabID

\* The snapshots a next daemon may resume from.
Snapshots == sending \cup {lastState}

\* The session is in order, and so is every state another may resume from.
CrashInv ==
  /\ TidyInv /\ CrashTypes
  /\ \A st \in Snapshots : StateSound(st)

\* What is in front is on its bar, here and in every such state; without shells
\* that exit none is left out of a snapshot.
FrontsInv ==
  /\ FrontInv
  /\ ~ShellsExit => exited = {}
  /\ \A st \in Snapshots : FrontsListed(st)

LEMMA CInitSound == CInit => CrashInv /\ FrontsInv
<1> SUFFICES ASSUME CInit PROVE CrashInv /\ FrontsInv
  OBVIOUS
<1>1. TidyInv
  BY InitBars, BarsAreTidy DEF CInit
<1>2. CrashTypes
  BY DEF CInit, CrashTypes
<1>3. Snapshots = {NoState}
  BY DEF CInit, Snapshots
<1>4. FrontInv /\ exited = {}
  <2>1. Range(<<>>) = {}
    BY DEF Range
  <2> QED BY <2>1 DEF CInit, Init, FrontInv, Held
<1> QED BY <1>1, <1>2, <1>3, <1>4, NoStateSound DEF CrashInv, FrontsInv

LEMMA ShellsLive ==
  ASSUME ~ShellsExit, [Next]_vars
  PROVE  exited' = exited
<1>1. CASE \/ NewWindow
           \/ \E w \in WinID : CloseWindow(w)
           \/ \E t \in TabID : CloseTab(t) \/ SetFocusedTab(t)
           \/ \E w \in WinID, t \in TabID : SetWindowFocusedTab(w, t)
           \/ \E t \in TabID, n \in RenameTo : RenameTab(t, n)
  BY <1>1 DEF NewWindow, CloseWindow, CloseTab, SetFocusedTab, SetWindowFocusedTab, RenameTab
<1>2. CASE \/ \E w \in AnyWindow : CreateUnnamed(w)
           \/ \E call \in pending : FinishSpawn(call) \/ FailSpawn(call)
           \/ \E c \in Callers, n \in Names, w \in AnyWindow : BeginFindOrCreate(c, n, w)
           \/ \E c \in Callers : BeginEnsureInitial(c)
  BY <1>2 DEF CreateUnnamed, FinishSpawn, FailSpawn, NewTab, BeginFindOrCreate,
              BeginEnsureInitial
<1>3. ASSUME NEW t \in TabID, NEW w \in AnyWindow, NEW i \in MoveIndex, MoveTab(t, w, i)
      PROVE  exited' = exited
  BY <1>3 DEF MoveTab
<1>4. CASE UNCHANGED vars
  BY <1>4 DEF vars
<1>5. ASSUME NEW t \in TabID PROVE ~ChildExit(t)
  BY DEF ChildExit
<1> QED BY <1>1, <1>2, <1>3, <1>4, <1>5 DEF Next

\* What the daemon does at work is a step of its session or leaves it alone,
\* and the snapshot it takes is one of the session as it is.
LEMMA WorksSteps ==
  ASSUME CrashInv, Works
  PROVE  /\ [Next]_vars
         /\ CrashTypes'
         /\ Snapshots' \subseteq Snapshots \cup {SnapshotState}
<1>0. TypeOK /\ CrashTypes
  BY DEF CrashInv, TidyInv, IndexInv
<1> DEFINE Quiescent == UNCHANGED <<life, instance, plumb, sending, lastState>>
<1>1. Quiescent => CrashTypes' /\ Snapshots' = Snapshots
  BY <1>0 DEF CrashTypes, Snapshots
<1>2. CASE Create
  <2>1. Quiescent
    BY <1>2 DEF Create, Owe, keptVars
  <2>2. Next
    BY <1>2 DEF Create, Next
  <2> QED BY <1>1, <2>1, <2>2
<1>3. CASE Restructure
  <2>1. Quiescent
    BY <1>3 DEF Restructure, Owe, identity, keptVars
  <2>2. WinID \subseteq AnyWindow
    BY DEF WinID, AnyWindow
  <2>3. Next
    BY <1>3, <2>2 DEF Restructure, Next
  <2> QED BY <1>1, <2>1, <2>3
<1>4. CASE Unreported
  <2>1. Quiescent
    BY <1>4 DEF Unreported, identity, pushVars, keptVars
  <2>2. Next
    BY <1>4 DEF Unreported, Next
  <2> QED BY <1>1, <2>1, <2>2
<1>5. ASSUME NEW t \in TabID, Close(t) \/ Exit(t)
      PROVE  Next /\ Quiescent
  <2>1. Next
    BY <1>5 DEF Close, Exit, Next
  <2> QED BY <1>5, <2>1 DEF Close, Exit, Owe, identity
<1>6. ASSUME NEW t \in TabID, NEW n \in RenameTo, Rename(t, n)
      PROVE  Next /\ Quiescent
  <2>1. Next
    BY <1>6 DEF Rename, Next
  <2> QED BY <1>6, <2>1 DEF Rename, identity, keptVars
<1>7. ASSUME NEW t \in TabID, SendTab(t) \/ SendTabGone(t)
      PROVE  /\ UNCHANGED vars
             /\ plumb' \subseteq plumb \cup {t}
             /\ UNCHANGED <<life, instance, sending, lastState>>
  BY <1>7 DEF SendTab, SendTabGone, identity
<1>8. CASE \E t \in TabID : SendTab(t) \/ SendTabGone(t)
  BY <1>0, <1>7, <1>8 DEF CrashTypes, Snapshots
<1>9. CASE SchedulePush
  BY <1>1, <1>9 DEF SchedulePush, identity, keptVars
<1>10. CASE TakeState
  <2>1. /\ UNCHANGED vars /\ UNCHANGED <<life, instance, plumb, lastState>>
        /\ sending' = sending \cup {SnapshotState}
    BY <1>10 DEF TakeState, identity, keptVars
  <2> QED BY <1>0, <2>1 DEF CrashTypes, Snapshots
<1>11. CASE \E st \in sending : SendState(st)
  <2>1. PICK st \in sending : SendState(st)
    BY <1>11
  <2>2. /\ UNCHANGED vars /\ UNCHANGED <<life, instance, plumb>>
        /\ sending' \subseteq sending /\ lastState' \in sending
    BY <2>1 DEF SendState, identity
  <2> QED BY <1>0, <2>2 DEF CrashTypes, Snapshots
<1> HIDE DEF Quiescent
<1>12. CASE (\E t \in TabID : Close(t) \/ Exit(t)) \/ \E t \in TabID, n \in RenameTo : Rename(t, n)
  BY <1>1, <1>5, <1>6, <1>12
<1> QED BY <1>2, <1>3, <1>4, <1>8, <1>9, <1>10, <1>11, <1>12 DEF Works

LEMMA WorksSound ==
  ASSUME CrashInv, Works
  PROVE  CrashInv' /\ (FrontsInv => FrontsInv')
<1>1. /\ [Next]_vars /\ CrashTypes' /\ Snapshots' \subseteq Snapshots \cup {SnapshotState}
      /\ TidyInv /\ instance \in Nat
  BY WorksSteps DEF CrashInv, CrashTypes
<1>2. TidyInv'
  BY <1>1, NextTidy
<1>3. StateSound(SnapshotState) /\ (FrontInv => FrontsListed(SnapshotState))
  BY <1>1, SnapshotStateSound
<1>4. CrashInv'
  BY <1>1, <1>2, <1>3 DEF CrashInv
<1>5. ASSUME FrontsInv PROVE FrontsInv'
  <2>1. FrontInv'
    BY <1>1, <1>5, NextFront DEF FrontsInv
  <2>2. ~ShellsExit => exited' = {}
    BY <1>1, <1>5, ShellsLive DEF FrontsInv
  <2> QED BY <1>1, <1>3, <1>5, <2>1, <2>2 DEF FrontsInv
<1> QED BY <1>4, <1>5

\* With no shell left the next daemon starts anew.
LEMMA FreshSound ==
  ASSUME StartFresh
  PROVE  TidyInv' /\ FrontInv' /\ exited' = {}
<1>1. DOMAIN <<>> = {} /\ Range(<<>>) = {} /\ IsInjective(<<>>)
  BY DEF Range, IsInjective
<1>2. TypeOK'
  BY EmptySeq DEF StartFresh, TypeOK, NoTab, TabID, WinID, Labels
<1>3. IdsSpent' /\ IndexInLockstep'
  BY DEF StartFresh, IdsSpent, IndexInLockstep
<1>4. OpenWindows' = {} /\ \A w \in WinID : tabIDs'[w] = <<>> /\ Held(w)' = {}
  BY <1>1 DEF StartFresh, OpenWindows, Held
<1>5. Tidy'
  BY <1>1, <1>4 DEF StartFresh, Tidy
<1>6. FrontInv'
  BY <1>4 DEF StartFresh, FrontInv
<1> QED BY <1>2, <1>3, <1>5, <1>6 DEF StartFresh, TidyInv, IndexInv

\* The supervisor starts the next daemon from any sound state.
LEMMA RestartSound ==
  ASSUME CrashTypes, NEW st, StateSound(st), Restart(st)
  PROVE  /\ TidyInv' /\ CrashTypes' /\ exited' = {} /\ sending' = {}
         /\ FrontsListed(st) => FrontInv'
<1>1. life' = life + 1 /\ sending' = {} /\ plumb' = plumb
  BY DEF Restart, NextLife
<1>2. CASE Live = {}
  <2>1. StartFresh
    BY <1>2 DEF Restart
  <2>2. instance' = life'
    BY <2>1 DEF StartFresh
  <2> QED BY <1>1, <2>1, <2>2, FreshSound DEF CrashTypes
<1>3. CASE Live # {}
  <2>1. ResumeFromHandoff(BuildHandoff(st)) /\ instance' = st.instance
    BY <1>3 DEF Restart
  <2>2. Live \subseteq TabID
    BY DEF Live, CrashTypes
  <2>3. /\ StateSound(BuildHandoff(st)) /\ IdsBeyond(BuildHandoff(st))
        /\ BarsListed(BuildHandoff(st))
        /\ FrontsListed(st) => FrontsListed(BuildHandoff(st))
    BY <1>3, <2>2, BuiltSound
  <2>4. TidyInv' /\ (FrontsListed(st) => FrontInv')
    BY <2>1, <2>3, ResumedTidy
  <2>5. exited' = {}
    BY <2>1 DEF ResumeFromHandoff
  <2>6. st.instance \in Nat
    BY DEF StateSound, StateType
  <2> QED BY <1>1, <2>1, <2>4, <2>5, <2>6 DEF CrashTypes
<1> QED BY <1>2, <1>3

LEMMA CrashSound ==
  ASSUME CrashInv, Crash
  PROVE  CrashInv' /\ (FrontsInv => FrontsInv')
<1>1. Restart(lastState) /\ lastState' = lastState /\ StateSound(lastState) /\ CrashTypes
  BY DEF Crash, CrashInv, Snapshots
<1>2. /\ TidyInv' /\ CrashTypes' /\ exited' = {} /\ sending' = {}
      /\ FrontsListed(lastState) => FrontInv'
  BY <1>1, RestartSound
<1>3. Snapshots' = {lastState}
  BY <1>1, <1>2 DEF Snapshots
<1> QED BY <1>1, <1>2, <1>3 DEF CrashInv, FrontsInv, Snapshots

LEMMA UpgradeSupervisedSound ==
  ASSUME CrashInv, UpgradeSupervised
  PROVE  CrashInv' /\ (FrontsInv => FrontsInv')
<1>1. /\ Restart(SnapshotState) /\ lastState' = SnapshotState /\ CrashTypes
      /\ StateSound(SnapshotState) /\ (FrontInv => FrontsListed(SnapshotState))
  BY SnapshotStateSound DEF UpgradeSupervised, CrashInv, CrashTypes
<1>2. /\ TidyInv' /\ CrashTypes' /\ exited' = {} /\ sending' = {}
      /\ FrontsListed(SnapshotState) => FrontInv'
  BY <1>1, RestartSound
<1>3. Snapshots' = {SnapshotState}
  BY <1>1, <1>2 DEF Snapshots
<1> QED BY <1>1, <1>2, <1>3 DEF CrashInv, FrontsInv

\* The daemon that replaces its own image drops the tabs whose shell has exited
\* and their places on the bars, but not a front tab that is one of them.
LEMMA UpgradeInPlaceSound ==
  ASSUME CrashInv, UpgradeInPlace
  PROVE  CrashInv' /\ (~ShellsExit /\ FrontsInv => FrontsInv')
<1>1. /\ ResumeFromHandoff(SnapshotState) /\ life' = life + 1 /\ sending' = {}
      /\ UNCHANGED <<instance, plumb, lastState>>
  BY DEF UpgradeInPlace, NextLife, keptVars
<1>2. /\ StateSound(SnapshotState) /\ IdsBeyond(SnapshotState)
      /\ FrontInv => FrontsListed(SnapshotState)
      /\ exited = {} => BarsListed(SnapshotState)
  BY SnapshotStateSound DEF CrashInv, CrashTypes
<1>3. /\ TidyInv'
      /\ FrontsListed(SnapshotState) /\ BarsListed(SnapshotState) => FrontInv'
  BY <1>1, <1>2, ResumedTidy
<1>4. exited' = {}
  BY <1>1 DEF ResumeFromHandoff
<1>5. Snapshots' \subseteq Snapshots
  BY <1>1 DEF Snapshots
<1>6. CrashTypes'
  BY <1>1 DEF CrashInv, CrashTypes
<1> QED BY <1>2, <1>3, <1>4, <1>5, <1>6 DEF CrashInv, FrontsInv

LEMMA CrashStep == CrashInv /\ [CNext]_cvars => CrashInv'
<1> SUFFICES ASSUME CrashInv, [CNext]_cvars PROVE CrashInv'
  OBVIOUS
<1>1. CASE UNCHANGED cvars
  <2>1. UNCHANGED vars /\ UNCHANGED <<life, instance, plumb, sending, lastState>>
    BY <1>1 DEF cvars, identity, pushVars, keptVars
  <2>2. TidyInv'
    BY <2>1, NextTidy DEF CrashInv
  <2> QED BY <2>1, <2>2 DEF CrashInv, CrashTypes, Snapshots
<1> QED BY <1>1, WorksSound, CrashSound, UpgradeSupervisedSound, UpgradeInPlaceSound DEF CNext

LEMMA FrontsStep ==
  ASSUME "inplace" \in Upgrades => ~ShellsExit
  PROVE  CrashInv /\ FrontsInv /\ [CNext]_cvars => FrontsInv'
<1> SUFFICES ASSUME CrashInv, FrontsInv, [CNext]_cvars PROVE FrontsInv'
  OBVIOUS
<1>1. CASE UNCHANGED cvars
  <2>1. UNCHANGED vars /\ UNCHANGED <<sending, lastState>>
    BY <1>1 DEF cvars, identity, pushVars, keptVars
  <2> QED BY <2>1 DEF FrontsInv, FrontInv, Held, Snapshots, vars
<1>2. UpgradeInPlace => ~ShellsExit
  BY DEF UpgradeInPlace
<1> QED BY <1>1, <1>2, WorksSound, CrashSound, UpgradeSupervisedSound, UpgradeInPlaceSound DEF CNext

-----------------------------------------------------------------------------
(* What every daemon in the line can count on.                             *)

LEMMA TidyIsTruthful == ASSUME TidyInv PROVE NextIdsAreFree /\ BarsTruthful
<1>1. OpenWindows \subseteq WinID
  BY OpenWindowsTyped DEF TidyInv, IndexInv, TypeOK
<1>2. NextIdsAreFree
  BY DEF NextIdsAreFree, TidyInv, Tidy, IndexInv, IdsSpent
<1>3. ASSUME NEW v \in OpenWindows, NEW w \in OpenWindows,
             NEW i \in DOMAIN tabIDs[v], NEW j \in DOMAIN tabIDs[w]
      PROVE  /\ tabIDs[v][i] \in tabs
             /\ tabIDs[v][i] = tabIDs[w][j] => v = w /\ i = j
  <2>1. tabIDs[v][i] \in Held(v) /\ tabIDs[w][j] \in Held(w) /\ v \in WinID /\ w \in WinID
    BY <1>1 DEF Held, Range
  <2>2. tabIDs[v][i] \in tabs
    BY <2>1 DEF TidyInv, Tidy
  <2>3. ASSUME tabIDs[v][i] = tabIDs[w][j] PROVE v = w /\ i = j
    <3>1. v = w
      BY <2>1, <2>3 DEF TidyInv, Tidy
    <3> QED BY <2>1, <2>3, <3>1 DEF TidyInv, Tidy, IsInjective
  <2> QED BY <2>2, <2>3
<1> QED BY <1>2, <1>3 DEF BarsTruthful

\* However often the daemon dies or is upgraded, whatever the last snapshot
\* missed and whatever exited meanwhile: no id is given twice, and the bars show
\* tabs the session has, each in one place (buildHandoff, ResumeFromHandoff).
THEOREM ResumedBarsAreSound == CSpec => [](NextIdsAreFree /\ BarsTruthful)
<1>1. CInit => CrashInv
  BY CInitSound
<1>2. CrashInv /\ [CNext]_cvars => CrashInv'
  BY CrashStep
<1>3. CrashInv => NextIdsAreFree /\ BarsTruthful
  BY TidyIsTruthful DEF CrashInv
<1> QED BY <1>1, <1>2, <1>3, PTL DEF CSpec

\* So is the front tab of every window, on which clients open it, as long as no
\* daemon upgrades in place over a shell that has exited: that upgrade keeps a
\* front tab it does not restore.
THEOREM ResumeIsSound ==
  ASSUME "inplace" \in Upgrades => ~ShellsExit
  PROVE  CSpec => []ResumedIsSound
<1>1. CInit => CrashInv /\ FrontsInv
  BY CInitSound
<1>2. CrashInv /\ FrontsInv /\ [CNext]_cvars => CrashInv' /\ FrontsInv'
  BY CrashStep, FrontsStep
<1>3. CrashInv /\ FrontsInv => ResumedIsSound
  <2> SUFFICES ASSUME CrashInv, FrontsInv PROVE ResumedIsSound
    OBVIOUS
  <2>1. NextIdsAreFree /\ BarsTruthful
    BY TidyIsTruthful DEF CrashInv
  <2>2. OpenWindows \subseteq WinID
    BY OpenWindowsTyped DEF CrashInv, TidyInv, IndexInv, TypeOK
  <2>3. FrontTabsExist
    BY <2>2 DEF FrontTabsExist, FrontsInv, FrontInv, CrashInv, TidyInv, Tidy
  <2> QED BY <2>1, <2>3 DEF ResumedIsSound
<1> QED BY <1>1, <1>2, <1>3, PTL DEF CSpec

-----------------------------------------------------------------------------
(* Tabs the supervisor knows of.                                           *)

\* A running tab is one the supervisor can hand on, or NewTab has yet to report
\* it; none is about to be reported gone.
ReportInv ==
  /\ \A t \in tabs \ exited : <<"spawned", t>> \in owed \/ t \in Live
  /\ \A t \in tabs \ exited : <<"gone", t>> \notin owed
  /\ \A t \in TabID : <<"gone", t>> \in owed => t < nextTabID

\* A step that reports what becomes of a tab keeps it so.
LEMMA WorksReported ==
  ASSUME CrashInv, ReportInv, Works
  PROVE  ReportInv' /\ life' = life
<1>0. /\ nextTabID \in Nat \ {0}
      /\ \A t \in tabs : t < nextTabID /\ t \in TabID
  BY DEF CrashInv, TidyInv, IndexInv, TypeOK, IdsSpent
<1> DEFINE Still == /\ UNCHANGED <<tabs, exited, nextTabID, plumb, marked, life>>
                    /\ owed' \subseteq owed \cup {PushOwed}
                    /\ owed \subseteq owed' \cup {PushOwed}
<1>1. Still => ReportInv' /\ life' = life
  BY DEF ReportInv, Live, PushOwed
<1>2. CASE Create
  <2>1. /\ nextTabID \in TabID /\ nextTabID' = nextTabID + 1
        /\ tabs' = tabs \cup {nextTabID} /\ exited' = exited
        /\ owed' = owed \cup {<<"spawned", nextTabID>>}
        /\ UNCHANGED <<life, plumb, marked>>
    BY <1>0, <1>2 DEF Create, Owe, CreateUnnamed, FinishSpawn, NewTab, keptVars, TabID
  <2>2. \A t : <<"gone", t>> \in owed' => <<"gone", t>> \in owed
    BY <2>1
  <2>3. <<"gone", nextTabID>> \notin owed
    BY <1>0, <2>1 DEF ReportInv
  <2>4. Live' = Live
    BY <2>1 DEF Live
  <2> QED BY <1>0, <2>1, <2>2, <2>3, <2>4 DEF ReportInv
<1>3. CASE Restructure
  <2>1. UNCHANGED <<tabs, exited, nextTabID>>
    BY <1>3 DEF Restructure, NewWindow, CloseWindow, MoveTab
  <2>2. Still
    BY <1>3, <2>1 DEF Restructure, Owe, identity, keptVars
  <2> QED BY <1>1, <2>2
<1>4. CASE Unreported
  <2>1. UNCHANGED <<tabs, exited, nextTabID>>
    BY <1>4 DEF Unreported, SetWindowFocusedTab, BeginFindOrCreate, BeginEnsureInitial,
                FailSpawn
  <2>2. Still
    BY <1>4, <2>1 DEF Unreported, identity, pushVars, keptVars
  <2> QED BY <1>1, <2>2
<1>5. ASSUME NEW t \in TabID, Close(t) \/ Exit(t)
      PROVE  ReportInv' /\ life' = life
  <2>1. /\ t \in tabs /\ nextTabID' = nextTabID /\ life' = life
        /\ tabs' \ exited' = (tabs \ exited) \ {t}
        /\ owed' = owed \cup {<<"gone", t>>}
    <3>1. CASE Close(t)
      BY <3>1 DEF Close, CloseTab, Owe
    <3>2. CASE Exit(t)
      BY <3>2 DEF Exit, ChildExit, Owe, identity
    <3> QED BY <1>5, <3>1, <3>2
  <2>2. Live \subseteq Live' \cup {t}
    BY <1>5 DEF Close, Exit, Reaped, Live
  <2>3. \A u : /\ <<"spawned", u>> \in owed => <<"spawned", u>> \in owed'
               /\ <<"gone", u>> \in owed' => u = t \/ <<"gone", u>> \in owed
    BY <2>1
  <2> QED BY <1>0, <2>1, <2>2, <2>3 DEF ReportInv
<1>6. ASSUME NEW t \in TabID, NEW n \in RenameTo, Rename(t, n)
      PROVE  Still
  BY <1>6 DEF Rename, RenameTab, identity, keptVars
<1>7. ASSUME NEW t \in TabID, SendTab(t)
      PROVE  ReportInv' /\ life' = life
  <2>1. /\ UNCHANGED <<tabs, exited, nextTabID, life>>
        /\ owed' = owed \ {<<"spawned", t>>}
        /\ Live \subseteq Live' /\ (t \in tabs => t \in Live')
    BY <1>7 DEF SendTab, vars, identity, Live
  <2>2. \A u : /\ <<"spawned", u>> \in owed => u = t \/ <<"spawned", u>> \in owed'
               /\ <<"gone", u>> \in owed' => <<"gone", u>> \in owed
    BY <2>1
  <2> QED BY <2>1, <2>2 DEF ReportInv
<1>8. ASSUME NEW t \in TabID, SendTabGone(t)
      PROVE  ReportInv' /\ life' = life
  <2>1. /\ UNCHANGED <<tabs, exited, nextTabID, life>>
        /\ <<"gone", t>> \in owed /\ owed' = owed \ {<<"gone", t>>}
        /\ Live \subseteq Live' \cup {t}
    BY <1>8 DEF SendTabGone, vars, identity, Live
  <2>2. t \notin tabs \ exited
    BY <2>1 DEF ReportInv
  <2>3. \A u : /\ <<"spawned", u>> \in owed => <<"spawned", u>> \in owed'
               /\ <<"gone", u>> \in owed' => <<"gone", u>> \in owed
    BY <2>1
  <2> QED BY <2>1, <2>2, <2>3 DEF ReportInv
<1>9. CASE SchedulePush \/ TakeState \/ \E st \in sending : SendState(st)
  <2>1. Still
    BY <1>9 DEF SchedulePush, TakeState, SendState, vars, identity, keptVars
  <2> QED BY <1>1, <2>1
<1> HIDE DEF Still
<1> QED BY <1>1, <1>2, <1>3, <1>4, <1>5, <1>6, <1>7, <1>8, <1>9 DEF Works

\* The next daemon has the tabs the supervisor can hand on, and owes nothing.
LEMMA RestartReported ==
  ASSUME NEW st, Restart(st)
  PROVE  ReportInv' /\ tabs' = Live
<1>1. owed' = {} /\ Live' = Live
  BY DEF Restart, NextLife, Live
<1>2. tabs' = Live
  <2>1. CASE Live = {}
    BY <2>1 DEF Restart, StartFresh
  <2>2. CASE Live # {}
    <3>1. tabs' = BuildHandoff(st).tabs
      BY <2>2 DEF Restart, ResumeFromHandoff
    <3> QED BY <3>1 DEF BuildHandoff
  <2> QED BY <2>1, <2>2
<1> QED BY <1>1, <1>2 DEF ReportInv

\* However a supervised daemon dies (crash or upgrade), every running shell
\* whose NewTab had returned is in the session of the next one (tabSpawned,
\* buildHandoff).  Not so once a daemon execs itself: the image after it reports
\* no tab again, and those its predecessor had yet to report stay unknown.
THEOREM FinishedTabsAreKept ==
  ASSUME "inplace" \notin Upgrades
  PROVE  CSpec => FinishedTabsSurvive
<1> DEFINE Survive == life' # life =>
             \A t \in tabs \ exited : <<"spawned", t>> \notin owed => t \in tabs'
<1>1. CInit => CrashInv /\ ReportInv
  <2>1. CInit => ReportInv
    BY DEF CInit, Init, ReportInv
  <2> QED BY <2>1, CInitSound
<1>2. CrashInv /\ ReportInv /\ [CNext]_cvars => CrashInv' /\ ReportInv' /\ [Survive]_cvars
  <2> SUFFICES ASSUME CrashInv, ReportInv, [CNext]_cvars
               PROVE  ReportInv' /\ [Survive]_cvars
    BY CrashStep
  <2>1. CASE Works
    BY <2>1, WorksReported
  <2>2. ASSUME NEW st, Restart(st) PROVE ReportInv' /\ Survive
    BY <2>2, RestartReported DEF ReportInv
  <2>3. CASE Crash \/ UpgradeSupervised
    BY <2>2, <2>3 DEF Crash, UpgradeSupervised
  <2>4. CASE UNCHANGED cvars
    BY <2>4 DEF cvars, vars, pushVars, keptVars, ReportInv, Live
  <2> QED BY <2>1, <2>3, <2>4 DEF CNext, UpgradeInPlace
<1> QED BY <1>1, <1>2, PTL DEF CSpec, FinishedTabsSurvive

-----------------------------------------------------------------------------
(* Quiet daemons.                                                          *)

\* A snapshot that shows all there is to know of the session but its fronts.
Current(st) ==
  /\ st.windows = windows /\ st.bars = tabIDs
  /\ st.tabs = tabs \ exited /\ st.name = name /\ st.nextTab = nextTabID

\* The snapshot the supervisor is to have once those on their way are written.
Newest(st) == IF sending = {} THEN st = lastState ELSE st \in sending

\* With one snapshot on its way at a time (MaxPushes), and nothing left to
\* report, the newest is of the session as it is.
PushInv ==
  /\ IsFiniteSet(sending) /\ \A a, b \in sending : a = b
  /\ owed = {} /\ ~due /\ tabs \ exited # {} => \A st : Newest(st) => Current(st)

\* Ids that were given out, or are held for a shell that runs, are spent.
LiveIdsSpent ==
  /\ \A t \in Live : t < nextTabID
  /\ \A t \in TabID : <<"spawned", t>> \in owed => t < nextTabID

LEMMA WorksSpent ==
  ASSUME CrashInv, LiveIdsSpent, Works
  PROVE  LiveIdsSpent'
<1>0. /\ nextTabID \in Nat \ {0} /\ plumb \subseteq TabID
      /\ \A t \in tabs : t < nextTabID /\ t \in TabID
  BY DEF CrashInv, CrashTypes, TidyInv, IndexInv, TypeOK, IdsSpent
<1> DEFINE Fewer == /\ nextTabID' = nextTabID /\ Live' \subseteq Live
                    /\ \A t : <<"spawned", t>> \in owed' => <<"spawned", t>> \in owed
<1>1. Fewer => LiveIdsSpent'
  BY DEF LiveIdsSpent
<1>2. CASE Create
  <2>1. /\ nextTabID' = nextTabID + 1 /\ owed' = owed \cup {<<"spawned", nextTabID>>}
        /\ Live' = Live
    BY <1>2 DEF Create, Owe, CreateUnnamed, FinishSpawn, NewTab, keptVars, Live
  <2>2. \A t : <<"spawned", t>> \in owed' => t = nextTabID \/ <<"spawned", t>> \in owed
    BY <2>1
  <2>3. Live \subseteq TabID
    BY <1>0 DEF Live
  <2> QED BY <1>0, <2>1, <2>2, <2>3 DEF LiveIdsSpent, TabID
<1>3. CASE Restructure
  <2>1. nextTabID' = nextTabID /\ Live' = Live /\ owed' = owed \cup {PushOwed}
    BY <1>3 DEF Restructure, NewWindow, CloseWindow, MoveTab, Owe, keptVars, Live
  <2>2. Fewer
    BY <2>1 DEF PushOwed
  <2> QED BY <1>1, <2>2
<1>4. CASE Unreported
  <2>1. nextTabID' = nextTabID
    BY <1>4 DEF Unreported, SetWindowFocusedTab, BeginFindOrCreate, BeginEnsureInitial,
                FailSpawn
  <2>2. Fewer
    BY <1>4, <2>1 DEF Unreported, pushVars, keptVars, Live
  <2> QED BY <1>1, <2>2
<1>5. ASSUME NEW t \in TabID, Close(t) \/ Exit(t)
      PROVE  Fewer
  <2>1. nextTabID' = nextTabID /\ owed' = owed \cup {<<"gone", t>>}
    BY <1>5 DEF Close, CloseTab, Exit, ChildExit, Owe
  <2>2. Live' \subseteq Live
    BY <1>5 DEF Close, Exit, Reaped, Live
  <2> QED BY <2>1, <2>2
<1>6. ASSUME NEW t \in TabID, NEW n \in RenameTo, Rename(t, n)
      PROVE  Fewer
  BY <1>6 DEF Rename, RenameTab, keptVars, Live
<1>7. ASSUME NEW t \in TabID, SendTab(t)
      PROVE  LiveIdsSpent'
  <2>1. /\ nextTabID' = nextTabID /\ owed' = owed \ {<<"spawned", t>>}
        /\ <<"spawned", t>> \in owed /\ Live' \subseteq Live \cup {t}
    BY <1>7 DEF SendTab, vars, Live
  <2> QED BY <2>1 DEF LiveIdsSpent
<1>8. ASSUME NEW t \in TabID, SendTabGone(t)
      PROVE  Fewer
  BY <1>8 DEF SendTabGone, vars, Live
<1>9. CASE SchedulePush \/ TakeState \/ \E st \in sending : SendState(st)
  <2>1. Fewer
    BY <1>9 DEF SchedulePush, TakeState, SendState, vars, keptVars, Live
  <2> QED BY <1>1, <2>1
<1> HIDE DEF Fewer
<1> QED BY <1>1, <1>2, <1>3, <1>4, <1>5, <1>6, <1>7, <1>8, <1>9 DEF Works

\* Whatever changes the session owes a push or schedules one.
LEMMA WorksPushed ==
  ASSUME MaxPushes = 1, CrashInv, PushInv, Works
  PROVE  PushInv'
<1>0. Cardinality({}) = 0 /\ IsFiniteSet({})
  BY FS_EmptySet
<1> DEFINE Loud == (owed' # {} \/ due') /\ UNCHANGED sending
           Mute == /\ UNCHANGED <<windows, tabIDs, tabs, exited, name, nextTabID>>
                   /\ UNCHANGED <<owed, due, sending, lastState>>
<1>1. Loud \/ Mute => PushInv'
  BY DEF PushInv, Newest, Current
<1>2. CASE Create \/ Restructure
  <2>1. \E f : owed' = owed \cup {f} /\ UNCHANGED sending
    BY <1>2 DEF Create, Restructure, Owe
  <2> QED BY <1>1, <2>1
<1>3. CASE Unreported
  <2>1. UNCHANGED <<windows, tabIDs, tabs, exited, name, nextTabID>>
    BY <1>3 DEF Unreported, SetWindowFocusedTab, BeginFindOrCreate, BeginEnsureInitial,
                FailSpawn, layout, labels
  <2>2. Mute
    BY <1>3, <2>1 DEF Unreported, pushVars, keptVars
  <2> QED BY <1>1, <2>2
<1>4. ASSUME NEW t \in TabID, Close(t) \/ Exit(t)
      PROVE  Loud
  <2>1. \E f : owed' = owed \cup {f} /\ UNCHANGED sending
    BY <1>4 DEF Close, Exit, Owe
  <2> QED BY <2>1
<1>5. ASSUME NEW t \in TabID, NEW n \in RenameTo, Rename(t, n)
      PROVE  Loud
  BY <1>5 DEF Rename
<1>6. ASSUME NEW t \in TabID, SendTab(t) \/ SendTabGone(t)
      PROVE  Loud
  BY <1>6 DEF SendTab, SendTabGone
<1>7. CASE SchedulePush
  BY <1>1, <1>7 DEF SchedulePush
<1>8. CASE TakeState
  <2>0. PICK st : st = SnapshotState
    OBVIOUS
  <2>1. /\ UNCHANGED vars /\ sending' = sending \cup {st}
        /\ Cardinality(sending) < 1
    BY <1>8, <2>0 DEF TakeState
  <2>2. sending = {}
    <3>1. Cardinality(sending) \in Nat /\ (Cardinality(sending) = 0 <=> sending = {})
      BY FS_CardinalityType, FS_EmptySet DEF PushInv
    <3> QED BY <2>1, <3>1
  <2>3. sending' = {st}
    BY <2>1, <2>2
  <2>4. IsFiniteSet({st})
    BY FS_Singleton
  <2>5. Current(st)
    BY <2>0 DEF Current, SnapshotState
  <2>6. Current(st)'
    BY <2>1, <2>5 DEF vars, Current
  <2>7. \A s : Newest(s)' => s = st
    BY <2>3 DEF Newest
  <2> QED BY <2>3, <2>4, <2>6, <2>7 DEF PushInv
<1>9. CASE \E st \in sending : SendState(st)
  <2>1. PICK st \in sending : SendState(st)
    BY <1>9
  <2>2. /\ sending = {st} /\ sending' = {} /\ lastState' = st
        /\ UNCHANGED vars /\ UNCHANGED <<owed, due>>
    BY <2>1 DEF SendState, PushInv
  <2>3. \A s : Newest(s)' => s = st /\ Newest(st)
    BY <2>2 DEF Newest
  <2>4. Current(st) => Current(st)'
    BY <2>2 DEF Current, vars
  <2> QED BY <1>0, <2>2, <2>3, <2>4 DEF PushInv, vars
<1> HIDE DEF Loud, Mute
<1> QED BY <1>1, <1>2, <1>3, <1>4, <1>5, <1>6, <1>7, <1>8, <1>9 DEF Works

\* What the next daemon starts with needs no push, or has one scheduled.
LEMMA RestartPushed ==
  ASSUME NEW st, Restart(st)
  PROVE  PushInv'
<1>1. sending' = {} /\ IsFiniteSet({})
  BY FS_EmptySet DEF Restart, NextLife
<1>2. due' \/ tabs' \ exited' = {}
  BY DEF Restart, StartFresh
<1> QED BY <1>1, <1>2 DEF PushInv

\* From a snapshot of the session as it was the next daemon has everything back.
LEMMA RestartIsLossless ==
  ASSUME CrashInv, LiveIdsSpent, NEW st, StateSound(st), Current(st), Restart(st),
         tabs \ exited # {}, tabs \ exited \subseteq Live
  PROVE  LET running == tabs \ exited
             shown == {w \in WinID : \E t \in running : HasTab(w, t)}
         IN /\ KeepsOrder(windows, windows', shown)
            /\ \A w \in OpenWindows : KeepsOrder(tabIDs[w], tabIDs'[w], running)
            /\ \A t \in running : t \in tabs' /\ name'[t] = name[t]
            /\ nextTabID' = nextTabID
<1> DEFINE running == tabs \ exited
           shown == {w \in WinID : \E t \in running : HasTab(w, t)}
           kept == [w \in WinID |-> Kept(tabIDs[w], Live)]
           live == {w \in WinID : kept[w] # <<>>}
           wins == Kept(windows, live)
           built == BuildHandoff(st)
<1>1. /\ TypeOK /\ IsInjective(windows) /\ Live \subseteq TabID
      /\ \A w \in WinID : tabIDs[w] \in Seq(TabID) /\ IsInjective(tabIDs[w])
      /\ OpenWindows \subseteq WinID /\ OpenWindows = Range(windows)
  BY OpenWindowsTyped DEF CrashInv, CrashTypes, TidyInv, Tidy, IndexInv, TypeOK, Live,
                          OpenWindows
<1>2. /\ ResumeFromHandoff(built)
      /\ running # {} /\ running \subseteq Live /\ running \subseteq TabID
  BY <1>1 DEF Restart, TypeOK
<1>3. /\ built.tabs = Live /\ built.nextTab = NextTab(st)
      /\ built.name = [t \in TabID |-> IF t \in Live \cap running THEN name[t] ELSE NoName]
      /\ built.windows = IF wins = <<>> THEN <<1>> ELSE wins
      /\ wins # <<>> => built.bars = kept
  BY DEF BuildHandoff, Current, StateSound, StateType
<1> HIDE DEF built
<1>4. \A w \in WinID : /\ Range(kept[w]) = Range(tabIDs[w]) \cap Live
                       /\ kept[w] \in Seq(TabID) /\ IsInjective(kept[w])
                       /\ KeepsOrder(tabIDs[w], kept[w], Live)
                       /\ KeepsOrder(kept[w], Kept(kept[w], Live), Live)
  BY <1>1, KeptFacts
<1>5. Range(wins) = Range(windows) \cap live /\ KeepsOrder(windows, wins, live)
  BY <1>1, KeptFacts DEF TypeOK
<1>6. shown \subseteq live
  <2>1. ASSUME NEW w \in WinID, NEW t \in running, HasTab(w, t) PROVE kept[w] # <<>>
    <3>1. t \in Range(tabIDs[w]) \cap Live
      BY <1>2, <2>1 DEF HasTab, Range
    <3>2. t \in Range(kept[w]) /\ Range(<<>>) = {}
      BY <1>4, <3>1 DEF Range
    <3> QED BY <3>2
  <2> HIDE DEF kept
  <2> QED BY <2>1
<1> HIDE DEF kept, live, wins
<1>7. \A w \in Range(windows) \cap shown : wins # <<>> /\ w \in Range(wins)
  <2>1. Range(<<>>) = {}
    BY DEF Range
  <2> QED BY <1>5, <1>6, <2>1
<1>8. KeepsOrder(windows, windows', shown)
  <2> SUFFICES ASSUME NEW i \in DOMAIN windows, NEW j \in DOMAIN windows,
                      i <= j, {windows[i], windows[j]} \subseteq shown
               PROVE  \E k, l \in DOMAIN windows' :
                        k <= l /\ windows'[k] = windows[i] /\ windows'[l] = windows[j]
    BY DEF KeepsOrder
  <2>1. windows[i] \in Range(windows) \cap shown /\ {windows[i], windows[j]} \subseteq live
    BY <1>6 DEF Range
  <2>2. windows' = wins
    BY <1>2, <1>3, <1>7, <2>1 DEF ResumeFromHandoff
  <2> QED BY <1>5, <2>1, <2>2 DEF KeepsOrder
<1>9. ASSUME NEW w \in OpenWindows
      PROVE  KeepsOrder(tabIDs[w], tabIDs'[w], running)
  <2> SUFFICES ASSUME NEW i \in DOMAIN tabIDs[w], NEW j \in DOMAIN tabIDs[w],
                      i <= j, {tabIDs[w][i], tabIDs[w][j]} \subseteq running
               PROVE  \E k, l \in DOMAIN tabIDs'[w] : /\ k <= l
                        /\ tabIDs'[w][k] = tabIDs[w][i] /\ tabIDs'[w][l] = tabIDs[w][j]
    BY DEF KeepsOrder
  <2>1. w \in WinID /\ w \in Range(windows) /\ HasTab(w, tabIDs[w][i])
    BY <1>1 DEF HasTab
  <2>2. w \in shown
    BY <2>1
  <2>3. wins # <<>> /\ w \in Range(wins)
    BY <1>7, <2>1, <2>2
  <2>4. tabIDs'[w] = Kept(kept[w], Live)
    BY <1>2, <1>3, <2>1, <2>3 DEF ResumeFromHandoff
  <2>5. {tabIDs[w][i], tabIDs[w][j]} \subseteq Live
    BY <1>2
  <2>6. PICK k \in DOMAIN kept[w], l \in DOMAIN kept[w] :
          k <= l /\ kept[w][k] = tabIDs[w][i] /\ kept[w][l] = tabIDs[w][j]
    BY <1>4, <2>1, <2>5 DEF KeepsOrder
  <2> QED BY <1>4, <2>1, <2>4, <2>5, <2>6 DEF KeepsOrder
<1>10. \A t \in running : t \in tabs' /\ name'[t] = name[t]
  BY <1>2, <1>3 DEF ResumeFromHandoff
<1>11. nextTabID' = nextTabID
  <2> DEFINE T == {nextTabID} \cup {t + 1 : t \in Live}
  <2>1. nextTabID \in Nat /\ T \subseteq 0..nextTabID /\ nextTabID \in T
    BY <1>1 DEF TypeOK, LiveIdsSpent, TabID
  <2>2. nextTabID' = Max(T)
    BY <1>2, <1>3 DEF ResumeFromHandoff, NextTab, Current
  <2> HIDE DEF T
  <2>3. Max(T) \in T /\ nextTabID <= Max(T)
    BY <2>1, MaxFacts
  <2>4. Max(T) \in 0..nextTabID
    BY <2>1, <2>3
  <2> QED BY <2>1, <2>2, <2>3, <2>4
<1> QED BY <1>8, <1>9, <1>10, <1>11

\* Every change is followed by a push (broadcastTopology, RenameTab, tabSpawned,
\* tabGone): once the last arrived, a crash loses no running tab, none of their
\* windows, bars, labels and no counter.  It takes that no two pushes overlap
\* (supervised.go:163), and no upgrade in place, as above.
THEOREM QuietCrashIsLossless ==
  ASSUME MaxPushes = 1, "inplace" \notin Upgrades
  PROVE  CSpec => QuietCrashLosesNothing
<1> DEFINE Inv == CrashInv /\ ReportInv /\ LiveIdsSpent /\ PushInv
           Lossless == life' # life /\ owed = {} /\ ~due /\ sending = {} /\ tabs \ exited # {} =>
        LET running == tabs \ exited
            shown == {w \in WinID : \E t \in running : HasTab(w, t)}
        IN /\ KeepsOrder(windows, windows', shown)
           /\ \A w \in OpenWindows : KeepsOrder(tabIDs[w], tabIDs'[w], running)
           /\ \A t \in running : t \in tabs' /\ name'[t] = name[t]
           /\ nextTabID' = nextTabID
<1>1. CInit => Inv
  <2> SUFFICES ASSUME CInit PROVE Inv
    OBVIOUS
  <2>1. ReportInv /\ LiveIdsSpent /\ tabs = {}
    BY DEF CInit, Init, ReportInv, LiveIdsSpent, Live
  <2>2. PushInv
    BY <2>1, FS_EmptySet DEF CInit, PushInv
  <2> QED BY <2>1, <2>2, CInitSound
<1>2. Inv /\ [CNext]_cvars => Inv' /\ [Lossless]_cvars
  <2> SUFFICES ASSUME Inv, [CNext]_cvars
               PROVE  ReportInv' /\ LiveIdsSpent' /\ PushInv' /\ [Lossless]_cvars
    BY CrashStep
  <2>1. CASE Works
    BY <2>1, WorksReported, WorksSpent, WorksPushed
  <2>2. ASSUME NEW st, Restart(st), StateSound(st),
               owed = {} /\ ~due /\ sending = {} /\ tabs \ exited # {} => Current(st)
        PROVE  ReportInv' /\ LiveIdsSpent' /\ PushInv' /\ Lossless
    <3>1. ReportInv' /\ tabs' = Live /\ PushInv'
      BY <2>2, RestartReported, RestartPushed
    <3>2. LiveIdsSpent'
      <4>1. owed' = {} /\ Live' = Live
        BY <2>2 DEF Restart, NextLife, Live
      <4>2. \A t \in tabs' : t < nextTabID'
        BY CrashStep DEF CrashInv, TidyInv, IndexInv, IdsSpent
      <4> QED BY <3>1, <4>1, <4>2 DEF LiveIdsSpent
    <3>3. owed = {} => tabs \ exited \subseteq Live
      BY DEF ReportInv
    <3> QED BY <2>2, <3>1, <3>2, <3>3, RestartIsLossless
  <2>3. CASE Crash
    <3>1. Restart(lastState) /\ StateSound(lastState)
      BY <2>3 DEF Crash, CrashInv, Snapshots
    <3>2. owed = {} /\ ~due /\ sending = {} /\ tabs \ exited # {} => Current(lastState)
      BY DEF PushInv, Newest
    <3> QED BY <2>2, <3>1, <3>2
  <2>4. CASE UpgradeSupervised
    <3>1. Restart(SnapshotState) /\ StateSound(SnapshotState)
      BY <2>4, SnapshotStateSound DEF UpgradeSupervised, CrashInv, CrashTypes
    <3>2. Current(SnapshotState)
      BY DEF Current, SnapshotState
    <3> QED BY <2>2, <3>1, <3>2
  <2>5. CASE UNCHANGED cvars
    <3>1. UNCHANGED vars /\ UNCHANGED pushVars /\ UNCHANGED keptVars /\ Live' = Live
      BY <2>5 DEF cvars, keptVars, Live
    <3> QED BY <2>5, <3>1 DEF vars, pushVars, keptVars, ReportInv, LiveIdsSpent, PushInv,
                              Newest, Current
  <2> QED BY <2>1, <2>3, <2>4, <2>5 DEF CNext, UpgradeInPlace
<1> QED BY <1>1, <1>2, PTL DEF CSpec, QuietCrashLosesNothing

=============================================================================

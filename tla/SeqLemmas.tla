------------------------------ MODULE SeqLemmas ------------------------------
(***************************************************************************)
(* Facts about the sequence operators the models edit bars, window lists,  *)
(* queues and channels with, and the existence of a least element.         *)
(***************************************************************************)
EXTENDS SequencesExt, SequenceTheorems, FiniteSetTheorems, WellFoundedInduction, TLAPS

\* Removing position i: the rest closes up.
LEMMA RemoveAtFacts ==
  ASSUME NEW S, NEW s \in Seq(S), NEW i \in 1..Len(s)
  PROVE  /\ RemoveAt(s, i) \in Seq(S)
         /\ Len(RemoveAt(s, i)) = Len(s) - 1
         /\ \A j \in 1..(Len(s) - 1) :
              RemoveAt(s, i)[j] = IF j < i THEN s[j] ELSE s[j + 1]
<1> DEFINE a == SubSeq(s, 1, i - 1)
           b == SubSeq(s, i + 1, Len(s))
<1>0. Len(s) \in Nat
  BY LenProperties
<1>1. \A j \in 1..(i - 1) : s[j] \in S
  BY <1>0, ElementOfSeq
<1>2. /\ a \in Seq(S) /\ Len(a) = i - 1
      /\ \A j \in 1..(i - 1) : a[j] = s[j]
  BY <1>0, <1>1, SubSeqProperties
<1>3. \A j \in (i + 1)..Len(s) : s[j] \in S
  BY <1>0, ElementOfSeq
<1>4. /\ b \in Seq(S) /\ Len(b) = Len(s) - i
      /\ \A j \in 1..(Len(s) - i) : b[j] = s[i + j]
  <2>1. i + 1 \in Int /\ Len(s) \in Int
    BY <1>0
  <2>2. /\ b \in Seq(S)
        /\ Len(b) = IF i + 1 <= Len(s) THEN Len(s) - (i + 1) + 1 ELSE 0
        /\ \A j \in 1..(Len(s) - (i + 1) + 1) : b[j] = s[(i + 1) + j - 1]
    BY <1>3, <2>1, SubSeqProperties
  <2>3. Len(b) = Len(s) - i
    BY <1>0, <2>2
  <2>4. ASSUME NEW j \in 1..(Len(s) - i) PROVE b[j] = s[i + j]
    <3>1. j \in 1..(Len(s) - (i + 1) + 1) /\ (i + 1) + j - 1 = i + j
      BY <1>0
    <3> QED BY <3>1, <2>2
  <2> QED BY <2>2, <2>3, <2>4
<1>5. /\ a \o b \in Seq(S) /\ Len(a \o b) = Len(a) + Len(b)
      /\ \A j \in 1..(Len(a) + Len(b)) :
           (a \o b)[j] = IF j <= Len(a) THEN a[j] ELSE b[j - Len(a)]
  BY <1>2, <1>4, ConcatProperties
<1> HIDE DEF a, b
<1>6. Len(a) + Len(b) = Len(s) - 1
  BY <1>0, <1>2, <1>4
<1>7. ASSUME NEW j \in 1..(Len(s) - 1)
      PROVE  (a \o b)[j] = IF j < i THEN s[j] ELSE s[j + 1]
  <2>1. CASE j < i
    BY <2>1, <1>0, <1>2, <1>5, <1>6
  <2>2. CASE ~(j < i)
    <3>1. (a \o b)[j] = b[j - (i - 1)]
      BY <2>2, <1>0, <1>2, <1>5, <1>6
    <3>2. j - (i - 1) \in 1..(Len(s) - i) /\ i + (j - (i - 1)) = j + 1
      BY <2>2, <1>0
    <3> QED BY <2>2, <3>1, <3>2, <1>4
  <2> QED BY <2>1, <2>2
<1> QED BY <1>5, <1>6, <1>7 DEF RemoveAt, a, b

\* Inserting at position i: what was at i and after moves up.
LEMMA InsertAtFacts ==
  ASSUME NEW S, NEW s \in Seq(S), NEW e \in S, NEW i \in 1..(Len(s) + 1)
  PROVE  /\ InsertAt(s, i, e) \in Seq(S)
         /\ Len(InsertAt(s, i, e)) = Len(s) + 1
         /\ \A j \in 1..(Len(s) + 1) :
              InsertAt(s, i, e)[j] =
                IF j < i THEN s[j] ELSE IF j = i THEN e ELSE s[j - 1]
<1> DEFINE a == SubSeq(s, 1, i - 1)
           b == SubSeq(s, i, Len(s))
           ae == a \o <<e>>
<1>0. Len(s) \in Nat /\ i \in Int
  BY LenProperties
<1>1. \A j \in 1..(i - 1) : s[j] \in S
  BY <1>0, ElementOfSeq
<1>2. /\ a \in Seq(S) /\ Len(a) = i - 1
      /\ \A j \in 1..(i - 1) : a[j] = s[j]
  BY <1>0, <1>1, SubSeqProperties
<1>3. \A j \in i..Len(s) : s[j] \in S
  BY <1>0, ElementOfSeq
<1>4. /\ b \in Seq(S) /\ Len(b) = Len(s) - i + 1
      /\ \A j \in 1..(Len(s) - i + 1) : b[j] = s[i + j - 1]
  BY <1>0, <1>3, SubSeqProperties
<1>5. <<e>> \in Seq(S) /\ Len(<<e>>) = 1 /\ <<e>>[1] = e
  OBVIOUS
<1>6. /\ ae \in Seq(S) /\ Len(ae) = i
      /\ \A j \in 1..i : ae[j] = IF j <= i - 1 THEN a[j] ELSE <<e>>[j - (i - 1)]
  <2>1. /\ ae \in Seq(S) /\ Len(ae) = Len(a) + 1
        /\ \A j \in 1..(Len(a) + 1) :
             ae[j] = IF j <= Len(a) THEN a[j] ELSE <<e>>[j - Len(a)]
    BY <1>2, <1>5, ConcatProperties
  <2> QED BY <2>1, <1>2, <1>0
<1> HIDE DEF a, b, ae
<1>7. /\ ae \o b \in Seq(S) /\ Len(ae \o b) = Len(ae) + Len(b)
      /\ \A j \in 1..(Len(ae) + Len(b)) :
           (ae \o b)[j] = IF j <= Len(ae) THEN ae[j] ELSE b[j - Len(ae)]
  BY <1>4, <1>6, ConcatProperties
<1>8. Len(ae) + Len(b) = Len(s) + 1
  BY <1>0, <1>4, <1>6
<1>9. ASSUME NEW j \in 1..(Len(s) + 1)
      PROVE  (ae \o b)[j] = IF j < i THEN s[j] ELSE IF j = i THEN e ELSE s[j - 1]
  <2>1. CASE j < i
    <3>1. (ae \o b)[j] = a[j]
      BY <2>1, <1>0, <1>6, <1>7, <1>8
    <3> QED BY <2>1, <3>1, <1>0, <1>2
  <2>2. CASE j = i
    <3>1. (ae \o b)[j] = <<e>>[1]
      BY <2>2, <1>0, <1>6, <1>7, <1>8
    <3> QED BY <2>2, <3>1, <1>0, <1>5
  <2>3. CASE j > i
    <3>1. (ae \o b)[j] = b[j - i]
      BY <2>3, <1>0, <1>6, <1>7, <1>8
    <3>2. j - i \in 1..(Len(s) - i + 1) /\ i + (j - i) - 1 = j - 1
      BY <2>3, <1>0
    <3> QED BY <2>3, <3>1, <3>2, <1>0, <1>4
  <2>4. j < i \/ j = i \/ j > i
    BY <1>0
  <2> QED BY <2>1, <2>2, <2>3, <2>4
<1> QED BY <1>7, <1>8, <1>9 DEF InsertAt, a, b, ae

\* A non-empty set of naturals has a least element.
LEMMA MinFacts ==
  ASSUME NEW T, T \subseteq Nat, T # {}
  PROVE  Min(T) \in T /\ \A y \in T : Min(T) <= y
<1>1. PICK x \in T : \A y \in T : ~(<<y, x>> \in OpToRel(<, Nat))
  BY NatLessThanWellFounded, WFMin
<1>2. ASSUME NEW y \in T PROVE x <= y
  <2>1. ~(<<y, x>> \in {r \in Nat \X Nat : r[1] < r[2]})
    BY <1>1 DEF OpToRel
  <2>2. <<y, x>> \in Nat \X Nat /\ <<y, x>>[1] = y /\ <<y, x>>[2] = x
    OBVIOUS
  <2>3. ~(y < x)
    BY <2>1, <2>2
  <2>4. x \in Nat /\ y \in Nat
    OBVIOUS
  <2> QED BY <2>3, <2>4
<1> QED BY <1>2 DEF Min

\* A bounded, non-empty set of naturals has a greatest element.
LEMMA MaxFacts ==
  ASSUME NEW b \in Nat, NEW T, T \subseteq 0..b, T # {}
  PROVE  Max(T) \in T /\ \A y \in T : y <= Max(T)
<1> DEFINE U == {u \in Nat : \A y \in T : y <= u}
<1>1. b \in U /\ U \subseteq Nat
  OBVIOUS
<1>2. PICK m \in U : \A u \in U : m <= u
  <2> HIDE DEF U
  <2> QED BY <1>1, MinFacts
<1>3. m \in T
  <2>1. SUFFICES ASSUME m \notin T PROVE FALSE
    OBVIOUS
  <2>2. PICK y \in T : TRUE
    OBVIOUS
  <2>3. \A z \in T : z < m
    BY <1>2, <2>1
  <2>4. m - 1 \in U
    BY <1>2, <2>2, <2>3
  <2> QED BY <1>2, <2>4
<1>4. \A y \in T : m >= y
  BY <1>2
<1>5. Max(T) \in T /\ \A y \in T : Max(T) >= y
  BY <1>3, <1>4 DEF Max
<1> QED BY <1>5

\* What holds of the first and passes from each to the next holds of all.
LEMMA Climb ==
  ASSUME NEW n \in Nat, NEW T, 0 \in T, \A i \in 1..n : i - 1 \in T => i \in T
  PROVE  0..n \subseteq T
<1> DEFINE bad == (0..n) \ T
<1>1. SUFFICES ASSUME bad # {} PROVE FALSE
  OBVIOUS
<1> DEFINE k == Min(bad)
<1>2. k \in bad /\ \A j \in bad : k <= j
  <2>1. bad \subseteq Nat
    OBVIOUS
  <2> HIDE DEF bad
  <2> QED BY <1>1, <2>1, MinFacts
<1> HIDE DEF k
<1>3. k \in 1..n /\ k - 1 \in 0..n /\ k - 1 \notin bad
  BY <1>2
<1> QED BY <1>2, <1>3

\* A function that grows at each step grows.
LEMMA Growing ==
  ASSUME NEW n \in Nat, NEW e, \A i \in 0..n : e[i] \in Nat,
         \A i \in 1..n : e[i - 1] < e[i]
  PROVE  \A i, j \in 0..n : i < j => e[i] < e[j]
<1> DEFINE T == {j \in 0..n : \A i \in 0..n : i < j => e[i] < e[j]}
<1>1. 0 \in T
  OBVIOUS
<1>2. ASSUME NEW j \in 1..n, j - 1 \in T PROVE j \in T
  <2>1. ASSUME NEW i \in 0..n, i < j PROVE e[i] < e[j]
    <3>1. e[j - 1] < e[j] /\ e[j - 1] \in Nat /\ e[j] \in Nat /\ e[i] \in Nat
      OBVIOUS
    <3>2. i = j - 1 \/ e[i] < e[j - 1]
      BY <1>2, <2>1
    <3> QED BY <3>1, <3>2
  <2> QED BY <2>1
<1>3. 0..n \subseteq T
  <2> HIDE DEF T
  <2> QED BY <1>1, <1>2, Climb
<1> QED BY <1>3

\* A function may be defined by its first value, 0, and by what each value
\* makes of the one before it.
LEMMA Recursion ==
  ASSUME NEW n \in Nat, NEW g \in [(1..n) \X Nat -> Nat]
  PROVE  \E f \in [0..n -> Nat] : f[0] = 0 /\ \A i \in 1..n : f[i] = g[<<i, f[i - 1]>>]
<1> DEFINE Good(k) ==
             \E f \in [0..k -> Nat] : f[0] = 0 /\ \A i \in 1..k : f[i] = g[<<i, f[i - 1]>>]
           T == {k \in 0..n : Good(k)}
<1>1. Good(0)
  <2> DEFINE f == [i \in 0..0 |-> 0]
  <2>1. f \in [0..0 -> Nat] /\ f[0] = 0 /\ \A i \in 1..0 : f[i] = g[<<i, f[i - 1]>>]
    OBVIOUS
  <2> QED BY <2>1
<1>2. ASSUME NEW k \in 1..n, Good(k - 1) PROVE Good(k)
  <2>1. PICK f \in [0..(k - 1) -> Nat] :
          f[0] = 0 /\ \A i \in 1..(k - 1) : f[i] = g[<<i, f[i - 1]>>]
    BY <1>2
  <2> DEFINE h == [i \in 0..k |-> IF i = k THEN g[<<k, f[k - 1]>>] ELSE f[i]]
  <2>2. f[k - 1] \in Nat /\ g[<<k, f[k - 1]>>] \in Nat
    OBVIOUS
  <2>3. h \in [0..k -> Nat]
    BY <2>2
  <2>4. h[0] = 0
    BY <2>1
  <2>5. ASSUME NEW i \in 1..k PROVE h[i] = g[<<i, h[i - 1]>>]
    <3>1. h[i - 1] = f[i - 1]
      OBVIOUS
    <3>2. CASE i = k
      <4>1. h[i] = g[<<i, f[i - 1]>>]
        BY <3>2
      <4> HIDE DEF h
      <4> QED BY <3>1, <4>1
    <3>3. CASE i # k
      BY <2>1, <3>1, <3>3
    <3> QED BY <3>2, <3>3
  <2> HIDE DEF h
  <2> QED BY <2>3, <2>4, <2>5
<1> HIDE DEF Good
<1>3. 0 \in T /\ \A i \in 1..n : i - 1 \in T => i \in T
  BY <1>1, <1>2
<1>4. 0..n \subseteq T
  <2> HIDE DEF T
  <2> QED BY <1>3, Climb
<1>5. Good(n)
  BY <1>4
<1> QED BY <1>5 DEF Good

-----------------------------------------------------------------------------
(* What an edit does to the elements of a sequence without repetitions.      *)

\* Adding an element that is not there at the end.
LEMMA AppendElements ==
  ASSUME NEW S, NEW s \in Seq(S), NEW e \in S, e \notin Range(s), IsInjective(s)
  PROVE  /\ Range(Append(s, e)) = Range(s) \cup {e}
         /\ IsInjective(Append(s, e))
<1> DEFINE r == Append(s, e)
<1>1. /\ r \in Seq(S) /\ Len(r) = Len(s) + 1 /\ Len(s) \in Nat
      /\ \A i \in 1..Len(s) : r[i] = s[i]
      /\ r[Len(s) + 1] = e
  BY AppendProperties, LenProperties
<1> HIDE DEF r
<1>2. DOMAIN r = 1..(Len(s) + 1) /\ DOMAIN s = 1..Len(s)
  BY <1>1, LenProperties
<1>3. Range(r) = Range(s) \cup {e}
  <2>1. ASSUME NEW i \in DOMAIN r PROVE r[i] \in Range(s) \cup {e}
    <3>1. CASE i \in 1..Len(s)
      BY <3>1, <1>1, <1>2 DEF Range
    <3>2. CASE i = Len(s) + 1
      BY <3>2, <1>1
    <3> QED BY <3>1, <3>2, <1>1, <1>2
  <2>2. ASSUME NEW x \in Range(s) \cup {e} PROVE \E i \in DOMAIN r : r[i] = x
    <3>1. CASE x \in Range(s)
      <4>1. PICK i \in DOMAIN s : s[i] = x
        BY <3>1 DEF Range
      <4> QED BY <4>1, <1>1, <1>2
    <3>2. CASE x = e
      <4>1. Len(s) + 1 \in DOMAIN r
        BY <1>1, <1>2
      <4> QED BY <4>1, <3>2, <1>1
    <3> QED BY <3>1, <3>2
  <2> QED BY <2>1, <2>2 DEF Range
<1>4. IsInjective(r)
  <2> SUFFICES ASSUME NEW i \in DOMAIN r, NEW j \in DOMAIN r, r[i] = r[j] PROVE i = j
    BY DEF IsInjective
  <2>1. \A k \in 1..Len(s) : s[k] # e
    BY <1>2 DEF Range
  <2>2. CASE i \in 1..Len(s) /\ j \in 1..Len(s)
    BY <2>2, <1>1, <1>2 DEF IsInjective
  <2>3. CASE i = Len(s) + 1 \/ j = Len(s) + 1
    BY <2>1, <2>3, <1>1, <1>2
  <2> QED BY <2>2, <2>3, <1>1, <1>2
<1> QED BY <1>3, <1>4 DEF r

\* Removing one: the others stay.
LEMMA RemoveAtElements ==
  ASSUME NEW S, NEW s \in Seq(S), NEW i \in 1..Len(s), IsInjective(s)
  PROVE  /\ Range(RemoveAt(s, i)) = Range(s) \ {s[i]}
         /\ IsInjective(RemoveAt(s, i))
<1> DEFINE r == RemoveAt(s, i)
<1>1. /\ r \in Seq(S) /\ Len(r) = Len(s) - 1 /\ Len(s) \in Nat
      /\ \A j \in 1..(Len(s) - 1) : r[j] = IF j < i THEN s[j] ELSE s[j + 1]
  BY RemoveAtFacts, LenProperties
<1> HIDE DEF r
<1>2. DOMAIN r = 1..(Len(s) - 1) /\ DOMAIN s = 1..Len(s)
  BY <1>1, LenProperties
<1>3. ASSUME NEW j \in DOMAIN r
      PROVE  \E k \in 1..Len(s) \ {i} : r[j] = s[k] /\ k = (IF j < i THEN j ELSE j + 1)
  <2>1. CASE j < i
    <3>1. j \in 1..Len(s) \ {i} /\ r[j] = s[j]
      BY <1>1, <1>2, <2>1
    <3> QED BY <2>1, <3>1
  <2>2. CASE ~(j < i)
    <3>1. j + 1 \in 1..Len(s) \ {i} /\ r[j] = s[j + 1]
      BY <1>1, <1>2, <2>2
    <3> QED BY <2>2, <3>1
  <2> QED BY <2>1, <2>2
<1>4. Range(r) = Range(s) \ {s[i]}
  <2>1. ASSUME NEW j \in DOMAIN r PROVE r[j] \in Range(s) \ {s[i]}
    <3>1. PICK k \in 1..Len(s) \ {i} : r[j] = s[k]
      BY <1>3
    <3> QED BY <1>2, <3>1 DEF Range, IsInjective
  <2>2. ASSUME NEW x \in Range(s) \ {s[i]} PROVE \E j \in DOMAIN r : r[j] = x
    <3>1. PICK k \in DOMAIN s : s[k] = x
      BY <2>2 DEF Range
    <3>2. k # i
      BY <2>2, <3>1
    <3>3. CASE k < i
      <4>1. k \in 1..(Len(s) - 1)
        BY <1>1, <1>2, <3>3
      <4> QED BY <1>1, <1>2, <3>1, <3>3, <4>1
    <3>4. CASE k > i
      <4>1. k - 1 \in 1..(Len(s) - 1) /\ ~(k - 1 < i) /\ (k - 1) + 1 = k
        BY <1>1, <1>2, <3>4
      <4> QED BY <1>1, <1>2, <3>1, <4>1
    <3> QED BY <1>1, <1>2, <3>2, <3>3, <3>4
  <2> QED BY <2>1, <2>2 DEF Range
<1>5. IsInjective(r)
  <2> SUFFICES ASSUME NEW a \in DOMAIN r, NEW b \in DOMAIN r, r[a] = r[b] PROVE a = b
    BY DEF IsInjective
  <2>1. PICK k \in 1..Len(s) \ {i} : r[a] = s[k] /\ k = (IF a < i THEN a ELSE a + 1)
    BY <1>3
  <2>2. PICK m \in 1..Len(s) \ {i} : r[b] = s[m] /\ m = (IF b < i THEN b ELSE b + 1)
    BY <1>3
  <2>3. k = m
    BY <1>2, <2>1, <2>2 DEF IsInjective
  <2> QED BY <1>1, <1>2, <2>1, <2>2, <2>3
<1> QED BY <1>4, <1>5 DEF r

\* Inserting an element that is not there.
LEMMA InsertAtElements ==
  ASSUME NEW S, NEW s \in Seq(S), NEW e \in S, NEW i \in 1..(Len(s) + 1),
         e \notin Range(s), IsInjective(s)
  PROVE  /\ Range(InsertAt(s, i, e)) = Range(s) \cup {e}
         /\ IsInjective(InsertAt(s, i, e))
<1> DEFINE r == InsertAt(s, i, e)
<1>1. /\ r \in Seq(S) /\ Len(r) = Len(s) + 1 /\ Len(s) \in Nat
      /\ \A j \in 1..(Len(s) + 1) :
           r[j] = IF j < i THEN s[j] ELSE IF j = i THEN e ELSE s[j - 1]
  BY InsertAtFacts, LenProperties
<1> HIDE DEF r
<1>2. DOMAIN r = 1..(Len(s) + 1) /\ DOMAIN s = 1..Len(s)
  BY <1>1, LenProperties
<1>3. \A k \in 1..Len(s) : s[k] # e
  BY <1>2 DEF Range
<1>4. ASSUME NEW j \in DOMAIN r, j # i
      PROVE  \E k \in 1..Len(s) : r[j] = s[k] /\ k = (IF j < i THEN j ELSE j - 1)
  <2>1. CASE j < i
    <3>1. j \in 1..Len(s) /\ r[j] = s[j]
      BY <1>1, <1>2, <2>1
    <3> QED BY <2>1, <3>1
  <2>2. CASE ~(j < i)
    <3>1. j - 1 \in 1..Len(s) /\ r[j] = s[j - 1]
      BY <1>1, <1>2, <1>4, <2>2
    <3> QED BY <2>2, <3>1
  <2> QED BY <2>1, <2>2
<1>5. i \in DOMAIN r /\ r[i] = e
  BY <1>1, <1>2
<1>6. Range(r) = Range(s) \cup {e}
  <2>1. ASSUME NEW j \in DOMAIN r PROVE r[j] \in Range(s) \cup {e}
    BY <1>2, <1>4, <1>5 DEF Range
  <2>2. ASSUME NEW x \in Range(s) PROVE \E j \in DOMAIN r : r[j] = x
    <3>1. PICK k \in DOMAIN s : s[k] = x
      BY <2>2 DEF Range
    <3>2. CASE k < i
      BY <1>1, <1>2, <3>1, <3>2
    <3>3. CASE ~(k < i)
      <4>1. k + 1 \in 1..(Len(s) + 1) /\ ~(k + 1 < i) /\ k + 1 # i /\ (k + 1) - 1 = k
        BY <1>1, <1>2, <3>3
      <4> QED BY <1>1, <1>2, <3>1, <4>1
    <3> QED BY <3>2, <3>3
  <2> QED BY <1>5, <2>1, <2>2 DEF Range
<1>7. IsInjective(r)
  <2> SUFFICES ASSUME NEW a \in DOMAIN r, NEW b \in DOMAIN r, r[a] = r[b] PROVE a = b
    BY DEF IsInjective
  <2>1. CASE a # i /\ b # i
    <3>1. PICK k \in 1..Len(s) : r[a] = s[k] /\ k = (IF a < i THEN a ELSE a - 1)
      BY <1>4, <2>1
    <3>2. PICK m \in 1..Len(s) : r[b] = s[m] /\ m = (IF b < i THEN b ELSE b - 1)
      BY <1>4, <2>1
    <3>3. k = m
      BY <1>2, <3>1, <3>2 DEF IsInjective
    <3> QED BY <1>1, <1>2, <2>1, <3>1, <3>2, <3>3
  <2>2. CASE a = i /\ b # i
    BY <1>3, <1>4, <1>5, <2>2
  <2>3. CASE a # i /\ b = i
    BY <1>3, <1>4, <1>5, <2>3
  <2> QED BY <2>1, <2>2, <2>3
<1> QED BY <1>6, <1>7 DEF r

\* Joining two sequences that share no element.
LEMMA ConcatElements ==
  ASSUME NEW S, NEW s \in Seq(S), NEW u \in Seq(S), IsInjective(s), IsInjective(u),
         Range(s) \cap Range(u) = {}
  PROVE  /\ Range(s \o u) = Range(s) \cup Range(u)
         /\ IsInjective(s \o u)
<1> DEFINE r == s \o u
<1>1. /\ r \in Seq(S) /\ Len(r) = Len(s) + Len(u) /\ Len(s) \in Nat /\ Len(u) \in Nat
      /\ \A j \in 1..(Len(s) + Len(u)) :
           r[j] = IF j <= Len(s) THEN s[j] ELSE u[j - Len(s)]
  BY ConcatProperties, LenProperties
<1> HIDE DEF r
<1>2. DOMAIN r = 1..(Len(s) + Len(u)) /\ DOMAIN s = 1..Len(s) /\ DOMAIN u = 1..Len(u)
  BY <1>1, LenProperties
<1>3. IsInjective(r)
  <2> SUFFICES ASSUME NEW a \in DOMAIN r, NEW b \in DOMAIN r, r[a] = r[b] PROVE a = b
    BY DEF IsInjective
  <2>1. \A k \in DOMAIN s, m \in DOMAIN u : s[k] # u[m]
    BY DEF Range
  <2>2. CASE a <= Len(s) /\ b <= Len(s)
    <3>1. a \in DOMAIN s /\ b \in DOMAIN s /\ s[a] = s[b]
      BY <1>1, <1>2, <2>2
    <3> QED BY <3>1 DEF IsInjective
  <2>3. CASE a > Len(s) /\ b > Len(s)
    <3>1. /\ a - Len(s) \in DOMAIN u /\ b - Len(s) \in DOMAIN u
          /\ u[a - Len(s)] = u[b - Len(s)]
      BY <1>1, <1>2, <2>3
    <3>2. a - Len(s) = b - Len(s)
      BY <3>1 DEF IsInjective
    <3> QED BY <1>1, <1>2, <3>2
  <2>4. CASE a <= Len(s) /\ b > Len(s)
    <3>1. a \in DOMAIN s /\ b - Len(s) \in DOMAIN u /\ s[a] = u[b - Len(s)]
      BY <1>1, <1>2, <2>4
    <3> QED BY <2>1, <3>1
  <2>5. CASE a > Len(s) /\ b <= Len(s)
    <3>1. b \in DOMAIN s /\ a - Len(s) \in DOMAIN u /\ s[b] = u[a - Len(s)]
      BY <1>1, <1>2, <2>5
    <3> QED BY <2>1, <3>1
  <2> QED BY <1>1, <1>2, <2>2, <2>3, <2>4, <2>5
<1>4. Range(r) = Range(s) \cup Range(u)
  BY RangeConcatenation DEF r
<1> QED BY <1>3, <1>4 DEF r

\* What a queue holds once something is put into it or taken from it.
LEMMA AppendRange ==
  ASSUME NEW S, NEW s \in Seq(S), NEW e
  PROVE  Range(Append(s, e)) = Range(s) \cup {e}
<1>1. s \in Seq(S \cup {e}) /\ e \in S \cup {e}
  BY SeqMonotonic
<1>2. /\ Append(s, e) \in Seq(S \cup {e}) /\ Len(Append(s, e)) = Len(s) + 1 /\ Len(s) \in Nat
      /\ \A i \in 1..Len(s) : Append(s, e)[i] = s[i]
      /\ Append(s, e)[Len(s) + 1] = e
  BY <1>1, AppendProperties, LenProperties
<1> DEFINE r == Append(s, e)
<1> HIDE DEF r
<1>3. /\ Range(r) = {r[i] : i \in 1..(Len(s) + 1)}
      /\ Range(s) = {s[i] : i \in 1..Len(s)}
  BY <1>1, <1>2, RangeEquality DEF r
<1>4. 1..(Len(s) + 1) = 1..Len(s) \cup {Len(s) + 1}
  BY <1>2
<1>5. Range(r) = {s[i] : i \in 1..Len(s)} \cup {e}
  BY <1>2, <1>3, <1>4 DEF r
<1> QED BY <1>3, <1>5 DEF r

LEMMA TailRange ==
  ASSUME NEW S, NEW s \in Seq(S), s # <<>>
  PROVE  /\ Head(s) \in S /\ Tail(s) \in Seq(S)
         /\ Range(s) = {Head(s)} \cup Range(Tail(s))
<1>1. /\ Head(s) = s[1] /\ Head(s) \in S /\ Tail(s) \in Seq(S) /\ Len(Tail(s)) = Len(s) - 1
      /\ \A i \in 1..Len(Tail(s)) : Tail(s)[i] = s[i + 1]
      /\ Len(s) \in Nat \ {0}
  BY HeadTailProperties, LenProperties, EmptySeq
<1> DEFINE r == Tail(s)
<1> HIDE DEF r
<1>2. /\ Range(r) = {r[i] : i \in 1..Len(r)}
      /\ Range(s) = {s[i] : i \in 1..Len(s)}
  BY <1>1, RangeEquality DEF r
<1>3. ASSUME NEW i \in 1..Len(s) PROVE s[i] = s[1] \/ \E j \in 1..Len(r) : r[j] = s[i]
  <2>1. CASE i # 1
    <3>1. i - 1 \in 1..Len(r) /\ r[i - 1] = s[i]
      BY <1>1, <2>1 DEF r
    <3> QED BY <3>1
  <2> QED BY <2>1
<1>4. ASSUME NEW j \in 1..Len(r) PROVE \E i \in 1..Len(s) : s[i] = r[j]
  <2>1. j + 1 \in 1..Len(s) /\ s[j + 1] = r[j]
    BY <1>1 DEF r
  <2> QED BY <2>1
<1>5. Range(s) = {s[1]} \cup Range(r)
  <2>1. 1 \in 1..Len(s)
    BY <1>1
  <2>2. Range(s) \subseteq {s[1]} \cup Range(r)
    BY <1>2, <1>3
  <2>3. {s[1]} \cup Range(r) \subseteq Range(s)
    BY <1>2, <1>4, <2>1
  <2> QED BY <2>2, <2>3
<1> QED BY <1>1, <1>5 DEF r

\* Replacing one element: at most that one is lost.
LEMMA ReplaceRange ==
  ASSUME NEW S, NEW s \in Seq(S), NEW e \in S, NEW n \in 1..Len(s)
  PROVE  /\ [s EXCEPT ![n] = e] \in Seq(S)
         /\ Range([s EXCEPT ![n] = e]) \subseteq Range(s) \cup {e}
         /\ e \in Range([s EXCEPT ![n] = e])
<1> DEFINE r == [s EXCEPT ![n] = e]
<1>1. /\ r \in Seq(S) /\ Len(r) = Len(s) /\ Len(s) \in Nat
      /\ \A i \in 1..Len(s) : r[i] = IF i = n THEN e ELSE s[i]
  BY ExceptSeq, LenProperties
<1> HIDE DEF r
<1>2. /\ Range(r) = {r[i] : i \in 1..Len(s)}
      /\ Range(s) = {s[i] : i \in 1..Len(s)}
  BY <1>1, RangeEquality
<1> QED BY <1>1, <1>2 DEF r

\* A listing of a set holds each of its elements.
LEMMA ListingRange ==
  ASSUME NEW S, IsFiniteSet(S), NEW s \in SetToSeqs(S)
  PROVE  s \in Seq(S) /\ Range(s) = S
<1> DEFINE n == Cardinality(S)
<1>1. n \in Nat /\ s \in [1..n -> S] /\ \A i, j \in 1..n : i # j => s[i] # s[j]
  BY FS_CardinalityType DEF SetToSeqs
<1>2. IsFiniteSet(1..n) /\ Cardinality(1..n) = n
  <2> HIDE DEF n
  <2> QED BY <1>1, FS_Interval
<1>3. s \in Injection(1..n, S)
  <2> HIDE DEF n
  <2> QED BY <1>1 DEF Injection, IsInjective
<1>4. s \in Surjection(1..n, S)
  BY <1>2, <1>3, FS_Injection
<1>5. \A t \in S : \E i \in 1..n : s[i] = t
  <2> HIDE DEF n
  <2> QED BY <1>4 DEF Surjection
<1> HIDE DEF n
<1>6. s \in Seq(S)
  BY <1>1
<1> QED BY <1>1, <1>5, <1>6 DEF Range

=============================================================================

---------------------------- MODULE HistoryProofs ----------------------------
(***************************************************************************)
(* What the disk-backed scrollback keeps, for every size of the ring, of   *)
(* the records and of the file: the inductive invariant of History is that *)
(* the index fits the file (Indexed), that no line shows a row still to be *)
(* mirrored, and that after a crash an index which fits can still be       *)
(* found.  The recursive functions Ends and Reached are taken to their     *)
(* recursion equations first (Recursion in SeqLemmas).                     *)
(***************************************************************************)
EXTENDS History, SeqLemmas

Lines == 1..MaxRows

LEMMA Constants ==
  /\ MaxRows \in Nat /\ LiveWindow \in Nat \ {0} /\ StrayLen \in Nat \ {0}
  /\ \A row \in Lines : LineSize[row] \in Nat \ {0}
<1>1. LineSize \in [Lines -> Nat \ {0}]
  BY Zenon, HistoryConstants DEF Lines
<1>2. /\ MaxRows \in Nat /\ LiveWindow \in Nat \ {0} /\ StrayLen \in Nat \ {0}
  BY Zenon, HistoryConstants
<1> QED BY <1>1, <1>2

\* The ends of a batch's records, as the recursion has them.
LEMMA EndsStep ==
  ASSUME NEW rows \in Seq(Lines)
  PROVE  /\ Ends(rows) \in [0..Len(rows) -> Nat]
         /\ Ends(rows)[0] = 0
         /\ \A i \in 1..Len(rows) : Ends(rows)[i] = Ends(rows)[i - 1] + LineSize[rows[i]]
<1> DEFINE n == Len(rows)
           g == [z \in (1..n) \X Nat |-> z[2] + LineSize[rows[z[1]]]]
<1>1. n \in Nat /\ \A i \in 1..n : LineSize[rows[i]] \in Nat
  BY Constants
<1>2. \A i \in 1..n, x \in Nat : g[<<i, x>>] = x + LineSize[rows[i]]
  OBVIOUS
<1> HIDE DEF n
<1>3. g \in [(1..n) \X Nat -> Nat]
  BY <1>1
<1> HIDE DEF g
<1>4. PICK f \in [0..n -> Nat] : f[0] = 0 /\ \A i \in 1..n : f[i] = g[<<i, f[i - 1]>>]
  BY <1>1, <1>3, Recursion
<1> DEFINE next(e) == [i \in 0..n |-> IF i = 0 THEN 0 ELSE e[i - 1] + LineSize[rows[i]]]
           Is(e) == e = next(e)
<1>5. Is(f)
  <2>1. ASSUME NEW i \in 0..n PROVE f[i] = next(f)[i]
    <3>1. CASE i = 0
      BY <1>4, <3>1
    <3>2. CASE i # 0
      <4>1. i \in 1..n /\ f[i - 1] \in Nat
        BY <1>1, <3>2
      <4> QED BY <1>2, <1>4, <3>2, <4>1
    <3> QED BY <3>1, <3>2
  <2> QED BY <1>4, <2>1
<1>6. Ends(rows) = CHOOSE e : Is(e)
  BY DEF Ends, n
<1>7. Is(Ends(rows))
  <2> HIDE DEF Is
  <2> QED BY <1>5, <1>6
<1> DEFINE e == Ends(rows)
<1> HIDE DEF e
<1>8. e[0] = 0 /\ \A i \in 1..n : e[i] = e[i - 1] + LineSize[rows[i]]
  BY <1>1, <1>7 DEF e
<1>9. ASSUME NEW i \in 1..n, e[i - 1] \in Nat PROVE e[i] \in Nat
  BY <1>1, <1>8, <1>9
<1> DEFINE T == {i \in 0..n : e[i] \in Nat}
<1>10. 0..n \subseteq T
  <2>1. 0 \in T /\ \A i \in 1..n : i - 1 \in T => i \in T
    BY <1>1, <1>8, <1>9
  <2> HIDE DEF T
  <2> QED BY <1>1, <2>1, Climb
<1>11. e \in [0..n -> Nat]
  BY <1>7, <1>10 DEF e
<1> QED BY <1>8, <1>11 DEF e, n

LEMMA EndsGrow ==
  ASSUME NEW rows \in Seq(Lines)
  PROVE  \A i, j \in 0..Len(rows) : i < j => Ends(rows)[i] < Ends(rows)[j]
<1> DEFINE e == Ends(rows)
           n == Len(rows)
<1>1. n \in Nat /\ e \in [0..n -> Nat]
  BY EndsStep, LenProperties
<1>2. ASSUME NEW i \in 1..n PROVE e[i - 1] < e[i]
  <2>1. e[i] = e[i - 1] + LineSize[rows[i]] /\ LineSize[rows[i]] \in Nat \ {0}
    BY EndsStep, Constants
  <2> HIDE DEF e, n
  <2> QED BY <1>1, <2>1
<1> HIDE DEF e, n
<1>3. \A i, j \in 0..n : i < j => e[i] < e[j]
  BY <1>1, <1>2, Growing
<1> QED BY <1>3 DEF e, n

\* A unit of a batch is the first of one row's record, or inside one.
FileUnit(top) == [row : 0..top, n : Nat \ {0}]

LEMMA UnitsFacts ==
  ASSUME NEW rows \in Seq(Lines), NEW top \in Nat,
         \A i \in 1..Len(rows) : rows[i] \in 1..top
  PROVE  /\ DOMAIN AllUnits(rows) = 1..Ends(rows)[Len(rows)]
         /\ Len(AllUnits(rows)) = Ends(rows)[Len(rows)]
         /\ \A p \in 1..Len(AllUnits(rows)) : AllUnits(rows)[p] \in FileUnit(top)
         /\ \A i \in 1..Len(rows) :
              AllUnits(rows)[Ends(rows)[i - 1] + 1] = Header(rows[i])
         /\ \A p \in 1..Len(AllUnits(rows)) :
              AllUnits(rows)[p].row # 0 =>
                \E i \in 1..Len(rows) : /\ p = Ends(rows)[i - 1] + 1
                                        /\ AllUnits(rows)[p] = Header(rows[i])
<1> DEFINE e == Ends(rows)
           n == Len(rows)
           u == AllUnits(rows)
           starts(p) == {i \in 1..n : e[i - 1] + 1 = p}
<1>1. n \in Nat /\ e \in [0..n -> Nat] /\ \A i, j \in 0..n : i < j => e[i] < e[j]
  BY EndsStep, EndsGrow, LenProperties
<1>2. u = [p \in 1..e[n] |->
             IF starts(p) = {} THEN Inside ELSE Header(rows[CHOOSE i \in starts(p) : TRUE])]
  BY DEF AllUnits
<1>3. e[n] \in Nat
  BY <1>1
<1>4. DOMAIN u = 1..e[n] /\ Len(u) = e[n]
  <2> HIDE DEF u, e, n, starts
  <2>1. DOMAIN u = 1..e[n]
    BY <1>2
  <2> QED BY <1>3, <2>1
<1> HIDE DEF u, e, n
<1>5. ASSUME NEW i \in 1..n, NEW j \in 1..n, e[i - 1] = e[j - 1] PROVE i = j
  <2>1. i - 1 \in 0..n /\ j - 1 \in 0..n
    BY <1>1
  <2>2. ~(i - 1 < j - 1) /\ ~(j - 1 < i - 1)
    BY <1>1, <1>5, <2>1
  <2> QED BY <2>1, <2>2
<1>6. ASSUME NEW i \in 1..n
      PROVE  e[i - 1] + 1 \in 1..e[n] /\ u[e[i - 1] + 1] = Header(rows[i])
  <2>1. i - 1 \in 0..n /\ n \in 0..n /\ i - 1 < n
    BY <1>1
  <2>2. e[i - 1] + 1 \in 1..e[n]
    BY <1>1, <2>1
  <2>3. starts(e[i - 1] + 1) = {i}
    BY <1>1, <1>5
  <2> HIDE DEF starts
  <2> QED BY <1>2, <2>2, <2>3
<1>7. ASSUME NEW p \in 1..e[n], starts(p) # {}
      PROVE  \E i \in 1..n : p = e[i - 1] + 1 /\ u[p] = Header(rows[i])
  <2>1. PICK i \in 1..n : p = e[i - 1] + 1
    BY <1>7
  <2> QED BY <1>6, <2>1
<1>8. ASSUME NEW p \in 1..e[n], starts(p) = {} PROVE u[p] = Inside
  BY <1>2, <1>8
<1> HIDE DEF starts
<1>9. Inside \in FileUnit(top) /\ Inside.row = 0
  BY Constants DEF Inside, FileUnit
<1>10. ASSUME NEW i \in 1..n PROVE Header(rows[i]) \in FileUnit(top)
  <2>1. rows[i] \in 1..top /\ LineSize[rows[i]] \in Nat \ {0}
    BY Constants DEF n
  <2> QED BY <2>1 DEF Header, FileUnit
<1>11. \A p \in 1..e[n] : u[p] \in FileUnit(top)
  BY <1>7, <1>8, <1>9, <1>10
<1>12. ASSUME NEW p \in 1..e[n], u[p].row # 0
       PROVE  \E i \in 1..n : p = e[i - 1] + 1 /\ u[p] = Header(rows[i])
  <2>1. starts(p) # {}
    BY <1>8, <1>9, <1>12
  <2> QED BY <1>7, <2>1
<1> QED BY <1>4, <1>6, <1>11, <1>12 DEF u, e, n

\* Of a write that stopped after m units, the records that landed.
LEMMA LandedFacts ==
  ASSUME NEW rows \in Seq(Lines), NEW m \in Nat
  PROVE  /\ Landed(rows, m) \in 0..Len(rows)
         /\ Ends(rows)[Landed(rows, m)] <= m
         /\ \A i \in 0..Len(rows) : Landed(rows, m) < i => m < Ends(rows)[i]
<1> DEFINE e == Ends(rows)
           n == Len(rows)
           T == {i \in 0..n : e[i] <= m}
<1>1. n \in Nat /\ e \in [0..n -> Nat] /\ e[0] = 0
  BY EndsStep, LenProperties
<1>2. Landed(rows, m) = Max(T)
  BY DEF Landed
<1> HIDE DEF e, n
<1>3. T \subseteq 0..n /\ 0 \in T
  BY <1>1
<1>4. Max(T) \in T /\ \A y \in T : y <= Max(T)
  <2> HIDE DEF T
  <2> QED BY <1>1, <1>3, MaxFacts
<1> DEFINE c == Max(T)
<1> HIDE DEF c
<1>5. c \in 0..n /\ e[c] <= m
  BY <1>4 DEF c
<1>6. ASSUME NEW i \in 0..n, c < i PROVE m < e[i]
  <2>1. i \notin T
    <3> HIDE DEF T
    <3>1. i \in T => i <= c
      BY <1>4 DEF c
    <3> QED BY <1>1, <1>5, <1>6, <3>1
  <2> QED BY <1>1, <2>1
<1> QED BY <1>2, <1>5, <1>6 DEF c, e, n

-----------------------------------------------------------------------------
(* A file that an index fits.                                                *)

\* Where the record after the i-th line's begins: the next line's, or the size.
EndAt(idx, sz, i) == IF i < Len(idx) THEN idx[i + 1] ELSE sz
Shows(f, idx) == [i \in DOMAIN idx |-> f[idx[i] + 1].row]

\* The lines follow each other from the start of the file to the size; they
\* show rows in order; and beyond the size a record can only begin right there,
\* with a row that comes after them.
Indexed(f, idx, sz) ==
  /\ idx \in Seq(Nat) /\ sz \in 0..Len(f)
  /\ EndAt(idx, sz, 0) = 0
  /\ \A i \in 1..Len(idx) : idx[i] < sz /\ EndAt(idx, sz, i) = idx[i] + f[idx[i] + 1].n
  /\ \A i, j \in 1..Len(idx) :
       i < j /\ Shows(f, idx)[i] # 0 /\ Shows(f, idx)[j] # 0 =>
         Shows(f, idx)[i] < Shows(f, idx)[j]
  /\ \A p \in (sz + 1)..Len(f) : f[p].row # 0 =>
       /\ p = sz + 1
       /\ \A i \in 1..Len(idx) : Shows(f, idx)[i] < f[p].row

\* What WriteAt leaves of the file.
LEMMA WrittenFacts ==
  ASSUME NEW top \in Nat, file \in Seq(FileUnit(top)), size \in 0..Len(file),
         NEW rows \in Seq(Lines), \A i \in 1..Len(rows) : rows[i] \in 1..top,
         NEW m \in 0..Len(AllUnits(rows))
  PROVE  /\ WrittenAt(rows, m) \in Seq(FileUnit(top))
         /\ Len(file) <= Len(WrittenAt(rows, m)) /\ size + m <= Len(WrittenAt(rows, m))
         /\ Len(WrittenAt(rows, m)) = Len(file) \/ Len(WrittenAt(rows, m)) = size + m
         /\ \A p \in 1..Len(WrittenAt(rows, m)) :
              WrittenAt(rows, m)[p] =
                IF p \in (size + 1)..(size + m) THEN AllUnits(rows)[p - size] ELSE file[p]
<1> DEFINE w == WrittenAt(rows, m)
           u == AllUnits(rows)
           L == Max({Len(file), size + m})
           unit(p) == IF p \in (size + 1)..(size + m) THEN u[p - size] ELSE file[p]
<1>1. Len(file) \in Nat /\ size \in Nat /\ m \in Nat /\ m <= Len(u) /\ Len(u) \in Nat
  <2>1. Len(file) \in Nat
    BY LenProperties
  <2>2. Len(u) \in Nat
    <3>1. Ends(rows)[Len(rows)] \in Nat
      BY EndsStep, LenProperties
    <3> QED BY <3>1, UnitsFacts
  <2>3. m \in 0..Len(u)
    OBVIOUS
  <2> HIDE DEF u
  <2> QED BY <2>1, <2>2, <2>3
<1>2. \A p \in 1..Len(u) : u[p] \in FileUnit(top)
  BY UnitsFacts
<1>3. \A p \in 1..Len(file) : file[p] \in FileUnit(top)
  BY ElementOfSeq
<1>4. w = [p \in 1..L |-> unit(p)]
  BY DEF WrittenAt
<1> HIDE DEF w, u
<1>5. L \in {Len(file), size + m} /\ Len(file) <= L /\ size + m <= L /\ L \in Nat
  <2> DEFINE T == {Len(file), size + m}
  <2>1. T \subseteq 0..(Len(file) + m) /\ T # {} /\ Len(file) + m \in Nat
    BY <1>1
  <2>2. Max(T) \in T /\ \A y \in T : y <= Max(T)
    <3> HIDE DEF T
    <3> QED BY <2>1, MaxFacts
  <2> QED BY <1>1, <2>2
<1> HIDE DEF L
<1>6. ASSUME NEW p \in 1..L PROVE unit(p) \in FileUnit(top)
  <2>1. CASE p \in (size + 1)..(size + m)
    <3>1. p - size \in 1..Len(u)
      BY <1>1, <2>1
    <3> QED BY <1>2, <2>1, <3>1
  <2>2. CASE p \notin (size + 1)..(size + m)
    <3>1. p \in 1..Len(file)
      BY <1>1, <1>5, <2>2
    <3> QED BY <1>3, <2>2, <3>1
  <2> QED BY <2>1, <2>2
<1>7. w \in Seq(FileUnit(top)) /\ Len(w) = L /\ \A p \in 1..L : w[p] = unit(p)
  <2> HIDE DEF unit
  <2>1. w \in [1..L -> FileUnit(top)] /\ \A p \in 1..L : w[p] = unit(p)
    BY <1>4, <1>6
  <2> QED BY <1>5, <2>1
<1> QED BY <1>5, <1>7 DEF w, u

LEMMA HeaderFields == \A row : Header(row).row = row /\ Header(row).n = LineSize[row]
BY DEF Header

Longer(rows, c) == index \o [i \in 1..c |-> size + Ends(rows)[i - 1]]

\* A batch of m units, of rows that come after those on disk.
Batch(rows, m, top) ==
  /\ top \in Nat /\ file \in Seq(FileUnit(top)) /\ Indexed(file, index, size)
  /\ rows \in Seq(Lines) /\ \A i \in 1..Len(rows) : rows[i] \in 1..top
  /\ \A i, j \in 1..Len(rows) : i < j => rows[i] < rows[j]
  /\ \A i \in 1..Len(index), j \in 1..Len(rows) : OnDisk[i] < rows[j]
  /\ m \in 0..Len(AllUnits(rows))

\* Written whole or in part: the lengthened index fits the file, and shows the
\* rows that landed.
LEMMA WriteFacts ==
  ASSUME NEW top, NEW rows, NEW m, Batch(rows, m, top), NEW c, c = Landed(rows, m)
  PROVE  /\ Indexed(WrittenAt(rows, m), Longer(rows, c), size + Ends(rows)[c])
         /\ WrittenAt(rows, m) \in Seq(FileUnit(top))
         /\ Len(Longer(rows, c)) = Len(index) + c
         /\ \A i \in 1..Len(index) : Shows(WrittenAt(rows, m), Longer(rows, c))[i] = OnDisk[i]
         /\ \A j \in 1..c :
              Shows(WrittenAt(rows, m), Longer(rows, c))[Len(index) + j] = rows[j]
<1> DEFINE e == Ends(rows)
           n == Len(rows)
           u == AllUnits(rows)
           w == WrittenAt(rows, m)
           K == Len(index)
           more == [i \in 1..c |-> size + e[i - 1]]
           x == Longer(rows, c)
           s2 == size + e[c]
<1>0. /\ top \in Nat /\ file \in Seq(FileUnit(top)) /\ Indexed(file, index, size)
      /\ rows \in Seq(Lines) /\ \A i \in 1..Len(rows) : rows[i] \in 1..top
      /\ m \in 0..Len(u)
  BY DEF Batch
<1>1. /\ n \in Nat /\ e \in [0..n -> Nat] /\ e[0] = 0
      /\ \A i \in 1..n : e[i] = e[i - 1] + LineSize[rows[i]]
  BY <1>0, EndsStep, LenProperties
<1>2. \A i, j \in 0..n : i < j => e[i] < e[j]
  BY <1>0, EndsGrow
<1>3. /\ size \in Nat /\ size <= Len(file) /\ Len(file) \in Nat /\ K \in Nat
      /\ index \in Seq(Nat)
  BY <1>0, LenProperties DEF Indexed
<1>4. m \in Nat /\ m <= Len(u) /\ Len(u) = e[n]
  <2>1. Len(u) = e[n] /\ m \in 0..Len(u)
    BY <1>0, UnitsFacts
  <2>2. e[n] \in Nat
    BY <1>1
  <2> HIDE DEF e, n, u
  <2> QED BY <2>1, <2>2
<1>5. c \in 0..n /\ e[c] <= m /\ \A i \in 0..n : c < i => m < e[i]
  BY <1>0, <1>4, LandedFacts
<1>6. /\ \A i \in 1..n : u[e[i - 1] + 1] = Header(rows[i])
      /\ \A p \in 1..Len(u) : u[p].row # 0 =>
           \E i \in 1..n : p = e[i - 1] + 1 /\ u[p] = Header(rows[i])
  BY <1>0, UnitsFacts
<1>7. /\ w \in Seq(FileUnit(top)) /\ Len(w) \in Nat
      /\ Len(file) <= Len(w) /\ size + m <= Len(w)
      /\ Len(w) = Len(file) \/ Len(w) = size + m
      /\ \A p \in 1..Len(w) :
           w[p] = IF p \in (size + 1)..(size + m) THEN u[p - size] ELSE file[p]
  <2>1. size \in 0..Len(file)
    BY <1>0 DEF Indexed
  <2> QED BY <1>0, <2>1, WrittenFacts, LenProperties
<1>8. /\ \A i \in 1..K : index[i] \in Nat /\ index[i] < size
      /\ \A i \in 1..K : EndAt(index, size, i) = index[i] + file[index[i] + 1].n
      /\ EndAt(index, size, 0) = 0
  BY <1>0, <1>3 DEF Indexed
<1>9. /\ \A i, j \in 1..K : i < j /\ OnDisk[i] # 0 /\ OnDisk[j] # 0 => OnDisk[i] < OnDisk[j]
      /\ \A p \in (size + 1)..Len(file) : file[p].row # 0 =>
           p = size + 1 /\ \A i \in 1..K : OnDisk[i] < file[p].row
      /\ \A i \in 1..K : OnDisk[i] = file[index[i] + 1].row
  <2>1. OnDisk = Shows(file, index)
    BY DEF OnDisk, Shows
  <2>2. /\ \A i, j \in 1..K : i < j /\ OnDisk[i] # 0 /\ OnDisk[j] # 0 => OnDisk[i] < OnDisk[j]
        /\ \A p \in (size + 1)..Len(file) : file[p].row # 0 =>
             p = size + 1 /\ \A i \in 1..K : OnDisk[i] < file[p].row
    BY Zenon, <1>0, <2>1 DEF Indexed
  <2>3. \A i \in 1..K : OnDisk[i] = file[index[i] + 1].row
    BY <1>3 DEF OnDisk
  <2> QED BY <2>2, <2>3
<1>10. ASSUME NEW i \in 0..n, NEW j \in 0..n, i <= j PROVE e[i] <= e[j]
  <2>1. i = j \/ e[i] < e[j]
    BY <1>1, <1>2, <1>10
  <2> QED BY <1>1, <2>1
<1> HIDE DEF u, w, e, n
<1>11. ASSUME NEW i \in 1..c PROVE more[i] \in Nat /\ more[i] = size + e[i - 1]
  <2>1. i - 1 \in 0..n
    BY <1>1, <1>5
  <2>2. more[i] = size + e[i - 1]
    OBVIOUS
  <2> HIDE DEF more
  <2>3. e[i - 1] \in Nat
    BY <1>1, <2>1
  <2> QED BY <1>3, <2>2, <2>3
<1>12. more \in Seq(Nat) /\ Len(more) = c
  <2>1. c \in Nat
    BY <1>1, <1>5
  <2> QED BY <1>11, <2>1
<1>13. x = index \o more
  BY DEF Longer, e
<1> HIDE DEF x, more
<1>14. /\ x \in Seq(Nat) /\ Len(x) = K + c
       /\ \A i \in 1..K : x[i] = index[i]
       /\ \A j \in 1..c : x[K + j] = size + e[j - 1]
  <2>1. /\ x \in Seq(Nat) /\ Len(x) = K + c
        /\ \A i \in 1..(K + c) : x[i] = IF i <= K THEN index[i] ELSE more[i - K]
    <3>1. index \in Seq(Nat) /\ more \in Seq(Nat) /\ Len(index) = K /\ Len(more) = c
      BY <1>3, <1>12
    <3> DEFINE r == index \o more
    <3>2. /\ r \in Seq(Nat) /\ Len(r) = Len(index) + Len(more)
          /\ \A i \in 1..(Len(index) + Len(more)) :
               r[i] = IF i <= Len(index) THEN index[i] ELSE more[i - Len(index)]
      BY <3>1, ConcatProperties
    <3> HIDE DEF r
    <3>3. x = r
      BY <1>13 DEF r
    <3> HIDE DEF K
    <3> QED BY <3>1, <3>2, <3>3
  <2>2. ASSUME NEW j \in 1..c PROVE x[K + j] = size + e[j - 1]
    <3>1. K + j \in 1..(K + c) /\ ~(K + j <= K) /\ (K + j) - K = j
      BY <1>3, <1>5
    <3> QED BY <1>11, <2>1, <3>1
  <2> QED BY <1>3, <1>5, <2>1, <2>2
<1> HIDE DEF K
<1>15. s2 \in Nat /\ s2 <= size + m /\ size <= s2 /\ e[c] \in Nat
  BY <1>1, <1>3, <1>4, <1>5
<1> HIDE DEF s2
<1>16. ASSUME NEW i \in 1..K PROVE w[index[i] + 1] = file[index[i] + 1]
  <2>1. index[i] + 1 \in 1..Len(w) /\ index[i] + 1 \notin (size + 1)..(size + m)
    BY <1>3, <1>7, <1>8
  <2> QED BY <1>7, <2>1
<1>17. ASSUME NEW j \in 1..c PROVE w[size + e[j - 1] + 1] = Header(rows[j])
  <2>1. j \in 1..n /\ j - 1 \in 0..n /\ j \in 0..n /\ j - 1 < j /\ j <= c /\ c \in 0..n
    BY <1>1, <1>5
  <2>2. e[j - 1] < e[j] /\ e[j] <= e[c] /\ e[j - 1] \in Nat /\ e[j] \in Nat
    BY <1>1, <1>2, <1>10, <2>1
  <2>3. e[j - 1] + 1 <= m
    <3>1. e[c] <= m /\ e[c] \in Nat /\ m \in Nat
      BY <1>4, <1>5, <1>15
    <3> QED BY <2>2, <3>1
  <2> DEFINE a == e[j - 1]
  <2> HIDE DEF a
  <2>4. a \in Nat /\ a + 1 <= m
    BY <2>2, <2>3 DEF a
  <2>5. size + a + 1 \in 1..Len(w) /\ size + a + 1 \in (size + 1)..(size + m)
    BY <1>3, <1>4, <1>7, <2>4
  <2>6. (size + a + 1) - size = a + 1
    BY <1>3, <2>4
  <2>7. w[size + a + 1] = u[a + 1]
    BY <1>7, <2>5, <2>6
  <2> QED BY <1>6, <2>1, <2>7 DEF a
<1> DEFINE sh == Shows(w, x)
<1>18. ASSUME NEW i \in 1..K PROVE sh[i] = OnDisk[i]
  <2>1. i \in DOMAIN x
    BY <1>3, <1>5, <1>14
  <2> QED BY <1>9, <1>14, <1>16, <2>1 DEF Shows
<1>19. ASSUME NEW j \in 1..c PROVE sh[K + j] = rows[j]
  <2>1. K + j \in DOMAIN x
    BY <1>3, <1>5, <1>14
  <2>2. sh[K + j] = w[size + e[j - 1] + 1].row
    BY <1>14, <2>1 DEF Shows
  <2> QED BY <1>17, <2>2, HeaderFields
<1> HIDE DEF sh
<1>20. ASSUME NEW j \in 0..c PROVE EndAt(x, s2, K + j) = size + e[j]
  <2>1. CASE j < c
    <3>1. j + 1 \in 1..c /\ K + j < K + c /\ (K + j) + 1 = K + (j + 1) /\ (j + 1) - 1 = j
      BY <1>3, <1>5, <2>1
    <3> QED BY <1>14, <3>1 DEF EndAt
  <2>2. CASE j = c
    BY <1>3, <1>5, <1>14, <2>2 DEF EndAt, s2
  <2> QED BY <1>5, <2>1, <2>2
<1>21. ASSUME NEW i \in 0..K PROVE EndAt(x, s2, i) = EndAt(index, size, i)
  <2>1. CASE i < K
    <3>1. i < K + c /\ i + 1 \in 1..K
      BY <1>3, <1>5, <2>1
    <3> QED BY <1>14, <2>1, <3>1 DEF EndAt, K
  <2>2. CASE i = K
    <3>1. K + 0 = K /\ ~(K < K) /\ 0 \in 0..c
      BY <1>3, <1>5
    <3>2. EndAt(x, s2, K) = size + e[0]
      BY <1>20, <3>1
    <3>3. EndAt(index, size, K) = size
      BY <3>1 DEF EndAt, K
    <3> QED BY <1>1, <1>3, <2>2, <3>2, <3>3
  <2> QED BY <1>3, <2>1, <2>2
<1>22. EndAt(x, s2, 0) = 0
  BY <1>3, <1>8, <1>21
<1>23. ASSUME NEW i \in 1..Len(x)
       PROVE  i \in 1..K \/ \E j \in 1..c : i = K + j
  <2>1. CASE i > K
    <3>1. i - K \in 1..c /\ i = K + (i - K)
      BY <1>3, <1>5, <1>14, <2>1
    <3> QED BY <3>1
  <2> QED BY <1>3, <1>5, <1>14, <2>1
<1>24. ASSUME NEW i \in 1..Len(x)
       PROVE  x[i] < s2 /\ EndAt(x, s2, i) = x[i] + w[x[i] + 1].n
  <2>1. CASE i \in 1..K
    <3>1. x[i] = index[i] /\ index[i] < size /\ index[i] \in Nat
      BY <1>8, <1>14, <2>1
    <3>2. EndAt(x, s2, i) = index[i] + w[index[i] + 1].n
      BY <1>3, <1>8, <1>16, <1>21, <2>1
    <3> QED BY <1>3, <1>15, <3>1, <3>2
  <2>2. CASE \E j \in 1..c : i = K + j
    <3>1. PICK j \in 1..c : i = K + j
      BY <2>2
    <3>2. j \in 1..n /\ j - 1 \in 0..n /\ j \in 0..c /\ c \in 0..n /\ j - 1 < c
      BY <1>1, <1>5
    <3>3. x[i] = size + e[j - 1]
      BY <1>14, <3>1
    <3>4. EndAt(x, s2, i) = size + e[j]
      BY <1>20, <3>1, <3>2
    <3>5. w[x[i] + 1].n = LineSize[rows[j]]
      <4>1. w[size + e[j - 1] + 1].n = LineSize[rows[j]]
        BY <1>17, HeaderFields
      <4> QED BY <3>3, <4>1
    <3>6. e[j] = e[j - 1] + LineSize[rows[j]] /\ e[j - 1] < e[c] /\ e[j - 1] \in Nat
      BY <1>1, <1>2, <3>2
    <3>7. LineSize[rows[j]] \in Nat
      BY <1>0, <3>2, Constants DEF n
    <3> DEFINE a == e[j - 1]
               b == e[j]
               l == LineSize[rows[j]]
               z == e[c]
    <3>8. x[i] = size + a /\ EndAt(x, s2, i) = size + b /\ w[x[i] + 1].n = l /\ s2 = size + z
      BY <3>3, <3>4, <3>5 DEF s2
    <3>9. b = a + l /\ a < z /\ a \in Nat /\ l \in Nat /\ z \in Nat /\ size \in Nat
      BY <1>3, <1>15, <3>6, <3>7
    <3> HIDE DEF a, b, l, z
    <3> QED BY <3>8, <3>9
  <2> QED BY <1>23, <2>1, <2>2
<1>25. ASSUME NEW i \in 1..n PROVE rows[i] \in 1..top
  BY <1>0 DEF n
<1>26. ASSUME NEW i \in 1..n, NEW j \in 1..n, i < j PROVE rows[i] < rows[j]
  BY <1>26 DEF n, Batch
<1>27. ASSUME NEW i \in 1..K, NEW j \in 1..n PROVE OnDisk[i] < rows[j]
  BY DEF n, K, Batch
<1>28. ASSUME NEW i \in 1..Len(x), NEW j \in 1..Len(x), i < j, sh[i] # 0, sh[j] # 0
       PROVE  sh[i] < sh[j]
  <2>1. CASE i \in 1..K /\ j \in 1..K
    BY <1>9, <1>18, <1>28, <2>1
  <2>2. ASSUME NEW l \in 1..c, j = K + l, i \in 1..K PROVE sh[i] < sh[j]
    <3>1. l \in 1..n
      BY <1>1, <1>5
    <3> QED BY <1>18, <1>19, <1>27, <2>2, <3>1
  <2>3. ASSUME NEW k \in 1..c, NEW l \in 1..c, i = K + k, j = K + l PROVE sh[i] < sh[j]
    <3>1. k \in 1..n /\ l \in 1..n /\ k < l
      BY <1>1, <1>3, <1>5, <1>28, <2>3
    <3> QED BY <1>19, <1>26, <2>3, <3>1
  <2>4. ASSUME NEW k \in 1..c, i = K + k, j \in 1..K PROVE FALSE
    BY <1>3, <1>5, <1>28, <2>4
  <2> QED BY <1>23, <2>1, <2>2, <2>3, <2>4
<1>29. ASSUME NEW p \in (s2 + 1)..Len(w), w[p].row # 0
       PROVE  p = s2 + 1 /\ \A i \in 1..Len(x) : sh[i] < w[p].row
  <2>0. p \in 1..Len(w) /\ p \in Nat /\ s2 < p
    BY <1>7, <1>15
  <2>1. CASE p <= size + m
    <3>1. p \in (size + 1)..(size + m) /\ w[p] = u[p - size] /\ p - size \in 1..Len(u)
      BY <1>3, <1>4, <1>7, <1>15, <2>0, <2>1
    <3>2. PICK i \in 1..n : p - size = e[i - 1] + 1 /\ w[p] = Header(rows[i])
      BY <1>6, <1>29, <3>1
    <3>3. i - 1 \in 0..n /\ e[i - 1] \in Nat
      BY <1>1
    <3>4. e[c] <= e[i - 1] /\ e[i - 1] < m
      <4> DEFINE a == e[i - 1]
                 z == e[c]
      <4>1. s2 = size + z /\ p - size = a + 1 /\ a \in Nat /\ z \in Nat
        BY <1>15, <3>2, <3>3 DEF s2
      <4> HIDE DEF a, z
      <4>2. z <= a /\ a < m
        BY <1>3, <1>4, <2>0, <2>1, <4>1
      <4> QED BY <4>2 DEF a, z
    <3>5. ~(c < i - 1)
      BY <1>4, <1>5, <3>3, <3>4
    <3>6. ~(i - 1 < c)
      BY <1>2, <1>5, <1>15, <3>3, <3>4
    <3>7. c = i - 1 /\ c \in Nat
      BY <1>1, <1>5, <3>3, <3>5, <3>6
    <3>8. p = s2 + 1
      BY <1>3, <1>15, <2>0, <3>2, <3>7 DEF s2
    <3>9. ASSUME NEW k \in 1..Len(x) PROVE sh[k] < rows[i]
      <4>1. CASE k \in 1..K
        BY <1>18, <1>27, <4>1
      <4>2. ASSUME NEW l \in 1..c, k = K + l PROVE sh[k] < rows[i]
        <5>1. l \in 1..n /\ l < i
          BY <1>1, <1>5, <3>7
        <5> QED BY <1>19, <1>26, <4>2, <5>1
      <4> QED BY <1>23, <4>1, <4>2
    <3> QED BY <3>2, <3>8, <3>9 DEF Header
  <2>2. CASE size + m < p
    <3>1. p \in (size + 1)..Len(file) /\ w[p] = file[p]
      BY <1>3, <1>4, <1>7, <2>0, <2>2
    <3>2. p = size + 1 /\ \A i \in 1..K : OnDisk[i] < file[p].row
      BY <1>9, <1>29, <3>1
    <3>3. m = 0
      BY <1>3, <1>4, <2>2, <3>2
    <3>4. c = 0
      <4>1. ~(0 < c)
        <5>1. 0 < c => e[0] < e[c]
          BY <1>1, <1>2, <1>5
        <5> QED BY <1>1, <1>5, <1>15, <3>3, <5>1
      <4> QED BY <1>5, <4>1
    <3>5. s2 = size /\ Len(x) = K
      BY <1>1, <1>3, <1>14, <3>4 DEF s2
    <3> QED BY <1>18, <3>1, <3>2, <3>5
  <2> QED BY <1>3, <1>4, <2>0, <2>1, <2>2
<1>30. s2 \in 0..Len(w)
  BY <1>3, <1>4, <1>7, <1>15
<1>31. Indexed(w, x, s2)
  BY <1>14, <1>22, <1>24, <1>28, <1>29, <1>30 DEF Indexed, sh
<1>32. /\ Indexed(w, x, s2) /\ w \in Seq(FileUnit(top)) /\ Len(x) = K + c
       /\ \A i \in 1..K : sh[i] = OnDisk[i]
       /\ \A j \in 1..c : sh[K + j] = rows[j]
  BY <1>7, <1>14, <1>18, <1>19, <1>31
<1> QED BY Zenon, <1>32 DEF w, x, s2, e, K, sh

-----------------------------------------------------------------------------
(* The scan that rebuilds an index.                                          *)

LEMMA UnitFields ==
  ASSUME NEW top \in Nat, file \in Seq(FileUnit(top)), NEW p \in 1..Len(file)
  PROVE  file[p].n \in Nat \ {0} /\ file[p].row \in 0..top
<1>1. file[p] \in FileUnit(top)
  BY ElementOfSeq
<1>2. \A u \in FileUnit(top) : u.n \in Nat \ {0} /\ u.row \in 0..top
  BY DEF FileUnit
<1> QED BY <1>1, <1>2

LEMMA ReachedStep ==
  ASSUME NEW top \in Nat, file \in Seq(FileUnit(top))
  PROVE  /\ Reached \in [0..Len(file) -> Nat]
         /\ Reached[0] = 0
         /\ \A i \in 1..Len(file) :
              Reached[i] = IF Whole(Reached[i - 1])
                           THEN Reached[i - 1] + file[Reached[i - 1] + 1].n
                           ELSE Reached[i - 1]
<1> DEFINE N == Len(file)
           after(o) == IF Whole(o) THEN o + file[o + 1].n ELSE o
           g == [z \in (1..N) \X Nat |-> after(z[2])]
<1>1. N \in Nat
  BY LenProperties
<1>2. ASSUME NEW o \in Nat PROVE after(o) \in Nat
  <2>1. CASE Whole(o)
    <3>1. o + 1 \in 1..N
      BY <1>1, <2>1 DEF Whole
    <3>2. file[o + 1].n \in Nat
      BY <3>1, UnitFields
    <3> QED BY <2>1, <3>2
  <2> QED BY <2>1
<1> HIDE DEF N, after
<1>3. g \in [(1..N) \X Nat -> Nat]
  BY <1>2
<1>4. \A i \in 1..N, o \in Nat : g[<<i, o>>] = after(o)
  OBVIOUS
<1> HIDE DEF g
<1>5. PICK f \in [0..N -> Nat] : f[0] = 0 /\ \A i \in 1..N : f[i] = g[<<i, f[i - 1]>>]
  BY <1>1, <1>3, Recursion
<1> DEFINE next(r) == [i \in 0..N |-> IF i = 0 THEN 0 ELSE after(r[i - 1])]
           Is(r) == r = next(r)
<1>6. Is(f)
  <2>1. ASSUME NEW i \in 0..N PROVE f[i] = next(f)[i]
    <3>1. CASE i = 0
      BY <1>5, <3>1
    <3>2. CASE i # 0
      <4>1. i \in 1..N /\ f[i - 1] \in Nat
        BY <1>1, <3>2
      <4> QED BY <1>4, <1>5, <3>2, <4>1
    <3> QED BY <3>1, <3>2
  <2> QED BY <1>5, <2>1
<1>7. Reached = CHOOSE r : Is(r)
  BY DEF Reached, N, after
<1>8. Is(Reached)
  <2> HIDE DEF Is
  <2> QED BY <1>6, <1>7
<1> DEFINE e == Reached
<1> HIDE DEF e
<1>9. e[0] = 0 /\ \A i \in 1..N : e[i] = after(e[i - 1])
  BY <1>1, <1>8 DEF e
<1> DEFINE T == {i \in 0..N : e[i] \in Nat}
<1>10. 0..N \subseteq T
  <2>1. ASSUME NEW i \in 1..N, e[i - 1] \in Nat PROVE e[i] \in Nat
    BY <1>2, <1>9, <2>1
  <2>2. 0 \in T /\ \A i \in 1..N : i - 1 \in T => i \in T
    BY <1>1, <1>9, <2>1
  <2> HIDE DEF T
  <2> QED BY <1>1, <2>2, Climb
<1>11. e \in [0..N -> Nat]
  BY <1>8, <1>10 DEF e
<1>12. \A i \in 1..N : Reached[i] = after(Reached[i - 1])
  BY <1>9 DEF e
<1>13. Reached[0] = 0 /\ Reached \in [0..N -> Nat]
  BY <1>9, <1>11 DEF e
<1> HIDE DEF e
<1> QED BY Zenon, <1>12, <1>13 DEF N, after

\* The scan ends at the first place where no whole record begins.
LEMMA RoundsFacts ==
  ASSUME NEW top \in Nat, file \in Seq(FileUnit(top))
  PROVE  /\ Rounds \in 0..Len(file)
         /\ ~Whole(Reached[Rounds])
         /\ \A i \in 0..Len(file) : i < Rounds => Whole(Reached[i])
<1> DEFINE N == Len(file)
           R == Reached
           ends == {i \in 0..N : ~Whole(R[i])}
           far == {i \in 0..N : i <= R[i]}
<1>1. N \in Nat
  BY LenProperties
<1>2. /\ \A i \in 0..N : R[i] \in Nat
      /\ R[0] = 0
      /\ \A i \in 1..N : Whole(R[i - 1]) => R[i] = R[i - 1] + file[R[i - 1] + 1].n
  BY ReachedStep
<1>3. ASSUME NEW o \in Nat, Whole(o) PROVE o < N /\ file[o + 1].n \in Nat \ {0}
  <2>1. o + 1 \in 1..N /\ o < N
    BY <1>1, <1>3 DEF Whole
  <2> QED BY <2>1, UnitFields
<1> HIDE DEF N, R
<1>4. ASSUME ends = {} PROVE FALSE
  <2>1. ASSUME NEW i \in 1..N, i - 1 \in far PROVE i \in far
    <3>1. i - 1 \in 0..N /\ R[i - 1] \in Nat /\ i - 1 <= R[i - 1]
      BY <1>1, <1>2, <2>1
    <3>2. Whole(R[i - 1])
      BY <1>4, <3>1
    <3>3. R[i] = R[i - 1] + file[R[i - 1] + 1].n /\ file[R[i - 1] + 1].n \in Nat \ {0}
      BY <1>2, <1>3, <3>1, <3>2
    <3> QED BY <1>1, <3>1, <3>3
  <2>2. 0 \in far
    BY <1>1, <1>2
  <2>3. 0..N \subseteq far
    <3> HIDE DEF far, ends
    <3> QED BY <1>1, <2>1, <2>2, Climb
  <2>4. N \in 0..N /\ N <= R[N] /\ R[N] \in Nat
    BY <1>1, <1>2, <2>3
  <2>5. ~Whole(R[N])
    BY <1>1, <1>3, <2>4
  <2> QED BY <1>4, <2>4, <2>5
<1>5. Rounds = Min(ends)
  BY DEF Rounds, N, R
<1>6. Min(ends) \in ends /\ \A y \in ends : Min(ends) <= y
  <2>1. ends \subseteq Nat
    BY <1>1
  <2> HIDE DEF ends
  <2> QED BY <1>4, <2>1, MinFacts
<1>7. Rounds \in 0..N /\ ~Whole(R[Rounds])
  BY <1>5, <1>6
<1>8. ASSUME NEW i \in 0..N, i < Rounds PROVE Whole(R[i])
  <2>1. i \notin ends
    <3> HIDE DEF ends
    <3> QED BY <1>1, <1>5, <1>6, <1>7, <1>8
  <2> QED BY <2>1
<1> QED BY <1>7, <1>8 DEF N, R

\* An index that fits the file is found again; what the scan adds at its end
\* shows one row that comes after, or none.
Scanned == [i \in 1..Rounds |-> Reached[i - 1]]

LEMMA RebuildFacts ==
  ASSUME NEW top \in Nat, file \in Seq(FileUnit(top)),
         NEW idx, NEW sz, Indexed(file, idx, sz)
  PROVE  /\ Indexed(file, Scanned, Reached[Rounds])
         /\ Len(idx) <= Len(Scanned)
         /\ \A i \in 1..Len(idx) : Shows(file, Scanned)[i] = Shows(file, idx)[i]
<1> DEFINE N == Len(file)
           R == Reached
           K == Len(idx)
           M == Rounds
           new == Scanned
           old == Shows(file, idx)
           now == Shows(file, new)
<1>1. N \in Nat /\ K \in Nat /\ idx \in Seq(Nat) /\ sz \in Nat /\ sz <= N
  BY LenProperties DEF Indexed
<1>2. /\ \A i \in 0..N : R[i] \in Nat
      /\ R[0] = 0
      /\ \A i \in 1..N : Whole(R[i - 1]) => R[i] = R[i - 1] + file[R[i - 1] + 1].n
  BY ReachedStep
<1>3. M \in 0..N /\ ~Whole(R[M]) /\ \A i \in 0..N : i < M => Whole(R[i])
  BY RoundsFacts
<1>4. \A p \in 1..N : file[p].n \in Nat \ {0} /\ file[p].row \in 0..top
  BY UnitFields
<1>5. /\ \A i \in 1..K : idx[i] \in Nat /\ idx[i] < sz
      /\ \A i \in 1..K : EndAt(idx, sz, i) = idx[i] + file[idx[i] + 1].n
      /\ EndAt(idx, sz, 0) = 0
  BY <1>1 DEF Indexed
<1>6. /\ \A i, j \in 1..K : i < j /\ old[i] # 0 /\ old[j] # 0 => old[i] < old[j]
      /\ \A p \in (sz + 1)..N : file[p].row # 0 =>
           p = sz + 1 /\ \A i \in 1..K : old[i] < file[p].row
  BY Zenon DEF Indexed
<1>7. \A i \in 1..K : old[i] = file[idx[i] + 1].row
  BY <1>1 DEF Shows
<1> HIDE DEF N, R, K, M, new, old, now
<1>8. ASSUME NEW i \in 1..K
      PROVE  /\ EndAt(idx, sz, i - 1) = idx[i]
             /\ EndAt(idx, sz, i) <= sz /\ EndAt(idx, sz, i) \in Nat
  <2>1. i - 1 < K /\ (i - 1) + 1 = i
    BY <1>1
  <2>2. EndAt(idx, sz, i - 1) = idx[i]
    BY <2>1 DEF EndAt, K
  <2>3. CASE i < K
    <3>1. EndAt(idx, sz, i) = idx[i + 1] /\ i + 1 \in 1..K
      BY <1>1, <2>3 DEF EndAt, K
    <3> QED BY <1>1, <1>5, <2>2, <3>1
  <2>4. CASE ~(i < K)
    BY <1>1, <2>2, <2>4 DEF EndAt, K
  <2> QED BY <2>3, <2>4
<1> DEFINE T == {i \in 0..K : i <= N /\ i <= R[i] /\ R[i] = EndAt(idx, sz, i)}
<1>9. ASSUME NEW i \in 1..K, i - 1 \in T PROVE i \in T /\ Whole(R[i - 1])
  <2>1. /\ i - 1 \in 0..N /\ R[i - 1] = idx[i] /\ i - 1 <= idx[i]
        /\ idx[i] \in Nat /\ idx[i] < sz
    BY <1>1, <1>5, <1>8, <1>9
  <2> DEFINE l == file[idx[i] + 1].n
  <2>2. idx[i] + 1 \in 1..N
    BY <1>1, <2>1
  <2>3. l \in Nat \ {0} /\ EndAt(idx, sz, i) = idx[i] + l
    BY <1>4, <1>5, <2>2
  <2> HIDE DEF l
  <2>4. idx[i] < N /\ idx[i] + l <= N
    BY <1>1, <1>8, <2>1, <2>3
  <2>5. Whole(R[i - 1])
    BY <2>1, <2>4 DEF Whole, l, N
  <2>6. i \in 1..N
    BY <1>1, <2>1, <2>4
  <2>7. R[i] = idx[i] + l
    BY <1>2, <2>1, <2>5, <2>6 DEF l
  <2>8. i <= R[i]
    BY <2>1, <2>3, <2>7
  <2> QED BY <2>3, <2>5, <2>6, <2>7, <2>8
<1>10. 0 \in T
  BY <1>1, <1>2, <1>5
<1>11. 0..K \subseteq T
  <2> HIDE DEF T
  <2> QED BY <1>1, <1>9, <1>10, Climb
<1>12. \A i \in 0..K : i <= N /\ R[i] = EndAt(idx, sz, i)
  BY <1>11
<1>13. \A i \in 1..K : R[i - 1] = idx[i] /\ Whole(R[i - 1])
  <2> SUFFICES ASSUME NEW i \in 1..K PROVE R[i - 1] = idx[i] /\ Whole(R[i - 1])
    OBVIOUS
  <2>1. i - 1 \in 0..K
    BY <1>1
  <2>2. i - 1 \in T
    BY <1>11, <2>1
  <2> QED BY <1>8, <1>9, <1>12, <2>1, <2>2
<1>14. R[K] = sz
  <2>1. K \in 0..K /\ ~(K < K)
    BY <1>1
  <2> QED BY <1>12, <2>1 DEF EndAt, K
<1> HIDE DEF T
<1>15. K <= M
  <2>1. ASSUME M < K PROVE FALSE
    <3>1. M + 1 \in 1..K /\ (M + 1) - 1 = M
      BY <1>1, <1>3, <2>1
    <3> QED BY <1>3, <1>13, <3>1
  <2> QED BY <1>1, <1>3, <2>1
<1>16. ASSUME NEW i \in 1..M
       PROVE  /\ i - 1 \in 0..N /\ R[i - 1] \in Nat /\ R[i - 1] < N /\ R[i] \in Nat
              /\ R[i] = R[i - 1] + file[R[i - 1] + 1].n
              /\ file[R[i - 1] + 1].n \in Nat \ {0}
  <2>1. i - 1 \in 0..N /\ i - 1 < M /\ i \in 1..N
    BY <1>1, <1>3
  <2>2. Whole(R[i - 1]) /\ R[i - 1] \in Nat /\ R[i] \in Nat
    BY <1>2, <1>3, <2>1
  <2>3. R[i - 1] < N
    BY <2>2 DEF Whole, N
  <2>4. R[i - 1] + 1 \in 1..N
    BY <1>1, <2>2, <2>3
  <2> QED BY <1>2, <1>4, <2>1, <2>2, <2>3, <2>4
<1>17. \A i, j \in 0..M : i < j => R[i] < R[j]
  <2>1. \A i \in 0..M : R[i] \in Nat
    BY <1>1, <1>2, <1>3
  <2>2. \A i \in 1..M : R[i - 1] < R[i]
    BY <1>16
  <2>3. M \in Nat
    BY <1>3
  <2> QED BY <2>1, <2>2, <2>3, Growing
<1>18. new \in Seq(Nat) /\ Len(new) = M /\ \A i \in 1..M : new[i] = R[i - 1]
  <2>1. new = [i \in 1..M |-> R[i - 1]]
    BY DEF M, R, new, Scanned
  <2>2. ASSUME NEW i \in 1..M PROVE R[i - 1] \in Nat
    BY <1>16
  <2>3. M \in Nat
    BY <1>3
  <2> QED BY <2>1, <2>2, <2>3
<1>19. \A i \in 1..M : now[i] = file[R[i - 1] + 1].row
  <2>1. DOMAIN new = 1..M
    BY <1>3, <1>18
  <2>2. ASSUME NEW i \in 1..M PROVE now[i] = file[new[i] + 1].row
    BY <2>1 DEF Shows, now
  <2> QED BY <1>18, <2>2
<1>20. ASSUME NEW i \in 0..M PROVE EndAt(new, R[M], i) = R[i]
  <2>1. CASE i < M
    <3>1. i + 1 \in 1..M /\ (i + 1) - 1 = i
      BY <1>3, <2>1
    <3> QED BY <1>18, <2>1, <3>1 DEF EndAt
  <2>2. CASE i = M
    <3>1. ~(M < M)
      BY <1>3
    <3> QED BY <1>18, <2>2, <3>1 DEF EndAt
  <2> QED BY <1>3, <2>1, <2>2
<1>21. \A i \in 1..K : now[i] = old[i]
  <2> SUFFICES ASSUME NEW i \in 1..K PROVE now[i] = old[i]
    OBVIOUS
  <2>1. i \in 1..M
    BY <1>1, <1>3, <1>15
  <2> QED BY <1>7, <1>13, <1>19, <2>1
<1>22. ASSUME NEW j \in 1..M, K < j, now[j] # 0
       PROVE  j = K + 1 /\ \A i \in 1..K : old[i] < now[j]
  <2>1. j - 1 \in 0..M /\ K \in 0..M
    BY <1>1, <1>3, <1>15
  <2>2. K < j - 1 \/ j = K + 1
    BY <1>1, <1>3, <1>22
  <2>3. sz <= R[j - 1] /\ (K < j - 1 => sz < R[j - 1]) /\ R[j - 1] \in Nat
    BY <1>1, <1>14, <1>16, <1>17, <2>1, <2>2
  <2>4. R[j - 1] + 1 \in (sz + 1)..N
    <3>1. R[j - 1] < N
      BY <1>16
    <3> QED BY <1>1, <2>3, <3>1
  <2>5. R[j - 1] + 1 = sz + 1 /\ \A i \in 1..K : old[i] < file[R[j - 1] + 1].row
    BY <1>6, <1>19, <1>22, <2>4
  <2>6. j = K + 1
    BY <1>1, <2>2, <2>3, <2>5
  <2> QED BY <1>19, <2>5, <2>6
<1>23. ASSUME NEW i \in 1..M, NEW j \in 1..M, i < j, now[i] # 0, now[j] # 0
       PROVE  now[i] < now[j]
  <2>1. CASE j <= K
    <3>1. i \in 1..K /\ j \in 1..K
      BY <1>1, <1>3, <1>23, <2>1
    <3> QED BY <1>6, <1>21, <1>23, <3>1
  <2>2. CASE K < j
    <3>1. j = K + 1 /\ \A k \in 1..K : old[k] < now[j]
      BY <1>22, <1>23, <2>2
    <3>2. i \in 1..K
      BY <1>1, <1>3, <1>23, <3>1
    <3> QED BY <1>21, <3>1, <3>2
  <2> QED BY <1>1, <1>3, <2>1, <2>2
<1>24. ASSUME NEW p \in (R[M] + 1)..N, file[p].row # 0
       PROVE  p = R[M] + 1 /\ \A i \in 1..M : now[i] < file[p].row
  <2>1. R[M] \in Nat /\ M \in 0..M /\ K \in 0..M
    BY <1>1, <1>2, <1>3, <1>15
  <2>2. sz <= R[M] /\ (K < M => sz < R[M])
    BY <1>1, <1>14, <1>15, <1>17, <2>1
  <2>3. p \in (sz + 1)..N
    BY <1>1, <2>1, <2>2
  <2>4. p = sz + 1 /\ \A i \in 1..K : old[i] < file[p].row
    BY <1>6, <1>24, <2>3
  <2>5. ~(sz < R[M])
    BY <1>1, <2>1, <2>4
  <2>6. K = M /\ R[M] = sz
    BY <1>1, <1>15, <2>1, <2>2, <2>5
  <2> QED BY <1>21, <2>4, <2>6
<1>25. /\ R[M] \in 0..N
       /\ \A i \in 1..M : new[i] < R[M]
       /\ \A i \in 1..M : EndAt(new, R[M], i) = new[i] + file[new[i] + 1].n
  <2>1. R[M] \in Nat /\ M \in 0..M
    BY <1>2, <1>3
  <2>2. R[M] <= N
    <3>1. CASE M = 0
      BY <1>1, <1>2, <3>1
    <3>2. CASE M # 0
      <4>1. M - 1 \in 0..N /\ M - 1 < M /\ M \in 1..N /\ M \in 1..M
        BY <1>1, <1>3, <3>2
      <4>2. Whole(R[M - 1])
        BY <1>3, <4>1
      <4>3. R[M - 1] + file[R[M - 1] + 1].n <= N
        BY <4>2 DEF Whole, N
      <4> QED BY <1>16, <4>1, <4>3
    <3> QED BY <3>1, <3>2
  <2>3. ASSUME NEW i \in 1..M PROVE new[i] < R[M] /\ EndAt(new, R[M], i) = new[i] + file[new[i] + 1].n
    <3>1. i - 1 \in 0..M /\ i - 1 < M /\ i \in 0..M
      BY <1>3
    <3>2. new[i] = R[i - 1] /\ R[i - 1] < R[M]
      BY <1>17, <1>18, <2>1, <3>1
    <3> QED BY <1>16, <1>20, <3>1, <3>2
  <2>4. R[M] \in 0..N
    BY <1>1, <2>1, <2>2
  <2> QED BY <2>3, <2>4
<1>26. EndAt(new, R[M], 0) = 0
  BY <1>2, <1>3, <1>20
<1>27. Indexed(file, new, R[M])
  BY <1>18, <1>23, <1>24, <1>25, <1>26 DEF Indexed, N, now
<1> QED BY <1>15, <1>18, <1>21, <1>27 DEF R, M, K, new, old, now

-----------------------------------------------------------------------------
(* The ring's rows are the last to have scrolled off, the first of them on   *)
(* disk.                                                                     *)

Consecutive(r, p) ==
  /\ r \in Seq(Lines) /\ Len(r) <= p
  /\ \A i \in 1..Len(r) : r[i] = p - Len(r) + i
Behind(r, m) == Len(r) - Least(m, Len(r))   \* rows of the ring not yet on disk
Rest(r, m) == SubSeq(r, Least(m, Len(r)) + 1, Len(r))

LEMMA RestFacts ==
  ASSUME NEW p \in 0..MaxRows, NEW r, Consecutive(r, p), NEW m \in Nat
  PROVE  /\ Behind(r, m) \in 0..Len(r) /\ Len(r) \in 0..p
         /\ Rest(r, m) \in Seq(Lines) /\ Len(Rest(r, m)) = Behind(r, m)
         /\ \A j \in 1..Behind(r, m) : Rest(r, m)[j] = p - Behind(r, m) + j
<1> DEFINE L == Len(r)
           l == Least(m, L)
           b == Behind(r, m)
<1>1. /\ r \in Seq(Lines) /\ L \in Nat /\ L <= p /\ p \in Nat
      /\ \A i \in 1..L : r[i] = p - L + i
  BY Constants, LenProperties DEF Consecutive
<1>2. l \in 0..L /\ b = L - l
  BY <1>1 DEF Least, Behind
<1>3. \A i \in (l + 1)..L : r[i] \in Lines
  BY <1>1, <1>2, ElementOfSeq
<1>4. Rest(r, m) = SubSeq(r, l + 1, L)
  BY DEF Rest
<1> HIDE DEF L, l, b
<1>5. l + 1 \in Int /\ L \in Int
  BY <1>1, <1>2
<1> DEFINE s == SubSeq(r, l + 1, L)
<1>6. /\ s \in Seq(Lines)
      /\ Len(s) = IF l + 1 <= L THEN L - (l + 1) + 1 ELSE 0
      /\ \A j \in 1..(L - (l + 1) + 1) : s[j] = r[(l + 1) + j - 1]
  BY <1>3, <1>5, SubSeqProperties
<1> HIDE DEF s
<1>7. Len(s) = b
  BY <1>1, <1>2, <1>6
<1>8. ASSUME NEW j \in 1..b PROVE s[j] = p - b + j
  <2>1. j \in 1..(L - (l + 1) + 1) /\ (l + 1) + j - 1 = l + j /\ l + j \in 1..L
    BY <1>1, <1>2
  <2>2. s[j] = r[l + j] /\ r[l + j] = p - L + (l + j)
    BY <1>1, <1>6, <2>1
  <2> QED BY <1>1, <1>2, <2>2
<1>9. b \in 0..L /\ L \in 0..p
  BY <1>1, <1>2
<1> QED BY <1>4, <1>6, <1>7, <1>8, <1>9 DEF s, b, L

\* The rows of the ring that no line shows are at least those not yet on disk.
Unshown(r, shown) == {i \in DOMAIN r : r[i] \notin ToSet(shown)}

LEMMA UnshownFinite ==
  ASSUME NEW r \in Seq(Lines), NEW shown
  PROVE  Cardinality(Unshown(r, shown)) \in Nat /\ IsFiniteSet(Unshown(r, shown))
<1>1. DOMAIN r = 1..Len(r) /\ Len(r) \in Nat
  BY LenProperties
<1>2. IsFiniteSet(1..Len(r))
  BY <1>1, FS_Interval
<1>3. Unshown(r, shown) \in SUBSET (1..Len(r))
  BY <1>1 DEF Unshown
<1>4. IsFiniteSet(Unshown(r, shown))
  BY <1>2, <1>3, FS_Subset
<1> QED BY <1>4, FS_CardinalityType

LEMMA UnshownFacts ==
  ASSUME NEW p \in 0..MaxRows, NEW r, Consecutive(r, p), NEW m \in Nat,
         NEW shown, NEW K \in Nat, DOMAIN shown = 1..K,
         \A i \in 1..K : shown[i] \in Int /\ shown[i] <= p - Behind(r, m)
  PROVE  Behind(r, m) <= Cardinality(Unshown(r, shown))
<1> DEFINE L == Len(r)
           b == Behind(r, m)
           tail == (L - b + 1)..L
<1>1. b \in 0..L /\ L \in 0..p /\ r \in Seq(Lines)
  BY RestFacts DEF Consecutive
<1>2. p \in Nat /\ L \in Nat /\ b \in Nat /\ DOMAIN r = 1..L
  BY <1>1, Constants
<1>3. \A i \in 1..L : r[i] = p - L + i
  BY DEF Consecutive
<1>4. ToSet(shown) = {shown[i] : i \in 1..K}
  BY DEF ToSet
<1> HIDE DEF L, b
<1>5. ASSUME NEW i \in tail PROVE i \in Unshown(r, shown)
  <2>1. i \in 1..L /\ r[i] = p - L + i /\ p - b < p - L + i
    BY <1>1, <1>2, <1>3
  <2>2. \A k \in 1..K : shown[k] # r[i]
    <3> TAKE k \in 1..K
    <3>1. shown[k] \in Int /\ shown[k] <= p - b
      BY DEF b
    <3> QED BY <1>2, <2>1, <3>1
  <2>3. r[i] \notin ToSet(shown)
    BY <1>4, <2>2
  <2> QED BY <1>2, <2>1, <2>3 DEF Unshown
<1>6. tail \in SUBSET Unshown(r, shown)
  BY <1>5
<1>7. Cardinality(tail) = b
  <2>1. L - b + 1 \in Int /\ L \in Int
    BY <1>2
  <2>2. Cardinality(tail) = IF L - b + 1 > L THEN 0 ELSE L - (L - b + 1) + 1
    BY <2>1, FS_Interval
  <2> HIDE DEF tail
  <2> QED BY <1>1, <1>2, <2>2
<1>8. Cardinality(tail) <= Cardinality(Unshown(r, shown))
  <2> HIDE DEF tail
  <2> QED BY <1>1, <1>6, UnshownFinite, FS_Subset
<1> QED BY <1>7, <1>8 DEF b

-----------------------------------------------------------------------------
Askers == {Away} \cup
  [at : {"paired"}, onDisk : Nat, copied : Nat, most : Nat, erased : BOOLEAN]
Stages == {"idle", "written", "mirrored", "trimmed", "cleared", "flushing", "flushed", "dead"}

HistoryTypes ==
  /\ pushed \in 0..MaxRows /\ mirrored \in Nat /\ stage \in Stages
  /\ file \in Seq(FileUnit(pushed))
  /\ Consecutive(ring, pushed)
  /\ stage \in {"idle", "mirrored", "flushing", "flushed"} => mirrored <= Len(ring)
  /\ stage = "trimmed" => Len(ring) <= mirrored
  /\ stage = "dead" => /\ ring = <<>> /\ index = <<>>
                       /\ mirrored = 0 /\ size = 0 /\ asker = Away

\* A running daemon's index fits the file, and shows no row that is still to be
\* mirrored.  After a crash some index does that shows what was on disk.
DiskInv ==
  /\ stage # "dead" =>
       /\ Indexed(file, index, size)
       /\ \A i \in 1..Len(index) : Shows(file, index)[i] <= pushed - Behind(ring, mirrored)
  /\ stage = "dead" =>
       \E idx, sz : Indexed(file, idx, sz) /\ expected \subseteq ToSet(Shows(file, idx))

\* What an asker that nothing erased under would return is covered by the lines
\* and the rows still to be mirrored, and the most it has seen by the history.
Seen == asker.onDisk + Len(ring) - Least(asker.copied, Len(ring))
LengthInv ==
  /\ misread = FALSE /\ asker \in Askers
  /\ asker # Away => /\ Length <= asker.most
                     /\ ~asker.erased => Seen <= Len(index) + Behind(ring, mirrored)

HistoryInv == HistoryTypes /\ DiskInv /\ LengthInv

LEMMA Names == /\ OnDisk = Shows(file, index) /\ Unmirrored = Rest(ring, mirrored)
               /\ Length = Len(index) + Cardinality(Unshown(ring, OnDisk))
BY DEF OnDisk, Shows, Unmirrored, Rest, Length, Unshown

LEMMA AskerFields ==
  ASSUME NEW a \in Askers, a # Away
  PROVE  /\ a.onDisk \in Nat /\ a.copied \in Nat /\ a.most \in Nat /\ a.erased \in BOOLEAN
         /\ a \in [at : {"paired"}, onDisk : Nat, copied : Nat, most : Nat, erased : BOOLEAN]
<1>1. a \in [at : {"paired"}, onDisk : Nat, copied : Nat, most : Nat, erased : BOOLEAN]
  BY DEF Askers
<1> QED BY <1>1

LEMMA PairedIsNotAway ==
  ASSUME NEW a \in [at : {"paired"}, onDisk : Nat, copied : Nat, most : Nat, erased : BOOLEAN]
  PROVE  a # Away
<1>1. a.at = "paired" /\ Away.at = "away"
  BY DEF Away
<1> QED BY <1>1

\* What Watch does of an asker.
LEMMA Watching ==
  ASSUME NEW erases \in BOOLEAN, Watch(erases), asker \in Askers, Length' \in Nat
  PROVE  /\ asker' \in Askers
         /\ asker' # Away =>
              /\ asker # Away
              /\ asker'.onDisk = asker.onDisk /\ asker'.copied = asker.copied
              /\ Length' <= asker'.most
              /\ ~asker'.erased => ~asker.erased /\ ~erases
<1>1. CASE asker = Away
  BY <1>1 DEF Watch, Askers
<1>2. CASE asker # Away
  <2> DEFINE top == IF Length' > asker.most THEN Length' ELSE asker.most
             gone == asker.erased \/ erases
  <2>1. /\ asker.onDisk \in Nat /\ asker.copied \in Nat /\ asker.most \in Nat
        /\ asker.erased \in BOOLEAN
        /\ asker \in [at : {"paired"}, onDisk : Nat, copied : Nat, most : Nat, erased : BOOLEAN]
    BY <1>2, AskerFields
  <2>2. top \in Nat /\ Length' <= top /\ gone \in BOOLEAN
    BY <2>1
  <2>3. asker' = [asker EXCEPT !.most = top, !.erased = gone]
    BY <1>2 DEF Watch
  <2> HIDE DEF top, gone
  <2>4. /\ asker' \in [at : {"paired"}, onDisk : Nat, copied : Nat, most : Nat, erased : BOOLEAN]
        /\ asker'.onDisk = asker.onDisk /\ asker'.copied = asker.copied
        /\ asker'.most = top /\ asker'.erased = gone
    BY <2>1, <2>2, <2>3
  <2>5. ~asker'.erased => ~asker.erased /\ ~erases
    BY Zenon, <2>4 DEF gone
  <2> QED BY <1>2, <2>2, <2>4, <2>5 DEF Askers
<1> QED BY <1>1, <1>2

-----------------------------------------------------------------------------
LEMMA ShownRows ==
  ASSUME NEW top \in Nat, NEW f \in Seq(FileUnit(top)), NEW idx, NEW sz, Indexed(f, idx, sz)
  PROVE  /\ idx \in Seq(Nat) /\ Len(idx) \in Nat /\ DOMAIN idx = 1..Len(idx)
         /\ DOMAIN Shows(f, idx) = 1..Len(idx)
         /\ \A i \in 1..Len(idx) : Shows(f, idx)[i] \in 0..top
<1>1. /\ idx \in Seq(Nat) /\ Len(idx) \in Nat /\ DOMAIN idx = 1..Len(idx)
      /\ sz \in 0..Len(f) /\ Len(f) \in Nat
  BY LenProperties DEF Indexed
<1>2. ASSUME NEW i \in 1..Len(idx) PROVE Shows(f, idx)[i] \in 0..top
  <2>1. idx[i] < sz /\ idx[i] \in Nat
    BY <1>1, ElementOfSeq DEF Indexed
  <2>2. idx[i] + 1 \in 1..Len(f)
    BY <1>1, <2>1
  <2>3. f[idx[i] + 1] \in FileUnit(top)
    BY <2>2, ElementOfSeq
  <2>4. \A u \in FileUnit(top) : u.row \in 0..top
    BY DEF FileUnit
  <2> QED BY <1>1, <2>3, <2>4 DEF Shows
<1>3. DOMAIN Shows(f, idx) = 1..Len(idx)
  BY <1>1 DEF Shows
<1> QED BY <1>1, <1>2, <1>3

LEMMA RowFacts ==
  ASSUME HistoryTypes
  PROVE  /\ pushed \in Nat /\ pushed <= MaxRows /\ mirrored \in Nat
         /\ ring \in Seq(Lines) /\ Len(ring) \in Nat /\ Len(ring) <= pushed
         /\ Behind(ring, mirrored) \in 0..Len(ring)
         /\ file \in Seq(FileUnit(pushed))
<1>1. pushed \in 0..MaxRows /\ mirrored \in Nat /\ Consecutive(ring, pushed)
  BY DEF HistoryTypes
<1>2. Behind(ring, mirrored) \in 0..Len(ring) /\ Len(ring) \in 0..pushed
  BY <1>1, RestFacts
<1> QED BY <1>1, <1>2, Constants DEF HistoryTypes, Consecutive

\* A file of rows up to top is one of rows up to more.
LEMMA FileGrows ==
  ASSUME NEW top \in Nat, NEW more \in Nat, top <= more, NEW f \in Seq(FileUnit(top))
  PROVE  f \in Seq(FileUnit(more))
<1>1. FileUnit(top) \subseteq FileUnit(more)
  <2>1. 0..top \subseteq 0..more
    OBVIOUS
  <2> QED BY <2>1 DEF FileUnit
<1>2. f \in [1..Len(f) -> FileUnit(top)] /\ Len(f) \in Nat
  BY LenProperties
<1>3. f \in [1..Len(f) -> FileUnit(more)]
  BY <1>1, <1>2
<1> QED BY <1>2, <1>3

LEMMA NewRowsFacts ==
  ASSUME NEW from \in Nat, NEW n \in Nat, from + n <= MaxRows
  PROVE  /\ Consecutive(NewRows(from, n), from + n) /\ Len(NewRows(from, n)) = n
         /\ \A i \in 1..n : NewRows(from, n)[i] = from + i
<1> DEFINE r == NewRows(from, n)
<1>1. r = [i \in 1..n |-> from + i]
  BY DEF NewRows
<1>2. \A i \in 1..n : from + i \in Lines
  BY Constants DEF Lines
<1> HIDE DEF r
<1>3. r \in [1..n -> Lines]
  BY <1>1, <1>2
<1>4. r \in Seq(Lines) /\ Len(r) = n
  BY <1>3
<1>5. \A i \in 1..n : r[i] = from + i
  BY <1>1
<1>6. \A i \in 1..Len(r) : r[i] = (from + n) - Len(r) + i
  BY <1>4, <1>5
<1> QED BY <1>4, <1>5, <1>6 DEF r, Consecutive

LEMMA RingGrows ==
  ASSUME NEW p \in Nat, NEW n \in Nat, p + n <= MaxRows, NEW r, Consecutive(r, p)
  PROVE  /\ Consecutive(r \o NewRows(p, n), p + n)
         /\ Len(r \o NewRows(p, n)) = Len(r) + n
<1> DEFINE k == NewRows(p, n)
           s == r \o k
           L == Len(r)
<1>1. /\ k \in Seq(Lines) /\ Len(k) = n /\ \A i \in 1..n : k[i] = p + i
  BY NewRowsFacts DEF Consecutive
<1>2. r \in Seq(Lines) /\ L \in Nat /\ L <= p /\ \A i \in 1..L : r[i] = p - L + i
  BY LenProperties DEF Consecutive
<1> HIDE DEF k
<1>3. /\ s \in Seq(Lines) /\ Len(s) = L + Len(k)
      /\ \A i \in 1..(L + Len(k)) : s[i] = IF i <= L THEN r[i] ELSE k[i - L]
  BY <1>1, <1>2, ConcatProperties
<1> HIDE DEF s, L
<1>4. ASSUME NEW i \in 1..Len(s) PROVE s[i] = (p + n) - Len(s) + i
  <2>1. CASE i <= L
    <3>1. i \in 1..L
      BY <1>1, <1>2, <1>3, <2>1
    <3> QED BY <1>1, <1>2, <1>3, <2>1, <3>1
  <2>2. CASE ~(i <= L)
    <3>1. i - L \in 1..n
      BY <1>1, <1>2, <1>3, <2>2
    <3>2. k[i - L] = p + (i - L)
      BY <1>1, <3>1
    <3> QED BY <1>1, <1>2, <1>3, <2>2, <3>2
  <2> QED BY <2>1, <2>2
<1> QED BY <1>1, <1>2, <1>3, <1>4 DEF Consecutive, s, k, L

\* A step that leaves the file alone, and takes no row back.
LEMMA DiskKept ==
  ASSUME HistoryInv, stage # "dead", stage' # "dead", UNCHANGED disk, HistoryTypes',
         pushed - Behind(ring, mirrored) <= pushed' - Behind(ring', mirrored')
  PROVE  DiskInv'
<1> DEFINE low == pushed - Behind(ring, mirrored)
           high == pushed' - Behind(ring', mirrored')
<1>1. /\ Indexed(file, index, size)
      /\ \A i \in 1..Len(index) : Shows(file, index)[i] <= low
  BY DEF HistoryInv, DiskInv
<1>2. low \in Int
  <2>1. pushed \in Nat /\ Behind(ring, mirrored) \in Int
    BY RowFacts DEF HistoryInv
  <2> QED BY <2>1
<1>3. high \in Int
  <2>1. pushed' \in 0..MaxRows /\ mirrored' \in Nat /\ Consecutive(ring', pushed')
    BY DEF HistoryTypes
  <2>2. Behind(ring', mirrored') \in 0..Len(ring') /\ Len(ring') \in 0..pushed'
    BY <2>1, RestFacts
  <2> QED BY <2>1, <2>2
<1>4. file' = file /\ index' = index /\ size' = size
  BY DEF disk
<1>5. \A i \in 1..Len(index) : Shows(file, index)[i] \in Int
  <2>1. file \in Seq(FileUnit(pushed)) /\ pushed \in Nat
    BY RowFacts DEF HistoryInv
  <2> QED BY <1>1, <2>1, ShownRows
<1>6. \A i \in 1..Len(index) : Shows(file, index)[i] <= high
  <2> HIDE DEF low, high
  <2>1. low <= high
    BY DEF low, high
  <2> QED BY <1>1, <1>2, <1>3, <1>5, <2>1
<1> QED BY <1>1, <1>4, <1>6 DEF DiskInv

Cover(onDisk, copied, r) == onDisk + Len(r) - Least(copied, Len(r))

LEMMA CoverShrinks ==
  ASSUME NEW d \in Nat, NEW m \in Nat, NEW L \in Nat
  PROVE  /\ d + L - Least(m, L) \in Int
         /\ \A K \in Nat : K <= L => d + K - Least(m, K) <= d + L - Least(m, L)
BY DEF Least

LEMMA CoverGrows ==
  ASSUME NEW d \in Nat, NEW m \in Nat, NEW L \in Nat, NEW b \in Nat
  PROVE  /\ d + L - Least(m, L) \in Int
         /\ d + (L + b) - Least(m, L + b) <= d + L - Least(m, L) + b
BY DEF Least

\* A step under which what an asker would return stays covered.
LEMMA LengthKept ==
  ASSUME HistoryInv, HistoryTypes', NEW erases \in BOOLEAN, Watch(erases), misread' = misread,
         index' \in Seq(Nat),
         ~erases => \A d, m \in Nat :
           Cover(d, m, ring) <= Len(index) + Behind(ring, mirrored) =>
             Cover(d, m, ring') <= Len(index') + Behind(ring', mirrored')
  PROVE  LengthInv'
<1>1. misread = FALSE /\ asker \in Askers
  BY DEF HistoryInv, LengthInv
<1>2. Length' \in Nat
  <2>1. ring' \in Seq(Lines)
    BY DEF HistoryTypes, Consecutive
  <2>2. Cardinality(Unshown(ring', OnDisk')) \in Nat
    BY <2>1, UnshownFinite
  <2>3. Len(index') \in Nat
    BY LenProperties
  <2>4. Length' = Len(index') + Cardinality(Unshown(ring', OnDisk'))
    BY DEF Length, Unshown
  <2> QED BY <2>2, <2>3, <2>4
<1>3. /\ asker' \in Askers
      /\ asker' # Away =>
           /\ asker # Away
           /\ asker'.onDisk = asker.onDisk /\ asker'.copied = asker.copied
           /\ Length' <= asker'.most
           /\ ~asker'.erased => ~asker.erased /\ ~erases
  BY <1>1, <1>2, Watching
<1>4. ASSUME asker' # Away, ~asker'.erased
      PROVE  Seen' <= Len(index') + Behind(ring', mirrored')
  <2>1. ~erases /\ ~asker.erased /\ asker # Away
    BY <1>3, <1>4
  <2>2. asker.onDisk \in Nat /\ asker.copied \in Nat
    BY <1>1, <2>1, AskerFields
  <2>3. Cover(asker.onDisk, asker.copied, ring) <= Len(index) + Behind(ring, mirrored)
    BY <2>1 DEF HistoryInv, LengthInv, Seen, Cover
  <2>4. Cover(asker.onDisk, asker.copied, ring') <= Len(index') + Behind(ring', mirrored')
    BY <2>1, <2>2, <2>3
  <2>5. Seen' = Cover(asker'.onDisk, asker'.copied, ring')
    BY DEF Seen, Cover
  <2>6. Seen' = Cover(asker.onDisk, asker.copied, ring')
    BY <1>3, <1>4, <2>5
  <2> QED BY <2>4, <2>6
<1> QED BY <1>1, <1>3, <1>4 DEF LengthInv

-----------------------------------------------------------------------------
(* The steps.                                                                *)

LEMMA HistoryStart == TInit => HistoryInv
<1> SUFFICES ASSUME TInit PROVE HistoryInv
  OBVIOUS
<1>1. /\ pushed = 0 /\ ring = <<>> /\ mirrored = 0 /\ file = <<>> /\ index = <<>> /\ size = 0
      /\ stage = "idle" /\ asker = Away /\ misread = FALSE
  BY DEF TInit
<1>2. HistoryTypes
  <2>1. pushed \in 0..MaxRows /\ mirrored \in Nat /\ stage \in Stages
    BY <1>1, Constants DEF Stages
  <2>2. file \in Seq(FileUnit(pushed)) /\ ring \in Seq(Lines) /\ Len(ring) = 0
    BY <1>1
  <2>3. Consecutive(ring, pushed)
    BY <1>1, <2>2 DEF Consecutive
  <2> QED BY <1>1, <2>1, <2>2, <2>3 DEF HistoryTypes
<1>3. DiskInv
  <2>1. index \in Seq(Nat) /\ Len(index) = 0 /\ Len(file) = 0 /\ size \in 0..Len(file)
    BY <1>1
  <2>2. EndAt(index, size, 0) = 0
    BY <1>1, <2>1 DEF EndAt
  <2>3. Indexed(file, index, size)
    BY <1>1, <2>1, <2>2 DEF Indexed
  <2> QED BY <1>1, <2>1, <2>3 DEF DiskInv
<1>4. LengthInv
  BY Zenon, <1>1 DEF LengthInv, Askers
<1> QED BY <1>2, <1>3, <1>4 DEF HistoryInv

LEMMA WriteKeeps ==
  ASSUME HistoryInv, NEW b \in 0..MaxRows, NEW a \in 0..MaxRows, NEW erase \in BOOLEAN,
         EmuWrite(b, erase, a)
  PROVE  HistoryInv'
<1>1. /\ stage = "idle" /\ stage' = "written" /\ pushed' = pushed + b + a
      /\ pushed + b + a <= MaxRows /\ (~erase => a = 0)
      /\ UNCHANGED <<mirrored, disk, misread>> /\ Watch(erase)
  BY DEF EmuWrite
<1>2. /\ erase => ring' = NewRows(pushed + b, a)
      /\ ~erase => ring' = ring \o NewRows(pushed, b)
  BY DEF EmuWrite
<1>3. /\ pushed \in Nat /\ pushed <= MaxRows /\ mirrored \in Nat
      /\ ring \in Seq(Lines) /\ Len(ring) \in Nat /\ Len(ring) <= pushed
      /\ Behind(ring, mirrored) \in 0..Len(ring)
      /\ file \in Seq(FileUnit(pushed))
  BY RowFacts DEF HistoryInv
<1>4. Consecutive(ring, pushed) /\ mirrored <= Len(ring) /\ a \in Nat /\ b \in Nat /\ MaxRows \in Nat
  BY <1>1, Constants DEF HistoryInv, HistoryTypes
<1>5. pushed' \in 0..MaxRows /\ pushed' \in Nat /\ pushed <= pushed'
  BY <1>1, <1>3, <1>4
<1>6. /\ Consecutive(ring', pushed')
      /\ ~erase => Len(ring') = Len(ring) + b
      /\ erase => Len(ring') = a
  <2>1. CASE erase
    <3>1. pushed + b \in Nat /\ (pushed + b) + a <= MaxRows /\ pushed' = (pushed + b) + a
      BY <1>1, <1>3, <1>4
    <3> QED BY <1>2, <1>4, <2>1, <3>1, NewRowsFacts
  <2>2. CASE ~erase
    <3>1. pushed + b <= MaxRows /\ pushed' = pushed + b
      BY <1>1, <1>3, <1>4, <2>2
    <3>2. Consecutive(ring \o NewRows(pushed, b), pushed + b)
      BY <1>3, <1>4, <3>1, RingGrows
    <3>3. Len(ring \o NewRows(pushed, b)) = Len(ring) + b
      BY <1>3, <1>4, <3>1, RingGrows
    <3> QED BY Zenon, <1>2, <2>2, <3>1, <3>2, <3>3
  <2> QED BY <2>1, <2>2
<1>7. HistoryTypes'
  <2>1. file' \in Seq(FileUnit(pushed'))
    <3>1. file \in Seq(FileUnit(pushed'))
      BY <1>3, <1>5, FileGrows
    <3> QED BY <1>1, <3>1 DEF disk
  <2> QED BY <1>1, <1>3, <1>5, <1>6, <2>1 DEF HistoryTypes, Stages
<1>8. mirrored' = mirrored /\ index' = index
  BY <1>1 DEF disk
<1>9. ~erase => Behind(ring', mirrored') = Behind(ring, mirrored) + b
  <2> SUFFICES ASSUME ~erase
               PROVE  Behind(ring', mirrored') = Behind(ring, mirrored) + b
    OBVIOUS
  <2>1. Len(ring') = Len(ring) + b
    BY <1>6
  <2> DEFINE L == Len(ring)
             K == Len(ring')
  <2>2. L \in Nat /\ K = L + b /\ mirrored <= L
    BY <1>3, <1>4, <2>1
  <2> HIDE DEF L, K
  <2>3. K - Least(mirrored, K) = L - Least(mirrored, L) + b
    BY <1>3, <1>4, <2>2 DEF Least
  <2> QED BY <1>8, <2>3 DEF Behind, L, K
<1>10. pushed - Behind(ring, mirrored) <= pushed' - Behind(ring', mirrored')
  <2>1. CASE erase
    <3>1. Behind(ring', mirrored') <= a /\ Behind(ring', mirrored') \in Int
      BY <1>3, <1>4, <1>6, <1>8, <2>1 DEF Behind, Least
    <3> QED BY <1>1, <1>3, <1>4, <3>1
  <2>2. CASE ~erase
    BY <1>1, <1>3, <1>4, <1>9, <2>2
  <2> QED BY <2>1, <2>2
<1>11. DiskInv'
  <2>1. stage # "dead" /\ stage' # "dead" /\ UNCHANGED disk
    BY <1>1
  <2> QED BY <1>7, <1>10, <2>1, DiskKept
<1>12. LengthInv'
  <2>1. index' \in Seq(Nat) /\ Len(index) \in Nat
    <3>1. index \in Seq(Nat)
      BY <1>1 DEF HistoryInv, DiskInv, Indexed
    <3> QED BY <1>8, <3>1, LenProperties
  <2>2. ASSUME ~erase, NEW d \in Nat, NEW m \in Nat,
               Cover(d, m, ring) <= Len(index) + Behind(ring, mirrored)
        PROVE  Cover(d, m, ring') <= Len(index') + Behind(ring', mirrored')
    <3>1. Cover(d, m, ring') <= Cover(d, m, ring) + b /\ Cover(d, m, ring) \in Int
      <4>1. Len(ring') = Len(ring) + b /\ Len(ring) \in Nat
        BY <1>3, <1>6, <2>2
      <4> QED BY <1>4, <4>1, CoverGrows DEF Cover
    <3>2. Cover(d, m, ring') \in Int
      <4>1. Len(ring') \in Nat
        BY <1>3, <1>4, <1>6, <2>2
      <4> QED BY <4>1, CoverShrinks DEF Cover
    <3> QED BY <1>3, <1>4, <1>8, <1>9, <2>1, <2>2, <3>1, <3>2
  <2> QED BY <1>1, <1>7, <2>1, <2>2, LengthKept
<1> QED BY <1>7, <1>11, <1>12 DEF HistoryInv

\* A step of the running daemon that only shortens the ring, or notes it.
LEMMA RingKeeps ==
  ASSUME HistoryInv, stage # "dead", stage' # "dead", UNCHANGED <<pushed, disk, misread>>,
         HistoryTypes', NEW erases \in BOOLEAN, Watch(erases),
         Len(ring') <= Len(ring), Behind(ring', mirrored') <= Behind(ring, mirrored),
         ~erases => Behind(ring', mirrored') = Behind(ring, mirrored)
  PROVE  HistoryInv'
<1>1. /\ pushed \in Nat /\ Len(ring) \in Nat /\ Behind(ring, mirrored) \in Int
  <2>1. Behind(ring, mirrored) \in 0..Len(ring) /\ pushed \in Nat /\ Len(ring) \in Nat
    BY RowFacts DEF HistoryInv
  <2> QED BY <2>1
<1>2. pushed' = pushed /\ index' = index /\ misread' = misread
  BY DEF disk
<1>3. Len(ring') \in Nat /\ Behind(ring', mirrored') \in Int
  <2>1. pushed' \in 0..MaxRows /\ mirrored' \in Nat /\ Consecutive(ring', pushed')
    BY DEF HistoryTypes
  <2>2. Behind(ring', mirrored') \in 0..Len(ring') /\ Len(ring') \in 0..pushed'
    BY <2>1, RestFacts
  <2> QED BY <2>1, <2>2
<1>4. DiskInv'
  <2>1. pushed - Behind(ring, mirrored) <= pushed' - Behind(ring', mirrored')
    BY <1>1, <1>2, <1>3
  <2> QED BY <2>1, DiskKept
<1>5. LengthInv'
  <2>1. index \in Seq(Nat)
    BY DEF HistoryInv, DiskInv, Indexed
  <2>2. index' \in Seq(Nat) /\ Len(index) \in Nat
    BY <1>2, <2>1, LenProperties
  <2>3. ASSUME ~erases, NEW d \in Nat, NEW m \in Nat,
               Cover(d, m, ring) <= Len(index) + Behind(ring, mirrored)
        PROVE  Cover(d, m, ring') <= Len(index') + Behind(ring', mirrored')
    <3>1. /\ Cover(d, m, ring') <= Cover(d, m, ring)
          /\ Cover(d, m, ring) \in Int /\ Cover(d, m, ring') \in Int
      BY <1>1, <1>3, CoverShrinks DEF Cover
    <3> QED BY <1>1, <1>2, <1>3, <2>2, <2>3, <3>1
  <2> QED BY <1>2, <2>2, <2>3, LengthKept
<1> QED BY <1>4, <1>5 DEF HistoryInv

LEMMA TrimKeeps == ASSUME HistoryInv, Trim PROVE HistoryInv'
<1>1. /\ stage = "mirrored" /\ UNCHANGED <<pushed, disk, misread>> /\ mirrored' = mirrored
      /\ Watch(FALSE)
  BY DEF Trim
<1>2. /\ pushed \in 0..MaxRows /\ mirrored \in Nat /\ mirrored <= Len(ring)
      /\ Consecutive(ring, pushed) /\ file \in Seq(FileUnit(pushed))
  BY <1>1 DEF HistoryInv, HistoryTypes
<1>3. ring \in Seq(Lines) /\ Len(ring) \in Nat /\ Len(ring) <= pushed /\ pushed \in Nat
  BY RowFacts DEF HistoryInv
<1>4. file' = file /\ pushed' = pushed
  BY <1>1 DEF disk
<1>5. CASE ~Trims
  <2>1. ring' = ring /\ stage' = "idle"
    BY <1>5 DEF Trim
  <2>2. HistoryTypes'
    BY <1>1, <1>2, <1>4, <2>1 DEF HistoryTypes, Stages
  <2>3. stage # "dead" /\ stage' # "dead" /\ Behind(ring, mirrored) \in Int
    <3>1. Behind(ring, mirrored) \in 0..Len(ring)
      BY RowFacts DEF HistoryInv
    <3> QED BY <1>1, <2>1, <3>1
  <2>4. Len(ring') <= Len(ring) /\ Behind(ring', mirrored') = Behind(ring, mirrored)
    BY <1>1, <1>3, <2>1
  <2>5. Behind(ring', mirrored') <= Behind(ring, mirrored)
    BY <2>3, <2>4
  <2> QED BY <1>1, <2>2, <2>3, <2>4, <2>5, RingKeeps
<1>6. CASE Trims
  <2> DEFINE L == Len(ring)
             k == LiveWindow
  <2>1. ring' = SubSeq(ring, L - k + 1, L) /\ stage' = "trimmed"
    BY <1>6 DEF Trim
  <2>2. L \in Nat /\ k \in Nat \ {0} /\ L > 2 * k /\ mirrored = L
    BY <1>3, <1>6, Constants DEF Trims
  <2>3. \A i \in 1..L : ring[i] = pushed - L + i
    BY <1>2 DEF Consecutive
  <2>4. \A i \in (L - k + 1)..L : ring[i] \in Lines
    <3> TAKE i \in (L - k + 1)..L
    <3>1. i \in 1..Len(ring)
      BY <2>2
    <3> QED BY <1>3, <3>1, ElementOfSeq
  <2> HIDE DEF L, k
  <2>5. L - k + 1 \in Int /\ L \in Int
    BY <2>2
  <2> DEFINE s == SubSeq(ring, L - k + 1, L)
  <2>6. /\ s \in Seq(Lines)
        /\ Len(s) = IF L - k + 1 <= L THEN L - (L - k + 1) + 1 ELSE 0
        /\ \A i \in 1..(L - (L - k + 1) + 1) : s[i] = ring[(L - k + 1) + i - 1]
    BY <2>4, <2>5, SubSeqProperties
  <2> HIDE DEF s
  <2>7. Len(s) = k
    BY <2>2, <2>6
  <2>8. ASSUME NEW i \in 1..Len(s) PROVE s[i] = pushed - Len(s) + i
    <3>1. /\ i \in 1..(L - (L - k + 1) + 1) /\ (L - k + 1) + i - 1 = L - k + i
          /\ L - k + i \in 1..L
      BY <2>2, <2>7
    <3>2. s[i] = ring[L - k + i] /\ ring[L - k + i] = pushed - L + (L - k + i)
      BY <2>3, <2>6, <3>1
    <3> QED BY <1>3, <2>2, <2>7, <3>2
  <2>9. ring' = s /\ Len(s) <= pushed /\ Len(s) <= L
    BY <1>3, <2>1, <2>2, <2>7 DEF s, L
  <2>10. Consecutive(ring', pushed')
    BY <1>4, <2>6, <2>8, <2>9 DEF Consecutive
  <2>11. HistoryTypes'
    BY <1>1, <1>2, <1>4, <2>1, <2>2, <2>9, <2>10 DEF HistoryTypes, Stages, L
  <2>12. Len(ring') <= Len(ring) /\ Behind(ring', mirrored') = 0 /\ Behind(ring, mirrored) = 0
    BY <1>1, <2>2, <2>7, <2>9 DEF L, Behind, Least
  <2>13. stage # "dead" /\ stage' # "dead" /\ Behind(ring', mirrored') <= Behind(ring, mirrored)
    BY <1>1, <2>1, <2>12
  <2> QED BY <1>1, <2>11, <2>12, <2>13, RingKeeps
<1> QED BY <1>5, <1>6

LEMMA NoteTrimKeeps == ASSUME HistoryInv, NoteTrim PROVE HistoryInv'
<1>1. /\ stage = "trimmed" /\ stage' = "idle" /\ ring' = ring /\ mirrored' = Len(ring)
      /\ UNCHANGED <<pushed, disk, misread>> /\ Watch(FALSE)
  BY DEF NoteTrim
<1>2. Len(ring) \in Nat /\ Len(ring) <= mirrored /\ mirrored \in Nat
  BY <1>1, RowFacts DEF HistoryInv, HistoryTypes
<1>3. HistoryTypes'
  BY <1>1, <1>2 DEF HistoryInv, HistoryTypes, Stages, disk
<1>4. Len(ring') <= Len(ring) /\ Behind(ring', mirrored') = 0 /\ Behind(ring, mirrored) = 0
  BY <1>1, <1>2 DEF Behind, Least
<1>5. stage # "dead" /\ stage' # "dead" /\ Behind(ring', mirrored') <= Behind(ring, mirrored)
  BY <1>1, <1>4
<1> QED BY <1>1, <1>3, <1>4, <1>5, RingKeeps

LEMMA StartFlushKeeps == ASSUME HistoryInv, StartFlush PROVE HistoryInv'
<1>1. /\ stage = "idle" /\ stage' = "flushing" /\ ring' = ring /\ mirrored' = mirrored
      /\ UNCHANGED <<pushed, disk, misread>> /\ Watch(FALSE)
  BY DEF StartFlush
<1>2. HistoryTypes'
  BY <1>1 DEF HistoryInv, HistoryTypes, Stages, disk
<1>3. Len(ring) \in Nat /\ Behind(ring, mirrored) \in Int
  <2>1. Len(ring) \in Nat /\ Behind(ring, mirrored) \in 0..Len(ring)
    BY RowFacts DEF HistoryInv
  <2> QED BY <2>1
<1>4. /\ stage # "dead" /\ stage' # "dead" /\ Len(ring') <= Len(ring)
      /\ Behind(ring', mirrored') = Behind(ring, mirrored)
  BY <1>1, <1>3
<1>5. Behind(ring', mirrored') <= Behind(ring, mirrored)
  BY <1>3, <1>4
<1> QED BY <1>1, <1>2, <1>4, <1>5, RingKeeps

LEMMA ClearRingKeeps == ASSUME HistoryInv, ClearRing PROVE HistoryInv'
<1>1. /\ stage = "idle" /\ stage' = "cleared" /\ ring' = <<>> /\ mirrored' = mirrored
      /\ UNCHANGED <<pushed, disk, misread>> /\ Watch(TRUE)
  BY DEF ClearRing
<1>2. /\ Len(ring) \in Nat /\ mirrored \in Nat /\ Behind(ring, mirrored) \in 0..Len(ring)
      /\ pushed \in Nat
  BY RowFacts DEF HistoryInv
<1>3. Len(ring') = 0 /\ Consecutive(ring', pushed')
  <2>1. ring' \in Seq(Lines) /\ Len(ring') = 0 /\ pushed' = pushed
    BY <1>1
  <2> QED BY <1>2, <2>1 DEF Consecutive
<1>4. HistoryTypes'
  BY <1>1, <1>3 DEF HistoryInv, HistoryTypes, Stages, disk
<1>5. Len(ring') <= Len(ring) /\ Behind(ring', mirrored') <= Behind(ring, mirrored)
  BY <1>1, <1>2, <1>3 DEF Behind, Least
<1>6. stage # "dead" /\ stage' # "dead"
  BY <1>1
<1> QED BY <1>1, <1>4, <1>5, <1>6, RingKeeps

\* What is still to be mirrored is a batch, however much of it gets written.
LEMMA TailIsBatch ==
  ASSUME HistoryInv, stage # "dead", NEW m \in 0..Len(AllUnits(Unmirrored))
  PROVE  Batch(Unmirrored, m, pushed)
<1> DEFINE r == Unmirrored
           b == Behind(ring, mirrored)
           K == Len(index)
<1>1. /\ pushed \in Nat /\ pushed \in 0..MaxRows /\ mirrored \in Nat
      /\ Consecutive(ring, pushed) /\ file \in Seq(FileUnit(pushed))
  BY RowFacts DEF HistoryInv, HistoryTypes
<1>2. Indexed(file, index, size) /\ \A i \in 1..K : OnDisk[i] <= pushed - b
  BY Names DEF HistoryInv, DiskInv
<1>3. /\ b \in 0..Len(ring) /\ Len(ring) \in 0..pushed
      /\ r \in Seq(Lines) /\ Len(r) = b /\ \A j \in 1..b : r[j] = pushed - b + j
  BY <1>1, RestFacts, Names
<1>4. \A i \in 1..K : OnDisk[i] \in Int
  BY <1>1, <1>2, ShownRows, Names
<1> HIDE DEF r, b, K
<1>5. b \in Nat /\ b <= pushed
  BY <1>1, <1>3
<1>6. \A i \in 1..Len(r) : r[i] \in 1..pushed
  BY <1>1, <1>3, <1>5
<1>7. \A i, j \in 1..Len(r) : i < j => r[i] < r[j]
  BY <1>1, <1>3, <1>5
<1>8. ASSUME NEW i \in 1..K, NEW j \in 1..Len(r) PROVE OnDisk[i] < r[j]
  <2>1. r[j] = pushed - b + j /\ OnDisk[i] \in Int /\ OnDisk[i] <= pushed - b
    BY <1>2, <1>3, <1>4
  <2> QED BY <1>1, <1>3, <1>5, <2>1
<1>9. m \in 0..Len(AllUnits(r))
  BY DEF r
<1> QED BY <1>1, <1>2, <1>3, <1>6, <1>7, <1>8, <1>9 DEF Batch, r, K

LEMMA MirrorKeeps ==
  ASSUME HistoryInv, stage \in {"written", "flushing"},
         NEW next \in {"mirrored", "flushed"},
         NEW m \in 0..Len(AllUnits(Unmirrored)), Mirror(m, next)
  PROVE  HistoryInv'
<1> DEFINE r == Unmirrored
           c == Landed(r, m)
           K == Len(index)
           L == Len(ring)
           l == Least(mirrored, L)
           b == Behind(ring, mirrored)
           w == WrittenAt(r, m)
           x == Longer(r, c)
           s2 == size + Ends(r)[c]
           sh == Shows(w, x)
<1>1. /\ file' = w /\ index' = x /\ size' = s2 /\ mirrored' = l + c
      /\ stage' = next /\ UNCHANGED <<pushed, ring, misread>> /\ Watch(FALSE)
  <2>1. /\ WriteOut(Unmirrored, m, TRUE)
        /\ stage' = next /\ UNCHANGED <<pushed, ring, misread>> /\ Watch(FALSE)
    BY DEF Mirror, AppendBatch
  <2> QED BY <2>1 DEF WriteOut, Longer
<1>2. stage # "dead" /\ stage' # "dead" /\ stage' \in Stages /\ stage' # "trimmed"
  BY <1>1 DEF Stages
<1>3. Batch(r, m, pushed)
  BY <1>2, TailIsBatch
<1>4. /\ Indexed(w, x, s2) /\ w \in Seq(FileUnit(pushed)) /\ Len(x) = K + c
      /\ \A i \in 1..K : sh[i] = OnDisk[i]
      /\ \A j \in 1..c : sh[K + j] = r[j]
  BY <1>3, WriteFacts
<1>5. /\ pushed \in Nat /\ pushed \in 0..MaxRows /\ mirrored \in Nat /\ Consecutive(ring, pushed)
      /\ L \in Nat /\ L <= pushed
  BY RowFacts DEF HistoryInv, HistoryTypes
<1>6. r \in Seq(Lines) /\ Len(r) = b /\ \A j \in 1..b : r[j] = pushed - b + j
  BY <1>5, RestFacts, Names
<1>7. c \in 0..b
  <2>1. m \in Nat
    OBVIOUS
  <2> QED BY <1>6, <2>1, LandedFacts
<1>8. l \in 0..L /\ b = L - l
  BY <1>5 DEF Least, Behind
<1>9. \A i \in 1..K : OnDisk[i] <= pushed - b
  BY <1>2, Names DEF HistoryInv, DiskInv
<1>10. /\ \A i \in 1..K : OnDisk[i] \in Int
       /\ K \in Nat /\ index \in Seq(Nat)
  <2>1. Indexed(file, index, size) /\ file \in Seq(FileUnit(pushed))
    BY <1>2, RowFacts DEF HistoryInv, DiskInv
  <2> QED BY <1>5, <2>1, ShownRows, Names
<1> HIDE DEF r, c, K, L, l, b, w, x, s2, sh
<1>11. l + c \in Nat /\ l + c <= L /\ Least(l + c, L) = l + c
  BY <1>5, <1>7, <1>8 DEF Least
<1>12. Behind(ring', mirrored') = b - c /\ b \in Nat /\ c \in Nat
  <2>1. Behind(ring', mirrored') = L - Least(l + c, L)
    BY <1>1 DEF Behind, L
  <2> QED BY <1>5, <1>7, <1>8, <1>11, <2>1
<1>13. HistoryTypes'
  <2>1. mirrored' <= Len(ring') /\ mirrored' \in Nat
    BY <1>1, <1>11 DEF L
  <2> QED BY <1>1, <1>2, <1>4, <1>5, <2>1 DEF HistoryTypes
<1>14. ASSUME NEW i \in 1..Len(x) PROVE sh[i] <= pushed - (b - c)
  <2>1. CASE i <= K
    <3>1. i \in 1..K
      BY <1>4, <1>7, <1>10, <2>1
    <3>2. sh[i] \in Int /\ sh[i] <= pushed - b
      BY <1>4, <1>9, <1>10, <3>1
    <3> QED BY <1>5, <1>12, <3>2
  <2>2. CASE ~(i <= K)
    <3> DEFINE j == i - K
    <3>1. j \in 1..c /\ i = K + j /\ j \in 1..b
      BY <1>4, <1>7, <1>10, <1>12, <2>2
    <3> HIDE DEF j
    <3>2. sh[i] = r[j] /\ r[j] = pushed - b + j
      BY <1>4, <1>6, <3>1
    <3> QED BY <1>5, <1>12, <3>1, <3>2
  <2> QED BY <2>1, <2>2
<1>15. DiskInv'
  <2>1. Shows(file', index') = sh
    BY <1>1 DEF sh
  <2>2. \A i \in 1..Len(index') : Shows(file', index')[i] <= pushed' - Behind(ring', mirrored')
    BY Zenon, <1>1, <1>12, <1>14, <2>1
  <2>3. Indexed(file', index', size')
    BY Zenon, <1>1, <1>4
  <2> QED BY <1>2, <2>2, <2>3 DEF DiskInv
<1>16. LengthInv'
  <2>1. index' \in Seq(Nat)
    BY <1>1, <1>4 DEF Indexed
  <2>2. Len(index') + Behind(ring', mirrored') = Len(index) + Behind(ring, mirrored)
    <3>1. Len(index') = K + c
      BY <1>1, <1>4
    <3>2. Len(index) = K /\ Behind(ring, mirrored) = b
      BY DEF K, b
    <3> QED BY <1>10, <1>12, <3>1, <3>2
  <2>3. \A d, k \in Nat : Cover(d, k, ring') = Cover(d, k, ring)
    BY <1>1
  <2>4. misread' = misread /\ Watch(FALSE)
    BY <1>1
  <2>5. \A d, k \in Nat :
          Cover(d, k, ring) <= Len(index) + Behind(ring, mirrored) =>
            Cover(d, k, ring') <= Len(index') + Behind(ring', mirrored')
    BY Zenon, <2>2, <2>3
  <2> QED BY <1>13, <2>1, <2>4, <2>5, LengthKept
<1> QED BY <1>13, <1>15, <1>16 DEF HistoryInv

LEMMA ClearDiskKeeps == ASSUME HistoryInv, ClearDisk PROVE HistoryInv'
<1>1. /\ stage = "cleared" /\ stage' = "idle" /\ ring' = ring /\ mirrored' = 0
      /\ file' = <<>> /\ index' = <<>> /\ size' = 0 /\ pushed' = pushed
      /\ misread' = misread /\ Watch(TRUE)
  BY DEF ClearDisk
<1>2. Len(ring) \in Nat
  BY RowFacts DEF HistoryInv
<1>3. index' \in Seq(Nat) /\ Len(index') = 0 /\ Len(file') = 0
  BY <1>1
<1>4. HistoryTypes'
  <2>1. file' \in Seq(FileUnit(pushed'))
    BY <1>1
  <2> QED BY <1>1, <1>2, <2>1 DEF HistoryInv, HistoryTypes, Stages
<1>5. DiskInv'
  <2>1. EndAt(index', size', 0) = 0
    BY <1>1, <1>3 DEF EndAt
  <2>2. Indexed(file', index', size')
    BY <1>1, <1>3, <2>1 DEF Indexed
  <2> QED BY <1>1, <1>3, <2>2 DEF DiskInv
<1>6. LengthInv'
  BY <1>1, <1>3, <1>4, LengthKept
<1> QED BY <1>4, <1>5, <1>6 DEF HistoryInv

LEMMA AdoptKeeps == ASSUME HistoryInv, AdoptWithIndex PROVE HistoryInv'
<1>1. /\ stage = "flushed" /\ stage' = "idle" /\ ring' = <<>> /\ mirrored' = 0
      /\ UNCHANGED <<pushed, disk, misread>> /\ asker' = Away
  BY DEF AdoptWithIndex
<1>2. /\ pushed \in Nat /\ Len(ring) \in Nat /\ Behind(ring, mirrored) \in 0..Len(ring)
  BY RowFacts DEF HistoryInv
<1>3. Len(ring') = 0 /\ Consecutive(ring', pushed')
  <2>1. ring' \in Seq(Lines) /\ Len(ring') = 0 /\ pushed' = pushed
    BY <1>1
  <2> QED BY <1>2, <2>1 DEF Consecutive
<1>4. HistoryTypes'
  BY <1>1, <1>3 DEF HistoryInv, HistoryTypes, Stages, disk
<1>5. DiskInv'
  <2>1. pushed - Behind(ring, mirrored) <= pushed' - Behind(ring', mirrored')
    BY <1>1, <1>2, <1>3 DEF Behind, Least
  <2>2. stage # "dead" /\ stage' # "dead" /\ UNCHANGED disk
    BY <1>1
  <2> QED BY <1>4, <2>1, <2>2, DiskKept
<1>6. LengthInv'
  BY <1>1 DEF HistoryInv, LengthInv, Askers
<1> QED BY <1>4, <1>5, <1>6 DEF HistoryInv

\* The lines and the rows still to be mirrored are no more than the history.
LEMMA HistoryCovers ==
  ASSUME HistoryInv, stage # "dead"
  PROVE  Length \in Nat /\ Len(index) + Behind(ring, mirrored) <= Length
<1> DEFINE b == Behind(ring, mirrored)
           K == Len(index)
           n == Cardinality(Unshown(ring, OnDisk))
<1>1. /\ pushed \in 0..MaxRows /\ mirrored \in Nat /\ ring \in Seq(Lines) /\ pushed \in Nat
      /\ Consecutive(ring, pushed) /\ b \in 0..Len(ring) /\ Len(ring) \in Nat
      /\ file \in Seq(FileUnit(pushed))
  BY RowFacts DEF HistoryInv, HistoryTypes
<1>2. Indexed(file, index, size) /\ \A i \in 1..K : OnDisk[i] <= pushed - b
  BY Names DEF HistoryInv, DiskInv
<1>3. K \in Nat /\ DOMAIN OnDisk = 1..K /\ \A i \in 1..K : OnDisk[i] \in Int
  BY <1>1, <1>2, ShownRows, Names
<1>4. b <= n
  BY <1>1, <1>2, <1>3, UnshownFacts
<1>5. n \in Nat /\ Length = K + n
  BY <1>1, UnshownFinite, Names
<1> HIDE DEF K, n, b
<1>6. b \in Nat
  BY <1>1
<1> QED BY <1>3, <1>4, <1>5, <1>6 DEF K, b

LEMMA ReadPairKeeps == ASSUME HistoryInv, ReadPair PROVE HistoryInv'
<1> DEFINE a == [at |-> "paired", onDisk |-> Len(index), copied |-> mirrored,
                 most |-> Length, erased |-> FALSE]
           K == Len(index)
<1>1. /\ asker' = a /\ stage # "dead"
      /\ UNCHANGED <<pushed, ring, mirrored, disk, stage, misread>>
  BY DEF ReadPair
<1>2. /\ pushed \in 0..MaxRows /\ mirrored \in Nat /\ ring \in Seq(Lines)
      /\ Behind(ring, mirrored) \in Nat /\ pushed \in Nat
  BY RowFacts DEF HistoryInv, HistoryTypes
<1>3. Indexed(file, index, size) /\ file \in Seq(FileUnit(pushed))
  BY <1>1 DEF HistoryInv, DiskInv, HistoryTypes
<1>4. K \in Nat
  BY <1>2, <1>3, ShownRows
<1>5. Length \in Nat
  BY <1>1, HistoryCovers
<1> HIDE DEF K
<1>6. a \in [at : {"paired"}, onDisk : Nat, copied : Nat, most : Nat, erased : BOOLEAN]
  BY <1>2, <1>4, <1>5 DEF K
<1>7. a # Away /\ a.onDisk = K /\ a.copied = mirrored /\ a.most = Length
  BY <1>6, PairedIsNotAway DEF K
<1> HIDE DEF a
<1>8. Length' = Length
  BY <1>1 DEF Length, OnDisk, disk
<1>9. Seen' = Len(index') + Behind(ring', mirrored')
  <2>1. Seen' = K + Len(ring) - Least(mirrored, Len(ring))
    BY <1>1, <1>7 DEF Seen
  <2>2. Len(index') + Behind(ring', mirrored') = K + (Len(ring) - Least(mirrored, Len(ring)))
    BY <1>1 DEF Behind, K, disk
  <2>3. Len(ring) \in Nat /\ Least(mirrored, Len(ring)) \in Nat
    BY <1>2, LenProperties DEF Least
  <2> QED BY <1>4, <2>1, <2>2, <2>3
<1>10. HistoryTypes' /\ DiskInv'
  <2>1. file' = file /\ index' = index /\ size' = size
    BY <1>1 DEF disk
  <2>2. HistoryTypes'
    BY <1>1, <2>1 DEF HistoryInv, HistoryTypes
  <2> QED BY <1>1, <2>1, <2>2 DEF HistoryInv, DiskInv
<1>11. LengthInv'
  <2>1. misread' = FALSE
    BY <1>1 DEF HistoryInv, LengthInv
  <2>2. Length' <= asker'.most
    BY <1>1, <1>5, <1>7, <1>8
  <2>3. Len(index') + Behind(ring', mirrored') \in Int
    BY <1>1, <1>2, <1>4 DEF K, disk
  <2>4. Seen' <= Len(index') + Behind(ring', mirrored')
    BY <1>9, <2>3
  <2> QED BY <1>1, <1>6, <2>1, <2>2, <2>4 DEF LengthInv, Askers
<1> QED BY <1>10, <1>11 DEF HistoryInv

LEMMA ReadLenKeeps == ASSUME HistoryInv, ReadLen PROVE HistoryInv'
<1>1. /\ asker # Away /\ asker' = Away
      /\ misread' = (misread \/ (~asker.erased /\ Seen > asker.most))
      /\ UNCHANGED <<pushed, expected, ring, mirrored, disk, stage>>
  BY DEF ReadLen, Seen
<1>2. stage # "dead"
  BY <1>1 DEF HistoryInv, HistoryTypes
<1>3. misread = FALSE /\ asker \in Askers /\ Length <= asker.most
      /\ (~asker.erased => Seen <= Len(index) + Behind(ring, mirrored))
  BY <1>1 DEF HistoryInv, LengthInv
<1>4. asker.onDisk \in Nat /\ asker.copied \in Nat /\ asker.most \in Nat /\ asker.erased \in BOOLEAN
  BY <1>1, <1>3, AskerFields
<1>5. ASSUME ~asker.erased PROVE ~(Seen > asker.most)
  <2>1. Length \in Nat /\ Len(index) + Behind(ring, mirrored) <= Length
    BY <1>2, HistoryCovers
  <2>2. Len(index) + Behind(ring, mirrored) \in Int
    <3>1. Indexed(file, index, size) /\ file \in Seq(FileUnit(pushed)) /\ pushed \in Nat
      BY <1>2, RowFacts DEF HistoryInv, DiskInv
    <3>2. Len(index) \in Nat
      BY <3>1, ShownRows
    <3>3. Behind(ring, mirrored) \in 0..Len(ring)
      BY RowFacts DEF HistoryInv
    <3> QED BY <3>2, <3>3
  <2>3. Seen \in Int
    <3>1. Len(ring) \in Nat
      BY RowFacts DEF HistoryInv
    <3> QED BY <1>4, <3>1, CoverShrinks DEF Seen
  <2>4. Seen <= Len(index) + Behind(ring, mirrored)
    BY <1>3, <1>5
  <2> QED BY <1>3, <1>4, <2>1, <2>2, <2>3, <2>4
<1>6. misread' = FALSE
  BY Zenon, <1>1, <1>3, <1>5
<1>7. file' = file /\ index' = index /\ size' = size
  BY <1>1 DEF disk
<1>8. HistoryTypes'
  BY <1>1, <1>7 DEF HistoryInv, HistoryTypes
<1>9. DiskInv'
  BY <1>1, <1>7 DEF HistoryInv, DiskInv
<1>10. LengthInv'
  BY <1>1, <1>6 DEF LengthInv, Askers
<1> QED BY <1>8, <1>9, <1>10 DEF HistoryInv

\* Of a crash in the middle of a write, the records that landed whole are there
\* to be found; a crash of a daemon that has not started adds nothing.
LEMMA CrashKeeps ==
  ASSUME HistoryInv, NEW m \in 0..Len(AllUnits(Unmirrored)), Crash(m)
  PROVE  HistoryInv'
<1> DEFINE w == WrittenAt(Unmirrored, m)
<1>1. /\ file' = w /\ index' = <<>> /\ size' = 0 /\ ring' = <<>> /\ mirrored' = 0
      /\ stage' = "dead" /\ asker' = Away /\ UNCHANGED <<pushed, misread>>
      /\ expected' = IF stage = "dead" THEN expected ELSE expected \cap ToSet(OnDisk)
      /\ (stage = "dead" => m <= 0)
  BY DEF Crash
<1>2. pushed \in 0..MaxRows /\ pushed \in Nat /\ file \in Seq(FileUnit(pushed))
  BY RowFacts DEF HistoryInv, HistoryTypes
<1>3. /\ w \in Seq(FileUnit(pushed))
      /\ \E idx, sz : Indexed(w, idx, sz) /\ expected' \subseteq ToSet(Shows(w, idx))
  <2>1. CASE stage # "dead"
    <3> DEFINE c == Landed(Unmirrored, m)
               x == Longer(Unmirrored, c)
               s2 == size + Ends(Unmirrored)[c]
               K == Len(index)
    <3>1. Batch(Unmirrored, m, pushed)
      BY <2>1, TailIsBatch
    <3>2. /\ Indexed(w, x, s2) /\ w \in Seq(FileUnit(pushed)) /\ Len(x) = K + c
          /\ \A i \in 1..K : Shows(w, x)[i] = OnDisk[i]
      BY <3>1, WriteFacts
    <3>3. Indexed(file, index, size)
      BY <2>1 DEF HistoryInv, DiskInv
    <3>4. K \in Nat /\ DOMAIN OnDisk = 1..K
      BY <1>2, <3>3, ShownRows, Names
    <3>5. DOMAIN Shows(w, x) = 1..Len(x)
      BY <1>2, <3>2, ShownRows
    <3>6. c \in Nat
      <4>1. Unmirrored \in Seq(Lines)
        BY <3>1 DEF Batch
      <4>2. c \in 0..Len(Unmirrored)
        BY <4>1, LandedFacts
      <4> QED BY <4>2
    <3> HIDE DEF c, x, s2, K, w
    <3>7. 1..K \subseteq 1..Len(x)
      BY <3>2, <3>4, <3>6
    <3>8. ToSet(OnDisk) \subseteq ToSet(Shows(w, x))
      BY <3>2, <3>4, <3>5, <3>7 DEF ToSet
    <3>9. expected' \subseteq ToSet(Shows(w, x))
      BY <1>1, <2>1, <3>8
    <3> QED BY <3>2, <3>9
  <2>2. CASE stage = "dead"
    <3>1. ring = <<>> /\ mirrored = 0 /\ size = 0 /\ m = 0 /\ expected' = expected
      BY <1>1, <2>2 DEF HistoryInv, HistoryTypes
    <3>2. Unmirrored \in Seq(Lines) /\ Len(Unmirrored) = 0
      <4>1. Consecutive(ring, pushed) /\ Len(ring) = 0 /\ mirrored \in Nat
        BY <3>1 DEF HistoryInv, HistoryTypes
      <4>2. /\ Behind(ring, mirrored) \in 0..0 /\ Rest(ring, mirrored) \in Seq(Lines)
            /\ Len(Rest(ring, mirrored)) = Behind(ring, mirrored)
        BY <1>2, <4>1, RestFacts
      <4> QED BY <4>2, Names
    <3>3. Len(file) \in Nat /\ size \in 0..Len(file)
      BY <1>2, <3>1, LenProperties
    <3> DEFINE u == Unmirrored
    <3>4. u \in Seq(Lines) /\ m \in 0..Len(AllUnits(u)) /\ w = WrittenAt(u, m)
          /\ \A i \in 1..Len(u) : u[i] \in 1..pushed
      BY <3>2
    <3> HIDE DEF u
    <3>5. /\ w \in Seq(FileUnit(pushed))
          /\ Len(file) <= Len(w)
          /\ Len(w) = Len(file) \/ Len(w) = size + m
          /\ \A p \in 1..Len(w) :
               w[p] = IF p \in (size + 1)..(size + m) THEN AllUnits(u)[p - size] ELSE file[p]
      <4> HIDE DEF w
      <4> QED BY <1>2, <3>3, <3>4, WrittenFacts
    <3> HIDE DEF w
    <3>6. Len(w) = Len(file) /\ \A p \in 1..Len(w) : w[p] = file[p]
      BY <3>1, <3>3, <3>5
    <3>7. w = file
      BY <1>2, <3>5, <3>6, SeqEqual
    <3> QED BY <1>2, <2>2, <3>1, <3>7 DEF HistoryInv, DiskInv
  <2> QED BY <2>1, <2>2
<1>4. HistoryTypes'
  <2>1. Len(ring') = 0 /\ ring' \in Seq(Lines)
    BY <1>1
  <2>2. Consecutive(ring', pushed')
    BY <1>1, <1>2, <2>1 DEF Consecutive
  <2> HIDE DEF w
  <2> QED BY <1>1, <1>2, <1>3, <2>1, <2>2 DEF HistoryTypes, Stages
<1>5. DiskInv'
  <2> HIDE DEF w
  <2> QED BY <1>1, <1>3 DEF DiskInv
<1>6. LengthInv'
  BY <1>1 DEF HistoryInv, LengthInv, Askers
<1> QED BY <1>4, <1>5, <1>6 DEF HistoryInv

LEMMA RebuildKeeps == ASSUME HistoryInv, RebuildIndex PROVE HistoryInv'
<1>1. /\ stage = "dead" /\ stage' = "idle" /\ index' = Scanned /\ size' = Reached[Rounds]
      /\ UNCHANGED <<pushed, expected, ring, mirrored, file, asker, misread>>
  BY DEF RebuildIndex, Scanned
<1>2. ring = <<>> /\ mirrored = 0 /\ asker = Away
  BY <1>1 DEF HistoryInv, HistoryTypes
<1>3. pushed \in Nat /\ file \in Seq(FileUnit(pushed))
  BY RowFacts DEF HistoryInv
<1>4. PICK idx, sz : Indexed(file, idx, sz)
  BY <1>1 DEF HistoryInv, DiskInv
<1>5. Indexed(file, Scanned, Reached[Rounds])
  BY <1>3, <1>4, RebuildFacts
<1>6. \A i \in 1..Len(Scanned) : Shows(file, Scanned)[i] \in 0..pushed
  BY <1>3, <1>5, ShownRows
<1>7. Len(ring') = 0 /\ Behind(ring', mirrored') = 0
  BY <1>1, <1>2 DEF Behind, Least
<1>8. HistoryTypes'
  BY <1>1, <1>2, <1>7 DEF HistoryInv, HistoryTypes, Stages
<1>9. DiskInv'
  <2>1. Shows(file', index') = Shows(file, Scanned)
    BY <1>1
  <2>2. \A i \in 1..Len(Scanned) : Shows(file, Scanned)[i] <= pushed - 0
    BY <1>3, <1>6
  <2>3. \A i \in 1..Len(index') : Shows(file', index')[i] <= pushed' - Behind(ring', mirrored')
    BY Zenon, <1>1, <1>7, <2>1, <2>2
  <2>4. Indexed(file', index', size')
    BY Zenon, <1>1, <1>5
  <2> QED BY <1>1, <2>3, <2>4 DEF DiskInv
<1>10. LengthInv'
  BY <1>1, <1>2 DEF HistoryInv, LengthInv, Askers
<1> QED BY <1>8, <1>9, <1>10 DEF HistoryInv

LEMMA HistoryStep == HistoryInv /\ [TNext]_tvars => HistoryInv'
<1> SUFFICES ASSUME HistoryInv, [TNext]_tvars PROVE HistoryInv'
  OBVIOUS
<1>1. CASE \E b, a \in 0..MaxRows, erase \in BOOLEAN : EmuWrite(b, erase, a)
  BY <1>1, WriteKeeps
<1>2. CASE \E m \in 0..Len(AllUnits(Unmirrored)) : MirrorNewLines(m) \/ Flush(m)
  BY <1>2, MirrorKeeps DEF MirrorNewLines, Flush
<1>3. CASE \E m \in 0..Len(AllUnits(Unmirrored)) : Crash(m)
  BY <1>3, CrashKeeps
<1>4. CASE Trim
  BY <1>4, TrimKeeps
<1>5. CASE NoteTrim
  BY <1>5, NoteTrimKeeps
<1>6. CASE ClearRing
  BY <1>6, ClearRingKeeps
<1>7. CASE ClearDisk
  BY <1>7, ClearDiskKeeps
<1>8. CASE StartFlush
  BY <1>8, StartFlushKeeps
<1>9. CASE AdoptWithIndex
  BY <1>9, AdoptKeeps
<1>10. CASE RebuildIndex
  BY <1>10, RebuildKeeps
<1>11. CASE ReadPair
  BY <1>11, ReadPairKeeps
<1>12. CASE ReadLen
  BY <1>12, ReadLenKeeps
<1>13. CASE UNCHANGED tvars
  <2>1. /\ file' = file /\ index' = index /\ size' = size /\ pushed' = pushed
        /\ ring' = ring /\ mirrored' = mirrored /\ stage' = stage /\ asker' = asker
        /\ misread' = misread /\ expected' = expected
    BY <1>13 DEF tvars
  <2>2. HistoryTypes' /\ DiskInv'
    BY <2>1 DEF HistoryInv, HistoryTypes, DiskInv
  <2>3. LengthInv'
    BY <2>1 DEF HistoryInv, LengthInv, Seen, Length, OnDisk
  <2> QED BY <2>2, <2>3 DEF HistoryInv
<1> QED BY <1>1, <1>2, <1>3, <1>4, <1>5, <1>6, <1>7, <1>8, <1>9, <1>10, <1>11, <1>12, <1>13
        DEF TNext

\* The index always fits the file, and shows only rows that are not to be
\* mirrored any more; after a crash, whatever of a batch had been written, some
\* index does that shows every row that was on disk (diskscrollback.go).
THEOREM HistoryInvariant == TSpec => []HistoryInv
BY HistoryStart, HistoryStep, PTL DEF TSpec

\* A length read without publishMu is never more than the history had while it
\* was read, however long the ring, the records and the failed writes: the rows
\* counted on disk and those counted in the ring are told apart by the pair
\* read under one hold of t.mu (scrollbackLayout, mirrorNewLines).
THEOREM LengthSafe == TSpec => []LengthNotOverstated
<1>1. HistoryInv => LengthNotOverstated
  BY DEF HistoryInv, LengthInv, LengthNotOverstated
<1> QED BY <1>1, HistoryInvariant, PTL

-----------------------------------------------------------------------------
(* Nothing is lost, as long as no read of the PTY holds an ED 3 and rows     *)
(* after it: mirrorNewLines would take those rows for mirrored ones.         *)

WholeInv ==
  /\ stage # "dead" => expected \subseteq ToSet(OnDisk) \cup ToSet(Unmirrored)
  /\ stage = "cleared" => expected = {}

LEMMA RestRange ==
  ASSUME NEW p \in 0..MaxRows, NEW r, Consecutive(r, p), NEW m \in Nat
  PROVE  ToSet(Rest(r, m)) = (p - Behind(r, m) + 1)..p
<1> DEFINE b == Behind(r, m)
           s == Rest(r, m)
<1>1. /\ b \in 0..Len(r) /\ Len(r) \in 0..p /\ s \in Seq(Lines) /\ Len(s) = b
      /\ \A j \in 1..b : s[j] = p - b + j
  BY RestFacts
<1>2. b \in Nat /\ p \in Nat /\ DOMAIN s = 1..b
  BY <1>1, Constants, LenProperties
<1>3. ToSet(s) = {s[j] : j \in 1..b}
  BY <1>2 DEF ToSet
<1> HIDE DEF s, b
<1>4. ASSUME NEW x \in ToSet(s) PROVE x \in (p - b + 1)..p
  <2>1. PICK j \in 1..b : x = s[j]
    BY <1>3
  <2>2. x = p - b + j
    BY <1>1, <2>1
  <2> QED BY <1>2, <2>2
<1>5. ASSUME NEW x \in (p - b + 1)..p PROVE x \in ToSet(s)
  <2>1. x - (p - b) \in 1..b
    BY <1>2
  <2>2. s[x - (p - b)] = p - b + (x - (p - b))
    BY <1>1, <2>1
  <2>3. s[x - (p - b)] = x
    BY <1>2, <2>1, <2>2
  <2> QED BY <1>3, <2>1, <2>3
<1> QED BY <1>4, <1>5 DEF s, b

LEMMA NewRowsRange ==
  ASSUME NEW from \in Nat, NEW n \in Nat
  PROVE  ToSet(NewRows(from, n)) = (from + 1)..(from + n)
<1> DEFINE r == NewRows(from, n)
<1>1. DOMAIN r = 1..n /\ \A i \in 1..n : r[i] = from + i
  BY DEF NewRows
<1>2. ToSet(r) = {r[i] : i \in 1..n}
  BY <1>1 DEF ToSet
<1> HIDE DEF r
<1>3. ASSUME NEW x \in (from + 1)..(from + n) PROVE x \in ToSet(r)
  <2>1. x - from \in 1..n
    OBVIOUS
  <2>2. r[x - from] = from + (x - from)
    BY <1>1, <2>1
  <2>3. r[x - from] = x
    BY <2>2
  <2> QED BY <1>2, <2>1, <2>3
<1>4. ASSUME NEW x \in ToSet(r) PROVE x \in (from + 1)..(from + n)
  <2>1. PICK i \in 1..n : x = r[i]
    BY <1>2
  <2>2. x = from + i
    BY <1>1, <2>1
  <2> QED BY <2>2
<1> QED BY <1>3, <1>4 DEF r

\* The rows still to be mirrored, before and after a step, as numbers.
LEMMA UnmirroredRange ==
  ASSUME HistoryInv
  PROVE  /\ ToSet(Unmirrored) = (pushed - Behind(ring, mirrored) + 1)..pushed
         /\ Behind(ring, mirrored) \in Nat /\ Behind(ring, mirrored) <= pushed /\ pushed \in Nat
<1>1. pushed \in 0..MaxRows /\ mirrored \in Nat /\ Consecutive(ring, pushed)
  BY DEF HistoryInv, HistoryTypes
<1>2. /\ pushed \in Nat /\ Behind(ring, mirrored) \in 0..Len(ring)
      /\ Len(ring) \in Nat /\ Len(ring) <= pushed
  BY RowFacts DEF HistoryInv
<1> QED BY <1>1, <1>2, RestRange, Names

LEMMA UnmirroredRangeNext ==
  ASSUME HistoryTypes'
  PROVE  /\ ToSet(Unmirrored') = (pushed' - Behind(ring', mirrored') + 1)..pushed'
         /\ Behind(ring', mirrored') \in 0..Len(ring')
<1>1. pushed' \in 0..MaxRows /\ mirrored' \in Nat /\ Consecutive(ring', pushed')
  BY DEF HistoryTypes
<1>2. Unmirrored' = Rest(ring', mirrored')
  BY DEF Unmirrored, Rest
<1> QED BY <1>1, <1>2, RestRange, RestFacts

LEMMA WriteLosesNothing ==
  ASSUME PrintAfterErase = FALSE, HistoryInv, WholeInv, HistoryInv',
         NEW b \in 0..MaxRows, NEW a \in 0..MaxRows, NEW erase \in BOOLEAN,
         EmuWrite(b, erase, a)
  PROVE  WholeInv'
<1>1. /\ stage = "idle" /\ stage' = "written" /\ pushed' = pushed + b + a
      /\ (~erase => a = 0) /\ (erase => a = 0)
      /\ mirrored' = mirrored /\ UNCHANGED disk
  <2>1. erase /\ a > 0 => FALSE
    BY DEF EmuWrite
  <2> QED BY <2>1 DEF EmuWrite
<1>2. expected \subseteq ToSet(OnDisk) \cup ToSet(Unmirrored)
  BY <1>1 DEF WholeInv
<1>3. OnDisk' = OnDisk
  BY <1>1 DEF disk, OnDisk
<1>4. /\ ToSet(Unmirrored) = (pushed - Behind(ring, mirrored) + 1)..pushed
      /\ Behind(ring, mirrored) \in Nat /\ Behind(ring, mirrored) <= pushed /\ pushed \in Nat
  BY UnmirroredRange
<1>5. CASE erase
  <2>1. expected' = (expected \cap ToSet(OnDisk)) \cup ToSet(NewRows(pushed + b, a))
    BY <1>5 DEF EmuWrite
  <2>2. ToSet(NewRows(pushed + b, a)) = {}
    <3>1. pushed + b \in Nat /\ a = 0
      BY <1>1, <1>4, <1>5
    <3>2. ToSet(NewRows(pushed + b, a)) = (pushed + b + 1)..(pushed + b + 0)
      BY <3>1, NewRowsRange
    <3> QED BY <3>1, <3>2
  <2> QED BY <1>1, <1>3, <2>1, <2>2 DEF WholeInv
<1>6. CASE ~erase
  <2>1. expected' = expected \cup ToSet(NewRows(pushed, b)) /\ ring' = ring \o NewRows(pushed, b)
    BY <1>6 DEF EmuWrite
  <2>2. pushed' = pushed + b /\ b \in Nat /\ pushed + b <= MaxRows
    BY <1>1, <1>4, <1>6, Constants DEF EmuWrite
  <2>3. ToSet(NewRows(pushed, b)) = (pushed + 1)..(pushed + b)
    BY <1>4, <2>2, NewRowsRange
  <2>4. Len(ring') = Len(ring) + b /\ Len(ring) \in Nat /\ mirrored <= Len(ring) /\ mirrored \in Nat
    <3>1. Consecutive(ring, pushed) /\ mirrored <= Len(ring) /\ mirrored \in Nat
      BY <1>1 DEF HistoryInv, HistoryTypes
    <3>2. Len(ring) \in Nat
      BY RowFacts DEF HistoryInv
    <3> QED BY <1>4, <2>1, <2>2, <3>1, <3>2, RingGrows
  <2>5. Behind(ring', mirrored') = Behind(ring, mirrored) + b
    <3> DEFINE L == Len(ring)
               K == Len(ring')
    <3>1. L \in Nat /\ K = L + b /\ mirrored <= L
      BY <2>4
    <3> HIDE DEF L, K
    <3>2. K - Least(mirrored, K) = L - Least(mirrored, L) + b
      BY <2>2, <2>4, <3>1 DEF Least
    <3> QED BY <1>1, <3>2 DEF Behind, L, K
  <2>6. ToSet(Unmirrored') = (pushed' - Behind(ring', mirrored') + 1)..pushed'
    BY UnmirroredRangeNext DEF HistoryInv
  <2>7. ToSet(Unmirrored') = ToSet(Unmirrored) \cup ToSet(NewRows(pushed, b))
    <3> DEFINE B == Behind(ring, mirrored)
    <3> HIDE DEF B
    <3>1. B \in Nat /\ B <= pushed /\ pushed \in Nat /\ b \in Nat
      BY <1>4, <2>2 DEF B
    <3>2. ((pushed + b) - (B + b) + 1)..(pushed + b) = (pushed - B + 1)..pushed \cup (pushed + 1)..(pushed + b)
      BY <3>1
    <3> QED BY <1>4, <2>2, <2>3, <2>5, <2>6, <3>2 DEF B
  <2> QED BY <1>1, <1>2, <1>3, <2>1, <2>7 DEF WholeInv
<1> QED BY <1>5, <1>6

LEMMA MirrorLosesNothing ==
  ASSUME HistoryInv, WholeInv, HistoryInv', stage \in {"written", "flushing"},
         NEW next \in {"mirrored", "flushed"},
         NEW m \in 0..Len(AllUnits(Unmirrored)), Mirror(m, next)
  PROVE  WholeInv'
<1> DEFINE r == Unmirrored
           c == Landed(r, m)
           K == Len(index)
           L == Len(ring)
           l == Least(mirrored, L)
           b == Behind(ring, mirrored)
           w == WrittenAt(r, m)
           x == Longer(r, c)
           sh == Shows(w, x)
<1>1. /\ file' = w /\ index' = x /\ mirrored' = l + c
      /\ stage' = next /\ pushed' = pushed /\ ring' = ring /\ expected' = expected
  <2>1. /\ WriteOut(Unmirrored, m, TRUE)
        /\ stage' = next /\ UNCHANGED <<pushed, expected, ring>>
    BY DEF Mirror, AppendBatch
  <2> QED BY <2>1 DEF WriteOut, Longer
<1>2. Batch(r, m, pushed)
  BY TailIsBatch
<1>3. /\ Indexed(w, x, size + Ends(r)[c]) /\ w \in Seq(FileUnit(pushed)) /\ Len(x) = K + c
      /\ \A i \in 1..K : sh[i] = OnDisk[i]
      /\ \A j \in 1..c : sh[K + j] = r[j]
  BY <1>2, WriteFacts
<1>4. /\ ToSet(r) = (pushed - b + 1)..pushed
      /\ b \in Nat /\ b <= pushed /\ pushed \in Nat
  BY UnmirroredRange
<1>5. /\ r \in Seq(Lines) /\ Len(r) = b /\ \A j \in 1..b : r[j] = pushed - b + j
      /\ L \in Nat /\ mirrored \in Nat
  <2>1. pushed \in 0..MaxRows /\ mirrored \in Nat /\ Consecutive(ring, pushed)
    BY DEF HistoryInv, HistoryTypes
  <2>2. L \in Nat
    BY RowFacts DEF HistoryInv
  <2>3. /\ Rest(ring, mirrored) \in Seq(Lines) /\ Len(Rest(ring, mirrored)) = b
        /\ \A j \in 1..b : Rest(ring, mirrored)[j] = pushed - b + j
    BY <2>1, RestFacts
  <2> QED BY Zenon, <2>1, <2>2, <2>3, Names
<1>6. c \in 0..b
  <2>1. m \in Nat
    OBVIOUS
  <2> QED BY <1>5, <2>1, LandedFacts
<1>7. l \in 0..L /\ b = L - l
  BY <1>5 DEF Least, Behind
<1>8. K \in Nat /\ DOMAIN OnDisk = 1..K
  <2>1. Indexed(file, index, size) /\ file \in Seq(FileUnit(pushed))
    BY RowFacts DEF HistoryInv, DiskInv
  <2> QED BY <1>4, <2>1, ShownRows, Names
<1>9. DOMAIN sh = 1..(K + c)
  BY <1>3, <1>4, ShownRows
<1>10. expected \subseteq ToSet(OnDisk) \cup ToSet(r)
  BY DEF WholeInv
<1>11. OnDisk' = sh
  BY <1>1 DEF OnDisk, Shows
<1>12. ToSet(Unmirrored') = (pushed' - Behind(ring', mirrored') + 1)..pushed'
  BY UnmirroredRangeNext DEF HistoryInv
<1> HIDE DEF r, c, K, L, l, b, w, x, sh
<1>13. Behind(ring', mirrored') = b - c
  <2>1. l + c \in Nat /\ l + c <= L
    BY <1>4, <1>5, <1>6, <1>7
  <2>2. Least(l + c, L) = l + c
    BY <1>5, <2>1 DEF Least
  <2>3. Behind(ring', mirrored') = L - Least(l + c, L)
    BY <1>1 DEF Behind, L
  <2> QED BY <1>4, <1>5, <1>6, <1>7, <2>2, <2>3
<1>14. ASSUME NEW e \in ToSet(OnDisk) PROVE e \in ToSet(sh)
  <2>1. PICK i \in 1..K : e = OnDisk[i]
    BY <1>8 DEF ToSet
  <2>2. i \in 1..(K + c) /\ sh[i] = e
    BY <1>3, <1>6, <1>8, <2>1
  <2> QED BY <1>9, <2>2 DEF ToSet
<1>15. ASSUME NEW e \in ToSet(r) PROVE e \in ToSet(sh) \/ e \in ToSet(Unmirrored')
  <2>1. e \in (pushed - b + 1)..pushed
    BY <1>4
  <2>2. CASE e <= pushed - b + c
    <3> DEFINE j == e - (pushed - b)
    <3>1. j \in 1..c /\ j \in 1..b /\ e = pushed - b + j /\ K + j \in 1..(K + c)
      BY <1>4, <1>6, <1>8, <2>1, <2>2
    <3> HIDE DEF j
    <3>2. sh[K + j] = e
      BY <1>3, <1>5, <3>1
    <3> QED BY <1>9, <3>1, <3>2 DEF ToSet
  <2>3. CASE ~(e <= pushed - b + c)
    <3>1. e \in (pushed - (b - c) + 1)..pushed
      BY <1>4, <1>6, <2>1, <2>3
    <3>2. ToSet(Unmirrored') = (pushed - (b - c) + 1)..pushed
      BY Zenon, <1>1, <1>12, <1>13
    <3> QED BY <3>1, <3>2
  <2> QED BY <2>2, <2>3
<1>16. expected' \subseteq ToSet(OnDisk') \cup ToSet(Unmirrored')
  BY <1>1, <1>10, <1>11, <1>14, <1>15
<1> QED BY <1>1, <1>16 DEF WholeInv

\* The steps that leave the file and what is expected of it alone.
LEMMA SameTail ==
  ASSUME HistoryInv, WholeInv, HistoryInv', stage # "dead", stage # "cleared",
         stage' # "cleared", UNCHANGED <<pushed, expected, disk>>,
         Behind(ring', mirrored') = Behind(ring, mirrored)
  PROVE  WholeInv'
<1>1. OnDisk' = OnDisk /\ expected' = expected /\ pushed' = pushed
  BY DEF disk, OnDisk
<1>2. ToSet(Unmirrored) = (pushed - Behind(ring, mirrored) + 1)..pushed
  BY UnmirroredRange
<1>3. ToSet(Unmirrored') = (pushed' - Behind(ring', mirrored') + 1)..pushed'
  BY UnmirroredRangeNext DEF HistoryInv
<1>4. ToSet(Unmirrored') = ToSet(Unmirrored)
  BY Zenon, <1>1, <1>2, <1>3
<1> QED BY <1>1, <1>4 DEF WholeInv

LEMMA RebuildLosesNothing ==
  ASSUME HistoryInv, RebuildIndex
  PROVE  WholeInv'
<1>1. /\ stage = "dead" /\ stage' = "idle" /\ index' = Scanned
      /\ expected' = expected /\ file' = file
  BY DEF RebuildIndex, Scanned
<1>2. pushed \in Nat /\ file \in Seq(FileUnit(pushed))
  BY RowFacts DEF HistoryInv
<1>3. PICK idx, sz : Indexed(file, idx, sz) /\ expected \subseteq ToSet(Shows(file, idx))
  BY <1>1 DEF HistoryInv, DiskInv
<1>4. /\ Indexed(file, Scanned, Reached[Rounds]) /\ Len(idx) <= Len(Scanned)
      /\ \A i \in 1..Len(idx) : Shows(file, Scanned)[i] = Shows(file, idx)[i]
  BY <1>2, <1>3, RebuildFacts
<1>5. /\ Len(idx) \in Nat /\ DOMAIN Shows(file, idx) = 1..Len(idx)
      /\ Len(Scanned) \in Nat /\ DOMAIN Shows(file, Scanned) = 1..Len(Scanned)
  BY <1>2, <1>3, <1>4, ShownRows
<1>6. 1..Len(idx) \subseteq 1..Len(Scanned)
  BY <1>4, <1>5
<1>7. ToSet(Shows(file, idx)) \subseteq ToSet(Shows(file, Scanned))
  BY <1>4, <1>5, <1>6 DEF ToSet
<1>8. OnDisk' = Shows(file, Scanned)
  BY <1>1 DEF OnDisk, Shows
<1> QED BY <1>1, <1>3, <1>7, <1>8 DEF WholeInv

LEMMA WholeStep ==
  PrintAfterErase = FALSE /\ HistoryInv /\ WholeInv /\ [TNext]_tvars /\ HistoryInv' => WholeInv'
<1> SUFFICES ASSUME PrintAfterErase = FALSE, HistoryInv, WholeInv, [TNext]_tvars, HistoryInv'
             PROVE  WholeInv'
  OBVIOUS
<1>0. Len(ring) \in Nat /\ mirrored \in Nat
  BY RowFacts DEF HistoryInv
<1>1. CASE \E b, a \in 0..MaxRows, erase \in BOOLEAN : EmuWrite(b, erase, a)
  BY <1>1, WriteLosesNothing
<1>2. CASE \E m \in 0..Len(AllUnits(Unmirrored)) : MirrorNewLines(m) \/ Flush(m)
  BY <1>2, MirrorLosesNothing DEF MirrorNewLines, Flush
<1>3. CASE \E m \in 0..Len(AllUnits(Unmirrored)) : Crash(m)
  BY <1>3 DEF Crash, WholeInv
<1>4. CASE Trim
  <2>1. /\ stage = "mirrored" /\ stage' # "cleared" /\ mirrored' = mirrored
        /\ UNCHANGED <<pushed, expected, disk>>
    BY <1>4 DEF Trim
  <2>2. CASE Trims
    <3>1. Behind(ring, mirrored) = 0 /\ mirrored = Len(ring) /\ stage' = "trimmed"
      BY <1>0, <1>4, <2>2 DEF Trim, Trims, Behind, Least
    <3>2. Len(ring') <= mirrored' /\ Len(ring') \in Nat
      <4>1. Len(ring') <= mirrored' /\ ring' \in Seq(Lines)
        BY <3>1 DEF HistoryInv, HistoryTypes, Consecutive
      <4> QED BY <4>1, LenProperties
    <3>3. Behind(ring', mirrored') = 0
      BY <1>0, <2>1, <3>2 DEF Behind, Least
    <3> QED BY <2>1, <3>1, <3>3, SameTail
  <2>3. CASE ~Trims
    <3>1. ring' = ring
      BY <1>4, <2>3 DEF Trim
    <3> QED BY <2>1, <3>1, SameTail
  <2> QED BY <2>2, <2>3
<1>5. CASE NoteTrim
  <2>1. /\ stage = "trimmed" /\ stage' # "cleared" /\ mirrored' = Len(ring) /\ ring' = ring
        /\ UNCHANGED <<pushed, expected, disk>>
    BY <1>5 DEF NoteTrim
  <2>2. Len(ring) <= mirrored
    BY <2>1 DEF HistoryInv, HistoryTypes
  <2>3. Behind(ring', mirrored') = 0 /\ Behind(ring, mirrored) = 0
    BY <1>0, <2>1, <2>2 DEF Behind, Least
  <2> QED BY <2>1, <2>3, SameTail
<1>6. CASE ClearRing
  BY <1>6 DEF ClearRing, WholeInv
<1>7. CASE ClearDisk
  BY <1>7 DEF ClearDisk, WholeInv
<1>8. CASE StartFlush
  <2>1. /\ stage = "idle" /\ stage' # "cleared" /\ mirrored' = mirrored /\ ring' = ring
        /\ UNCHANGED <<pushed, expected, disk>>
    BY <1>8 DEF StartFlush
  <2> QED BY <2>1, SameTail
<1>9. CASE AdoptWithIndex
  <2>1. /\ stage' = "idle" /\ UNCHANGED disk /\ expected' = expected \cap ToSet(OnDisk)
    BY <1>9 DEF AdoptWithIndex
  <2>2. OnDisk' = OnDisk
    BY <2>1 DEF disk, OnDisk
  <2> QED BY <2>1, <2>2 DEF WholeInv
<1>10. CASE RebuildIndex
  BY <1>10, RebuildLosesNothing
<1>11. CASE ReadPair \/ ReadLen \/ UNCHANGED tvars
  <2>1. UNCHANGED <<stage, expected, ring, mirrored, file, index>>
    BY <1>11 DEF ReadPair, ReadLen, tvars, disk
  <2> QED BY <2>1 DEF WholeInv, OnDisk, Unmirrored
<1> QED BY <1>1, <1>2, <1>3, <1>4, <1>5, <1>6, <1>7, <1>8, <1>9, <1>10, <1>11 DEF TNext

\* What the history shows between two reads, in order whatever is read.
LEMMA ShownInOrder ==
  ASSUME HistoryInv, stage = "idle"
  PROVE  LET seen == OnDisk \o Unmirrored
         IN /\ \A i, j \in DOMAIN seen :
                 i < j /\ seen[i] # 0 /\ seen[j] # 0 => seen[i] < seen[j]
            /\ ToSet(seen) = ToSet(OnDisk) \cup ToSet(Unmirrored)
<1> DEFINE d == OnDisk
           r == Unmirrored
           b == Behind(ring, mirrored)
           K == Len(index)
           seen == d \o r
<1>1. /\ pushed \in 0..MaxRows /\ pushed \in Nat /\ mirrored \in Nat
      /\ Consecutive(ring, pushed) /\ file \in Seq(FileUnit(pushed))
  BY RowFacts DEF HistoryInv, HistoryTypes
<1>2. Indexed(file, index, size) /\ \A i \in 1..K : d[i] <= pushed - b
  BY Names DEF HistoryInv, DiskInv
<1>3. K \in Nat /\ DOMAIN d = 1..K /\ \A i \in 1..K : d[i] \in 0..pushed
  BY <1>1, <1>2, ShownRows, Names
<1>4. \A i, j \in 1..K : i < j /\ d[i] # 0 /\ d[j] # 0 => d[i] < d[j]
  BY Zenon, <1>2, Names DEF Indexed
<1>5. /\ b \in 0..Len(ring) /\ Len(ring) \in 0..pushed
      /\ r \in Seq(Lines) /\ Len(r) = b /\ \A j \in 1..b : r[j] = pushed - b + j
  BY <1>1, RestFacts, Names
<1>6. d \in [1..K -> Int]
  <2>1. d = [i \in 1..K |-> d[i]]
    BY <1>3 DEF OnDisk
  <2>2. \A i \in 1..K : d[i] \in Int
    BY <1>1, <1>3
  <2> HIDE DEF d
  <2> QED BY <2>1, <2>2
<1> HIDE DEF d, r, b, K
<1>7. b \in Nat /\ b <= pushed /\ \A j \in 1..b : r[j] \in Int
  BY <1>1, <1>5
<1>8. d \in Seq(Int) /\ Len(d) = K
  BY <1>3, <1>6
<1>9. r \in Seq(Int)
  <2>1. r \in [1..b -> Int]
    <3>1. r = [j \in 1..Len(r) |-> r[j]]
      BY <1>5
    <3> QED BY <1>5, <1>7, <3>1
  <2> QED BY <1>7, <2>1
<1>10. /\ seen \in Seq(Int) /\ Len(seen) = Len(d) + Len(r)
       /\ \A i \in 1..(Len(d) + Len(r)) : seen[i] = IF i <= Len(d) THEN d[i] ELSE r[i - Len(d)]
  BY <1>8, <1>9, ConcatProperties
<1>11. ToSet(seen) = ToSet(d) \cup ToSet(r)
  <2>1. DOMAIN seen = 1..(K + b) /\ DOMAIN r = 1..b /\ DOMAIN d = 1..K
    BY <1>3, <1>5, <1>8, <1>9, <1>10, LenProperties
  <2> HIDE DEF seen
  <2>2. \A i \in 1..(K + b) : seen[i] = IF i <= K THEN d[i] ELSE r[i - K]
    BY <1>5, <1>8, <1>10
  <2>3. ToSet(seen) = {seen[i] : i \in 1..(K + b)} /\ ToSet(d) = {d[i] : i \in 1..K}
        /\ ToSet(r) = {r[i] : i \in 1..b}
    BY <2>1 DEF ToSet
  <2>4. ASSUME NEW e \in ToSet(seen) PROVE e \in ToSet(d) \cup ToSet(r)
    <3>1. PICK i \in 1..(K + b) : e = seen[i]
      BY <2>3
    <3>2. CASE i <= K
      <4>1. i \in 1..K /\ e = d[i]
        BY <1>3, <1>7, <2>2, <3>1, <3>2
      <4> QED BY <2>3, <4>1
    <3>3. CASE ~(i <= K)
      <4>1. i - K \in 1..b /\ e = r[i - K]
        BY <1>3, <1>7, <2>2, <3>1, <3>3
      <4> QED BY <2>3, <4>1
    <3> QED BY <3>2, <3>3
  <2>5. ASSUME NEW e \in ToSet(d) PROVE e \in ToSet(seen)
    <3>1. PICK i \in 1..K : e = d[i]
      BY <2>3
    <3>2. i \in 1..(K + b) /\ seen[i] = e
      BY <1>3, <1>7, <2>2, <3>1
    <3> QED BY <2>3, <3>2
  <2>6. ASSUME NEW e \in ToSet(r) PROVE e \in ToSet(seen)
    <3>1. PICK i \in 1..b : e = r[i]
      BY <2>3
    <3>2. K + i \in 1..(K + b) /\ ~(K + i <= K) /\ (K + i) - K = i
      BY <1>3, <1>7
    <3>3. seen[K + i] = e
      BY <2>2, <3>1, <3>2
    <3> QED BY <2>3, <3>2, <3>3
  <2> QED BY <2>4, <2>5, <2>6
<1>12. ASSUME NEW i \in DOMAIN seen, NEW j \in DOMAIN seen, i < j, seen[i] # 0, seen[j] # 0
       PROVE  seen[i] < seen[j]
  <2>1. i \in 1..(K + b) /\ j \in 1..(K + b)
    BY <1>5, <1>8, <1>10, LenProperties
  <2> HIDE DEF seen
  <2>2. \A k \in 1..(K + b) : seen[k] = IF k <= K THEN d[k] ELSE r[k - K]
    BY <1>5, <1>8, <1>10
  <2>3. CASE j <= K
    <3>1. i \in 1..K /\ j \in 1..K /\ seen[i] = d[i] /\ seen[j] = d[j]
      BY <1>3, <1>7, <1>12, <2>1, <2>2, <2>3
    <3> QED BY <1>4, <1>12, <3>1
  <2>4. CASE ~(j <= K)
    <3>1. j - K \in 1..b /\ seen[j] = r[j - K]
      BY <1>3, <1>7, <2>1, <2>2, <2>4
    <3>2. seen[j] = pushed - b + (j - K)
      BY <1>5, <3>1
    <3>3. CASE i <= K
      <4>1. i \in 1..K /\ seen[i] = d[i]
        BY <1>3, <1>7, <2>1, <2>2, <3>3
      <4>2. d[i] <= pushed - b /\ d[i] \in Int
        BY <1>2, <1>3, <4>1
      <4> QED BY <1>1, <1>3, <1>7, <3>1, <3>2, <4>1, <4>2
    <3>4. CASE ~(i <= K)
      <4>1. i - K \in 1..b /\ seen[i] = r[i - K]
        BY <1>3, <1>7, <2>1, <2>2, <3>4
      <4>2. seen[i] = pushed - b + (i - K)
        BY <1>5, <4>1
      <4> QED BY <1>1, <1>3, <1>7, <1>12, <2>1, <3>2, <4>2
    <3> QED BY <3>3, <3>4
  <2> QED BY <2>3, <2>4
<1> QED BY <1>11, <1>12 DEF d, r

\* The lines of the file and then the rows that are not on it repeat no row and
\* are in order, however the PTY is read and whatever fails: trims, writes made
\* again over what an earlier one left, upgrades and rebuilt indexes.
HistoryInOrder ==
  stage = "idle" =>
    LET seen == OnDisk \o Unmirrored
    IN \A i, j \in DOMAIN seen : i < j /\ seen[i] # 0 /\ seen[j] # 0 => seen[i] < seen[j]

THEOREM HistoryOrdered == TSpec => []HistoryInOrder
<1>1. HistoryInv => HistoryInOrder
  BY Zenon, ShownInOrder DEF HistoryInOrder
<1> QED BY <1>1, HistoryInvariant, PTL

\* Nor do they miss any, as long as no read of the PTY holds an ED 3 and rows
\* after it, which the code does lose (PrintAfterErase): every row nobody erased
\* and no crash took is there between two reads.
THEOREM HistoryWhole == PrintAfterErase = FALSE => (TSpec => []HistoryIsWhole)
<1> SUFFICES ASSUME PrintAfterErase = FALSE PROVE TSpec => []HistoryIsWhole
  OBVIOUS
<1>1. TInit => WholeInv
  BY DEF TInit, WholeInv
<1>2. HistoryInv /\ WholeInv /\ [TNext]_tvars /\ HistoryInv' => WholeInv'
  BY WholeStep
<1>3. HistoryInv /\ WholeInv => HistoryIsWhole
  BY Zenon, ShownInOrder DEF WholeInv, HistoryIsWhole
<1> QED BY <1>1, <1>2, <1>3, HistoryInvariant, PTL DEF TSpec
===============================================================================

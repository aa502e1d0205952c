--------------------------- MODULE HeadTailProofs ---------------------------
(***************************************************************************)
(* Theorems about Commands: what head and tail print, for any options,     *)
(* inputs of any length, read in any pieces, and buffers of any size.      *)
(***************************************************************************)
EXTENDS CommandsProofs

-----------------------------------------------------------------------------
(* head and tail: line ends *)

\* How many of the first m bytes of d are line ends.
EndsIn(d, le, m) == Cardinality({i \in Ends(d, le) : i <= m})

\* Line ends are positions, finitely many.
LEMMA EndsType ==
    ASSUME NEW S, NEW d \in Seq(S), NEW le
    PROVE  /\ Ends(d, le) \subseteq 1..Len(d) /\ IsFiniteSet(Ends(d, le)) /\ Len(d) \in Nat
           /\ Cardinality(Ends(d, le)) \in Nat
           /\ EndsIn(d, le, 0) = 0 /\ EndsIn(d, le, Len(d)) = Cardinality(Ends(d, le))
           /\ \A m : EndsIn(d, le, m) \in Nat
<1>1. Len(d) \in Nat /\ DOMAIN d = 1..Len(d)
  BY LenProperties
<1>2. Ends(d, le) \subseteq 1..Len(d)
  BY <1>1 DEF Ends
<1>3. IsFiniteSet(Ends(d, le)) /\ Cardinality(Ends(d, le)) \in Nat
  <2>1. IsFiniteSet(1..Len(d))
    BY <1>1, FS_Interval
  <2>2. IsFiniteSet(Ends(d, le))
    BY <1>2, <2>1, FS_Subset
  <2> QED BY <2>2, FS_CardinalityType
<1>4. EndsIn(d, le, 0) = 0
  <2>1. {i \in Ends(d, le) : i <= 0} = {}
    BY <1>1, <1>2
  <2> QED BY <2>1, FS_EmptySet DEF EndsIn
<1>5. EndsIn(d, le, Len(d)) = Cardinality(Ends(d, le))
  <2>1. {i \in Ends(d, le) : i <= Len(d)} = Ends(d, le)
    BY <1>1, <1>2
  <2> QED BY <2>1 DEF EndsIn
<1>6. ASSUME NEW m PROVE EndsIn(d, le, m) \in Nat
  <2>1. {i \in Ends(d, le) : i <= m} \subseteq Ends(d, le)
    OBVIOUS
  <2> QED BY <1>3, <2>1, FS_Subset, FS_CardinalityType DEF EndsIn
<1> QED BY <1>1, <1>2, <1>3, <1>4, <1>5, <1>6

\* One byte more.
LEMMA EndsStep ==
    ASSUME NEW S, NEW d \in Seq(S), NEW le, NEW m \in Nat
    PROVE  EndsIn(d, le, m + 1) = IF m + 1 \in Ends(d, le) THEN EndsIn(d, le, m) + 1 ELSE EndsIn(d, le, m)
<1> DEFINE before == {i \in Ends(d, le) : i <= m}
           now == {i \in Ends(d, le) : i <= m + 1}
<1>1. Ends(d, le) \subseteq 1..Len(d) /\ IsFiniteSet(Ends(d, le)) /\ Len(d) \in Nat
  BY EndsType
<1>2. IsFiniteSet(before)
  BY <1>1, FS_Subset
<1>3. \A i \in Ends(d, le) : i <= m + 1 <=> i <= m \/ i = m + 1
  BY <1>1
<1>4. m + 1 \notin before
  OBVIOUS
<1>5. now = IF m + 1 \in Ends(d, le) THEN before \cup {m + 1} ELSE before
  BY <1>3
<1> HIDE DEF before, now
<1>6. Cardinality(now) = IF m + 1 \in Ends(d, le) THEN Cardinality(before) + 1 ELSE Cardinality(before)
  BY <1>2, <1>4, <1>5, FS_AddElement
<1> QED BY <1>6 DEF EndsIn, before, now

\* More bytes do not have fewer line ends, and one more if the last is one.
LEMMA EndsGrow ==
    ASSUME NEW S, NEW d \in Seq(S), NEW le, NEW m \in Nat, NEW n \in Nat, m <= n
    PROVE  /\ EndsIn(d, le, m) <= EndsIn(d, le, n)
           /\ m < n /\ n \in Ends(d, le) => EndsIn(d, le, m) < EndsIn(d, le, n)
<1> DEFINE before == {i \in Ends(d, le) : i <= m}
           now == {i \in Ends(d, le) : i <= n}
<1>1. Ends(d, le) \subseteq 1..Len(d) /\ IsFiniteSet(Ends(d, le)) /\ Len(d) \in Nat
  BY EndsType
<1>2. IsFiniteSet(now)
  BY <1>1, FS_Subset
<1>3. before \subseteq now
  BY <1>1
<1>4. m < n /\ n \in Ends(d, le) => n \in now /\ n \notin before
  OBVIOUS
<1>5. Cardinality(before) <= Cardinality(now) /\ (Cardinality(before) = Cardinality(now) => before = now)
      /\ IsFiniteSet(before)
  BY <1>2, <1>3, FS_Subset
<1>6. Cardinality(before) \in Nat /\ Cardinality(now) \in Nat
  BY <1>2, <1>5, FS_CardinalityType
<1>7. m < n /\ n \in Ends(d, le) => before # now
  BY <1>4
<1> HIDE DEF before, now
<1>8. m < n /\ n \in Ends(d, le) => Cardinality(before) < Cardinality(now)
  BY <1>5, <1>6, <1>7
<1> QED BY <1>5, <1>8 DEF EndsIn, before, now

\* The k-th line end.
LEMMA NthEndIs ==
    ASSUME NEW S, NEW d \in Seq(S), NEW le
    PROVE  /\ \A k \in 1..Cardinality(Ends(d, le)) :
                NthEnd(d, le, k) \in Ends(d, le) /\ EndsIn(d, le, NthEnd(d, le, k)) = k
           /\ \A i \in Ends(d, le) : NthEnd(d, le, EndsIn(d, le, i)) = i
<1>1. /\ Ends(d, le) \subseteq 1..Len(d) /\ Len(d) \in Nat /\ Cardinality(Ends(d, le)) \in Nat
      /\ EndsIn(d, le, 0) = 0 /\ EndsIn(d, le, Len(d)) = Cardinality(Ends(d, le))
      /\ \A m : EndsIn(d, le, m) \in Nat
  BY EndsType
<1>2. \A k : NthEnd(d, le, k) = CHOOSE i \in Ends(d, le) : EndsIn(d, le, i) = k
  BY DEF NthEnd, EndsIn
<1>3. ASSUME NEW k \in 1..Cardinality(Ends(d, le))
      PROVE  \E i \in Ends(d, le) : EndsIn(d, le, i) = k
  <2> DEFINE reached == {m \in Nat : EndsIn(d, le, m) >= k}
  <2>1. k \in Nat /\ k >= 1
    BY <1>1
  <2>2. Len(d) \in reached
    BY <1>1, <2>1
  <2>3. PICK x \in reached : \A y \in reached : x <= y
    BY <2>2, Least
  <2>4. x \in Nat /\ EndsIn(d, le, x) >= k
    BY <2>3
  <2>5. x # 0
    BY <1>1, <2>1, <2>4
  <2>6. x - 1 \in Nat /\ (x - 1) + 1 = x /\ ~(x <= x - 1)
    BY <2>4, <2>5
  <2>7. ~(EndsIn(d, le, x - 1) >= k)
    BY <2>3, <2>6
  <2>8. EndsIn(d, le, x) = IF x \in Ends(d, le) THEN EndsIn(d, le, x - 1) + 1 ELSE EndsIn(d, le, x - 1)
    BY <2>6, EndsStep
  <2>9. EndsIn(d, le, x) \in Nat /\ EndsIn(d, le, x - 1) \in Nat
    BY <1>1
  <2> QED BY <2>1, <2>4, <2>7, <2>8, <2>9
<1>4. ASSUME NEW i \in Ends(d, le), NEW j \in Ends(d, le), EndsIn(d, le, i) = EndsIn(d, le, j)
      PROVE  i = j
  <2>1. i \in Nat /\ j \in Nat /\ EndsIn(d, le, i) \in Nat
    BY <1>1
  <2>2. CASE i < j
    <3>1. EndsIn(d, le, i) < EndsIn(d, le, j)
      BY <2>1, <2>2, EndsGrow
    <3> QED BY <1>4, <2>1, <3>1
  <2>3. CASE j < i
    <3>1. EndsIn(d, le, j) < EndsIn(d, le, i)
      BY <2>1, <2>3, EndsGrow
    <3> QED BY <1>4, <2>1, <3>1
  <2> QED BY <2>1, <2>2, <2>3
<1>5. \A k \in 1..Cardinality(Ends(d, le)) :
        NthEnd(d, le, k) \in Ends(d, le) /\ EndsIn(d, le, NthEnd(d, le, k)) = k
  BY <1>2, <1>3
<1>6. \A i \in Ends(d, le) : NthEnd(d, le, EndsIn(d, le, i)) = i
  <2> TAKE i \in Ends(d, le)
  <2>1. NthEnd(d, le, EndsIn(d, le, i)) \in Ends(d, le)
        /\ EndsIn(d, le, NthEnd(d, le, EndsIn(d, le, i))) = EndsIn(d, le, i)
    BY <1>2
  <2> QED BY <1>4, <2>1
<1> QED BY <1>5, <1>6

\* The line ends of a block of d.
IsBlock(b, d, from, n) == from + n <= Len(d) /\ b = SubSeq(d, from + 1, from + n)
\* The line ends of a block are those of the input that fall into it.
LEMMA EndsOfBlock ==
    ASSUME NEW S, NEW d \in Seq(S), NEW le, NEW from \in Nat, NEW n \in Nat, NEW b, IsBlock(b, d, from, n)
    PROVE  /\ b \in Seq(S) /\ Len(b) = n
           /\ \A i \in 1..n : b[i] = d[from + i] /\ (i \in Ends(b, le) <=> from + i \in Ends(d, le))
           /\ \A j \in 0..n : EndsIn(d, le, from) + EndsIn(b, le, j) = EndsIn(d, le, from + j)
           /\ EndsIn(d, le, from) + Cardinality(Ends(b, le)) = EndsIn(d, le, from + n)
<1>1. Len(d) \in Nat /\ DOMAIN d = 1..Len(d) /\ from + n <= Len(d) /\ b = SubSeq(d, from + 1, from + n)
  BY LenProperties DEF IsBlock
<1>2. from + 1 \in Nat \ {0} /\ from + n \in Nat /\ (from + n) - (from + 1) + 1 = n
      /\ (from + 1 <= from + n <=> n > 0)
  OBVIOUS
<1>3. b \in Seq(S) /\ Len(b) = (IF from + 1 <= from + n THEN (from + n) - (from + 1) + 1 ELSE 0)
      /\ \A i \in 1..((from + n) - (from + 1) + 1) : b[i] = d[from + 1 + i - 1]
  <2>1. PICK first, last : first = from + 1 /\ last = from + n
    OBVIOUS
  <2>2. first \in Nat \ {0} /\ last \in Nat /\ last <= Len(d) /\ b = SubSeq(d, first, last)
    BY <1>1, <1>2, <2>1
  <2>3. /\ b \in Seq(S) /\ Len(b) = (IF first <= last THEN last - first + 1 ELSE 0)
        /\ \A i \in 1..(last - first + 1) : b[i] = d[first + i - 1]
    BY <2>2, PartOf
  <2> QED BY <2>1, <2>3
<1>4. Len(b) = n
  BY <1>2, <1>3
<1>5. \A i \in 1..n : b[i] = d[from + i]
  BY <1>2, <1>3
<1>6. DOMAIN b = 1..n
  BY <1>3, <1>4, LenProperties
<1>7. ASSUME NEW i \in 1..n PROVE i \in Ends(b, le) <=> from + i \in Ends(d, le)
  <2>1. from + i \in 1..Len(d)
    BY <1>1
  <2> QED BY <1>1, <1>5, <1>6, <2>1 DEF Ends
<1> DEFINE good == {j \in Nat : EndsIn(d, le, from) + EndsIn(b, le, j) = EndsIn(d, le, from + j)}
<1>8. /\ EndsIn(b, le, 0) = 0 /\ \A m : EndsIn(d, le, m) \in Nat /\ EndsIn(b, le, m) \in Nat
      /\ EndsIn(b, le, Len(b)) = Cardinality(Ends(b, le))
  BY <1>3, EndsType
<1>9. 0 \in good
  BY <1>8
<1>10. ASSUME NEW j \in 0..(n - 1), j \in good PROVE j + 1 \in good
  <2>1. j \in Nat /\ from + j \in Nat /\ (from + j) + 1 = from + (j + 1) /\ j + 1 \in 1..n /\ j + 1 \in Nat
    OBVIOUS
  <2>2. EndsIn(b, le, j + 1) = IF j + 1 \in Ends(b, le) THEN EndsIn(b, le, j) + 1 ELSE EndsIn(b, le, j)
    BY <1>3, <2>1, EndsStep
  <2>3. EndsIn(d, le, (from + j) + 1) = IF (from + j) + 1 \in Ends(d, le) THEN EndsIn(d, le, from + j) + 1
                                        ELSE EndsIn(d, le, from + j)
    BY <2>1, EndsStep
  <2>4. j + 1 \in Ends(b, le) <=> from + (j + 1) \in Ends(d, le)
    BY <1>7, <2>1
  <2>5. EndsIn(d, le, from) + EndsIn(b, le, j) = EndsIn(d, le, from + j)
    BY <1>10
  <2>6. EndsIn(d, le, from + (j + 1)) = IF j + 1 \in Ends(b, le) THEN EndsIn(d, le, from + j) + 1
                                        ELSE EndsIn(d, le, from + j)
    BY <2>1, <2>3, <2>4
  <2>7. PICK x, y, z : x = EndsIn(d, le, from) /\ y = EndsIn(b, le, j) /\ z = EndsIn(d, le, from + j)
    OBVIOUS
  <2>8. x \in Nat /\ y \in Nat /\ z \in Nat /\ x + y = z
    BY <1>8, <2>5, <2>7
  <2>9. x + EndsIn(b, le, j + 1) = EndsIn(d, le, from + (j + 1))
    <3>1. CASE j + 1 \in Ends(b, le)
      <4>1. EndsIn(b, le, j + 1) = y + 1 /\ EndsIn(d, le, from + (j + 1)) = z + 1
        BY <2>2, <2>6, <2>7, <3>1
      <4> QED BY <2>8, <4>1
    <3>2. CASE j + 1 \notin Ends(b, le)
      <4>1. EndsIn(b, le, j + 1) = y /\ EndsIn(d, le, from + (j + 1)) = z
        BY <2>2, <2>6, <2>7, <3>2
      <4> QED BY <2>8, <4>1
    <3> QED BY <3>1, <3>2
  <2> QED BY <2>1, <2>7, <2>9
<1> HIDE DEF good
<1>11. \A j \in 0..n : j \in good
  BY <1>9, <1>10, UpTo
<1>12. \A j \in 0..n : EndsIn(d, le, from) + EndsIn(b, le, j) = EndsIn(d, le, from + j)
  BY <1>11 DEF good
<1>13. n \in 0..n
  OBVIOUS
<1> QED BY <1>3, <1>4, <1>5, <1>7, <1>8, <1>12, <1>13

\* A block consists of as many elements as were read.
LEMMA BlockType ==
    ASSUME NEW S, NEW d \in Seq(S), NEW from \in Nat, NEW n \in Nat, NEW b, IsBlock(b, d, from, n)
    PROVE  b \in Seq(S) /\ Len(b) = n
<1>1. /\ b \in Seq(S) /\ Len(b) = n
      /\ EndsIn(d, 0, from) + Cardinality(Ends(b, 0)) = EndsIn(d, 0, from + n)
  BY EndsOfBlock
<1> QED BY <1>1

\* The k-th line end of a block of d.
LEMMA NthEndOfBlock ==
    ASSUME NEW S, NEW d \in Seq(S), NEW le, NEW from \in Nat, NEW n \in Nat,
           NEW b, IsBlock(b, d, from, n), NEW k \in 1..Cardinality(Ends(b, le))
    PROVE  /\ NthEnd(b, le, k) \in 1..n /\ from + NthEnd(b, le, k) \in Ends(d, le)
           /\ EndsIn(d, le, from + NthEnd(b, le, k)) = EndsIn(d, le, from) + k
<1>1. /\ b \in Seq(S) /\ Len(b) = n
      /\ \A i \in 1..n : i \in Ends(b, le) <=> from + i \in Ends(d, le)
      /\ \A j \in 0..n : EndsIn(d, le, from) + EndsIn(b, le, j) = EndsIn(d, le, from + j)
  <2>1. b \in Seq(S) /\ Len(b) = n
    BY BlockType
  <2>2. \A i \in 1..n : b[i] = d[from + i] /\ (i \in Ends(b, le) <=> from + i \in Ends(d, le))
    BY EndsOfBlock
  <2>3. \A j \in 0..n : EndsIn(d, le, from) + EndsIn(b, le, j) = EndsIn(d, le, from + j)
    BY EndsOfBlock
  <2> QED BY <2>1, <2>2, <2>3
<1>2. NthEnd(b, le, k) \in Ends(b, le) /\ EndsIn(b, le, NthEnd(b, le, k)) = k
  BY <1>1, NthEndIs
<1>3. Ends(b, le) \subseteq 1..n
  BY <1>1, EndsType
<1>4. NthEnd(b, le, k) \in 1..n /\ NthEnd(b, le, k) \in 0..n
  BY <1>2, <1>3
<1> QED BY <1>1, <1>2, <1>4
-----------------------------------------------------------------------------
(* head and tail: parts of an input *)

\* The bytes of d behind the a-th, up to the b-th.
Piece(d, a, b) == SubSeq(d, a + 1, b)

\* A piece has the elements of the whole.
LEMMA PieceType ==
    ASSUME NEW S, NEW d \in Seq(S), NEW a \in Nat, NEW b \in Nat, a <= b, b <= Len(d)
    PROVE  Piece(d, a, b) \in Seq(S) /\ Len(Piece(d, a, b)) = b - a
<1>1. PICK m : m = a + 1 /\ m \in Nat \ {0}
  OBVIOUS
<1>2. /\ SubSeq(d, m, b) \in Seq(S)
      /\ Len(SubSeq(d, m, b)) = IF m <= b THEN b - m + 1 ELSE 0
  BY <1>1, PartOf
<1>3. Piece(d, a, b) = SubSeq(d, m, b)
  BY <1>1 DEF Piece
<1>4. (IF m <= b THEN b - m + 1 ELSE 0) = b - a
  BY <1>1
<1> QED BY <1>2, <1>3, <1>4

\* The elements of a piece.
LEMMA PieceByte ==
    ASSUME NEW S, NEW d \in Seq(S), NEW a \in Nat, NEW b \in Nat, b <= Len(d), NEW i \in Nat \ {0}, a + i <= b
    PROVE  Piece(d, a, b)[i] = d[a + i]
<1>1. PICK m : m = a + 1 /\ m \in Nat \ {0}
  OBVIOUS
<1>2. \A j \in 1..(b - m + 1) : SubSeq(d, m, b)[j] = d[m + j - 1]
  BY <1>1, PartOf
<1>3. Piece(d, a, b) = SubSeq(d, m, b)
  BY <1>1 DEF Piece
<1>4. i \in 1..(b - m + 1) /\ m + i - 1 = a + i
  BY <1>1
<1> QED BY <1>2, <1>3, <1>4

\* No bytes, and all of them.
LEMMA PieceEnds ==
    ASSUME NEW S, NEW d \in Seq(S), NEW a \in Nat, a <= Len(d)
    PROVE  Piece(d, a, a) = <<>> /\ Piece(d, 0, Len(d)) = d
<1>1. PICK n : n = Len(d) /\ n \in Nat
  BY LenProperties
<1>2. Piece(d, a, a) \in Seq(S) /\ Len(Piece(d, a, a)) = 0
  <2>1. a <= a /\ a - a = 0
    OBVIOUS
  <2> QED BY <2>1, PieceType
<1>3. Piece(d, a, a) = <<>>
  BY <1>2, EmptySeq
<1>4. PICK z : z = Piece(d, 0, n)
  OBVIOUS
<1>5. z \in Seq(S) /\ Len(z) = n
  <2>1. 0 \in Nat /\ 0 <= n /\ n <= Len(d) /\ n - 0 = n
    BY <1>1
  <2> QED BY <1>1, <1>4, <2>1, PieceType
<1>6. ASSUME NEW i \in 1..n PROVE z[i] = d[i]
  <2>1. 0 \in Nat /\ n <= Len(d) /\ i \in Nat \ {0} /\ 0 + i <= n /\ 0 + i = i
    BY <1>1
  <2> QED BY <1>1, <1>4, <2>1, PieceByte
<1>7. z = d
  BY <1>1, <1>5, <1>6, SeqEqual
<1> QED BY <1>1, <1>3, <1>4, <1>7

\* Two adjacent parts.
LEMMA PiecesJoin ==
    ASSUME NEW S, NEW d \in Seq(S), NEW a \in Nat, NEW b \in Nat, NEW c \in Nat,
           a <= b, b <= c, c <= Len(d)
    PROVE  Piece(d, a, b) \o Piece(d, b, c) = Piece(d, a, c)
<1>1. PICK x, y, z : x = Piece(d, a, b) /\ y = Piece(d, b, c) /\ z = Piece(d, a, c)
  OBVIOUS
<1>2. Len(d) \in Nat /\ b <= Len(d) /\ a <= c
  BY LenProperties
<1>3. x \in Seq(S) /\ Len(x) = b - a
  BY <1>1, <1>2, PieceType
<1>4. y \in Seq(S) /\ Len(y) = c - b
  BY <1>1, <1>2, PieceType
<1>5. z \in Seq(S) /\ Len(z) = c - a
  BY <1>1, <1>2, PieceType
<1>6. PICK w : w = x \o y
  OBVIOUS
<1>7. /\ w \in Seq(S) /\ Len(w) = Len(x) + Len(y)
      /\ \A i \in 1..Len(x) + Len(y) : w[i] = IF i <= Len(x) THEN x[i] ELSE y[i - Len(x)]
  BY <1>3, <1>4, <1>6, ConcatProperties
<1>8. Len(w) = c - a
  BY <1>3, <1>4, <1>7
<1>9. ASSUME NEW i \in 1..(c - a) PROVE w[i] = z[i]
  <2>1. i \in 1..Len(x) + Len(y) /\ i \in Nat \ {0} /\ a + i <= c
    BY <1>3, <1>4
  <2>2. z[i] = d[a + i]
    BY <1>1, <1>2, <2>1, PieceByte
  <2>3. CASE i <= Len(x)
    <3>1. a + i <= b
      BY <1>3, <2>3
    <3>2. x[i] = d[a + i]
      BY <1>1, <1>2, <2>1, <3>1, PieceByte
    <3> QED BY <1>7, <2>1, <2>2, <2>3, <3>2
  <2>4. CASE ~(i <= Len(x))
    <3>1. PICK j : j = i - Len(x) /\ j \in Nat \ {0} /\ b + j <= c /\ b + j = a + i
      BY <1>3, <2>4
    <3>2. w[i] = y[j]
      BY <1>7, <2>1, <2>4, <3>1
    <3>3. y[j] = d[b + j]
      BY <1>1, <1>2, <3>1, PieceByte
    <3> QED BY <2>2, <3>1, <3>2, <3>3
  <2> QED BY <2>3, <2>4
<1>10. w = z
  BY <1>5, <1>7, <1>8, <1>9, SeqEqual
<1> QED BY <1>1, <1>6, <1>10

\* The front of a block is a part of the whole.
LEMMA BlockFront ==
    ASSUME NEW S, NEW d \in Seq(S), NEW from \in Nat, NEW n \in Nat, NEW b, IsBlock(b, d, from, n),
           NEW k \in 0..n
    PROVE  SubSeq(b, 1, k) = Piece(d, from, from + k)
<1>1. b \in Seq(S) /\ Len(b) = n /\ from + n <= Len(d) /\ Len(d) \in Nat
  BY EndsOfBlock, LenProperties DEF IsBlock
<1>2. \A i \in 1..n : b[i] = d[from + i] /\ (i \in Ends(b, 0) <=> from + i \in Ends(d, 0))
  BY EndsOfBlock
<1>3. PICK x, z, m, o : o = 0 /\ o \in Nat /\ x = Piece(b, o, k) /\ m = from + k /\ z = Piece(d, from, m)
  OBVIOUS
<1>4. m \in Nat /\ from <= m /\ m <= Len(d) /\ m - from = k /\ k \in Nat /\ k <= Len(b) /\ k - o = k /\ o <= k
  BY <1>1, <1>3
<1>5. x \in Seq(S) /\ Len(x) = k
  <2>1. b \in Seq(S) /\ o \in Nat /\ k \in Nat /\ o <= k /\ k <= Len(b)
    BY <1>1, <1>3, <1>4
  <2>2. Piece(b, o, k) \in Seq(S) /\ Len(Piece(b, o, k)) = k - o
    BY ONLY <2>1, PieceType
  <2> QED BY <1>3, <1>4, <2>2
<1>6. z \in Seq(S) /\ Len(z) = k
  BY <1>3, <1>4, PieceType
<1>7. ASSUME NEW i \in 1..k PROVE x[i] = z[i]
  <2>1. i \in 1..n /\ i \in Nat \ {0} /\ from + i <= m /\ o + i <= k /\ o + i = i
    BY <1>3
  <2>2. x[i] = b[o + i]
    BY <1>1, <1>3, <1>4, <2>1, PieceByte
  <2>3. z[i] = d[from + i]
    BY <1>3, <1>4, <2>1, PieceByte
  <2> QED BY <1>2, <2>1, <2>2, <2>3
<1>8. x = z
  BY <1>5, <1>6, <1>7, SeqEqual
<1>9. x = SubSeq(b, 1, k)
  BY <1>3 DEF Piece
<1> QED BY <1>3, <1>8, <1>9
-----------------------------------------------------------------------------
(* head and tail: lines *)

\* Where the first k lines end.
LineAt(d, le, k) ==
    CASE k <= 0 -> 0
      [] k > Cardinality(Ends(d, le)) -> Len(d)
      [] OTHER -> NthEnd(d, le, k)

\* Where the k-th line ends: nowhere for none, at the end for too many.
LEMMA LineAtIs ==
    ASSUME NEW S, NEW d \in Seq(S), NEW le, NEW k \in Int
    PROVE  /\ LineAt(d, le, k) \in 0..Len(d)
           /\ k <= 0 => LineAt(d, le, k) = 0
           /\ k > Cardinality(Ends(d, le)) => LineAt(d, le, k) = Len(d)
           /\ \A m \in Ends(d, le) : EndsIn(d, le, m) = k => LineAt(d, le, k) = m
<1>1. /\ Ends(d, le) \subseteq 1..Len(d) /\ Len(d) \in Nat /\ Cardinality(Ends(d, le)) \in Nat
      /\ EndsIn(d, le, 0) = 0 /\ EndsIn(d, le, Len(d)) = Cardinality(Ends(d, le))
  BY EndsType
<1>2. PICK n : n = Cardinality(Ends(d, le)) /\ n \in Nat
  BY <1>1
<1>3. k <= 0 => LineAt(d, le, k) = 0
  BY <1>2 DEF LineAt
<1>4. k > n => LineAt(d, le, k) = Len(d)
  BY <1>2 DEF LineAt
<1>5. k \in 1..n => LineAt(d, le, k) = NthEnd(d, le, k)
  <2>1. k \in 1..n => ~(k <= 0) /\ ~(k > n)
    BY <1>2
  <2> QED BY <1>2, <2>1 DEF LineAt
<1>6. \A i \in 1..n : NthEnd(d, le, i) \in Ends(d, le)
  BY <1>2, NthEndIs
<1>7. ASSUME NEW m \in Ends(d, le), EndsIn(d, le, m) = k
      PROVE  LineAt(d, le, k) = m
  <2>1. m \in Nat /\ 0 < m /\ m <= Len(d) /\ 0 \in Nat /\ Len(d) \in Nat
    BY <1>1
  <2>2. EndsIn(d, le, 0) < EndsIn(d, le, m) /\ EndsIn(d, le, m) <= EndsIn(d, le, Len(d))
    BY <2>1, EndsGrow
  <2>3. k \in 1..n
    BY <1>1, <1>2, <1>7, <2>2
  <2>4. NthEnd(d, le, EndsIn(d, le, m)) = m
    BY NthEndIs
  <2> QED BY <1>5, <1>7, <2>3, <2>4
<1>8. LineAt(d, le, k) \in 0..Len(d)
  <2>1. CASE k <= 0
    <3>1. 0 \in 0..Len(d)
      BY <1>1
    <3> QED BY <1>3, <2>1, <3>1
  <2>2. CASE k > n
    <3>1. Len(d) \in 0..Len(d)
      BY <1>1
    <3> QED BY <1>4, <2>2, <3>1
  <2>3. CASE k \in 1..n
    <3>1. NthEnd(d, le, k) \in 1..Len(d)
      BY <1>1, <1>6, <2>3
    <3>2. NthEnd(d, le, k) \in 0..Len(d)
      BY <3>1
    <3> QED BY <1>5, <2>3, <3>2
  <2> QED BY <1>2, <2>1, <2>2, <2>3
<1> QED BY <1>2, <1>3, <1>4, <1>7, <1>8

\* How many lines there are; bytes behind the last line end are one too.
LinesOf(d, le) == Cardinality(Ends(d, le)) + IF d # <<>> /\ Last(d) # le THEN 1 ELSE 0

\* All lines are the whole text.
LEMMA AllLines ==
    ASSUME NEW S, NEW d \in Seq(S), NEW le
    PROVE  /\ LinesOf(d, le) \in Nat /\ LineAt(d, le, LinesOf(d, le)) = Len(d)
           /\ LinesOf(d, le) = Cardinality(Ends(d, le))
                               + IF d # <<>> /\ d[Len(d)] # le THEN 1 ELSE 0
<1>1. /\ Ends(d, le) \subseteq 1..Len(d) /\ Len(d) \in Nat /\ Cardinality(Ends(d, le)) \in Nat
      /\ EndsIn(d, le, 0) = 0 /\ EndsIn(d, le, Len(d)) = Cardinality(Ends(d, le))
  BY EndsType
<1>2. PICK n : n = Cardinality(Ends(d, le)) /\ n \in Nat
  BY <1>1
<1>3. LinesOf(d, le) = n + IF d # <<>> /\ d[Len(d)] # le THEN 1 ELSE 0
  BY <1>2 DEF LinesOf, Last
<1>4. CASE d = <<>>
  <2>1. LinesOf(d, le) = n + 0 /\ Len(d) = 0
    BY <1>3, <1>4, EmptySeq
  <2>2. n = 0 /\ LinesOf(d, le) = 0 /\ Len(d) = 0 /\ 0 <= 0 /\ 0 \in Int
    BY <1>1, <1>2, <2>1
  <2>3. LineAt(d, le, 0) = 0
    BY <2>2, LineAtIs
  <2>4. LineAt(d, le, LinesOf(d, le)) = Len(d)
    BY <2>2, <2>3
  <2>5. LinesOf(d, le) \in Nat
    BY <2>2
  <2> QED BY <1>2, <1>3, <2>4, <2>5
<1>5. CASE d # <<>> /\ d[Len(d)] # le
  <2>1. LinesOf(d, le) = n + 1
    BY <1>3, <1>5
  <2>2. LinesOf(d, le) \in Int /\ LinesOf(d, le) > n /\ LinesOf(d, le) \in Nat
    BY <1>2, <2>1
  <2> QED BY <1>2, <1>3, <2>2, LineAtIs
<1>6. CASE d # <<>> /\ d[Len(d)] = le
  <2>1. LinesOf(d, le) = n
    BY <1>2, <1>3, <1>6
  <2>2. Len(d) \in 1..Len(d)
    BY <1>1, <1>6, EmptySeq
  <2>3. Len(d) \in Ends(d, le)
    BY <1>6, <2>2, LenProperties DEF Ends
  <2>4. LinesOf(d, le) \in Int /\ EndsIn(d, le, Len(d)) = LinesOf(d, le)
    BY <1>1, <1>2, <2>1
  <2> QED BY <1>2, <1>3, <2>1, <2>3, <2>4, LineAtIs
<1> QED BY <1>4, <1>5, <1>6
-----------------------------------------------------------------------------
(* head and tail: options *)

\* A string of digits stands for a number.
LEMMA DigitsLoop ==
    ASSUME NEW str \in Seq(Nat)
    PROVE  \E h : /\ h[0] = 0 /\ \A k \in 0..Len(str) : h[k] \in Nat
                  /\ \A k \in 1..Len(str) : h[k] = 10 * h[k - 1] + str[k]
                  /\ StringToInteger(str) = h[Len(str)]
<1> DEFINE n == Len(str)
           Pass(d, f) == 10 * f[d \ {Max(d)}] + str[Max(d)]
           Is(f) == f = [d \in SUBSET (1..n) |-> IF d = {} THEN 0 ELSE Pass(d, f)]
           step == [x \in Nat \X (1..n) |-> 10 * x[1] + str[x[2]]]
           fold == CHOOSE f : Is(f)
<1>1. n \in Nat /\ DOMAIN str = 1..n /\ \A k \in 1..n : str[k] \in Nat
  BY LenProperties, ElementOfSeq
<1>2. 0 \in Nat
  OBVIOUS
<1>3. step \in [Nat \X (1..n) -> Nat]
  BY <1>1
<1>4. \A x \in Nat, k \in 1..n : step[<<x, k>>] = 10 * x + str[k]
  OBVIOUS
<1>5. StringToInteger(str) = fold[1..n]
  BY <1>1 DEF StringToInteger, FoldLeft, MapThenFoldSet
<1> HIDE DEF n, step
<1>6. \A d \in SUBSET (1..n) : d # {} => Max(d) \in 1..n
  BY <1>1, MaxIs
<1>7. Is(fold)
  <2>1. PICK f \in [SUBSET (1..n) -> Nat] : Folding(f, Nat, 0, n, step)
    BY <1>1, <1>2, <1>3, FoldExists
  <2>2. \A d \in SUBSET (1..n) : f[d] = IF d = {} THEN 0 ELSE Pass(d, f)
    BY <1>4, <1>6, <2>1 DEF Folding
  <2>3. Is(f)
    BY <2>2
  <2> QED BY <2>3
<1> HIDE DEF fold
<1>8. Folding(fold, Nat, 0, n, step)
  <2>1. fold[{}] = 0
    BY <1>7
  <2>2. \A d \in SUBSET (1..n) : d # {} /\ fold[d \ {Max(d)}] \in Nat =>
          fold[d] = step[<<fold[d \ {Max(d)}], Max(d)>>]
    BY <1>4, <1>6, <1>7
  <2> QED BY <2>1, <2>2 DEF Folding
<1>9. PICK h : OneByOne(h, fold, Nat, 0, n, step)
  BY <1>1, <1>2, <1>3, <1>8, FoldSteps
<1>10. \A k \in 0..n : h[k] \in Nat
  BY <1>9 DEF OneByOne
<1>11. \A k \in 1..n : h[k] = 10 * h[k - 1] + str[k]
  <2> TAKE k \in 1..n
  <2>1. k - 1 \in 0..n
    BY <1>1
  <2> QED BY <1>4, <1>9, <1>10, <2>1 DEF OneByOne
<1> QED BY <1>5, <1>9, <1>10, <1>11 DEF n, OneByOne

\* string_to_integer gives a number.
LEMMA DigitsAre ==
    /\ \A str \in Seq(Nat) : StringToInteger(str) \in Nat
    /\ StringToInteger(<<1, 0>>) = 10
<1>1. ASSUME NEW str \in Seq(Nat) PROVE StringToInteger(str) \in Nat
  <2>1. PICK h : /\ h[0] = 0 /\ \A k \in 0..Len(str) : h[k] \in Nat
                 /\ StringToInteger(str) = h[Len(str)]
    BY DigitsLoop
  <2>2. Len(str) \in 0..Len(str)
    BY LenProperties
  <2> QED BY <2>1, <2>2
<1>2. StringToInteger(<<1, 0>>) = 10
  <2> DEFINE s == <<1, 0>>
  <2>1. s \in Seq(Nat) /\ Len(s) = 2 /\ s[1] = 1 /\ s[2] = 0
    OBVIOUS
  <2> HIDE DEF s
  <2>2. PICK h : /\ h[0] = 0 /\ \A k \in 1..Len(s) : h[k] = 10 * h[k - 1] + s[k]
                 /\ StringToInteger(s) = h[Len(s)]
    BY <2>1, DigitsLoop
  <2>3. h[1] = 10 * h[1 - 1] + s[1] /\ h[2] = 10 * h[2 - 1] + s[2]
    BY <2>1, <2>2
  <2>4. h[1] = 1
    BY <2>1, <2>2, <2>3
  <2>5. h[2] = 10
    BY <2>1, <2>3, <2>4
  <2> QED BY <2>1, <2>2, <2>5 DEF s
<1> QED BY <1>1, <1>2

TextSign == IF prog = "head" THEN "-" ELSE "+"
TextArgs ==
    /\ argv \in Seq(ToSet(argv))
    /\ \A k \in DOMAIN argv : LET a == argv[k] IN
         \/ a.o \in {"c", "n"} /\ a.digits \in Seq(Nat) /\ a.sign \in {"", TextSign}
         \/ a.o \in {"q", "v", "z"}
         \/ a.o \in {"f", "s"} /\ prog = "tail"
TextOptions ==
    [bytes : BOOLEAN, elide : BOOLEAN, num : Nat, q : BOOLEAN, v : BOOLEAN,
     line_end : {Newline, "nul"}, first_line : {TRUE}]

\* What an option changes.
Effect(x, y, a) ==
    LET number == a.o \in {"c", "n"} IN
    /\ y.bytes = IF number THEN a.o = "c" ELSE x.bytes
    /\ y.elide = IF number THEN a.sign = TextSign ELSE x.elide
    /\ y.num = IF number THEN StringToInteger(a.digits) ELSE x.num
    /\ y.q = IF a.o = "q" THEN TRUE ELSE x.q
    /\ y.v = IF a.o = "v" THEN TRUE ELSE x.v
    /\ y.line_end = IF a.o = "z" THEN "nul" ELSE x.line_end

\* An option changes the settings it is about and no other.
LEMMA TextOptionType ==
    ASSUME TextArgs, NEW s \in TextOptions, NEW i \in DOMAIN argv
    PROVE  /\ prog = "head" => HeadOption(s, argv[i]) \in TextOptions
                               /\ Effect(s, HeadOption(s, argv[i]), argv[i])
           /\ prog = "tail" => TailOption(s, argv[i]) \in TextOptions
                               /\ Effect(s, TailOption(s, argv[i]), argv[i])
<1> DEFINE a == argv[i]
<1>1. \/ a.o \in {"c", "n"} /\ a.digits \in Seq(Nat)
      \/ a.o \in {"q", "v", "z"}
      \/ a.o \in {"f", "s"} /\ prog = "tail"
  BY DEF TextArgs
<1>2. a.o \in {"c", "n"} => StringToInteger(a.digits) \in Nat
  BY <1>1, DigitsAre
<1> HIDE DEF a
<1> DEFINE number == StringToInteger(a.digits)
<1>3. a.o \in {"c", "n"} => number \in Nat
  BY <1>2
<1> HIDE DEF number
<1>4. CASE prog = "head"
  <2>1. TextSign = "-"
    BY <1>4 DEF TextSign
  <2>2. HeadOption(s, a) =
          CASE a.o \in {"c", "n"} -> [s EXCEPT !.bytes = (a.o = "c"), !.elide = (a.sign = "-"), !.num = number]
            [] a.o = "q" -> [s EXCEPT !.q = TRUE]
            [] a.o = "v" -> [s EXCEPT !.v = TRUE]
            [] a.o = "z" -> [s EXCEPT !.line_end = "nul"]
    BY DEF HeadOption, number
  <2>3. CASE a.o \in {"c", "n"}
    <3>1. HeadOption(s, a) = [s EXCEPT !.bytes = (a.o = "c"), !.elide = (a.sign = "-"), !.num = number]
      BY <2>2, <2>3
    <3>2. HeadOption(s, a) \in TextOptions
      BY <1>3, <2>3, <3>1 DEF TextOptions
    <3> QED BY <2>1, <2>3, <3>1, <3>2, <1>4 DEF Effect, TextOptions, a, number
  <2>4. CASE a.o = "q"
    BY <1>4, <2>2, <2>4 DEF Effect, TextOptions, a
  <2>5. CASE a.o = "v"
    BY <1>4, <2>2, <2>5 DEF Effect, TextOptions, a
  <2>6. CASE a.o = "z"
    BY <1>4, <2>2, <2>6 DEF Effect, TextOptions, a
  <2> QED BY <1>1, <1>4, <2>3, <2>4, <2>5, <2>6
<1>5. CASE prog = "tail"
  <2>1. TextSign = "+"
    BY <1>5 DEF TextSign
  <2>2. TailOption(s, a) =
          CASE a.o \in {"c", "n"} -> [s EXCEPT !.bytes = (a.o = "c"), !.elide = (a.sign = "+"), !.num = number]
            [] a.o = "q" -> [s EXCEPT !.q = TRUE]
            [] a.o = "v" -> [s EXCEPT !.v = TRUE]
            [] a.o = "z" -> [s EXCEPT !.line_end = "nul"]
            [] a.o \in {"f", "s"} -> s
    BY DEF TailOption, number
  <2>3. CASE a.o \in {"c", "n"}
    <3>1. TailOption(s, a) = [s EXCEPT !.bytes = (a.o = "c"), !.elide = (a.sign = "+"), !.num = number]
      BY <2>2, <2>3
    <3>2. TailOption(s, a) \in TextOptions
      BY <1>3, <2>3, <3>1 DEF TextOptions
    <3> QED BY <2>1, <2>3, <3>1, <3>2, <1>5 DEF Effect, TextOptions, a, number
  <2>4. CASE a.o = "q"
    BY <1>5, <2>2, <2>4 DEF Effect, TextOptions, a
  <2>5. CASE a.o = "v"
    BY <1>5, <2>2, <2>5 DEF Effect, TextOptions, a
  <2>6. CASE a.o = "z"
    BY <1>5, <2>2, <2>6 DEF Effect, TextOptions, a
  <2>7. CASE a.o \in {"f", "s"}
    <3>1. TailOption(s, a) = s
      BY <2>2, <2>7
    <3> QED BY <1>5, <2>7, <3>1 DEF Effect, a
  <2> QED BY <1>1, <1>5, <2>3, <2>4, <2>5, <2>6, <2>7
<1> QED BY <1>4, <1>5

\* The option loops.
LEMMA HeadLoop ==
    ASSUME TextArgs, prog = "head"
    PROVE  \E h : /\ h[0] = HeadDefaults
                  /\ \A k \in 0..Len(argv) : h[k] \in TextOptions
                  /\ \A k \in 1..Len(argv) : h[k] = HeadOption(h[k - 1], argv[k])
                  /\ FoldLeft(HeadOption, HeadDefaults, argv) = h[Len(argv)]
<1> DEFINE n == Len(argv)
           Pass(d, f) == HeadOption(f[d \ {Max(d)}], argv[Max(d)])
           Is(f) == f = [d \in SUBSET (1..n) |-> IF d = {} THEN HeadDefaults ELSE Pass(d, f)]
           step == [x \in TextOptions \X (1..n) |-> HeadOption(x[1], argv[x[2]])]
           fold == CHOOSE f : Is(f)
<1>1. n \in Nat /\ DOMAIN argv = 1..n
  BY LenProperties DEF TextArgs
<1>2. HeadDefaults \in TextOptions
  BY DEF HeadDefaults, TextOptions
<1>3. step \in [TextOptions \X (1..n) -> TextOptions]
  BY <1>1, TextOptionType
<1>4. \A x \in TextOptions, k \in 1..n : step[<<x, k>>] = HeadOption(x, argv[k])
  OBVIOUS
<1>5. FoldLeft(HeadOption, HeadDefaults, argv) = fold[1..n]
  BY <1>1 DEF FoldLeft, MapThenFoldSet
<1> HIDE DEF n, step
<1>6. \A d \in SUBSET (1..n) : d # {} => Max(d) \in 1..n
  BY <1>1, MaxIs
<1>7. Is(fold)
  <2>1. PICK f \in [SUBSET (1..n) -> TextOptions] : Folding(f, TextOptions, HeadDefaults, n, step)
    BY <1>1, <1>2, <1>3, FoldExists
  <2>2. \A d \in SUBSET (1..n) : f[d] = IF d = {} THEN HeadDefaults ELSE Pass(d, f)
    BY <1>4, <1>6, <2>1 DEF Folding
  <2>3. Is(f)
    BY <2>2
  <2> QED BY <2>3
<1> HIDE DEF fold
<1>8. Folding(fold, TextOptions, HeadDefaults, n, step)
  <2>1. fold[{}] = HeadDefaults
    BY <1>7
  <2>2. \A d \in SUBSET (1..n) : d # {} /\ fold[d \ {Max(d)}] \in TextOptions =>
          fold[d] = step[<<fold[d \ {Max(d)}], Max(d)>>]
    BY <1>4, <1>6, <1>7
  <2> QED BY <2>1, <2>2 DEF Folding
<1>9. PICK h : OneByOne(h, fold, TextOptions, HeadDefaults, n, step)
  BY <1>1, <1>2, <1>3, <1>8, FoldSteps
<1>10. \A k \in 0..n : h[k] \in TextOptions
  BY <1>9 DEF OneByOne
<1>11. \A k \in 1..n : h[k] = HeadOption(h[k - 1], argv[k])
  <2> TAKE k \in 1..n
  <2>1. k - 1 \in 0..n
    BY <1>1
  <2> QED BY <1>4, <1>9, <1>10, <2>1 DEF OneByOne
<1> QED BY <1>5, <1>9, <1>10, <1>11 DEF n, OneByOne

\* The option loop of tail, as a sequence of settings.
LEMMA TailLoop ==
    ASSUME TextArgs, prog = "tail"
    PROVE  \E h : /\ h[0] = TailDefaults
                  /\ \A k \in 0..Len(argv) : h[k] \in TextOptions
                  /\ \A k \in 1..Len(argv) : h[k] = TailOption(h[k - 1], argv[k])
                  /\ FoldLeft(TailOption, TailDefaults, argv) = h[Len(argv)]
<1> DEFINE n == Len(argv)
           Pass(d, f) == TailOption(f[d \ {Max(d)}], argv[Max(d)])
           Is(f) == f = [d \in SUBSET (1..n) |-> IF d = {} THEN TailDefaults ELSE Pass(d, f)]
           step == [x \in TextOptions \X (1..n) |-> TailOption(x[1], argv[x[2]])]
           fold == CHOOSE f : Is(f)
<1>1. n \in Nat /\ DOMAIN argv = 1..n
  BY LenProperties DEF TextArgs
<1>2. TailDefaults \in TextOptions
  BY DEF TailDefaults, TextOptions
<1>3. step \in [TextOptions \X (1..n) -> TextOptions]
  BY <1>1, TextOptionType
<1>4. \A x \in TextOptions, k \in 1..n : step[<<x, k>>] = TailOption(x, argv[k])
  OBVIOUS
<1>5. FoldLeft(TailOption, TailDefaults, argv) = fold[1..n]
  BY <1>1 DEF FoldLeft, MapThenFoldSet
<1> HIDE DEF n, step
<1>6. \A d \in SUBSET (1..n) : d # {} => Max(d) \in 1..n
  BY <1>1, MaxIs
<1>7. Is(fold)
  <2>1. PICK f \in [SUBSET (1..n) -> TextOptions] : Folding(f, TextOptions, TailDefaults, n, step)
    BY <1>1, <1>2, <1>3, FoldExists
  <2>2. \A d \in SUBSET (1..n) : f[d] = IF d = {} THEN TailDefaults ELSE Pass(d, f)
    BY <1>4, <1>6, <2>1 DEF Folding
  <2>3. Is(f)
    BY <2>2
  <2> QED BY <2>3
<1> HIDE DEF fold
<1>8. Folding(fold, TextOptions, TailDefaults, n, step)
  <2>1. fold[{}] = TailDefaults
    BY <1>7
  <2>2. \A d \in SUBSET (1..n) : d # {} /\ fold[d \ {Max(d)}] \in TextOptions =>
          fold[d] = step[<<fold[d \ {Max(d)}], Max(d)>>]
    BY <1>4, <1>6, <1>7
  <2> QED BY <2>1, <2>2 DEF Folding
<1>9. PICK h : OneByOne(h, fold, TextOptions, TailDefaults, n, step)
  BY <1>1, <1>2, <1>3, <1>8, FoldSteps
<1>10. \A k \in 0..n : h[k] \in TextOptions
  BY <1>9 DEF OneByOne
<1>11. \A k \in 1..n : h[k] = TailOption(h[k - 1], argv[k])
  <2> TAKE k \in 1..n
  <2>1. k - 1 \in 0..n
    BY <1>1
  <2> QED BY <1>4, <1>9, <1>10, <2>1 DEF OneByOne
<1> QED BY <1>5, <1>9, <1>10, <1>11 DEF n, OneByOne


\* What the option loop has found after k options.
TextAfter(x, k, default) ==
    LET Among(letters) == \E i \in 1..k : argv[i].o \in letters IN
    /\ x.q = Among({"q"}) /\ x.v = Among({"v"})
    /\ x.line_end = IF Among({"z"}) THEN "nul" ELSE Newline
    /\ ~Among({"c", "n"}) => ~x.bytes /\ ~x.elide /\ x.num = default
    /\ \A i \in 1..k :
         /\ argv[i].o \in {"c", "n"} /\ \A j \in (i + 1)..k : argv[j].o \notin {"c", "n"}
         => /\ x.bytes = (argv[i].o = "c") /\ x.elide = (argv[i].sign = TextSign)
            /\ x.num = StringToInteger(argv[i].digits)

\* One more option.
LEMMA TextAfterStep ==
    ASSUME NEW k \in 1..Len(argv), Len(argv) \in Nat, NEW x \in TextOptions, NEW y \in TextOptions,
           NEW default, TextAfter(x, k - 1, default), Effect(x, y, argv[k])
    PROVE  TextAfter(y, k, default)
<1> DEFINE a == argv[k]
           Already(letters) == \E i \in 1..(k - 1) : argv[i].o \in letters
           Now(letters) == \E i \in 1..k : argv[i].o \in letters
<1>1. k \in Nat /\ 1..k = (1..(k - 1)) \cup {k} /\ k \notin 1..(k - 1) /\ (k + 1)..k = {}
  OBVIOUS
<1>2. \A i \in 1..(k - 1) : (i + 1)..k = ((i + 1)..(k - 1)) \cup {k} /\ k \in (i + 1)..k
  OBVIOUS
<1>3. \A letters : Now(letters) <=> Already(letters) \/ a.o \in letters
  BY <1>1
<1>4. /\ x.q = Already({"q"}) /\ x.v = Already({"v"})
      /\ x.line_end = IF Already({"z"}) THEN "nul" ELSE Newline
      /\ ~Already({"c", "n"}) => ~x.bytes /\ ~x.elide /\ x.num = default
  BY DEF TextAfter
<1>5. \A i \in 1..(k - 1) :
         /\ argv[i].o \in {"c", "n"} /\ \A j \in (i + 1)..(k - 1) : argv[j].o \notin {"c", "n"}
         => /\ x.bytes = (argv[i].o = "c") /\ x.elide = (argv[i].sign = TextSign)
            /\ x.num = StringToInteger(argv[i].digits)
  BY DEF TextAfter
<1> HIDE DEF Now, Already
<1>6. /\ y.q = Now({"q"}) /\ y.v = Now({"v"})
      /\ y.line_end = IF Now({"z"}) THEN "nul" ELSE Newline
  <2>1. y.q = Now({"q"})
    BY <1>3, <1>4 DEF Effect, TextOptions
  <2>2. y.v = Now({"v"})
    BY <1>3, <1>4 DEF Effect, TextOptions
  <2>3. y.line_end = IF Now({"z"}) THEN "nul" ELSE Newline
    BY <1>3, <1>4 DEF Effect, TextOptions
  <2> QED BY <2>1, <2>2, <2>3
<1>7. ~Now({"c", "n"}) => ~y.bytes /\ ~y.elide /\ y.num = default
  BY <1>3, <1>4 DEF Effect, TextOptions
<1>8. ASSUME NEW i \in 1..k, argv[i].o \in {"c", "n"}, \A j \in (i + 1)..k : argv[j].o \notin {"c", "n"}
      PROVE  /\ y.bytes = (argv[i].o = "c") /\ y.elide = (argv[i].sign = TextSign)
             /\ y.num = StringToInteger(argv[i].digits)
  <2>1. CASE i = k
    BY <1>8, <2>1 DEF Effect
  <2>2. CASE i # k
    <3>1. i \in 1..(k - 1) /\ a.o \notin {"c", "n"}
      BY <1>1, <1>2, <1>8, <2>2
    <3>2. \A j \in (i + 1)..(k - 1) : argv[j].o \notin {"c", "n"}
      BY <1>2, <1>8, <3>1
    <3>3. /\ x.bytes = (argv[i].o = "c") /\ x.elide = (argv[i].sign = TextSign)
          /\ x.num = StringToInteger(argv[i].digits)
      BY <1>5, <1>8, <3>1, <3>2
    <3>4. y.bytes = x.bytes /\ y.elide = x.elide /\ y.num = x.num
      BY <3>1 DEF Effect
    <3> QED BY <3>3, <3>4
  <2> QED BY <2>1, <2>2
<1> QED BY <1>6, <1>7, <1>8 DEF TextAfter, Now

\* What it finds altogether.
Usable == prog \in {"head", "tail"} /\ (prog = "tail" => Given({"c", "n"}) # {})
\* What is asked for is the last -c or -n, or what both do without one.
LEMMA AskedIs ==
    ASSUME TextArgs
    PROVE  /\ Asked.o \in {"c", "n"} /\ Asked.sign \in {"", TextSign} /\ Count \in Nat
           /\ Given({"c", "n"}) # {} =>
                \E i \in 1..Len(argv) : /\ Asked = argv[i] /\ argv[i].o \in {"c", "n"}
                                        /\ \A j \in (i + 1)..Len(argv) : argv[j].o \notin {"c", "n"}
<1>1. DOMAIN argv = 1..Len(argv) /\ Len(argv) \in Nat
  BY LenProperties DEF TextArgs
<1>2. CASE Given({"c", "n"}) = {}
  <2>1. Asked = [o |-> "n", sign |-> "", digits |-> <<1, 0>>]
    BY <1>2 DEF Asked
  <2>2. Asked.o = "n" /\ Asked.sign = "" /\ Count = 10
    BY <2>1, DigitsAre DEF Count
  <2> QED BY <1>2, <2>2
<1>3. CASE Given({"c", "n"}) # {}
  <2>1. PICK i \in 1..Len(argv) : /\ LastGiven({"c", "n"}) = argv[i] /\ argv[i].o \in {"c", "n"}
                                  /\ \A j \in (i + 1)..Len(argv) : argv[j].o \notin {"c", "n"}
    BY <1>1, <1>3, LastGivenIs
  <2>2. Asked = argv[i]
    BY <1>3, <2>1 DEF Asked
  <2>3. argv[i].digits \in Seq(Nat) /\ argv[i].sign \in {"", TextSign}
    BY <1>1, <2>1 DEF TextArgs
  <2>4. Count \in Nat
    BY <2>2, <2>3, DigitsAre DEF Count
  <2> QED BY <2>1, <2>2, <2>3, <2>4
<1> QED BY <1>2, <1>3

TextParses(s) ==
    /\ s \in TextOptions
    /\ s.q = Has("q") /\ s.v = Has("v") /\ s.line_end = LineEnd
    /\ s.num = Count /\ s.bytes = (Asked.o = "c") /\ s.elide = (Asked.sign = TextSign)

\* The settings after the whole command line are those asked for.
LEMMA TextEnds ==
    ASSUME TextArgs, Usable, NEW s \in TextOptions, NEW default, prog = "head" => default = 10,
           TextAfter(s, Len(argv), default)
    PROVE  TextParses(s)
<1> DEFINE n == Len(argv)
<1>1. n \in Nat /\ DOMAIN argv = 1..n
  BY LenProperties DEF TextArgs
<1>2. \A letters : Given(letters) # {} <=> \E i \in 1..n : argv[i].o \in letters
  BY <1>1 DEF Given
<1>3. s.q = Has("q") /\ s.v = Has("v")
  BY <1>2 DEF TextAfter, Has, TextOptions
<1>4. s.line_end = LineEnd
  BY <1>2 DEF TextAfter, Has, LineEnd
<1>5. s.num = Count /\ s.bytes = (Asked.o = "c") /\ s.elide = (Asked.sign = TextSign)
  <2>1. CASE Given({"c", "n"}) = {}
    <3>1. prog = "head" /\ ~s.bytes /\ ~s.elide /\ s.num = 10
      BY <1>2, <2>1 DEF TextAfter, Usable
    <3>2. Asked = [o |-> "n", sign |-> "", digits |-> <<1, 0>>] /\ TextSign = "-"
      BY <2>1, <3>1 DEF Asked, TextSign
    <3>3. Asked.o = "n" /\ Asked.sign = "" /\ Count = 10
      BY <3>2, DigitsAre DEF Count
    <3>4. s.bytes = (Asked.o = "c") /\ s.elide = (Asked.sign = TextSign)
      BY <3>1, <3>2, <3>3 DEF TextOptions
    <3> QED BY <3>1, <3>3, <3>4
  <2>2. CASE Given({"c", "n"}) # {}
    <3>1. PICK i \in 1..n : /\ Asked = argv[i] /\ argv[i].o \in {"c", "n"}
                            /\ \A j \in (i + 1)..n : argv[j].o \notin {"c", "n"}
      BY <2>2, AskedIs
    <3>2. /\ s.bytes = (argv[i].o = "c") /\ s.elide = (argv[i].sign = TextSign)
          /\ s.num = StringToInteger(argv[i].digits)
      BY <3>1 DEF TextAfter
    <3> QED BY <3>1, <3>2 DEF Count
  <2> QED BY <2>1, <2>2
<1> QED BY <1>3, <1>4, <1>5 DEF TextParses

\* The settings before it.
LEMMA TextStart ==
    ASSUME NEW default
    PROVE  LET x == [bytes |-> FALSE, elide |-> FALSE, num |-> default, q |-> FALSE, v |-> FALSE,
                     line_end |-> Newline, first_line |-> TRUE]
           IN TextAfter(x, 0, default)
<1>1. 1..0 = {}
  OBVIOUS
<1> QED BY <1>1 DEF TextAfter

\* The option loop of head.
LEMMA HeadParsed ==
    ASSUME TextArgs, prog = "head"
    PROVE  TextParses(FoldLeft(HeadOption, HeadDefaults, argv))
<1> DEFINE n == Len(argv)
<1>1. n \in Nat /\ DOMAIN argv = 1..n /\ Usable
  BY LenProperties DEF TextArgs, Usable
<1>2. PICK h : /\ h[0] = HeadDefaults
               /\ \A k \in 0..Len(argv) : h[k] \in TextOptions
               /\ \A k \in 1..Len(argv) : h[k] = HeadOption(h[k - 1], argv[k])
               /\ FoldLeft(HeadOption, HeadDefaults, argv) = h[Len(argv)]
  BY HeadLoop
<1> DEFINE good == {k \in Nat : TextAfter(h[k], k, 10)}
<1>3. 0 \in good
  BY <1>2, TextStart DEF HeadDefaults
<1>4. ASSUME NEW k \in 0..(n - 1), k \in good PROVE k + 1 \in good
  <2>1. PICK l : l = k + 1 /\ l \in 1..n /\ l - 1 = k /\ k \in 0..n /\ l \in 0..n
    BY <1>1
  <2>2. TextAfter(h[l - 1], l - 1, 10) /\ h[l - 1] \in TextOptions /\ h[l] \in TextOptions
    BY <1>2, <1>4, <2>1
  <2>3. h[l] = HeadOption(h[l - 1], argv[l])
    BY <1>2, <2>1
  <2>4. Effect(h[l - 1], h[l], argv[l])
    BY <1>1, <2>1, <2>2, <2>3, TextOptionType
  <2>5. TextAfter(h[l], l, 10)
    BY <1>1, <2>1, <2>2, <2>4, TextAfterStep
  <2> QED BY <2>1, <2>5
<1> HIDE DEF good
<1>5. \A k \in 0..n : k \in good
  BY <1>1, <1>3, <1>4, UpTo
<1>6. n \in 0..n
  BY <1>1
<1>7. TextAfter(h[n], n, 10) /\ h[n] \in TextOptions
  BY <1>2, <1>5, <1>6 DEF good
<1>8. TextParses(h[n])
  BY <1>1, <1>7, TextEnds
<1> QED BY <1>2, <1>8

\* The option loop of tail, for calls that it accepts.
LEMMA TailParsed ==
    ASSUME TextArgs, Usable, prog = "tail"
    PROVE  TextParses(FoldLeft(TailOption, TailDefaults, argv))
<1> DEFINE n == Len(argv)
<1>1. n \in Nat /\ DOMAIN argv = 1..n /\ Usable
  BY LenProperties DEF TextArgs, Usable
<1>2. PICK h : /\ h[0] = TailDefaults
               /\ \A k \in 0..Len(argv) : h[k] \in TextOptions
               /\ \A k \in 1..Len(argv) : h[k] = TailOption(h[k - 1], argv[k])
               /\ FoldLeft(TailOption, TailDefaults, argv) = h[Len(argv)]
  BY TailLoop
<1> DEFINE good == {k \in Nat : TextAfter(h[k], k, 0)}
<1>3. 0 \in good
  BY <1>2, TextStart DEF TailDefaults
<1>4. ASSUME NEW k \in 0..(n - 1), k \in good PROVE k + 1 \in good
  <2>1. PICK l : l = k + 1 /\ l \in 1..n /\ l - 1 = k /\ k \in 0..n /\ l \in 0..n
    BY <1>1
  <2>2. TextAfter(h[l - 1], l - 1, 0) /\ h[l - 1] \in TextOptions /\ h[l] \in TextOptions
    BY <1>2, <1>4, <2>1
  <2>3. h[l] = TailOption(h[l - 1], argv[l])
    BY <1>2, <2>1
  <2>4. Effect(h[l - 1], h[l], argv[l])
    BY <1>1, <2>1, <2>2, <2>3, TextOptionType
  <2>5. TextAfter(h[l], l, 0)
    BY <1>1, <2>1, <2>2, <2>4, TextAfterStep
  <2> QED BY <2>1, <2>5
<1> HIDE DEF good
<1>5. \A k \in 0..n : k \in good
  BY <1>1, <1>3, <1>4, UpTo
<1>6. n \in 0..n
  BY <1>1
<1>7. TextAfter(h[n], n, 0) /\ h[n] \in TextOptions
  BY <1>2, <1>5, <1>6 DEF good
<1>8. TextParses(h[n])
  BY <1>1, <1>7, TextEnds
<1> QED BY <1>2, <1>8
-----------------------------------------------------------------------------
(* head and tail: what one input is to give *)

\* A call of head or tail, for one of its inputs.
TextBytes == UNION {ToSet(fs[k].data) : k \in DOMAIN fs}
TextFiles == [kind : {"file", "pipe"}, data : Seq(TextBytes)] \cup [kind : {"dir", "missing"}, data : {<<>>}]
TextCall(k) ==
    [prog |-> prog, o |-> Asked.o, elide |-> Asked.sign # "", num |-> Count, le |-> LineEnd,
     d |-> fs[k].data, kind |-> fs[k].kind]

\* The part of the input that is to be written: the bytes behind Begin, up to Close.
Begin(c) ==
    CASE c.prog = "head" -> 0
      [] c.prog = "tail" /\ c.o = "n" /\ ~c.elide -> LineAt(c.d, c.le, LinesOf(c.d, c.le) - c.num)
      [] c.prog = "tail" /\ c.o = "n" /\ c.elide -> LineAt(c.d, c.le, c.num - 1)
      [] c.prog = "tail" /\ c.o = "c" /\ ~c.elide -> IF c.num < Len(c.d) THEN Len(c.d) - c.num ELSE 0
      [] c.prog = "tail" /\ c.o = "c" /\ c.elide ->
           IF c.num = 0 THEN 0 ELSE IF c.num > Len(c.d) THEN Len(c.d) ELSE c.num - 1
Close(c) ==
    CASE c.prog = "tail" -> Len(c.d)
      [] c.prog = "head" /\ c.o = "n" /\ ~c.elide -> LineAt(c.d, c.le, c.num)
      [] c.prog = "head" /\ c.o = "n" /\ c.elide -> LineAt(c.d, c.le, LinesOf(c.d, c.le) - c.num)
      [] c.prog = "head" /\ c.o = "c" /\ ~c.elide -> IF c.num < Len(c.d) THEN c.num ELSE Len(c.d)
      [] c.prog = "head" /\ c.o = "c" /\ c.elide -> IF c.num < Len(c.d) THEN Len(c.d) - c.num ELSE 0

\* What an input is to give lies in it.
LEMMA PartIsThere ==
    ASSUME NEW c, NEW S, c.d \in Seq(S), c.num \in Nat, c.o \in {"c", "n"}, c.elide \in BOOLEAN,
           c.prog \in {"head", "tail"}
    PROVE  Begin(c) \in Nat /\ Close(c) \in Nat /\ Begin(c) <= Close(c) /\ Close(c) <= Len(c.d)
<1>1. PICK len : len = Len(c.d) /\ len \in Nat
  BY LenProperties
<1>2. \A k \in Int : LineAt(c.d, c.le, k) \in 0..len
  BY <1>1, LineAtIs
<1>3. LinesOf(c.d, c.le) - c.num \in Int /\ c.num - 1 \in Int /\ c.num \in Int
  <2>1. LinesOf(c.d, c.le) \in Nat
    BY AllLines
  <2> QED BY <2>1
<1>4. /\ LineAt(c.d, c.le, LinesOf(c.d, c.le) - c.num) \in 0..len
      /\ LineAt(c.d, c.le, c.num - 1) \in 0..len /\ LineAt(c.d, c.le, c.num) \in 0..len
  BY <1>2, <1>3
<1>5. CASE c.prog = "head"
  <2>1. Begin(c) = 0
    BY <1>5 DEF Begin
  <2>2. Close(c) \in 0..len
    <3>1. CASE c.o = "n"
      BY <1>4, <1>5, <3>1 DEF Close
    <3>2. CASE c.o = "c"
      BY <1>1, <1>5, <3>2 DEF Close
    <3> QED BY <3>1, <3>2
  <2> QED BY <1>1, <2>1, <2>2
<1>6. CASE c.prog = "tail"
  <2>1. Close(c) = len
    BY <1>1, <1>6 DEF Close
  <2>2. Begin(c) \in 0..len
    <3>1. CASE c.o = "n"
      BY <1>4, <1>6, <3>1 DEF Begin
    <3>2. CASE c.o = "c"
      BY <1>1, <1>6, <3>2 DEF Begin
    <3> QED BY <3>1, <3>2
  <2> QED BY <1>1, <2>1, <2>2
<1> QED BY <1>5, <1>6

\* The first k lines as a piece.
LEMMA FirstLinesIs ==
    ASSUME NEW S, NEW d \in Seq(S), NEW k \in Int
    PROVE  FirstLines(d, k) = Piece(d, 0, LineAt(d, LineEnd, k))
<1>1. Len(d) \in Nat /\ Cardinality(Ends(d, LineEnd)) \in Nat
  BY EndsType
<1>2. Piece(d, 0, 0) = <<>> /\ Piece(d, 0, Len(d)) = d
  <2>1. 0 \in Nat /\ 0 <= Len(d)
    BY <1>1
  <2> QED BY <2>1, PieceEnds
<1>3. \A m : SubSeq(d, 1, m) = Piece(d, 0, m)
  <2>1. 0 + 1 = 1
    OBVIOUS
  <2> QED BY <2>1 DEF Piece
<1>4. CASE k <= 0
  BY <1>1, <1>2, <1>4 DEF FirstLines, LineAt
<1>5. CASE k > Cardinality(Ends(d, LineEnd))
  BY <1>1, <1>2, <1>5 DEF FirstLines, LineAt
<1>6. CASE ~(k <= 0) /\ ~(k > Cardinality(Ends(d, LineEnd)))
  <2>1. LineAt(d, LineEnd, k) = NthEnd(d, LineEnd, k)
    BY <1>6 DEF LineAt
  <2>2. FirstLines(d, k) = SubSeq(d, 1, NthEnd(d, LineEnd, k))
    BY <1>6 DEF FirstLines
  <2> QED BY <1>3, <2>1, <2>2
<1> QED BY <1>4, <1>5, <1>6

\* What the usage texts ask for is that part.
LEMMA HeadTextIs ==
    ASSUME NEW S, NEW k, fs[k].data \in Seq(S), prog = "head", TextArgs
    PROVE  HeadText(fs[k].data) = Piece(fs[k].data, 0, Close(TextCall(k)))
<1> DEFINE c == TextCall(k)
<1>1. PICK d, n : d = fs[k].data /\ d \in Seq(S) /\ n = Len(d) /\ n \in Nat
  BY LenProperties
<1>2. /\ c.d = d /\ c.prog = "head" /\ c.o = Asked.o /\ c.elide = (Asked.sign # "") /\ c.num = Count
      /\ c.le = LineEnd
  BY <1>1 DEF TextCall
<1> HIDE DEF c
<1>3. Asked.o \in {"c", "n"} /\ Count \in Nat
  BY AskedIs
<1>4. LineCount(d) = LinesOf(d, LineEnd) /\ LinesOf(d, LineEnd) \in Nat
  BY <1>1, AllLines DEF LineCount, LinesOf
<1>5. LineCount(d) - Count \in Int /\ Count \in Int
  BY <1>3, <1>4
<1>6. \A m : SubSeq(d, 1, m) = Piece(d, 0, m)
  <2>1. 0 + 1 = 1
    OBVIOUS
  <2> QED BY <2>1 DEF Piece
<1>7. CASE Asked.o = "n" /\ Asked.sign = ""
  <2>1. HeadText(d) = FirstLines(d, Count)
    BY <1>7 DEF HeadText
  <2>2. Close(c) = LineAt(d, LineEnd, Count)
    BY <1>2, <1>7 DEF Close
  <2> QED BY <1>1, <1>5, <2>1, <2>2, FirstLinesIs DEF c
<1>8. CASE Asked.o = "n" /\ Asked.sign # ""
  <2>1. HeadText(d) = FirstLines(d, LineCount(d) - Count)
    BY <1>8 DEF HeadText
  <2>2. Close(c) = LineAt(d, LineEnd, LineCount(d) - Count)
    BY <1>2, <1>4, <1>8 DEF Close
  <2> QED BY <1>1, <1>5, <2>1, <2>2, FirstLinesIs DEF c
<1>9. CASE Asked.o = "c" /\ Asked.sign = ""
  <2>1. HeadText(d) = SubSeq(d, 1, Min({Count, n}))
    BY <1>1, <1>9 DEF HeadText
  <2>2. Min({Count, n}) = IF Count <= n THEN Count ELSE n
    BY <1>1, <1>3, OfTwo
  <2>3. Close(c) = IF Count < n THEN Count ELSE n
    BY <1>1, <1>2, <1>9 DEF Close
  <2>4. Close(c) = Min({Count, n})
    BY <1>1, <1>3, <2>2, <2>3
  <2> QED BY <1>1, <1>6, <2>1, <2>4 DEF c
<1>10. CASE Asked.o = "c" /\ Asked.sign # ""
  <2>1. HeadText(d) = SubSeq(d, 1, n - Count)
    BY <1>1, <1>10 DEF HeadText
  <2>2. Close(c) = IF Count < n THEN n - Count ELSE 0
    BY <1>1, <1>2, <1>10 DEF Close
  <2>3. CASE Count < n
    <3>1. Close(c) = n - Count
      BY <2>2, <2>3
    <3> QED BY <1>1, <1>6, <2>1, <3>1 DEF c
  <2>4. CASE ~(Count < n)
    <3>1. n - Count \in Int /\ n - Count < 1 /\ 0 \in Int /\ 0 < 1 /\ 1 \in Int
      BY <1>1, <1>3, <2>4
    <3>2. SubSeq(d, 1, n - Count) = <<>> /\ SubSeq(d, 1, 0) = <<>>
      BY <3>1, SubSeqEmpty
    <3>3. Close(c) = 0
      BY <2>2, <2>4
    <3> QED BY <1>1, <1>6, <2>1, <3>2, <3>3 DEF c
  <2> QED BY <2>3, <2>4
<1> QED BY <1>3, <1>7, <1>8, <1>9, <1>10

\* What tail is to give of an input is the piece from Begin on.
LEMMA TailTextIs ==
    ASSUME NEW S, NEW k, fs[k].data \in Seq(S), prog = "tail", TextArgs
    PROVE  TailText(fs[k].data) = Piece(fs[k].data, Begin(TextCall(k)), Len(fs[k].data))
<1> DEFINE c == TextCall(k)
<1>1. PICK d, n : d = fs[k].data /\ d \in Seq(S) /\ n = Len(d) /\ n \in Nat
  BY LenProperties
<1>2. /\ c.d = d /\ c.prog = "tail" /\ c.o = Asked.o /\ c.elide = (Asked.sign # "") /\ c.num = Count
      /\ c.le = LineEnd
  BY <1>1 DEF TextCall
<1> HIDE DEF c
<1>3. Asked.o \in {"c", "n"} /\ Count \in Nat
  BY AskedIs
<1>4. LineCount(d) = LinesOf(d, LineEnd) /\ LinesOf(d, LineEnd) \in Nat
  BY <1>1, AllLines DEF LineCount, LinesOf
<1>5. LineCount(d) - Count \in Int /\ Count - 1 \in Int
  BY <1>3, <1>4
<1>6. ASSUME NEW i \in Int PROVE Without(FirstLines(d, i), d) = Piece(d, LineAt(d, LineEnd, i), n)
  <2>1. PICK m : m = LineAt(d, LineEnd, i) /\ m \in 0..n
    BY <1>1, LineAtIs
  <2>2. FirstLines(d, i) = Piece(d, 0, m)
    BY <1>1, <2>1, FirstLinesIs
  <2>3. Len(Piece(d, 0, m)) = m
    <3>1. PICK o : o = 0 /\ o \in Nat /\ o <= m /\ m <= Len(d) /\ m \in Nat /\ m - o = m
      BY <1>1, <2>1
    <3>2. Len(Piece(d, o, m)) = m - o
      BY ONLY <1>1, <3>1, PieceType
    <3> QED BY <3>1, <3>2
  <2> QED BY <1>1, <2>1, <2>2, <2>3 DEF Without, Piece
<1>7. CASE Asked.o = "n" /\ Asked.sign = ""
  <2>1. TailText(d) = Without(FirstLines(d, LineCount(d) - Count), d)
    BY <1>7 DEF TailText
  <2>2. Begin(c) = LineAt(d, LineEnd, LineCount(d) - Count)
    BY <1>2, <1>4, <1>7 DEF Begin
  <2> QED BY <1>1, <1>5, <1>6, <2>1, <2>2 DEF c
<1>8. CASE Asked.o = "n" /\ Asked.sign # ""
  <2>1. TailText(d) = Without(FirstLines(d, Count - 1), d)
    BY <1>8 DEF TailText
  <2>2. Begin(c) = LineAt(d, LineEnd, Count - 1)
    BY <1>2, <1>8 DEF Begin
  <2> QED BY <1>1, <1>5, <1>6, <2>1, <2>2 DEF c
<1>9. CASE Asked.o = "c" /\ Asked.sign = ""
  <2>1. TailText(d) = SubSeq(d, Max({0, n - Count}) + 1, n)
    BY <1>1, <1>9 DEF TailText
  <2>2. Max({0, n - Count}) = IF 0 >= n - Count THEN 0 ELSE n - Count
    <3>1. 0 \in Int /\ n - Count \in Int
      BY <1>1, <1>3
    <3> QED BY <3>1, OfTwo
  <2>3. Begin(c) = IF Count < n THEN n - Count ELSE 0
    BY <1>1, <1>2, <1>9 DEF Begin
  <2>4. Begin(c) = Max({0, n - Count})
    BY <1>1, <1>3, <2>2, <2>3
  <2> QED BY <1>1, <2>1, <2>4 DEF c, Piece
<1>10. CASE Asked.o = "c" /\ Asked.sign # ""
  <2>1. TailText(d) = SubSeq(d, Max({1, Count}), n)
    BY <1>1, <1>10 DEF TailText
  <2>2. Max({1, Count}) = IF 1 >= Count THEN 1 ELSE Count
    <3>1. 1 \in Int /\ Count \in Int
      BY <1>3
    <3> QED BY <3>1, OfTwo
  <2>3. Begin(c) = IF Count = 0 THEN 0 ELSE IF Count > n THEN n ELSE Count - 1
    BY <1>1, <1>2, <1>10 DEF Begin
  <2>4. CASE Count > n
    <3>1. /\ Max({1, Count}) \in Int /\ n < Max({1, Count}) /\ n + 1 \in Int /\ n < n + 1 /\ n \in Int
          /\ Begin(c) = n
      BY <1>1, <1>3, <2>2, <2>3, <2>4
    <3>2. SubSeq(d, Max({1, Count}), n) = <<>> /\ SubSeq(d, n + 1, n) = <<>>
      BY <3>1, SubSeqEmpty
    <3> QED BY <1>1, <2>1, <3>1, <3>2 DEF c, Piece
  <2>5. CASE ~(Count > n)
    <3>1. Begin(c) + 1 = Max({1, Count})
      BY <1>1, <1>3, <2>2, <2>3, <2>5
    <3> QED BY <1>1, <2>1, <3>1 DEF c, Piece
  <2> QED BY <2>4, <2>5
<1> QED BY <1>3, <1>7, <1>8, <1>9, <1>10
-----------------------------------------------------------------------------
(* head and tail: all inputs *)

TextElems == TextBytes \cup [header : Nat, blank : BOOLEAN]
Headers == Has("v") \/ (~Has("q") /\ Len(fs) > 1)
HeaderOf(i) == IF Headers THEN <<[header |-> i, blank |-> i > 1]>> ELSE <<>>
Share(i) == HeaderOf(i) \o Piece(fs[i].data, Begin(TextCall(i)), Close(TextCall(i)))
Shares == [i \in DOMAIN fs |-> Share(i)]
Sofar == CHOOSE h : Flattening(h, Shares, TextElems)

\* An input has bytes, none if it cannot be read.
LEMMA InputType ==
    ASSUME fs \in Seq(TextFiles), NEW i \in 1..Len(fs)
    PROVE  /\ fs[i].data \in Seq(TextBytes) /\ fs[i].kind \in {"file", "pipe", "dir", "missing"}
           /\ fs[i].kind \in {"dir", "missing"} => fs[i].data = <<>>
<1>1. fs[i] \in TextFiles
  BY ElementOfSeq
<1>2. <<>> \in Seq(TextBytes)
  BY EmptySeq
<1> HIDE DEF TextBytes
<1> QED BY <1>1, <1>2 DEF TextFiles

\* The call for the i-th input.
LEMMA CallType ==
    ASSUME fs \in Seq(TextFiles), TextArgs, prog \in {"head", "tail"}, NEW i \in 1..Len(fs)
    PROVE  LET c == TextCall(i) IN
           /\ c.prog = prog /\ c.o \in {"c", "n"} /\ c.elide = (Asked.sign # "") /\ c.num = Count /\ Count \in Nat
           /\ c.elide \in BOOLEAN /\ c.o = Asked.o /\ c.le = LineEnd
           /\ c.d = fs[i].data /\ c.d \in Seq(TextBytes) /\ c.kind = fs[i].kind
           /\ Begin(c) \in Nat /\ Close(c) \in Nat /\ Begin(c) <= Close(c) /\ Close(c) <= Len(c.d)
<1> DEFINE c == TextCall(i)
<1>1. /\ c.prog = prog /\ c.o = Asked.o /\ c.elide = (Asked.sign # "") /\ c.num = Count
      /\ c.le = LineEnd /\ c.d = fs[i].data /\ c.kind = fs[i].kind
  BY DEF TextCall
<1> HIDE DEF c
<1>2. c.d \in Seq(TextBytes)
  BY <1>1, InputType
<1>3. c.o \in {"c", "n"} /\ Count \in Nat /\ c.num \in Nat /\ c.elide \in BOOLEAN
  BY <1>1, AskedIs
<1>4. Begin(c) \in Nat /\ Close(c) \in Nat /\ Begin(c) <= Close(c) /\ Close(c) <= Len(c.d)
  BY <1>1, <1>2, <1>3, PartIsThere
<1> QED BY <1>1, <1>2, <1>3, <1>4 DEF c

\* A sequence of elements of a set has elements of every larger one.
LEMMA LongerSet ==
    ASSUME NEW S, NEW T, S \subseteq T, NEW s \in Seq(S)
    PROVE  s \in Seq(T)
<1>1. Len(s) \in Nat /\ s \in [1..Len(s) -> S]
  BY LenProperties
<1>2. s \in [1..Len(s) -> T]
  BY <1>1
<1> QED BY <1>1, <1>2, SeqDef

\* What the i-th input adds to the output.
LEMMA ShareType ==
    ASSUME fs \in Seq(TextFiles), TextArgs, prog \in {"head", "tail"}, NEW i \in 1..Len(fs)
    PROVE  /\ HeaderOf(i) \in Seq(TextElems)
           /\ Piece(fs[i].data, Begin(TextCall(i)), Close(TextCall(i))) \in Seq(TextElems)
           /\ Share(i) \in Seq(TextElems)
<1>1. HeaderOf(i) \in Seq(TextElems)
  <2>1. [header |-> i, blank |-> i > 1] \in TextElems
    BY DEF TextElems
  <2> HIDE DEF TextElems
  <2>2. <<>> \in Seq(TextElems) /\ <<[header |-> i, blank |-> i > 1]>> \in Seq(TextElems)
    BY <2>1
  <2> QED BY <2>2 DEF HeaderOf
<1>2. PICK d, a, b : d = fs[i].data /\ a = Begin(TextCall(i)) /\ b = Close(TextCall(i))
  OBVIOUS
<1>3. d \in Seq(TextBytes) /\ a \in Nat /\ b \in Nat /\ a <= b /\ b <= Len(d)
  <2>1. TextCall(i).d = d
    BY <1>2, CallType
  <2> QED BY <1>2, <2>1, CallType
<1>4. TextBytes \subseteq TextElems
  BY DEF TextElems
<1>5. d \in Seq(TextElems)
  BY <1>3, <1>4, LongerSet
<1>6. Piece(d, a, b) \in Seq(TextElems)
  BY ONLY <1>3, <1>5, PieceType
<1>7. HeaderOf(i) \o Piece(d, a, b) \in Seq(TextElems)
  BY <1>1, <1>6, ConcatProperties
<1> QED BY <1>1, <1>2, <1>6, <1>7 DEF Share

\* What is to be written up to each input, and in the end what is asked for.
LEMMA SharesJoin ==
    ASSUME fs \in Seq(TextFiles), TextArgs, prog \in {"head", "tail"}
    PROVE  /\ Sofar[0] = <<>> /\ \A k \in 0..Len(fs) : Sofar[k] \in Seq(TextElems)
           /\ \A k \in 1..Len(fs) : IsConcat(Sofar[k], Sofar[k - 1], Share(k))
           /\ prog = "head" => Sofar[Len(fs)] = WithHeaders(HeadText)
           /\ prog = "tail" => Sofar[Len(fs)] = WithHeaders(TailText)
<1>1. DOMAIN fs = 1..Len(fs) /\ Len(fs) \in Nat
  BY LenProperties
<1>2. Shares \in Seq(Seq(TextElems)) /\ Len(Shares) = Len(fs)
  <2>1. \A i \in 1..Len(fs) : Share(i) \in Seq(TextElems)
    BY ShareType
  <2>2. Shares \in [1..Len(fs) -> Seq(TextElems)]
    BY <1>1, <2>1 DEF Shares
  <2> QED BY <1>1, <2>2
<1>3. Flattening(Sofar, Shares, TextElems)
  <2>1. \E h : Flattening(h, Shares, TextElems)
    BY <1>1, <1>2, Flattens
  <2> QED BY <2>1 DEF Sofar
<1>4. \A k \in 1..Len(fs) : Shares[k] = Share(k)
  BY <1>1 DEF Shares
<1>5. /\ Sofar[0] = <<>> /\ Sofar[Len(fs)] = FlattenSeq(Shares)
      /\ \A k \in 0..Len(fs) : Sofar[k] \in Seq(TextElems)
  BY <1>2, <1>3 DEF Flattening
<1>6. \A k \in 1..Len(fs) : IsConcat(Sofar[k], Sofar[k - 1], Share(k))
  BY <1>2, <1>3, <1>4 DEF Flattening, IsConcat
<1>7. ASSUME prog = "head" PROVE FlattenSeq(Shares) = WithHeaders(HeadText)
  <2>1. ASSUME NEW i \in DOMAIN fs
        PROVE  Share(i) = (IF Has("v") \/ (~Has("q") /\ Len(fs) > 1)
                           THEN <<[header |-> i, blank |-> i > 1]>> ELSE <<>>) \o HeadText(fs[i].data)
    <3>1. fs[i].data \in Seq(TextBytes)
      BY <1>1, InputType
    <3>2. HeadText(fs[i].data) = Piece(fs[i].data, 0, Close(TextCall(i)))
      BY <1>7, <3>1, HeadTextIs
    <3>3. TextCall(i).prog = "head"
      BY <1>7 DEF TextCall
    <3>4. Begin(TextCall(i)) = 0
      BY <3>3 DEF Begin
    <3> QED BY <3>2, <3>4 DEF Share, HeaderOf, Headers
  <2>2. Shares = [i \in DOMAIN fs |->
                    (IF Has("v") \/ (~Has("q") /\ Len(fs) > 1)
                     THEN <<[header |-> i, blank |-> i > 1]>> ELSE <<>>) \o HeadText(fs[i].data)]
    BY <2>1 DEF Shares
  <2> QED BY <2>2 DEF WithHeaders
<1>8. ASSUME prog = "tail" PROVE FlattenSeq(Shares) = WithHeaders(TailText)
  <2>1. ASSUME NEW i \in DOMAIN fs
        PROVE  Share(i) = (IF Has("v") \/ (~Has("q") /\ Len(fs) > 1)
                           THEN <<[header |-> i, blank |-> i > 1]>> ELSE <<>>) \o TailText(fs[i].data)
    <3>1. fs[i].data \in Seq(TextBytes)
      BY <1>1, InputType
    <3>2. TailText(fs[i].data) = Piece(fs[i].data, Begin(TextCall(i)), Len(fs[i].data))
      BY <1>8, <3>1, TailTextIs
    <3>3. TextCall(i).prog = "tail" /\ TextCall(i).d = fs[i].data
      BY <1>8 DEF TextCall
    <3>4. Close(TextCall(i)) = Len(fs[i].data)
      BY <3>3 DEF Close
    <3> QED BY <3>2, <3>4 DEF Share, HeaderOf, Headers
  <2>2. Shares = [i \in DOMAIN fs |->
                    (IF Has("v") \/ (~Has("q") /\ Len(fs) > 1)
                     THEN <<[header |-> i, blank |-> i > 1]>> ELSE <<>>) \o TailText(fs[i].data)]
    BY <2>1 DEF Shares
  <2> QED BY <2>2 DEF WithHeaders
<1> QED BY <1>5, <1>6, <1>7, <1>8
-----------------------------------------------------------------------------
(* head and tail: whole buffers *)

\* A number of whole buffers.
Multiple(p) == \E m \in Nat : p = m * BufSize

\* Offsets that are whole buffers.
LEMMA Multiples ==
    /\ Multiple(0)
    /\ \A p : Multiple(p) => p \in Nat /\ Multiple(p + BufSize)
    /\ \A p : Multiple(p) /\ p > 0 => p >= BufSize /\ p - BufSize \in Nat /\ Multiple(p - BufSize)
<1>1. BufSize \in Nat \ {0}
  BY BufAssumption
<1>2. Multiple(0)
  <2>1. 0 \in Nat /\ 0 = 0 * BufSize
    BY <1>1
  <2> QED BY <2>1 DEF Multiple
<1>3. ASSUME NEW p, Multiple(p) PROVE p \in Nat /\ Multiple(p + BufSize)
  <2>1. PICK m \in Nat : p = m * BufSize
    BY <1>3 DEF Multiple
  <2>2. p \in Nat /\ m + 1 \in Nat /\ p + BufSize = (m + 1) * BufSize
    BY <1>1, <2>1
  <2> QED BY <2>2 DEF Multiple
<1>4. ASSUME NEW p, Multiple(p), p > 0 PROVE p >= BufSize /\ p - BufSize \in Nat /\ Multiple(p - BufSize)
  <2>1. PICK m \in Nat : p = m * BufSize
    BY <1>4 DEF Multiple
  <2>2. m # 0
    BY <1>1, <1>4, <2>1
  <2>3. PICK l : l = m - 1
    OBVIOUS
  <2>4. l \in Nat /\ p = l * BufSize + BufSize /\ l * BufSize \in Nat
    <3>1. l \in Nat /\ m = l + 1
      BY <2>2, <2>3
    <3> QED BY <1>1, <2>1, <3>1
  <2>5. p >= BufSize /\ p - BufSize = l * BufSize /\ p - BufSize \in Nat
    BY <1>1, <2>4
  <2> QED BY <2>4, <2>5 DEF Multiple
<1> QED BY <1>2, <1>3, <1>4

\* What is left of an input behind its whole buffers.
LEMMA Division ==
    ASSUME NEW n \in Nat \ {0}, NEW x \in Nat
    PROVE  x \div n \in Nat /\ x % n \in 0..(n - 1) /\ x = (x \div n) * n + (x % n)
OBVIOUS

\* Where the last buffer of a file begins, when it is full and when it is not.
LEMMA LastBuffer ==
    ASSUME NEW size \in Nat
    PROVE  /\ size % BufSize \in 0..(BufSize - 1) /\ size % BufSize <= size
           /\ Multiple(size - (size % BufSize))
           /\ size % BufSize = 0 /\ size > 0 => BufSize <= size /\ Multiple(size - BufSize)
<1>1. PICK q, r : q = size \div BufSize /\ r = size % BufSize
  OBVIOUS
<1>2. q \in Nat /\ r \in 0..(BufSize - 1) /\ size = q * BufSize + r
  BY <1>1, BufAssumption, Division
<1>3. q * BufSize \in Nat
  BY <1>2, BufAssumption
<1>4. r <= size /\ size - r = q * BufSize
  BY <1>2, <1>3
<1>5. Multiple(size - r)
  BY <1>2, <1>4 DEF Multiple
<1>6. r = 0 /\ size > 0 => BufSize <= size /\ Multiple(size - BufSize)
  <2>1. r = 0 => size - r = size
    OBVIOUS
  <2> QED BY <1>5, <2>1, Multiples, BufAssumption
<1> QED BY <1>1, <1>2, <1>4, <1>5, <1>6

\* Offsets in the same buffer.
LEMMA SameBuffer ==
    ASSUME NEW p, Multiple(p), NEW x \in 0..(BufSize - 1), NEW y \in 0..(BufSize - 1)
    PROVE  (p + x) \div BufSize = (p + y) \div BufSize
<1>1. PICK m \in Nat : p = m * BufSize
  BY DEF Multiple
<1>2. m * BufSize \in Nat /\ m \in Int
  BY <1>1, BufAssumption
<1>3. ASSUME NEW z \in 0..(BufSize - 1) PROVE (p + z) \div BufSize = m
  <2>1. PICK w : w = p + z
    OBVIOUS
  <2>2. w \in Int /\ w = m * BufSize + z
    BY <1>1, <1>2, <2>1
  <2>3. w \div BufSize = m
    BY <1>2, <2>2, BufAssumption, Remainder
  <2> QED BY <2>1, <2>3
<1> QED BY <1>3
-----------------------------------------------------------------------------
(* head and tail: what is owed *)

\* The calls that HeadExact and TailExact are about.
EndSeen(c) ==
    IF c.prog = "head" THEN (Len(c.d) % BufSize # 0 /\ Last(c.d) # Newline) <=> Last(c.d) # c.le
    ELSE Last(c.d) = Newline <=> Last(c.d) = c.le
Apart(c) ==
    \A i, j \in Ends(c.d, c.le) :
        i < j /\ EndsIn(c.d, c.le, j) < c.num - 1 => (i - 1) \div BufSize # (j - 1) \div BufSize
Backward(c) == c.o = "n" /\ (c.prog = "head" <=> c.elide)
Plain(c) ==
    /\ c.kind = "pipe" => IF c.prog = "head" THEN ~c.elide ELSE c.o = "c"
    /\ Backward(c) /\ c.d # <<>> => EndSeen(c)
    /\ c.prog = "tail" /\ c.o = "n" /\ c.elide => c.num > 0 /\ Apart(c)

\* A task: a call, the bytes there are, what can be written, and all that is
\* to be written up to the end of this input.
TaskOk(t) ==
    /\ t.c.prog \in {"head", "tail"} /\ t.c.o \in {"c", "n"} /\ t.c.elide \in BOOLEAN /\ t.c.num \in Nat
    /\ t.c.d \in Seq(t.S) /\ t.c.kind \in {"file", "pipe", "dir", "missing"}
    /\ t.c.kind \in {"dir", "missing"} => t.c.d = <<>>
    /\ t.S \subseteq t.E /\ t.due \in Seq(t.E)
    /\ Begin(t.c) \in Nat /\ Close(t.c) \in Nat /\ Begin(t.c) <= Close(t.c) /\ Close(t.c) <= Len(t.c.d)
    /\ Plain(t.c)

\* With o written, the bytes behind the a-th, up to the b-th, are missing.
Owes(t, o, a, b) ==
    /\ a \in Nat /\ b \in Nat /\ a <= b /\ b <= Len(t.c.d)
    /\ o \in Seq(t.E) /\ IsConcat(t.due, o, Piece(t.c.d, a, b))

\* A piece of the input of a task.
LEMMA TaskPiece ==
    ASSUME NEW t, TaskOk(t), NEW a \in Nat, NEW b \in Nat, a <= b, b <= Len(t.c.d)
    PROVE  Piece(t.c.d, a, b) \in Seq(t.E) /\ Piece(t.c.d, a, a) = <<>>
<1>1. PICK d : d = t.c.d
  OBVIOUS
<1>2. t.S \subseteq t.E /\ d \in Seq(t.S) /\ b <= Len(d) /\ Len(d) \in Nat
  BY <1>1, LenProperties DEF TaskOk
<1>3. d \in Seq(t.E)
  BY <1>2, LongerSet
<1>4. Piece(d, a, b) \in Seq(t.E)
  BY <1>2, <1>3, PieceType
<1>5. a <= Len(d)
  BY <1>2
<1>6. Piece(d, a, a) = <<>>
  BY <1>3, <1>5, PieceEnds
<1> QED BY <1>1, <1>4, <1>6

\* Nothing missing: all is written.
LEMMA OwesNothing ==
    ASSUME NEW t, TaskOk(t), NEW o, NEW a, Owes(t, o, a, a)
    PROVE  o = t.due
<1>1. a \in Nat /\ a <= Len(t.c.d) /\ o \in Seq(t.E) /\ t.due = o \o Piece(t.c.d, a, a)
  BY DEF Owes, IsConcat
<1>2. Piece(t.c.d, a, a) = <<>>
  BY <1>1, TaskPiece
<1>3. o \o <<>> = o
  BY <1>1, ConcatEmptySeq
<1> QED BY <1>1, <1>2, <1>3

\* What is written is no longer missing.
LEMMA OwesLess ==
    ASSUME NEW t, TaskOk(t), NEW o, NEW a, NEW b, Owes(t, o, a, b), NEW m \in Nat, a <= m, m <= b
    PROVE  Owes(t, o \o Piece(t.c.d, a, m), m, b)
<1>1. a \in Nat /\ b \in Nat /\ b <= Len(t.c.d) /\ o \in Seq(t.E) /\ t.c.d \in Seq(t.S)
  BY DEF Owes, TaskOk
<1>2. m <= Len(t.c.d) /\ Len(t.c.d) \in Nat
  BY <1>1, LenProperties
<1>3. PICK x, y, z, w : x = Piece(t.c.d, a, m) /\ y = Piece(t.c.d, m, b) /\ z = Piece(t.c.d, a, b) /\ w = o \o x
  OBVIOUS
<1>4. x \in Seq(t.E) /\ y \in Seq(t.E)
  BY <1>1, <1>2, <1>3, TaskPiece
<1>5. w \in Seq(t.E)
  BY <1>1, <1>3, <1>4, ConcatProperties
<1>6. x \o y = z
  BY <1>1, <1>3, PiecesJoin
<1>7. IsConcat(z, x, y) /\ IsConcat(t.due, o, z) /\ IsConcat(w, o, x)
  BY <1>3, <1>6 DEF IsConcat, Owes
<1>8. IsConcat(t.due, w, y)
  BY <1>1, <1>4, <1>7, Regroup
<1> QED BY <1>1, <1>2, <1>3, <1>5, <1>8 DEF Owes
-----------------------------------------------------------------------------
(* head and tail: copying *)

\* copy_fd: from at up to stop, then the buffer of the caller.
Reaches(at, left, stop, len) == at + left = stop \/ (stop = len /\ at + left >= len)
Copying(t, l, at, o, stop, last) ==
    /\ stop \in Nat /\ last \in Nat /\ at <= stop /\ stop <= last
    /\ l.left \in Nat /\ Reaches(at, l.left, stop, Len(t.c.d))
    /\ l.rest = Piece(t.c.d, stop, last) /\ Owes(t, o, at, last)
AtCopy(t, l, at, o) ==
    /\ DOMAIN l = {"left", "rest", "num"} /\ l.num = t.c.num /\ l.left \in Int /\ at \in Nat
    /\ \/ at >= Len(t.c.d) /\ o = t.due /\ l.rest = <<>>
       \/ \E stop, last : Copying(t, l, at, o, stop, last)

\* A copy from here to the end of what is owed.
LEMMA CopyAll ==
    ASSUME NEW t, TaskOk(t), NEW o, NEW a, NEW b, Owes(t, o, a, b),
           NEW n \in Nat, Reaches(a, n, b, Len(t.c.d))
    PROVE  AtCopy(t, [left |-> n, rest |-> <<>>, num |-> t.c.num], a, o)
<1> DEFINE l == [left |-> n, rest |-> <<>>, num |-> t.c.num]
<1>1. l.left = n /\ l.rest = <<>> /\ l.num = t.c.num /\ DOMAIN l = {"left", "rest", "num"}
  OBVIOUS
<1> HIDE DEF l
<1>2. a \in Nat /\ b \in Nat /\ a <= b /\ b <= b /\ b <= Len(t.c.d)
  BY DEF Owes
<1>3. Piece(t.c.d, b, b) = <<>>
  BY <1>2, TaskPiece
<1>4. Copying(t, l, a, o, b, b)
  BY <1>1, <1>2, <1>3 DEF Copying
<1> QED BY <1>1, <1>2, <1>4 DEF AtCopy, l

\* The end of a copy.
LEMMA CopyEnds ==
    ASSUME NEW t, TaskOk(t), NEW l, NEW at, NEW o, AtCopy(t, l, at, o), l.left = 0 \/ at >= Len(t.c.d)
    PROVE  o \o l.rest = t.due
<1>1. CASE at >= Len(t.c.d) /\ o = t.due /\ l.rest = <<>>
  <2>1. t.due \in Seq(t.E)
    BY DEF TaskOk
  <2> QED BY <1>1, <2>1, ConcatEmptySeq
<1>2. CASE \E stop, last : Copying(t, l, at, o, stop, last)
  <2>1. PICK stop, last : Copying(t, l, at, o, stop, last)
    BY <1>2
  <2>2. stop \in Nat /\ last \in Nat /\ at \in Nat /\ at <= stop /\ stop <= last /\ last <= Len(t.c.d)
    BY <2>1 DEF Copying, Owes
  <2>3. Len(t.c.d) \in Nat
    BY LenProperties DEF TaskOk
  <2>4. at = stop
    <3>1. CASE l.left = 0
      <4>1. at + 0 = stop \/ (stop = Len(t.c.d) /\ at + 0 >= Len(t.c.d))
        BY <2>1, <3>1 DEF Copying, Reaches
      <4> QED BY <2>2, <2>3, <4>1
    <3>2. CASE at >= Len(t.c.d)
      BY <2>2, <2>3, <3>2
    <3> QED BY <3>1, <3>2
  <2> QED BY <2>1, <2>4 DEF Copying, Owes, IsConcat
<1> QED BY <1>1, <1>2 DEF AtCopy

\* One pass of its loop.
LEMMA CopyPass ==
    ASSUME NEW t, TaskOk(t), NEW l, NEW at, NEW o, AtCopy(t, l, at, o), ~(at >= Len(t.c.d)),
           NEW n \in Nat \ {0}, n <= l.left, at + n <= Len(t.c.d)
    PROVE  AtCopy(t, [l EXCEPT !.left = l.left - n], at + n, o \o Piece(t.c.d, at, at + n))
<1>1. PICK stop, last : Copying(t, l, at, o, stop, last)
  BY DEF AtCopy
<1>2. /\ stop \in Nat /\ last \in Nat /\ at \in Nat /\ at <= stop /\ stop <= last /\ last <= Len(t.c.d)
      /\ l.left \in Nat /\ Reaches(at, l.left, stop, Len(t.c.d)) /\ Owes(t, o, at, last)
      /\ l.rest = Piece(t.c.d, stop, last)
  BY <1>1 DEF Copying, Owes
<1>3. Len(t.c.d) \in Nat
  BY LenProperties DEF TaskOk
<1>4. PICK len, left, m : len = Len(t.c.d) /\ left = l.left /\ m = at + n
  OBVIOUS
<1>5. m \in Nat /\ at <= m /\ m <= stop /\ m <= last /\ left - n \in Nat /\ Reaches(m, left - n, stop, len)
  BY <1>2, <1>3, <1>4 DEF Reaches
<1>6. Owes(t, o \o Piece(t.c.d, at, m), m, last)
  BY <1>2, <1>5, OwesLess
<1> DEFINE k == [l EXCEPT !.left = left - n]
<1>7. l.num = t.c.num /\ DOMAIN l = {"left", "rest", "num"}
  BY DEF AtCopy
<1>8. k.num = l.num /\ k.rest = l.rest /\ k.left = left - n /\ DOMAIN k = DOMAIN l
  BY <1>7
<1> HIDE DEF k
<1>9. Copying(t, k, m, o \o Piece(t.c.d, at, m), stop, last)
  BY <1>2, <1>4, <1>5, <1>6, <1>8 DEF Copying
<1>10. AtCopy(t, k, m, o \o Piece(t.c.d, at, m))
  BY <1>5, <1>7, <1>8, <1>9 DEF AtCopy
<1> QED BY <1>4, <1>10 DEF k
-----------------------------------------------------------------------------
(* head: lines from the start *)

\* Fewer line ends than k lie before the end of the k-th line.
LEMMA LineBeyond ==
    ASSUME NEW S, NEW d \in Seq(S), NEW le, NEW m \in Nat, m <= Len(d), NEW k \in Int, EndsIn(d, le, m) < k
    PROVE  m <= LineAt(d, le, k)
<1>1. Ends(d, le) \subseteq 1..Len(d) /\ Len(d) \in Nat /\ Cardinality(Ends(d, le)) \in Nat
      /\ EndsIn(d, le, m) \in Nat
  BY EndsType
<1>2. CASE k > Cardinality(Ends(d, le))
  BY <1>2, LineAtIs
<1>3. CASE ~(k > Cardinality(Ends(d, le)))
  <2>1. k \in 1..Cardinality(Ends(d, le))
    BY <1>1, <1>3
  <2>2. PICK e : e = NthEnd(d, le, k) /\ e \in Ends(d, le) /\ EndsIn(d, le, e) = k
    BY <2>1, NthEndIs
  <2>3. LineAt(d, le, k) = e
    BY <2>2, LineAtIs
  <2>4. e \in Nat
    BY <1>1, <2>2
  <2>5. CASE e < m
    <3>1. EndsIn(d, le, e) <= EndsIn(d, le, m)
      BY <2>4, <2>5, EndsGrow
    <3> QED BY <1>1, <2>2, <3>1
  <2> QED BY <2>3, <2>4, <2>5
<1> QED BY <1>2, <1>3

\* head_lines: with the lines found, those wanted.
AtLines(t, l, at, o) ==
    /\ t.c.prog = "head" /\ t.c.o = "n" /\ ~t.c.elide
    /\ l.lines \in Nat /\ Owes(t, o, at, Close(t.c))
    /\ EndsIn(t.c.d, t.c.le, at) + l.lines = t.c.num
    /\ l.lines = 0 => at = Close(t.c)

\* head_lines, before its loop.
LEMMA LinesStart ==
    ASSUME NEW t, TaskOk(t), t.c.prog = "head", t.c.o = "n", ~t.c.elide, NEW o, Owes(t, o, 0, Close(t.c))
    PROVE  AtLines(t, [lines |-> t.c.num], 0, o)
<1>1. t.c.num \in Nat /\ t.c.num \in Int /\ t.c.d \in Seq(t.S)
  BY DEF TaskOk
<1>2. EndsIn(t.c.d, t.c.le, 0) = 0
  BY <1>1, EndsType
<1>3. t.c.num = 0 => Close(t.c) = 0
  <2>1. Close(t.c) = LineAt(t.c.d, t.c.le, t.c.num)
    BY DEF Close
  <2> QED BY <1>1, <2>1, LineAtIs
<1>4. EndsIn(t.c.d, t.c.le, 0) + t.c.num = t.c.num
  BY <1>1, <1>2
<1> QED BY <1>1, <1>3, <1>4 DEF AtLines

\* It ends when the lines are counted or the input ends.
LEMMA LinesEnd ==
    ASSUME NEW t, TaskOk(t), NEW l, NEW at, NEW o, AtLines(t, l, at, o), l.lines = 0 \/ at = Len(t.c.d)
    PROVE  o = t.due
<1>1. Owes(t, o, at, Close(t.c))
  BY DEF AtLines
<1>2. at \in Nat /\ Close(t.c) \in Nat /\ at <= Close(t.c) /\ Close(t.c) <= Len(t.c.d) /\ Len(t.c.d) \in Nat
  BY <1>1, LenProperties DEF Owes, TaskOk
<1>3. at = Close(t.c)
  BY <1>2 DEF AtLines
<1> QED BY <1>1, <1>3, OwesNothing

\* A buffer with too few line ends is written as a whole.
LEMMA LinesPass ==
    ASSUME NEW t, TaskOk(t), NEW l, NEW at, NEW o, AtLines(t, l, at, o),
           NEW n \in Nat \ {0}, NEW b, IsBlock(b, t.c.d, at, n), Cardinality(Ends(b, t.c.le)) < l.lines
    PROVE  AtLines(t, [lines |-> l.lines - Cardinality(Ends(b, t.c.le))], at + n, o \o b)
<1>1. /\ t.c.num \in Nat /\ t.c.d \in Seq(t.S) /\ l.lines \in Nat /\ Owes(t, o, at, Close(t.c))
      /\ EndsIn(t.c.d, t.c.le, at) + l.lines = t.c.num /\ at \in Nat /\ at + n <= Len(t.c.d)
      /\ t.c.prog = "head" /\ t.c.o = "n" /\ ~t.c.elide
  BY DEF TaskOk, AtLines, Owes, IsBlock
<1>2. PICK d, le, found, m : d = t.c.d /\ le = t.c.le /\ found = Cardinality(Ends(b, t.c.le)) /\ m = at + n
  OBVIOUS
<1>3. EndsIn(d, le, at) + found = EndsIn(d, le, m)
  BY <1>1, <1>2, EndsOfBlock
<1>4. found \in Nat /\ EndsIn(d, le, at) \in Nat /\ EndsIn(d, le, m) \in Nat
  <2>1. b \in Seq(t.S)
    BY <1>1, EndsOfBlock
  <2>2. found \in Nat
    BY <1>2, <2>1, EndsType
  <2>3. EndsIn(d, le, at) \in Nat /\ EndsIn(d, le, m) \in Nat
    BY <1>1, <1>2, EndsType
  <2> QED BY <2>2, <2>3
<1>5. EndsIn(d, le, m) < t.c.num /\ EndsIn(d, le, m) + (l.lines - found) = t.c.num
      /\ l.lines - found \in Nat /\ l.lines - found # 0
  BY <1>1, <1>2, <1>3, <1>4
<1>6. Close(t.c) = LineAt(d, le, t.c.num)
  BY <1>1, <1>2 DEF Close
<1>7. m \in Nat /\ m <= Len(d) /\ at <= m
  BY <1>1, <1>2
<1>8. m <= Close(t.c)
  BY <1>1, <1>2, <1>5, <1>6, <1>7, LineBeyond
<1>9. b = Piece(d, at, m)
  BY <1>2 DEF IsBlock, Piece
<1>10. Owes(t, o \o b, m, Close(t.c))
  BY <1>1, <1>2, <1>7, <1>8, <1>9, OwesLess
<1> DEFINE k == [lines |-> l.lines - found]
<1>11. k.lines = l.lines - found
  OBVIOUS
<1> HIDE DEF k
<1>12. AtLines(t, k, m, o \o b)
  BY <1>1, <1>2, <1>5, <1>10, <1>11 DEF AtLines
<1> QED BY <1>2, <1>12 DEF k

\* One with enough of them is written up to the last that counts.
LEMMA LinesFound ==
    ASSUME NEW t, TaskOk(t), NEW l, NEW at, NEW o, AtLines(t, l, at, o), l.lines > 0,
           NEW n \in Nat \ {0}, NEW b, IsBlock(b, t.c.d, at, n), ~(Cardinality(Ends(b, t.c.le)) < l.lines)
    PROVE  LET k == NthEnd(b, t.c.le, l.lines) IN
           AtLines(t, [lines |-> 0], at + k, o \o SubSeq(b, 1, k))
<1>1. /\ t.c.num \in Nat /\ t.c.d \in Seq(t.S) /\ l.lines \in Nat /\ Owes(t, o, at, Close(t.c))
      /\ EndsIn(t.c.d, t.c.le, at) + l.lines = t.c.num /\ at \in Nat
      /\ t.c.prog = "head" /\ t.c.o = "n" /\ ~t.c.elide
  BY DEF TaskOk, AtLines, Owes
<1>2. PICK d, le, k, m : d = t.c.d /\ le = t.c.le /\ k = NthEnd(b, t.c.le, l.lines) /\ m = at + k
  OBVIOUS
<1>3. b \in Seq(t.S)
  BY <1>1, EndsOfBlock
<1>4. l.lines \in 1..Cardinality(Ends(b, le))
  <2>1. Cardinality(Ends(b, le)) \in Nat
    BY <1>3, EndsType
  <2> QED BY <1>1, <1>2, <2>1
<1>5. k \in 1..n /\ m \in Ends(d, le) /\ EndsIn(d, le, m) = EndsIn(d, le, at) + l.lines
  BY <1>1, <1>2, <1>4, NthEndOfBlock
<1>6. Close(t.c) = m
  <2>1. Close(t.c) = LineAt(d, le, t.c.num)
    BY <1>1, <1>2 DEF Close
  <2>2. EndsIn(d, le, m) = t.c.num /\ t.c.num \in Int
    BY <1>1, <1>2, <1>5
  <2> QED BY <1>1, <1>2, <1>5, <2>1, <2>2, LineAtIs
<1>7. SubSeq(b, 1, k) = Piece(d, at, m)
  <2>1. k \in 0..n
    BY <1>5
  <2> QED BY <1>1, <1>2, <2>1, BlockFront
<1>8. m \in Nat /\ at <= m /\ m <= m
  BY <1>1, <1>2, <1>5
<1>9. Owes(t, o \o SubSeq(b, 1, k), m, m)
  BY <1>1, <1>2, <1>6, <1>7, <1>8, OwesLess
<1> DEFINE z == [lines |-> 0]
<1>10. z.lines = 0
  OBVIOUS
<1> HIDE DEF z
<1>11. EndsIn(d, le, m) + z.lines = t.c.num
  BY <1>1, <1>2, <1>5, <1>10
<1>12. AtLines(t, z, m, o \o SubSeq(b, 1, k))
  BY <1>1, <1>2, <1>6, <1>9, <1>10, <1>11 DEF AtLines
<1> QED BY <1>2, <1>12 DEF z
-----------------------------------------------------------------------------
(* head and tail: lines from the end *)

\* Behind the buffer that is looked at there are num - lines of the lines.
Goal(c) == LinesOf(c.d, c.le) - c.num
Backwards(t, l) ==
    /\ Backward(t.c) /\ t.c.kind = "file" /\ l.lines \in Nat /\ Multiple(l.pos)
    /\ \E n \in Nat : /\ IsBlock(l.buf, t.c.d, l.pos, n)
                      /\ EndsIn(t.c.d, t.c.le, l.pos + n) - l.lines = Goal(t.c)

\* The scan from the end starts at the last buffer; an unended line is one.
LEMMA BackStart ==
    ASSUME NEW t, TaskOk(t), Backward(t.c), t.c.kind = "file", t.c.d # <<>>, t.c.num # 0,
           NEW n \in Nat, n <= Len(t.c.d), Multiple(Len(t.c.d) - n), NEW b, NEW lines,
           b = SubSeq(t.c.d, Len(t.c.d) - n + 1, Len(t.c.d) - n + n),
           lines = IF t.c.d[Len(t.c.d)] # t.c.le THEN t.c.num - 1 ELSE t.c.num
    PROVE  Backwards(t, [pos |-> Len(t.c.d) - n, buf |-> b, lines |-> lines])
<1>1. PICK d, le, num, len, pos : /\ d = t.c.d /\ le = t.c.le /\ num = t.c.num /\ len = Len(d)
                                  /\ pos = len - n
  OBVIOUS
<1>2. d \in Seq(t.S) /\ num \in Nat /\ num # 0
  BY <1>1 DEF TaskOk
<1>3. /\ LinesOf(d, le) = Cardinality(Ends(d, le)) + IF d # <<>> /\ d[Len(d)] # le THEN 1 ELSE 0
  BY <1>2, AllLines
<1>4. len \in Nat /\ Cardinality(Ends(d, le)) \in Nat /\ EndsIn(d, le, Len(d)) = Cardinality(Ends(d, le))
  BY <1>1, <1>2, EndsType
<1>5. PICK e, x : e = Cardinality(Ends(d, le)) /\ x = LinesOf(d, le)
  OBVIOUS
<1>6. e - lines = x - num /\ lines \in Nat
  <2>0. e \in Nat /\ num - 1 \in Nat /\ num \in Nat
    BY <1>2, <1>4, <1>5
  <2>1. CASE d[len] # le
    <3>1. x = e + 1 /\ lines = num - 1
      BY <1>1, <1>3, <1>5, <2>1
    <3> QED BY ONLY <2>0, <3>1
  <2>2. CASE d[len] = le
    <3>1. x = e + 0 /\ lines = num
      BY <1>1, <1>3, <1>5, <2>2
    <3> QED BY ONLY <2>0, <3>1
  <2> QED BY <2>1, <2>2
<1>7. pos + n = len /\ pos \in Nat
  BY <1>1, <1>4
<1>8. IsBlock(b, d, pos, n)
  BY <1>1, <1>4, <1>7 DEF IsBlock
<1>9. EndsIn(d, le, pos + n) = e
  BY <1>1, <1>4, <1>5, <1>7
<1> DEFINE l == [pos |-> pos, buf |-> b, lines |-> lines]
<1>10. l.pos = pos /\ l.buf = b /\ l.lines = lines
  OBVIOUS
<1> HIDE DEF l
<1>11. EndsIn(d, le, pos + n) - lines = Goal(t.c)
  BY <1>1, <1>5, <1>6, <1>9 DEF Goal
<1>12. Backwards(t, l)
  BY <1>1, <1>6, <1>8, <1>10, <1>11 DEF Backwards
<1> QED BY <1>1, <1>12 DEF l

\* What every pass of the loops knows.
LEMMA BackIs ==
    ASSUME NEW t, TaskOk(t), NEW l, Backwards(t, l)
    PROVE  LET n == Len(l.buf)
               found == Cardinality(Ends(l.buf, t.c.le))
           IN /\ n \in Nat /\ found \in Nat /\ l.pos \in Nat /\ l.lines \in Nat /\ t.c.d \in Seq(t.S)
              /\ IsBlock(l.buf, t.c.d, l.pos, n) /\ l.pos + n <= Len(t.c.d)
              /\ EndsIn(t.c.d, t.c.le, l.pos) \in Nat
              /\ EndsIn(t.c.d, t.c.le, l.pos) + found - l.lines = Goal(t.c) /\ Goal(t.c) \in Int
<1>1. PICK n \in Nat : /\ IsBlock(l.buf, t.c.d, l.pos, n)
                       /\ EndsIn(t.c.d, t.c.le, l.pos + n) - l.lines = Goal(t.c)
  BY DEF Backwards
<1>2. l.pos \in Nat /\ l.lines \in Nat /\ t.c.d \in Seq(t.S) /\ t.c.num \in Nat
  BY Multiples DEF Backwards, TaskOk
<1>3. PICK b, d, le, pos, found : /\ b = l.buf /\ d = t.c.d /\ le = t.c.le /\ pos = l.pos
                                  /\ found = Cardinality(Ends(l.buf, t.c.le))
  OBVIOUS
<1>4. b \in Seq(t.S) /\ Len(b) = n
  BY <1>1, <1>2, <1>3, BlockType
<1>5. EndsIn(d, le, pos) + found = EndsIn(d, le, pos + n)
  BY <1>1, <1>2, <1>3, EndsOfBlock
<1>6. found \in Nat
  BY <1>3, <1>4, EndsType
<1>7. EndsIn(d, le, pos) \in Nat
  BY <1>2, <1>3, EndsType
<1>8. Goal(t.c) \in Int
  <2>1. LinesOf(t.c.d, t.c.le) \in Nat
    BY <1>2, AllLines
  <2> QED BY <1>2, <2>1 DEF Goal
<1>9. pos + n <= Len(d)
  BY <1>1, <1>3 DEF IsBlock
<1>10. EndsIn(d, le, pos) + found - l.lines = Goal(t.c)
  <2>1. EndsIn(d, le, pos + n) - l.lines = Goal(t.c)
    BY <1>1, <1>3
  <2> QED BY <1>2, <1>5, <1>6, <1>7, <2>1
<1> QED BY <1>1, <1>2, <1>3, <1>4, <1>6, <1>7, <1>8, <1>9, <1>10

\* The line end that separates what is printed from what is not.
LEMMA BackFound ==
    ASSUME NEW t, TaskOk(t), NEW l, Backwards(t, l), Cardinality(Ends(l.buf, t.c.le)) > l.lines
    PROVE  LET k == NthLastEnd(l.buf, t.c.le, l.lines + 1) IN
           k \in 0..Len(l.buf) /\ l.pos + k = LineAt(t.c.d, t.c.le, Goal(t.c))
<1>1. PICK b, d, le, pos, found, n, lines :
        /\ b = l.buf /\ d = t.c.d /\ le = t.c.le /\ pos = l.pos /\ lines = l.lines
        /\ found = Cardinality(Ends(l.buf, t.c.le)) /\ n = Len(l.buf)
  OBVIOUS
<1>2. /\ n \in Nat /\ found \in Nat /\ pos \in Nat /\ lines \in Nat /\ d \in Seq(t.S)
      /\ IsBlock(b, d, pos, n) /\ EndsIn(d, le, pos) \in Nat
      /\ EndsIn(d, le, pos) + found - lines = Goal(t.c) /\ Goal(t.c) \in Int
  BY <1>1, BackIs
<1>3. PICK i : i = found + 1 - (lines + 1)
  OBVIOUS
<1>4. i \in 1..found /\ EndsIn(d, le, pos) + i = Goal(t.c)
  BY <1>1, <1>2, <1>3
<1>5. PICK k : k = NthEnd(b, le, i)
  OBVIOUS
<1>6. k = NthLastEnd(b, le, lines + 1)
  BY <1>1, <1>3, <1>5 DEF NthLastEnd
<1>7. i \in 1..Cardinality(Ends(b, le))
  BY <1>1, <1>4
<1>8. k \in 1..n /\ pos + k \in Ends(d, le) /\ EndsIn(d, le, pos + k) = EndsIn(d, le, pos) + i
  BY <1>2, <1>5, <1>7, NthEndOfBlock
<1>9. LineAt(d, le, Goal(t.c)) = pos + k
  BY <1>2, <1>4, <1>8, LineAtIs
<1>10. k \in 0..n
  BY <1>8
<1> QED BY <1>1, <1>6, <1>9, <1>10

\* None, with all buffers looked at.
LEMMA BackNone ==
    ASSUME NEW t, TaskOk(t), NEW l, Backwards(t, l), ~(Cardinality(Ends(l.buf, t.c.le)) > l.lines), l.pos = 0
    PROVE  LineAt(t.c.d, t.c.le, Goal(t.c)) = 0
<1>1. /\ Cardinality(Ends(l.buf, t.c.le)) \in Nat /\ l.lines \in Nat /\ t.c.d \in Seq(t.S)
      /\ EndsIn(t.c.d, t.c.le, l.pos) + Cardinality(Ends(l.buf, t.c.le)) - l.lines = Goal(t.c)
      /\ Goal(t.c) \in Int
  BY BackIs
<1>2. EndsIn(t.c.d, t.c.le, 0) = 0
  BY <1>1, EndsType
<1>3. Goal(t.c) <= 0
  BY <1>1, <1>2
<1> QED BY <1>1, <1>3, LineAtIs

\* None, with buffers before it.
LEMMA BackPass ==
    ASSUME NEW t, TaskOk(t), NEW l, Backwards(t, l), ~(Cardinality(Ends(l.buf, t.c.le)) > l.lines), l.pos > 0,
           NEW b, b = SubSeq(t.c.d, l.pos - BufSize + 1, l.pos - BufSize + BufSize)
    PROVE  Backwards(t, [pos |-> l.pos - BufSize, buf |-> b,
                         lines |-> l.lines - Cardinality(Ends(l.buf, t.c.le))])
<1>1. PICK d, le, pos, found, lines, from :
        /\ d = t.c.d /\ le = t.c.le /\ pos = l.pos /\ lines = l.lines
        /\ found = Cardinality(Ends(l.buf, t.c.le)) /\ from = l.pos - BufSize
  OBVIOUS
<1>2. /\ Len(l.buf) \in Nat /\ found \in Nat /\ pos \in Nat /\ lines \in Nat /\ d \in Seq(t.S)
      /\ EndsIn(d, le, pos) + found - lines = Goal(t.c)
      /\ EndsIn(d, le, pos) \in Nat /\ pos + Len(l.buf) <= Len(d)
  BY <1>1, BackIs
<1>3. Multiple(pos) /\ Backward(t.c) /\ t.c.kind = "file"
  BY <1>1 DEF Backwards
<1>4. from \in Nat /\ Multiple(from) /\ from + BufSize = pos /\ BufSize \in Nat
  BY <1>1, <1>2, <1>3, Multiples, BufAssumption
<1>5. Len(d) \in Nat
  BY <1>2, LenProperties
<1>6. IsBlock(b, d, from, BufSize)
  <2>1. from + BufSize <= Len(d)
    BY <1>2, <1>4, <1>5
  <2> QED BY <1>1, <2>1 DEF IsBlock
<1>7. lines - found \in Nat
  BY <1>1, <1>2
<1>8. EndsIn(d, le, from + BufSize) - (lines - found) = Goal(t.c)
  <2>1. PICK x : x = EndsIn(d, le, pos) /\ x \in Nat /\ EndsIn(d, le, from + BufSize) = x
    BY <1>2, <1>4
  <2>2. x + found - lines = x - (lines - found)
    BY <1>2, <2>1
  <2> QED BY <1>2, <2>1, <2>2
<1> DEFINE z == [pos |-> from, buf |-> b, lines |-> lines - found]
<1>9. z.pos = from /\ z.buf = b /\ z.lines = lines - found
  OBVIOUS
<1> HIDE DEF z
<1>10. Backwards(t, z)
  BY <1>1, <1>3, <1>4, <1>6, <1>7, <1>8, <1>9 DEF Backwards
<1> QED BY <1>1, <1>10 DEF z
-----------------------------------------------------------------------------
(* tail: lines from the start *)

\* The next line end.
LEMMA NextEnd ==
    ASSUME NEW S, NEW d \in Seq(S), NEW le, NEW a \in Nat, NEW e \in Ends(d, le), a < e,
           \A i \in Ends(d, le) : ~(a < i /\ i < e)
    PROVE  EndsIn(d, le, e) = EndsIn(d, le, a) + 1
<1> DEFINE before == {i \in Ends(d, le) : i <= a}
           now == {i \in Ends(d, le) : i <= e}
<1>1. Ends(d, le) \subseteq 1..Len(d) /\ IsFiniteSet(Ends(d, le)) /\ Len(d) \in Nat
  BY EndsType
<1>2. IsFiniteSet(before)
  BY <1>1, FS_Subset
<1>3. \A i \in Ends(d, le) : i <= e <=> i <= a \/ i = e
  BY <1>1
<1>4. e \notin before
  BY <1>1
<1>5. now = before \cup {e}
  BY <1>3
<1> HIDE DEF before, now
<1>6. Cardinality(now) = Cardinality(before) + 1
  BY <1>2, <1>4, <1>5, FS_AddElement
<1> QED BY <1>6 DEF EndsIn, before, now

\* No line end for a while.
LEMMA NoEnd ==
    ASSUME NEW S, NEW d \in Seq(S), NEW le, NEW a \in Nat, NEW b \in Nat, a <= b,
           \A i \in Ends(d, le) : ~(a < i /\ i <= b)
    PROVE  EndsIn(d, le, b) = EndsIn(d, le, a)
<1>1. Ends(d, le) \subseteq 1..Len(d) /\ Len(d) \in Nat
  BY EndsType
<1>2. \A i \in Ends(d, le) : i <= a <=> i <= b
  BY <1>1
<1>3. {i \in Ends(d, le) : i <= a} = {i \in Ends(d, le) : i <= b}
  BY <1>2
<1> QED BY <1>3 DEF EndsIn

\* The least of some numbers.
LEMMA MinIs ==
    ASSUME NEW S, S \subseteq Nat, S # {}
    PROVE  Min(S) \in S /\ \A y \in S : Min(S) <= y
<1>1. \E x \in S : \A y \in S : x <= y
  BY Least
<1>2. Min(S) = CHOOSE x \in S : \A y \in S : x <= y
  BY DEF Min
<1> QED BY <1>1, <1>2

\* elide_head_lines: the line ends still to be passed are those behind ptr,
\* and as Plain allows one in each buffer, n is what is left of the buffer.
InBuffer(t, l, len) ==
    /\ IsBlock(l.buf, t.c.d, l.pos, len) /\ 0 < len /\ len <= BufSize
    /\ len = BufSize \/ l.pos + len = Len(t.c.d)
    /\ l.ptr <= len /\ l.n = len - l.ptr
Forward(t, l) ==
    /\ t.c.prog = "tail" /\ t.c.o = "n" /\ t.c.elide /\ t.c.kind = "file"
    /\ DOMAIN l = {"pos", "lines", "buf", "ptr", "n"}
    /\ Multiple(l.pos) /\ l.lines \in Nat \ {0} /\ l.ptr \in Nat
    /\ \E len \in Nat : InBuffer(t, l, len)
    /\ l.ptr > 0 => l.pos + l.ptr \in Ends(t.c.d, t.c.le)
    /\ EndsIn(t.c.d, t.c.le, l.pos + l.ptr) + l.lines = t.c.num - 1
Ahead(l, le) == {i \in Ends(l.buf, le) : l.ptr < i}

\* What the scan from the start knows of its buffer.
LEMMA ForwardIs ==
    ASSUME NEW t, TaskOk(t), NEW l, Forward(t, l)
    PROVE  /\ InBuffer(t, l, Len(l.buf)) /\ Len(l.buf) \in Nat /\ l.pos \in Nat /\ l.ptr \in Nat
           /\ l.lines \in Nat \ {0} /\ l.n \in Nat /\ t.c.d \in Seq(t.S) /\ t.c.num \in Nat
           /\ Len(t.c.d) \in Nat /\ l.pos + Len(l.buf) <= Len(t.c.d)
           /\ Ends(l.buf, t.c.le) \subseteq 1..Len(l.buf)
           /\ \A i \in 1..Len(l.buf) : i \in Ends(l.buf, t.c.le) <=> l.pos + i \in Ends(t.c.d, t.c.le)
           /\ EndsIn(t.c.d, t.c.le, l.pos + l.ptr) \in Nat
<1>1. PICK len \in Nat : InBuffer(t, l, len)
  BY DEF Forward
<1>2. l.pos \in Nat /\ l.ptr \in Nat /\ l.lines \in Nat \ {0} /\ t.c.d \in Seq(t.S) /\ t.c.num \in Nat
  BY Multiples DEF Forward, TaskOk
<1>3. PICK b, d, le, pos : b = l.buf /\ d = t.c.d /\ le = t.c.le /\ pos = l.pos
  OBVIOUS
<1>4. IsBlock(b, d, pos, len) /\ l.ptr <= len /\ l.n = len - l.ptr
  BY <1>1, <1>3 DEF InBuffer
<1>5. b \in Seq(t.S) /\ Len(b) = len
  BY <1>2, <1>3, <1>4, BlockType
<1>6. Ends(b, le) \subseteq 1..len
  BY <1>5, EndsType
<1>7. \A i \in 1..len : b[i] = d[pos + i] /\ (i \in Ends(b, le) <=> pos + i \in Ends(d, le))
  <2>1. d \in Seq(t.S) /\ pos \in Nat /\ len \in Nat /\ IsBlock(b, d, pos, len)
    BY <1>2, <1>3, <1>4
  <2> QED BY ONLY <2>1, EndsOfBlock
<1>8. EndsIn(d, le, pos + l.ptr) \in Nat /\ Len(d) \in Nat
  BY <1>2, <1>3, EndsType
<1>9. pos + len <= Len(d)
  BY <1>4 DEF IsBlock
<1>10. l.n \in Nat
  BY <1>2, <1>4
<1> QED BY <1>1, <1>2, <1>3, <1>5, <1>6, <1>7, <1>8, <1>9, <1>10

\* The bytes that memchr looks at.
LEMMA ForwardLooks ==
    ASSUME NEW t, TaskOk(t), NEW l, Forward(t, l)
    PROVE  LET last == IF l.n < 0 THEN Len(l.buf) ELSE l.ptr + l.n IN
           {i \in Ends(l.buf, t.c.le) : l.ptr < i /\ i <= last} = Ahead(l, t.c.le)
<1>1. l.ptr + l.n = Len(l.buf) /\ ~(l.n < 0)
  BY ForwardIs DEF InBuffer
<1>2. Ends(l.buf, t.c.le) \subseteq 1..Len(l.buf) /\ Len(l.buf) \in Nat
  BY ForwardIs
<1> QED BY <1>1, <1>2 DEF Ahead

\* The next line end in the buffer.
LEMMA ForwardFirst ==
    ASSUME NEW t, TaskOk(t), NEW l, Forward(t, l), Ahead(l, t.c.le) # {}
    PROVE  LET i == Min(Ahead(l, t.c.le)) IN
           /\ i \in 1..Len(l.buf) /\ l.ptr < i /\ l.pos + i \in Ends(t.c.d, t.c.le)
           /\ EndsIn(t.c.d, t.c.le, l.pos + i) = EndsIn(t.c.d, t.c.le, l.pos + l.ptr) + 1
<1>1. PICK d, le, pos, len, ptr, i :
        /\ d = t.c.d /\ le = t.c.le /\ pos = l.pos /\ len = Len(l.buf) /\ ptr = l.ptr
        /\ i = Min(Ahead(l, t.c.le))
  OBVIOUS
<1>2. /\ len \in Nat /\ pos \in Nat /\ ptr \in Nat /\ d \in Seq(t.S)
      /\ Len(d) \in Nat /\ pos + len <= Len(d) /\ Ends(l.buf, le) \subseteq 1..len
      /\ \A j \in 1..len : j \in Ends(l.buf, le) <=> pos + j \in Ends(d, le)
  BY <1>1, ForwardIs
<1>3. Ahead(l, le) \subseteq Nat
  BY <1>2 DEF Ahead
<1>4. i \in Ahead(l, le) /\ \A y \in Ahead(l, le) : i <= y
  BY <1>1, <1>3, MinIs
<1>5. i \in 1..len /\ ptr < i /\ pos + i \in Ends(d, le)
  BY <1>1, <1>2, <1>4 DEF Ahead
<1>6. ASSUME NEW e \in Ends(d, le), pos + ptr < e, e < pos + i PROVE FALSE
  <2>1. e \in Nat
    BY <1>2, EndsType
  <2>2. PICK j : j = e - pos
    OBVIOUS
  <2>3. j \in 1..len /\ pos + j = e /\ ptr < j /\ ~(i <= j)
    BY <1>2, <1>5, <1>6, <2>1, <2>2
  <2>4. j \in Ahead(l, le)
    BY <1>1, <1>2, <2>3 DEF Ahead
  <2> QED BY <1>4, <2>3, <2>4
<1>7. EndsIn(d, le, pos + i) = EndsIn(d, le, pos + ptr) + 1
  <2>1. PICK a, e : a = pos + ptr /\ e = pos + i
    OBVIOUS
  <2>2. a \in Nat /\ a < e /\ e \in Ends(d, le) /\ \A x \in Ends(d, le) : ~(a < x /\ x < e)
    BY <1>2, <1>5, <1>6, <2>1
  <2>3. EndsIn(d, le, e) = EndsIn(d, le, a) + 1
    BY ONLY <1>2, <2>2, NextEnd
  <2> QED BY <2>1, <2>3
<1> QED BY <1>1, <1>5, <1>7

\* It is the last one to be passed.
LEMMA ForwardFound ==
    ASSUME NEW t, TaskOk(t), NEW l, Forward(t, l), Ahead(l, t.c.le) # {}, l.lines = 1
    PROVE  l.pos + Min(Ahead(l, t.c.le)) = LineAt(t.c.d, t.c.le, t.c.num - 1)
<1>1. PICK d, le, m, x :
        d = t.c.d /\ le = t.c.le /\ m = l.pos + Min(Ahead(l, t.c.le))
        /\ x = EndsIn(t.c.d, t.c.le, l.pos + l.ptr)
  OBVIOUS
<1>2. m \in Ends(d, le) /\ EndsIn(d, le, m) = x + 1
  BY <1>1, ForwardFirst
<1>3. x \in Nat /\ d \in Seq(t.S) /\ t.c.num \in Nat
  BY <1>1, ForwardIs
<1>4. x + 1 = t.c.num - 1
  BY <1>1 DEF Forward
<1>5. t.c.num - 1 \in Int /\ EndsIn(d, le, m) = t.c.num - 1
  BY <1>2, <1>3, <1>4
<1>6. LineAt(d, le, t.c.num - 1) = m
  BY <1>2, <1>3, <1>5, LineAtIs
<1> QED BY <1>1, <1>6

\* It is not; then it was the first one of this buffer.
LEMMA ForwardNext ==
    ASSUME NEW t, TaskOk(t), NEW l, Forward(t, l), Ahead(l, t.c.le) # {}, l.lines > 1
    PROVE  LET i == Min(Ahead(l, t.c.le)) IN
           Forward(t, [l EXCEPT !.lines = l.lines - 1, !.ptr = i, !.n = l.n - i])
<1>1. PICK d, le, num, pos, len, ptr, i, lines :
        /\ d = t.c.d /\ le = t.c.le /\ pos = l.pos /\ len = Len(l.buf) /\ ptr = l.ptr
        /\ i = Min(Ahead(l, t.c.le)) /\ lines = l.lines /\ num = t.c.num
  OBVIOUS
<1>2. /\ len \in Nat /\ pos \in Nat /\ ptr \in Nat /\ d \in Seq(t.S) /\ lines \in Nat \ {0} /\ num \in Nat
      /\ InBuffer(t, l, len) /\ EndsIn(d, le, pos + ptr) \in Nat
  BY <1>1, ForwardIs
<1>3. /\ i \in 1..len /\ ptr < i /\ pos + i \in Ends(d, le)
      /\ EndsIn(d, le, pos + i) = EndsIn(d, le, pos + ptr) + 1
  BY <1>1, ForwardFirst
<1>4. /\ t.c.prog = "tail" /\ t.c.o = "n" /\ t.c.elide /\ t.c.kind = "file"
      /\ DOMAIN l = {"pos", "lines", "buf", "ptr", "n"} /\ Multiple(pos)
      /\ ptr > 0 => pos + ptr \in Ends(d, le)
      /\ EndsIn(d, le, pos + ptr) + lines = num - 1
  BY <1>1 DEF Forward
<1>5. EndsIn(d, le, pos + i) + (lines - 1) = num - 1 /\ lines - 1 \in Nat \ {0}
      /\ EndsIn(d, le, pos + i) < num - 1
  <2>1. PICK x, y : x = EndsIn(d, le, pos + ptr) /\ y = EndsIn(d, le, pos + i)
    OBVIOUS
  <2>2. x \in Nat /\ y = x + 1 /\ x + lines = num - 1
    BY <1>2, <1>3, <1>4, <2>1
  <2>3. lines \in Nat /\ lines > 1 /\ num \in Nat
    BY <1>1, <1>2
  <2>4. y + (lines - 1) = num - 1 /\ lines - 1 \in Nat \ {0} /\ y < num - 1
    BY ONLY <2>2, <2>3
  <2> QED BY <2>1, <2>4
<1>6. ptr = 0
  <2>1. SUFFICES ASSUME ptr > 0 PROVE FALSE
    BY <1>2
  <2>2. len <= BufSize /\ BufSize \in Nat
    BY <1>2, BufAssumption DEF InBuffer
  <2>3. PICK a, e : a = pos + ptr /\ e = pos + i
    OBVIOUS
  <2>4. a \in Ends(d, le) /\ e \in Ends(d, le) /\ a < e
    BY <1>2, <1>3, <1>4, <2>1, <2>3
  <2>5. Apart(t.c)
    BY <1>4 DEF TaskOk, Plain
  <2>6. (a - 1) \div BufSize # (e - 1) \div BufSize
    BY <1>1, <1>5, <2>3, <2>4, <2>5 DEF Apart
  <2>7. PICK x, y : x = ptr - 1 /\ y = i - 1
    OBVIOUS
  <2>8. x \in 0..(BufSize - 1) /\ y \in 0..(BufSize - 1) /\ a - 1 = pos + x /\ e - 1 = pos + y
    BY <1>2, <1>3, <2>1, <2>2, <2>3, <2>7
  <2>9. (pos + x) \div BufSize = (pos + y) \div BufSize
    BY <1>4, <2>8, SameBuffer
  <2> QED BY <2>6, <2>8, <2>9
<1>7. IsBlock(l.buf, d, pos, len) /\ 0 < len /\ len <= BufSize /\ (len = BufSize \/ pos + len = Len(d))
      /\ l.n = len - ptr
  BY <1>1, <1>2 DEF InBuffer
<1> DEFINE z == [l EXCEPT !.lines = lines - 1, !.ptr = i, !.n = l.n - i]
<1>8. z.pos = pos /\ z.buf = l.buf /\ z.lines = lines - 1 /\ z.ptr = i /\ z.n = l.n - i
      /\ DOMAIN z = {"pos", "lines", "buf", "ptr", "n"}
  BY <1>1, <1>4
<1> HIDE DEF z
<1>9. z.n = len - i /\ i <= len /\ i \in Nat
  BY <1>2, <1>3, <1>6, <1>7, <1>8
<1>10. InBuffer(t, z, len)
  BY <1>1, <1>7, <1>8, <1>9 DEF InBuffer
<1>11. Forward(t, z)
  BY <1>1, <1>2, <1>3, <1>4, <1>5, <1>8, <1>9, <1>10 DEF Forward
<1> QED BY <1>1, <1>11 DEF z

\* There is none left in the buffer.
LEMMA ForwardEnds ==
    ASSUME NEW t, TaskOk(t), NEW l, Forward(t, l), Ahead(l, t.c.le) = {}
    PROVE  EndsIn(t.c.d, t.c.le, l.pos + Len(l.buf)) + l.lines = t.c.num - 1
<1>1. PICK d, le, pos, len, ptr :
        d = t.c.d /\ le = t.c.le /\ pos = l.pos /\ len = Len(l.buf) /\ ptr = l.ptr
  OBVIOUS
<1>2. /\ len \in Nat /\ pos \in Nat /\ ptr \in Nat /\ d \in Seq(t.S)
      /\ Len(d) \in Nat /\ pos + len <= Len(d) /\ Ends(l.buf, le) \subseteq 1..len
      /\ \A j \in 1..len : j \in Ends(l.buf, le) <=> pos + j \in Ends(d, le)
  BY <1>1, ForwardIs
<1>3. ptr <= len
  BY <1>1, ForwardIs DEF InBuffer
<1>4. ASSUME NEW e \in Ends(d, le), pos + ptr < e, e <= pos + len PROVE FALSE
  <2>1. e \in Nat
    BY <1>2, EndsType
  <2>2. PICK j : j = e - pos
    OBVIOUS
  <2>3. j \in 1..len /\ pos + j = e /\ ptr < j
    BY <1>2, <1>4, <2>1, <2>2
  <2>4. j \in Ahead(l, le)
    BY <1>1, <1>2, <2>3 DEF Ahead
  <2> QED BY <1>1, <2>4
<1>5. EndsIn(d, le, pos + len) = EndsIn(d, le, pos + ptr)
  <2>1. PICK a, b : a = pos + ptr /\ b = pos + len
    OBVIOUS
  <2>2. a \in Nat /\ b \in Nat /\ a <= b /\ \A x \in Ends(d, le) : ~(a < x /\ x <= b)
    BY <1>2, <1>3, <1>4, <2>1
  <2>3. EndsIn(d, le, b) = EndsIn(d, le, a)
    BY ONLY <1>2, <2>2, NoEnd
  <2> QED BY <2>1, <2>3
<1>6. EndsIn(d, le, pos + ptr) + l.lines = t.c.num - 1
  BY <1>1 DEF Forward
<1> QED BY <1>1, <1>5, <1>6

\* And there are no more buffers.
LEMMA ForwardNone ==
    ASSUME NEW t, TaskOk(t), NEW l, Forward(t, l), Ahead(l, t.c.le) = {}, l.pos + Len(l.buf) = Len(t.c.d)
    PROVE  LineAt(t.c.d, t.c.le, t.c.num - 1) = Len(t.c.d)
<1>1. EndsIn(t.c.d, t.c.le, Len(t.c.d)) + l.lines = t.c.num - 1
  BY ForwardEnds
<1>2. t.c.d \in Seq(t.S) /\ l.lines \in Nat \ {0} /\ t.c.num \in Nat
  BY ForwardIs
<1>3. EndsIn(t.c.d, t.c.le, Len(t.c.d)) = Cardinality(Ends(t.c.d, t.c.le))
      /\ Cardinality(Ends(t.c.d, t.c.le)) \in Nat
  BY <1>2, EndsType
<1>4. t.c.num - 1 > Cardinality(Ends(t.c.d, t.c.le)) /\ t.c.num - 1 \in Int
  BY <1>1, <1>2, <1>3
<1> QED BY <1>2, <1>4, LineAtIs

\* Or there is one.
LEMMA ForwardPass ==
    ASSUME NEW t, TaskOk(t), NEW l, Forward(t, l), Ahead(l, t.c.le) = {},
           NEW next, next = l.pos + Len(l.buf), next < Len(t.c.d),
           NEW m, m = Min({BufSize, Len(t.c.d) - next})
    PROVE  Forward(t, [l EXCEPT !.pos = next, !.ptr = 0, !.buf = SubSeq(t.c.d, next + 1, next + m), !.n = m])
<1>1. PICK d, le, num, pos, len, lines :
        /\ d = t.c.d /\ le = t.c.le /\ pos = l.pos /\ len = Len(l.buf) /\ lines = l.lines /\ num = t.c.num
  OBVIOUS
<1>2. /\ len \in Nat /\ pos \in Nat /\ d \in Seq(t.S) /\ lines \in Nat \ {0} /\ num \in Nat
      /\ InBuffer(t, l, len) /\ Len(d) \in Nat
  BY <1>1, ForwardIs
<1>3. /\ t.c.prog = "tail" /\ t.c.o = "n" /\ t.c.elide /\ t.c.kind = "file"
      /\ DOMAIN l = {"pos", "lines", "buf", "ptr", "n"} /\ Multiple(pos)
  BY <1>1 DEF Forward
<1>4. EndsIn(d, le, next) + lines = num - 1
  BY <1>1, ForwardEnds
<1>5. len = BufSize /\ BufSize \in Nat \ {0}
  BY <1>1, <1>2, BufAssumption DEF InBuffer
<1>6. Multiple(next) /\ next \in Nat
  BY <1>1, <1>3, <1>5, Multiples
<1>7. m = IF BufSize <= Len(d) - next THEN BufSize ELSE Len(d) - next
  <2>1. PICK rest : rest = Len(d) - next
    OBVIOUS
  <2>2. rest \in Int /\ BufSize \in Int
    BY <1>2, <1>5, <1>6, <2>1
  <2>3. m = Min({BufSize, rest})
    BY <1>1, <2>1
  <2> QED BY <2>1, <2>2, <2>3, OfTwo
<1>8. m \in Nat /\ 0 < m /\ m <= BufSize /\ (m = BufSize \/ next + m = Len(d)) /\ next + m <= Len(d)
  <2>1. PICK size, B : size = Len(d) /\ B = BufSize
    OBVIOUS
  <2>2. size \in Nat /\ B \in Nat \ {0} /\ next \in Nat /\ next < size
    BY <1>1, <1>2, <1>5, <1>6, <2>1
  <2>3. m = IF B <= size - next THEN B ELSE size - next
    BY <1>7, <2>1
  <2>4. m \in Nat /\ 0 < m /\ m <= B /\ (m = B \/ next + m = size) /\ next + m <= size
    BY ONLY <2>2, <2>3
  <2> QED BY <2>1, <2>4
<1> DEFINE b == SubSeq(t.c.d, next + 1, next + m)
           z == [l EXCEPT !.pos = next, !.ptr = 0, !.buf = b, !.n = m]
<1>9. IsBlock(b, d, next, m)
  BY <1>1, <1>8 DEF IsBlock
<1> HIDE DEF b
<1>10. z.pos = next /\ z.buf = b /\ z.lines = lines /\ z.ptr = 0 /\ z.n = m
       /\ DOMAIN z = {"pos", "lines", "buf", "ptr", "n"}
  BY <1>1, <1>3
<1> HIDE DEF z
<1>11. z.ptr \in Nat /\ z.ptr <= m /\ m - z.ptr = m /\ next + z.ptr = next /\ ~(z.ptr > 0)
  BY <1>6, <1>8, <1>10
<1>12. InBuffer(t, z, m)
  BY <1>1, <1>8, <1>9, <1>10, <1>11 DEF InBuffer
<1>13. Forward(t, z)
  BY <1>1, <1>2, <1>3, <1>4, <1>6, <1>8, <1>10, <1>11, <1>12 DEF Forward
<1> QED BY <1>13 DEF z, b

\* It starts with the first buffer.
LEMMA ForwardStart ==
    ASSUME NEW t, TaskOk(t), t.c.prog = "tail", t.c.o = "n", t.c.elide, t.c.kind = "file",
           t.c.d # <<>>, t.c.num > 1, NEW n, n = Min({BufSize, Len(t.c.d)})
    PROVE  Forward(t, [pos |-> 0, lines |-> t.c.num - 1, buf |-> SubSeq(t.c.d, 0 + 1, 0 + n),
                       ptr |-> 0, n |-> n])
<1>1. PICK d, le, num : d = t.c.d /\ le = t.c.le /\ num = t.c.num
  OBVIOUS
<1>2. d \in Seq(t.S) /\ num \in Nat /\ num > 1
  BY <1>1 DEF TaskOk
<1>3. Len(d) \in Nat \ {0}
  BY <1>1, <1>2, EmptySeq
<1>4. n = IF BufSize <= Len(d) THEN BufSize ELSE Len(d)
  BY <1>1, <1>3, BufAssumption, OfTwo
<1>5. n \in Nat /\ 0 < n /\ n <= BufSize /\ (n = BufSize \/ 0 + n = Len(d)) /\ 0 + n <= Len(d)
  BY <1>3, <1>4, BufAssumption
<1>6. EndsIn(d, le, 0) = 0
  BY <1>2, EndsType
<1> DEFINE b == SubSeq(t.c.d, 0 + 1, 0 + n)
           z == [pos |-> 0, lines |-> num - 1, buf |-> b, ptr |-> 0, n |-> n]
<1>7. IsBlock(b, d, 0, n)
  BY <1>1, <1>5 DEF IsBlock
<1> HIDE DEF b
<1>8. z.pos = 0 /\ z.buf = b /\ z.lines = num - 1 /\ z.ptr = 0 /\ z.n = n
      /\ DOMAIN z = {"pos", "lines", "buf", "ptr", "n"}
  OBVIOUS
<1> HIDE DEF z
<1>9. z.ptr \in Nat /\ z.ptr <= n /\ n - z.ptr = n /\ z.pos + z.ptr = 0 /\ ~(z.ptr > 0)
      /\ z.lines \in Nat \ {0} /\ EndsIn(d, le, z.pos + z.ptr) + z.lines = num - 1
  BY <1>2, <1>5, <1>6, <1>8
<1>10. InBuffer(t, z, n)
  BY <1>1, <1>5, <1>7, <1>8, <1>9 DEF InBuffer
<1>11. Forward(t, z)
  BY <1>1, <1>5, <1>8, <1>9, <1>10, Multiples DEF Forward
<1> QED BY <1>1, <1>11 DEF z, b
-----------------------------------------------------------------------------
(* head and tail: where they are *)

\* The calls that HeadExact and TailExact are about.
TextUsual ==
    /\ prog = "head" /\ Asked.sign = "-" => \A i \in DOMAIN fs :
         /\ fs[i].kind # "pipe"
         /\ Asked.o = "n" /\ fs[i].data # <<>> => LastLineSeen(fs[i].data)
    /\ prog = "tail" => Given({"c", "n"}) # {}
    /\ prog = "tail" /\ Asked.o = "n" => \A i \in DOMAIN fs : LET d == fs[i].data IN
         /\ fs[i].kind # "pipe"
         /\ Asked.sign = "" /\ d # <<>> => (Last(d) = Newline <=> Last(d) = LineEnd)
         /\ Asked.sign = "+" => Count > 0 /\ Passable(d)

\* What a call comes to; the k-th task.
TextJob ==
    [F |-> fs, prog |-> prog, o |-> Asked.o, elide |-> Asked.sign # "", num |-> Count, le |-> LineEnd,
     heads |-> Headers, S |-> TextBytes, E |-> TextElems, sofar |-> Sofar,
     call |-> [k \in DOMAIN fs |-> TextCall(k)]]
Task(u, k) == [c |-> u.call[k], due |-> u.sofar[k], S |-> u.S, E |-> u.E]
HeaderText(u, k) == IF u.heads THEN <<[header |-> k, blank |-> k > 1]>> ELSE <<>>

OfJob(u, c) ==
    /\ c.prog = u.prog /\ c.o = u.o /\ c.elide = u.elide /\ c.num = u.num /\ c.le = u.le
JobTask(u, k) ==
    LET t == Task(u, k) IN
    /\ TaskOk(t) /\ OfJob(u, t.c) /\ t.c.d = u.F[k].data /\ t.c.kind = u.F[k].kind
    /\ Owes(t, u.sofar[k - 1] \o HeaderText(u, k), Begin(t.c), Close(t.c))
    /\ u.sofar[k - 1] \in Seq(u.E)
JobOk(u) ==
    /\ u.prog \in {"head", "tail"} /\ u.num \in Nat /\ u.heads \in BOOLEAN /\ Len(u.F) \in Nat
    /\ u.sofar[0] = <<>> /\ \A k \in 1..Len(u.F) : JobTask(u, k)

\* The calls of one job are plain.
LEMMA CallPlain ==
    ASSUME fs \in Seq(TextFiles), TextArgs, prog \in {"head", "tail"}, TextUsual, NEW k \in 1..Len(fs)
    PROVE  Plain(TextCall(k))
<1>1. k \in DOMAIN fs
  BY LenProperties
<1>2. PICK c, d : c = TextCall(k) /\ d = fs[k].data
  OBVIOUS
<1>3. /\ c.prog = prog /\ c.o \in {"c", "n"} /\ c.elide = (Asked.sign # "") /\ c.num = Count
      /\ c.o = Asked.o /\ c.le = LineEnd /\ c.d = d /\ c.kind = fs[k].kind
  BY <1>2, CallType
<1>4. Asked.sign \in {"", TextSign}
  BY AskedIs
<1>5. CASE prog = "head"
  <2>1. Asked.sign # "" => Asked.sign = "-"
    BY <1>4, <1>5 DEF TextSign
  <2>2. c.elide => c.kind # "pipe" /\ (c.o = "n" /\ d # <<>> => LastLineSeen(d))
    BY <1>1, <1>2, <1>3, <1>5, <2>1 DEF TextUsual
  <2>3. LastLineSeen(d) => EndSeen(c)
    BY <1>3, <1>5 DEF LastLineSeen, EndSeen
  <2>4. c.prog = "head" /\ (Backward(c) => c.o = "n" /\ c.elide)
    BY <1>3, <1>5 DEF Backward
  <2>5. Plain(c)
    BY <1>3, <2>2, <2>3, <2>4 DEF Plain
  <2> QED BY <1>2, <2>5
<1>6. CASE prog = "tail"
  <2>1. Asked.sign # "" => Asked.sign = "+"
    BY <1>4, <1>6 DEF TextSign
  <2>2. c.o = "n" => /\ c.kind # "pipe"
                     /\ ~c.elide /\ d # <<>> => (Last(d) = Newline <=> Last(d) = LineEnd)
                     /\ c.elide => Count > 0 /\ Passable(d)
    BY <1>1, <1>2, <1>3, <1>6, <2>1 DEF TextUsual
  <2>3. Passable(d) => Apart(c)
    BY <1>3 DEF Passable, Apart, EndsIn
  <2>4. (Last(d) = Newline <=> Last(d) = LineEnd) => EndSeen(c)
    BY <1>3, <1>6 DEF EndSeen
  <2>5. c.prog = "tail" /\ (Backward(c) => c.o = "n" /\ ~c.elide)
    BY <1>3, <1>6 DEF Backward
  <2>6. Plain(c)
    BY <1>3, <2>2, <2>3, <2>4, <2>5 DEF Plain
  <2> QED BY <1>2, <2>6
<1> QED BY <1>5, <1>6

\* The job of a run is one that the invariant is about.
LEMMA TextJobOk ==
    ASSUME fs \in Seq(TextFiles), TextArgs, prog \in {"head", "tail"}, TextUsual
    PROVE  /\ JobOk(TextJob) /\ TextJob.F = fs /\ TextJob.prog = prog
           /\ prog = "head" => TextJob.sofar[Len(fs)] = WithHeaders(HeadText)
           /\ prog = "tail" => TextJob.sofar[Len(fs)] = WithHeaders(TailText)
<1>1. DOMAIN fs = 1..Len(fs) /\ Len(fs) \in Nat
  BY LenProperties
<1>2. PICK u : u = TextJob
  OBVIOUS
<1>3. /\ u.F = fs /\ u.prog = prog /\ u.o = Asked.o /\ u.elide = (Asked.sign # "") /\ u.num = Count
      /\ u.le = LineEnd /\ u.heads = Headers /\ u.S = TextBytes /\ u.E = TextElems /\ u.sofar = Sofar
      /\ u.call = [k \in DOMAIN fs |-> TextCall(k)]
  BY <1>2 DEF TextJob
<1>4. Count \in Nat /\ Headers \in BOOLEAN
  BY AskedIs DEF Headers, Has
<1>5. Sofar[0] = <<>> /\ \A k \in 0..Len(fs) : Sofar[k] \in Seq(TextElems)
  BY SharesJoin
<1>6. ASSUME NEW k \in 1..Len(fs) PROVE JobTask(u, k)
  <2>1. PICK t, c, d : t = Task(u, k) /\ c = TextCall(k) /\ d = fs[k].data
    OBVIOUS
  <2>2. t.c = c /\ t.due = Sofar[k] /\ t.S = TextBytes /\ t.E = TextElems
    BY <1>1, <1>3, <2>1 DEF Task
  <2>3. /\ c.prog = prog /\ c.o \in {"c", "n"} /\ c.elide = (Asked.sign # "") /\ c.num = Count
        /\ c.elide \in BOOLEAN /\ c.o = Asked.o /\ c.le = LineEnd
        /\ c.d = d /\ c.d \in Seq(TextBytes) /\ c.kind = fs[k].kind
        /\ Begin(c) \in Nat /\ Close(c) \in Nat /\ Begin(c) <= Close(c) /\ Close(c) <= Len(c.d)
    BY <2>1, CallType
  <2>4. /\ d \in Seq(TextBytes) /\ fs[k].kind \in {"file", "pipe", "dir", "missing"}
        /\ fs[k].kind \in {"dir", "missing"} => d = <<>>
    BY <2>1, InputType
  <2>5. Plain(c)
    BY <2>1, CallPlain
  <2>6. TextBytes \subseteq TextElems
    BY DEF TextElems
  <2>7. k \in 0..Len(fs) /\ k - 1 \in 0..Len(fs)
    BY <1>1
  <2>8. Sofar[k] \in Seq(TextElems) /\ Sofar[k - 1] \in Seq(TextElems)
    BY <1>5, <2>7
  <2>9. TaskOk(t)
    BY <1>4, <2>2, <2>3, <2>4, <2>5, <2>6, <2>8 DEF TaskOk
  <2>10. OfJob(u, t.c)
    BY <1>3, <2>2, <2>3 DEF OfJob
  <2>11. HeaderText(u, k) = HeaderOf(k)
    BY <1>3 DEF HeaderText, HeaderOf
  <2>12. Owes(t, Sofar[k - 1] \o HeaderOf(k), Begin(c), Close(c))
    <3>1. PICK x, y, h : x = Sofar[k - 1] /\ h = HeaderOf(k) /\ y = Piece(d, Begin(c), Close(c))
      OBVIOUS
    <3>2. h \in Seq(TextElems) /\ y \in Seq(TextElems) /\ Share(k) = h \o y
      <4>1. Share(k) = HeaderOf(k) \o Piece(fs[k].data, Begin(TextCall(k)), Close(TextCall(k)))
        BY DEF Share
      <4> QED BY <2>1, <3>1, <4>1, ShareType
    <3>3. IsConcat(Sofar[k], x, Share(k))
      BY <3>1, SharesJoin
    <3>4. PICK z, w : z = Share(k) /\ w = x \o h
      OBVIOUS
    <3>5. IsConcat(Sofar[k], x, z) /\ IsConcat(z, h, y) /\ IsConcat(w, x, h) /\ x \in Seq(TextElems)
      BY <2>8, <3>1, <3>2, <3>3, <3>4 DEF IsConcat
    <3>6. w \in Seq(TextElems)
      BY <3>2, <3>4, <3>5, ConcatProperties
    <3>7. x \o (h \o y) = (x \o h) \o y
      BY <3>2, <3>5
    <3>8. IsConcat(Sofar[k], w, y)
      BY <3>4, <3>5, <3>7 DEF IsConcat
    <3>9. t.due = Sofar[k] /\ t.c.d = d /\ t.E = TextElems
      BY <2>2, <2>3
    <3> QED BY <2>3, <3>1, <3>4, <3>6, <3>8, <3>9 DEF Owes
  <2> QED BY <1>3, <2>1, <2>2, <2>3, <2>8, <2>9, <2>10, <2>11, <2>12 DEF JobTask
<1>7. JobOk(u)
  BY <1>1, <1>3, <1>4, <1>5, <1>6 DEF JobOk
<1> QED BY <1>2, <1>3, <1>7, SharesJoin

\* The settings, which do not change but for num and first_line.
Settings(u, s) ==
    /\ DOMAIN s = {"bytes", "elide", "num", "q", "v", "line_end", "first_line"}
    /\ s.bytes = (u.o = "c") /\ s.elide = u.elide /\ s.line_end = u.le
    /\ u.heads <=> s.v \/ (~s.q /\ Len(u.F) > 1)
Started(u, s) == Settings(u, s) /\ (u.heads => s.first_line = FALSE)

\* The functions for one input, at their start.
Entered(c, p) ==
    \/ p = "elide_tail_lines" /\ c.prog = "head" /\ c.o = "n" /\ c.elide
    \/ p = "elide_tail_bytes" /\ c.prog = "head" /\ c.o = "c" /\ c.elide
    \/ p = "tail_lines" /\ c.prog = "tail" /\ c.o = "n" /\ ~c.elide
    \/ p = "tail_bytes" /\ c.prog = "tail" /\ c.o = "c" /\ ~c.elide
    \/ p = "elide_head_lines" /\ c.prog = "tail" /\ c.o = "n" /\ c.elide
    \/ p = "elide_head_bytes" /\ c.prog = "tail" /\ c.o = "c" /\ c.elide
Scanning(t, p, l) ==
    \/ p = "elide_tail_scan" /\ t.c.prog = "head" /\ Backwards(t, l)
    \/ p = "tail_scan" /\ t.c.prog = "tail" /\ Backwards(t, l)
    \/ p = "elide_head_scan" /\ Forward(t, l)
OwesAll(t, o) == Owes(t, o, Begin(t.c), Close(t.c))
Part(t, p, l, at, o) ==
    \/ p = "copy" /\ AtCopy(t, l, at, o)
    \/ p = "head_lines" /\ AtLines(t, l, at, o)
    \/ at = 0 /\ Entered(t.c, p) /\ OwesAll(t, o)
    \/ Scanning(t, p, l) /\ OwesAll(t, o)

\* Between two inputs, within one, at the start and at the end.
Between(u, k, s, o) ==
    /\ k \in 1..(Len(u.F) + 1) /\ Settings(u, s) /\ s.num = u.num
    /\ u.heads => s.first_line = (k = 1)
    /\ o = u.sofar[k - 1]
Within(u, k, s, p, l, at, o) ==
    /\ k \in 1..Len(u.F) /\ Started(u, s) /\ (p # "copy" => s.num = u.num)
    /\ Part(Task(u, k), p, l, at, o)
TextState(u, k, s, p, l, at, o) ==
    \/ p = "main" /\ k = 1 /\ o = <<>>
    \/ p = "file" /\ Between(u, k, s, o)
    \/ Within(u, k, s, p, l, at, o)
    \/ p = "exit" /\ o = u.sofar[Len(u.F)]

\* What a step of these functions starts from, and what it is to lead to.
Here(u, t) ==
    /\ JobOk(u) /\ u.F = fs /\ fi \in 1..Len(u.F) /\ t = Task(u, fi) /\ TaskOk(t) /\ OfJob(u, t.c)
    /\ In.data = t.c.d /\ In.kind = t.c.kind /\ t.c.d \in Seq(t.S) /\ Len(t.c.d) \in Nat
    /\ Started(u, g) /\ g.line_end = t.c.le /\ (pc # "copy" => g.num = t.c.num)
Onward(u) == TextState(u, fi', g', pc', v', off', out')

\* Away from the loop over the inputs, a task is being done.
LEMMA InsideIs ==
    ASSUME NEW u, JobOk(u), u.F = fs, TextState(u, fi, g, pc, v, off, out),
           pc \notin {"main", "file", "exit"}
    PROVE  \E t : Here(u, t) /\ Part(t, pc, v, off, out)
<1>1. Within(u, fi, g, pc, v, off, out)
  BY DEF TextState
<1>2. PICK t : t = Task(u, fi)
  OBVIOUS
<1>3. fi \in 1..Len(u.F) /\ Started(u, g) /\ (pc # "copy" => g.num = u.num) /\ Part(t, pc, v, off, out)
  BY <1>1, <1>2 DEF Within
<1>4. TaskOk(t) /\ OfJob(u, t.c) /\ t.c.d = u.F[fi].data /\ t.c.kind = u.F[fi].kind
  BY <1>2, <1>3 DEF JobOk, JobTask
<1>5. t.c.num = u.num /\ t.c.le = u.le /\ g.line_end = u.le
  BY <1>3, <1>4 DEF OfJob, Started, Settings
<1>6. t.c.d \in Seq(t.S) /\ Len(t.c.d) \in Nat
  BY <1>4, LenProperties DEF TaskOk
<1>7. Here(u, t)
  BY <1>2, <1>3, <1>4, <1>5, <1>6 DEF Here, In
<1> QED BY <1>3, <1>7

\* num changes.
LEMMA Renumbered ==
    ASSUME NEW u, NEW s, Started(u, s), NEW n
    PROVE  Started(u, [s EXCEPT !.num = n]) /\ [s EXCEPT !.num = n].num = n
<1>1. DOMAIN s = {"bytes", "elide", "num", "q", "v", "line_end", "first_line"}
  BY DEF Started, Settings
<1> DEFINE z == [s EXCEPT !.num = n]
<1>2. /\ DOMAIN z = DOMAIN s /\ z.num = n /\ z.bytes = s.bytes /\ z.elide = s.elide /\ z.q = s.q
      /\ z.v = s.v /\ z.line_end = s.line_end /\ z.first_line = s.first_line
  BY <1>1
<1> HIDE DEF z
<1>3. Started(u, z)
  BY <1>2 DEF Started, Settings
<1> QED BY <1>2, <1>3 DEF z

\* The input is done.
LEMMA InputDone ==
    ASSUME NEW u, NEW t, Here(u, t), pc' = "file", fi' = fi + 1, out' = t.due,
           Started(u, g'), g'.num = t.c.num
    PROVE  Onward(u)
<1>1. fi \in 1..Len(u.F) /\ Len(u.F) \in Nat /\ t = Task(u, fi) /\ t.c.num = u.num
  BY DEF Here, JobOk, OfJob
<1>2. fi + 1 \in 1..(Len(u.F) + 1) /\ fi + 1 - 1 = fi /\ (fi + 1 = 1) = FALSE
  BY <1>1
<1>3. out' = u.sofar[fi + 1 - 1]
  BY <1>1, <1>2 DEF Task
<1>4. PICK k : k = fi + 1
  OBVIOUS
<1>5. u.heads => g'.first_line = FALSE
  BY DEF Started
<1>6. (k = 1) = FALSE
  BY <1>2, <1>4
<1>7. u.heads => g'.first_line = (k = 1)
  BY ONLY <1>5, <1>6
<1>8. Settings(u, g') /\ g'.num = u.num /\ k \in 1..(Len(u.F) + 1) /\ out' = u.sofar[k - 1]
  BY <1>1, <1>2, <1>3, <1>4 DEF Started
<1>9. Between(u, k, g', out')
  BY ONLY <1>7, <1>8 DEF Between
<1>10. TextState(u, fi', g', pc', v', off', out')
  BY <1>4, <1>9 DEF TextState
<1> QED BY <1>10 DEF Onward

\* It is not.
LEMMA InputGoesOn ==
    ASSUME NEW u, NEW t, Here(u, t), fi' = fi, Started(u, g'),
           pc' # "copy" => g'.num = t.c.num, Part(t, pc', v', off', out')
    PROVE  Onward(u)
<1>1. fi \in 1..Len(u.F) /\ t = Task(u, fi) /\ t.c.num = u.num
  BY DEF Here, JobOk, OfJob
<1>2. Within(u, fi, g', pc', v', off', out')
  BY <1>1 DEF Within
<1> QED BY <1>2 DEF Onward, TextState

\* The same with UNCHANGED, as most steps have it.
LEMMA DoneSame ==
    ASSUME NEW u, NEW t, Here(u, t), pc # "copy", Return(TRUE), out' = out, g' = g, out = t.due
    PROVE  Onward(u)
<1>1. pc' = "file" /\ fi' = fi + 1 /\ Started(u, g') /\ g'.num = t.c.num
  BY DEF Return, Here
<1> QED BY <1>1, InputDone

\* A step within a task that leaves the settings alone.
LEMMA GoesOnSame ==
    ASSUME NEW u, NEW t, Here(u, t), pc # "copy", NEW f, NEW l, Goto(f, l), g' = g, Part(t, f, l, off', out')
    PROVE  Onward(u)
<1>1. pc' = f /\ fi' = fi /\ v' = l /\ Started(u, g') /\ g'.num = t.c.num
  BY DEF Goto, Here
<1> QED BY <1>1, InputGoesOn

\* Copying to the end.
LEMMA CopyOnward ==
    ASSUME NEW u, NEW t, Here(u, t), pc # "copy", NEW n \in Nat, Goto("copy", CopyLocals(n, <<>>)), g' = g,
           out' = out, NEW a, off' = a, NEW b, Owes(t, out, a, b), Reaches(a, n, b, Len(t.c.d))
    PROVE  Onward(u)
<1>1. CopyLocals(n, <<>>) = [left |-> n, rest |-> <<>>, num |-> t.c.num]
  BY DEF CopyLocals, Here
<1>2. TaskOk(t)
  BY DEF Here
<1>3. AtCopy(t, [left |-> n, rest |-> <<>>, num |-> t.c.num], a, out)
  BY <1>2, CopyAll
<1>4. Part(t, "copy", CopyLocals(n, <<>>), off', out')
  BY <1>1, <1>3 DEF Part
<1> QED BY <1>4, GoesOnSame

\* Copying nothing, behind the end.
LEMMA CopyNothing ==
    ASSUME NEW u, NEW t, Here(u, t), NEW n \in Int, NEW at \in Nat, at >= Len(t.c.d), out = t.due
    PROVE  Part(t, "copy", [left |-> n, rest |-> <<>>, num |-> t.c.num], at, out)
<1> DEFINE l == [left |-> n, rest |-> <<>>, num |-> t.c.num]
<1>1. l.left = n /\ l.rest = <<>> /\ l.num = t.c.num /\ DOMAIN l = {"left", "rest", "num"}
  OBVIOUS
<1> HIDE DEF l
<1>2. AtCopy(t, l, at, out)
  BY <1>1 DEF AtCopy
<1> QED BY <1>2 DEF Part, l
-----------------------------------------------------------------------------
(* head and tail: their steps *)

\* Behind the end nothing is read.
LEMMA ReadsNothing ==
    ASSUME NEW limit \in Int, off \in Nat, Len(In.data) \in Nat, off >= Len(In.data), NEW n \in Reads(off, limit)
    PROVE  n \in {-1, 0}
<1> DEFINE rest == Len(In.data) - off
           most == Min({limit, rest})
<1>1. rest \in Int /\ rest <= 0
  OBVIOUS
<1>2. n \in CASE In.kind = "dir" -> {-1}
              [] In.kind # "dir" /\ most <= 0 -> {0}
              [] In.kind = "pipe" /\ most > 0 -> 1..most
              [] OTHER -> {most}
  BY DEF Reads
<1> HIDE DEF rest
<1>3. most <= 0 /\ ~(most > 0)
  <2>1. most = IF limit <= rest THEN limit ELSE rest
    BY <1>1, OfTwo
  <2> HIDE DEF most
  <2> QED BY <1>1, <2>1
<1> HIDE DEF most
<1> QED BY <1>2, <1>3

\* What a read gives: none at the end, and no more than there is.
LEMMA HereReads ==
    ASSUME NEW u, NEW t, Here(u, t), off \in Nat, off <= Len(t.c.d), NEW limit \in Nat \ {0},
           NEW n \in Reads(off, limit)
    PROVE  /\ n \in Int /\ (n <= 0 => off = Len(t.c.d))
           /\ n > 0 => n \in Nat \ {0} /\ n <= limit /\ off + n <= Len(t.c.d)
<1>1. In.data = t.c.d /\ In.kind = t.c.kind /\ Len(t.c.d) \in Nat
  BY DEF Here
<1>2. t.c.kind = "dir" => t.c.d = <<>>
  BY DEF Here, TaskOk
<1>3. In.kind = "dir" => Len(In.data) = 0
  BY <1>1, <1>2
<1>4. /\ n \in Int /\ (n <= 0 => off = Len(In.data))
      /\ n > 0 => n \in Nat /\ n <= limit /\ off + n <= Len(In.data)
  BY <1>1, <1>3, ReadsBytes
<1> QED BY <1>1, <1>4

\* copy_fd: what is owed gets less, and at the end nothing is.
LEMMA CopyStep ==
    ASSUME NEW u, NEW t, Here(u, t), Part(t, pc, v, off, out), CopyFd, ok'
    PROVE  Onward(u)
<1> DEFINE limit == IF v.left < 0 THEN BufSize ELSE Min({BufSize, v.left})
<1>1. pc = "copy"
  BY DEF CopyFd
<1>2. AtCopy(t, v, off, out)
  BY <1>1 DEF Part, Entered, Scanning
<1>3. DOMAIN v = {"left", "rest", "num"} /\ v.num = t.c.num /\ v.left \in Int /\ off \in Nat
  BY <1>2 DEF AtCopy
<1>4. /\ TaskOk(t) /\ Started(u, g) /\ In.data = t.c.d /\ Len(t.c.d) \in Nat
  BY DEF Here
<1>5. \/ v.left = 0 /\ CopyDone(v.rest)
      \/ /\ v.left # 0
         /\ \E n \in Reads(off, limit) :
               \/ n < 0 /\ Return(FALSE) /\ UNCHANGED out /\ g' = [g EXCEPT !.num = v.num]
               \/ n >= 0 /\ AtEnd(n) /\ CopyDone(v.rest)
               \/ /\ n >= 0 /\ ~AtEnd(n)
                  /\ Goto("copy", [v EXCEPT !.left = @ - n])
                  /\ out' = out \o Block(off, n) /\ off' = off + n /\ UNCHANGED g
  BY DEF CopyFd
<1>6. ASSUME CopyDone(v.rest), v.left = 0 \/ off >= Len(t.c.d) PROVE Onward(u)
  <2>1. out \o v.rest = t.due
    BY <1>2, <1>4, <1>6, CopyEnds
  <2>2. pc' = "file" /\ fi' = fi + 1 /\ out' = t.due /\ g' = [g EXCEPT !.num = t.c.num]
    BY <1>3, <1>6, <2>1 DEF CopyDone, Return
  <2>3. Started(u, g') /\ g'.num = t.c.num
    BY <1>4, <2>2, Renumbered
  <2> QED BY <2>2, <2>3, InputDone
<1>7. CASE v.left = 0 /\ CopyDone(v.rest)
  BY <1>6, <1>7
<1>8. CASE /\ v.left # 0
           /\ \E n \in Reads(off, limit) :
                 \/ n < 0 /\ Return(FALSE) /\ UNCHANGED out /\ g' = [g EXCEPT !.num = v.num]
                 \/ n >= 0 /\ AtEnd(n) /\ CopyDone(v.rest)
                 \/ /\ n >= 0 /\ ~AtEnd(n)
                    /\ Goto("copy", [v EXCEPT !.left = @ - n])
                    /\ out' = out \o Block(off, n) /\ off' = off + n /\ UNCHANGED g
  <2>1. PICK n \in Reads(off, limit) :
                 \/ n < 0 /\ Return(FALSE)
                 \/ n >= 0 /\ n = 0 /\ CopyDone(v.rest)
                 \/ /\ n >= 0 /\ n # 0
                    /\ Goto("copy", [v EXCEPT !.left = v.left - n])
                    /\ out' = out \o Block(off, n) /\ off' = off + n /\ g' = g
    BY <1>8 DEF AtEnd
  <2>2. CASE n < 0 /\ Return(FALSE)
    BY <2>2 DEF Return
  <2>3. limit \in Nat \ {0} /\ (v.left >= 0 => limit <= v.left)
    <3>1. BufSize \in Nat \ {0}
      BY BufAssumption
    <3>2. Min({BufSize, v.left}) = IF BufSize <= v.left THEN BufSize ELSE v.left
      BY <1>3, <3>1, OfTwo
    <3> QED BY <1>3, <1>8, <3>1, <3>2
  <2> HIDE DEF limit
  <2>4. CASE off >= Len(t.c.d)
    <3>1. n \in {-1, 0}
      BY <1>3, <1>4, <2>3, <2>4, ReadsNothing
    <3>2. n < 0 \/ (n = 0 /\ ~(n < 0))
      BY <3>1
    <3>3. CASE n < 0
      <4>1. ~(n >= 0)
        BY <3>1, <3>3
      <4>2. Return(FALSE)
        BY ONLY <2>1, <4>1
      <4> QED BY <2>2, <3>3, <4>2
    <3>4. CASE n = 0 /\ ~(n < 0)
      <4>1. CopyDone(v.rest)
        BY ONLY <2>1, <3>4
      <4> QED BY <1>6, <2>4, <4>1
    <3> QED BY <3>2, <3>3, <3>4
  <2>5. CASE ~(off >= Len(t.c.d))
    <3>1. off <= Len(t.c.d) /\ off # Len(t.c.d)
      BY <1>3, <1>4, <2>5
    <3>2. n \in Nat \ {0} /\ n <= limit /\ off + n <= Len(t.c.d)
      BY <1>3, <2>3, <3>1, HereReads
    <3>3. v.left \in Nat
      BY <1>2, <2>5 DEF AtCopy, Copying
    <3>4. n <= v.left
      BY <2>3, <3>2, <3>3
    <3>5. /\ Goto("copy", [v EXCEPT !.left = v.left - n])
          /\ out' = out \o Block(off, n) /\ off' = off + n /\ g' = g
      <4>1. ~(n < 0) /\ n # 0
        BY <3>2
      <4> QED BY ONLY <2>1, <4>1
    <3>6. Block(off, n) = Piece(t.c.d, off, off + n)
      BY <1>4 DEF Block, Piece
    <3>7. AtCopy(t, [v EXCEPT !.left = v.left - n], off + n, out \o Piece(t.c.d, off, off + n))
      BY <1>2, <1>4, <2>5, <3>2, <3>4, CopyPass
    <3>8. Part(t, "copy", v', off', out')
      BY <3>5, <3>6, <3>7 DEF Part, Goto
    <3>9. pc' = "copy" /\ fi' = fi
      BY <3>5 DEF Goto
    <3> QED BY <1>4, <3>5, <3>8, <3>9, InputGoesOn
  <2> QED BY <2>4, <2>5
<1> QED BY <1>5, <1>7, <1>8

\* head_lines, over any pieces that are read.
LEMMA HeadLinesStep ==
    ASSUME NEW u, NEW t, Here(u, t), Part(t, pc, v, off, out), HeadLines, ok'
    PROVE  Onward(u)
<1>1. pc = "head_lines"
  BY DEF HeadLines
<1>2. AtLines(t, v, off, out)
  BY <1>1 DEF Part, Entered, Scanning
<1>3. TaskOk(t) /\ In.data = t.c.d /\ Len(t.c.d) \in Nat /\ g.line_end = t.c.le
  BY DEF Here
<1>4. off \in Nat /\ off <= Len(t.c.d) /\ v.lines \in Nat
  <2>1. /\ Owes(t, out, off, Close(t.c)) /\ v.lines \in Nat
    BY <1>2 DEF AtLines
  <2>2. off \in Nat /\ Close(t.c) \in Nat /\ off <= Close(t.c) /\ Close(t.c) <= Len(t.c.d)
    BY <2>1 DEF Owes
  <2> QED BY <1>3, <2>1, <2>2
<1>5. CASE v.lines = 0 /\ Return(TRUE) /\ UNCHANGED <<out, g>>
  <2>1. out = t.due
    BY <1>2, <1>3, <1>5, LinesEnd
  <2> QED BY <1>1, <1>5, <2>1, DoneSame
<1>6. CASE /\ v.lines > 0
           /\ \E n \in Reads(off, BufSize) :
                LET b == Block(off, n)
                    found == Cardinality(Ends(b, g.line_end))
                IN \/ n < 0 /\ Exit(FALSE)
                   \/ n = 0 /\ Return(TRUE) /\ UNCHANGED <<out, g>>
                   \/ /\ n > 0 /\ found < v.lines
                      /\ Goto("head_lines", [lines |-> v.lines - found])
                      /\ out' = out \o b /\ off' = off + n /\ UNCHANGED g
                   \/ /\ n > 0 /\ found >= v.lines /\ Seekable
                      /\ LET k == NthEnd(b, g.line_end, v.lines) IN
                           out' = out \o SubSeq(b, 1, k) /\ off' = off + k
                      /\ Goto("head_lines", [lines |-> 0]) /\ UNCHANGED g
                   \/ /\ n > 0 /\ found >= v.lines /\ ~Seekable
                      /\ Return(FALSE) /\ UNCHANGED <<out, g>>
  <2>1. PICK n \in Reads(off, BufSize) :
                LET b == Block(off, n)
                    found == Cardinality(Ends(b, g.line_end))
                IN \/ n < 0 /\ Exit(FALSE)
                   \/ n = 0 /\ Return(TRUE) /\ UNCHANGED <<out, g>>
                   \/ /\ n > 0 /\ found < v.lines
                      /\ Goto("head_lines", [lines |-> v.lines - found])
                      /\ out' = out \o b /\ off' = off + n /\ UNCHANGED g
                   \/ /\ n > 0 /\ found >= v.lines /\ Seekable
                      /\ LET k == NthEnd(b, g.line_end, v.lines) IN
                           out' = out \o SubSeq(b, 1, k) /\ off' = off + k
                      /\ Goto("head_lines", [lines |-> 0]) /\ UNCHANGED g
                   \/ /\ n > 0 /\ found >= v.lines /\ ~Seekable
                      /\ Return(FALSE) /\ UNCHANGED <<out, g>>
    BY <1>6
  <2>2. PICK b, found, k : /\ b = Block(off, n) /\ found = Cardinality(Ends(b, t.c.le))
                           /\ k = NthEnd(b, t.c.le, v.lines)
    OBVIOUS
  <2>3. BufSize \in Nat \ {0}
    BY BufAssumption
  <2>4. /\ n \in Int /\ (n <= 0 => off = Len(t.c.d))
        /\ n > 0 => n \in Nat \ {0} /\ n <= BufSize /\ off + n <= Len(t.c.d)
    BY <1>4, <2>3, HereReads
  <2>5. n > 0 => IsBlock(b, t.c.d, off, n)
    BY <1>3, <2>2, <2>4 DEF Block, IsBlock
  <2>6. CASE n < 0 /\ Exit(FALSE)
    BY <2>6 DEF Exit
  <2>7. CASE n = 0 /\ Return(TRUE) /\ UNCHANGED <<out, g>>
    <3>1. out = t.due
      BY <1>2, <1>3, <2>4, <2>7, LinesEnd
    <3> QED BY <1>1, <2>7, <3>1, DoneSame
  <2>8. CASE /\ n > 0 /\ found < v.lines
             /\ Goto("head_lines", [lines |-> v.lines - found])
             /\ out' = out \o b /\ off' = off + n /\ UNCHANGED g
    <3>1. AtLines(t, [lines |-> v.lines - found], off + n, out \o b)
      BY <1>2, <1>3, <2>2, <2>4, <2>5, <2>8, LinesPass
    <3>2. Part(t, "head_lines", [lines |-> v.lines - found], off', out')
      BY <2>8, <3>1 DEF Part
    <3> QED BY <1>1, <2>8, <3>2, GoesOnSame
  <2>9. CASE /\ n > 0 /\ found >= v.lines
             /\ out' = out \o SubSeq(b, 1, k) /\ off' = off + k
             /\ Goto("head_lines", [lines |-> 0]) /\ UNCHANGED g
    <3>1. ~(found < v.lines)
      <4>1. found \in Nat
        <5>1. t.c.d \in Seq(t.S)
          BY DEF Here
        <5>2. b \in Seq(t.S)
          BY <1>4, <2>4, <2>5, <2>9, <5>1, BlockType
        <5> QED BY <2>2, <5>2, EndsType
      <4> QED BY <1>4, <2>9, <4>1
    <3>2. AtLines(t, [lines |-> 0], off + k, out \o SubSeq(b, 1, k))
      BY <1>2, <1>3, <1>6, <2>2, <2>4, <2>5, <2>9, <3>1, LinesFound
    <3>3. Part(t, "head_lines", [lines |-> 0], off', out')
      BY <2>9, <3>2 DEF Part
    <3> QED BY <1>1, <2>9, <3>3, GoesOnSame
  <2>10. CASE Return(FALSE)
    BY <2>10 DEF Return
  <2> QED BY <1>3, <2>1, <2>2, <2>6, <2>7, <2>8, <2>9, <2>10
<1> QED BY <1>5, <1>6 DEF HeadLines

\* An input is opened, and gets its header.
Opens(u) ==
    IF u.heads THEN out' = out \o Header(fi) /\ g' = [g EXCEPT !.first_line = FALSE] ELSE out' = out /\ g' = g
\* An input is opened, and its header written.
LEMMA InputOpened ==
    ASSUME NEW u, JobOk(u), Between(u, fi, g, out), fi \in 1..Len(u.F), Opens(u)
    PROVE  Started(u, g') /\ g'.num = u.num /\ OwesAll(Task(u, fi), out')
<1>1. JobTask(u, fi) /\ u.heads \in BOOLEAN
  BY DEF JobOk
<1>2. PICK t : t = Task(u, fi)
  OBVIOUS
<1>3. OwesAll(t, u.sofar[fi - 1] \o HeaderText(u, fi)) /\ u.sofar[fi - 1] \in Seq(u.E)
  BY <1>1, <1>2 DEF JobTask, OwesAll
<1>4. Settings(u, g) /\ g.num = u.num /\ out = u.sofar[fi - 1]
  BY DEF Between
<1>5. CASE u.heads
  <2>1. g.first_line = (fi = 1)
    BY <1>5 DEF Between
  <2>2. ~(fi = 1) <=> fi > 1
    OBVIOUS
  <2>3. (~g.first_line) = (fi > 1)
    <3>1. CASE fi = 1
      <4>1. (fi > 1) = FALSE /\ (fi = 1) = TRUE
        BY <2>2, <3>1
      <4>2. g.first_line = TRUE
        BY ONLY <2>1, <4>1
      <4> QED BY ONLY <4>1, <4>2
    <3>2. CASE fi # 1
      <4>1. g.first_line = FALSE /\ (fi > 1) = TRUE
        BY <2>1, <2>2, <3>2
      <4> QED BY ONLY <4>1
    <3> QED BY <3>1, <3>2
  <2>4. Header(fi) = HeaderText(u, fi)
    BY <1>5, <2>3 DEF Header, HeaderText
  <2>5. out' = u.sofar[fi - 1] \o HeaderText(u, fi) /\ g' = [g EXCEPT !.first_line = FALSE]
    BY <1>4, <1>5, <2>4 DEF Opens
  <2>6. DOMAIN g = {"bytes", "elide", "num", "q", "v", "line_end", "first_line"}
    BY <1>4 DEF Settings
  <2>7. /\ DOMAIN g' = DOMAIN g /\ g'.num = g.num /\ g'.bytes = g.bytes /\ g'.elide = g.elide /\ g'.q = g.q
        /\ g'.v = g.v /\ g'.line_end = g.line_end /\ g'.first_line = FALSE
    BY <2>5, <2>6
  <2>8. Started(u, g')
    BY ONLY <1>4, <2>7 DEF Started, Settings
  <2> QED BY <1>2, <1>3, <1>4, <2>5, <2>7, <2>8
<1>6. CASE ~u.heads
  <2>1. HeaderText(u, fi) = <<>>
    BY <1>6 DEF HeaderText
  <2>2. out' = out /\ g' = g
    BY <1>6 DEF Opens
  <2>3. u.sofar[fi - 1] \o HeaderText(u, fi) = u.sofar[fi - 1]
    BY <1>3, <2>1, ConcatEmptySeq
  <2> QED BY <1>2, <1>3, <1>4, <1>6, <2>2, <2>3 DEF Started
<1> QED BY <1>1, <1>5, <1>6

\* What the steps of main's loops share.
LEMMA FileStart ==
    ASSUME NEW u, JobOk(u), u.F = fs, TextState(u, fi, g, pc, v, off, out), pc = "file"
    PROVE  /\ Between(u, fi, g, out) /\ fi \in 1..(Len(fs) + 1) /\ Len(fs) \in Nat
           /\ (fi > Len(fs)) => out = u.sofar[Len(fs)]
           /\ fi <= Len(fs) => fi \in 1..Len(u.F)
<1>1. Between(u, fi, g, out)
  BY DEF TextState, Within, Part, Entered, Scanning
<1>2. fi \in 1..(Len(fs) + 1) /\ Len(fs) \in Nat /\ out = u.sofar[fi - 1]
  BY <1>1 DEF Between, JobOk
<1>3. ASSUME fi > Len(fs) PROVE fi - 1 = Len(fs)
  BY <1>2, <1>3
<1>4. fi <= Len(fs) => fi \in 1..Len(u.F)
  BY <1>2
<1> QED BY <1>1, <1>2, <1>3, <1>4

\* head opens an input, or is done.
LEMMA HeadFileStep ==
    ASSUME NEW u, JobOk(u), u.F = fs, u.prog = prog, TextState(u, fi, g, pc, v, off, out), HeadFile, ok'
    PROVE  Onward(u)
<1>1. pc = "file" /\ prog = "head"
  BY DEF HeadFile
<1>2. /\ Between(u, fi, g, out) /\ fi \in 1..(Len(fs) + 1) /\ Len(fs) \in Nat
      /\ (fi > Len(fs)) => out = u.sofar[Len(fs)]
      /\ fi <= Len(fs) => fi \in 1..Len(u.F)
  BY <1>1, FileStart
<1>3. \/ fi > Len(fs) /\ Exit(TRUE)
      \/ fi <= Len(fs) /\ In.kind = "missing" /\ Exit(FALSE)
      \/ /\ fi <= Len(fs) /\ Goto(HeadCall[1], HeadCall[2]) /\ off' = 0
         /\ IF PrintHeaders
            THEN out' = out \o Header(fi) /\ g' = [g EXCEPT !.first_line = FALSE]
            ELSE UNCHANGED <<out, g>>
  BY DEF HeadFile
<1>4. CASE fi > Len(fs) /\ Exit(TRUE)
  <2>1. pc' = "exit" /\ out' = u.sofar[Len(u.F)]
    BY <1>2, <1>4 DEF Exit
  <2> QED BY <2>1 DEF Onward, TextState
<1>5. CASE Exit(FALSE)
  BY <1>5 DEF Exit
<1>6. CASE /\ fi <= Len(fs) /\ Goto(HeadCall[1], HeadCall[2]) /\ off' = 0
           /\ IF PrintHeaders
              THEN out' = out \o Header(fi) /\ g' = [g EXCEPT !.first_line = FALSE]
              ELSE UNCHANGED <<out, g>>
  <2>1. u.heads <=> PrintHeaders
    BY <1>2 DEF Between, Settings, PrintHeaders
  <2>2. Opens(u)
    BY <1>6, <2>1 DEF Opens
  <2>3. fi \in 1..Len(u.F)
    BY <1>2, <1>6
  <2>4. PICK t : t = Task(u, fi)
    OBVIOUS
  <2>5. Started(u, g') /\ g'.num = u.num /\ OwesAll(t, out')
    BY <1>2, <2>2, <2>3, <2>4, InputOpened
  <2>6. TaskOk(t) /\ OfJob(u, t.c)
    BY <2>3, <2>4 DEF JobOk, JobTask
  <2>7. t.c.prog = "head" /\ t.c.num = u.num /\ g.num = u.num
        /\ g.elide = t.c.elide /\ g.bytes = (t.c.o = "c") /\ t.c.o \in {"c", "n"} /\ t.c.elide \in BOOLEAN
    BY <1>1, <1>2, <2>6 DEF OfJob, TaskOk, Between, Settings
  <2>8. Begin(t.c) = 0 /\ Owes(t, out', 0, Close(t.c))
    BY <2>5, <2>7 DEF Begin, OwesAll
  <2>9. Part(t, HeadCall[1], HeadCall[2], 0, out')
    <3>1. CASE t.c.elide
      <4>1. Entered(t.c, HeadCall[1])
        BY <2>7, <3>1 DEF Entered, HeadCall
      <4> QED BY <2>5, <4>1 DEF Part
    <3>2. CASE ~t.c.elide /\ t.c.o = "n"
      <4>1. HeadCall[1] = "head_lines" /\ HeadCall[2] = [lines |-> t.c.num]
        BY <2>7, <3>2 DEF HeadCall
      <4>2. AtLines(t, [lines |-> t.c.num], 0, out')
        BY <2>6, <2>7, <2>8, <3>2, LinesStart
      <4> QED BY <4>1, <4>2 DEF Part
    <3>3. CASE ~t.c.elide /\ t.c.o = "c"
      <4>1. HeadCall[1] = "copy" /\ HeadCall[2] = [left |-> t.c.num, rest |-> <<>>, num |-> t.c.num]
        BY <2>7, <3>3 DEF HeadCall, CopyLocals
      <4>2. Close(t.c) = IF t.c.num < Len(t.c.d) THEN t.c.num ELSE Len(t.c.d)
        BY <2>7, <3>3 DEF Close
      <4>3. Reaches(0, t.c.num, Close(t.c), Len(t.c.d)) /\ t.c.num \in Nat
        <5>1. PICK num, size : num = t.c.num /\ size = Len(t.c.d)
          OBVIOUS
        <5>2. num \in Nat /\ size \in Nat
          BY <2>6, <5>1, LenProperties DEF TaskOk
        <5> QED BY <4>2, <5>1, <5>2 DEF Reaches
      <4>4. AtCopy(t, [left |-> t.c.num, rest |-> <<>>, num |-> t.c.num], 0, out')
        BY <2>6, <2>8, <4>3, CopyAll
      <4> QED BY <4>1, <4>4 DEF Part
    <3> QED BY <2>7, <3>1, <3>2, <3>3
  <2>10. pc' = HeadCall[1] /\ v' = HeadCall[2] /\ fi' = fi /\ off' = 0
    BY <1>6 DEF Goto
  <2>11. Within(u, fi, g', pc', v', off', out')
    BY <2>3, <2>4, <2>5, <2>9, <2>10 DEF Within
  <2> QED BY <2>10, <2>11 DEF Onward, TextState
<1> QED BY <1>3, <1>4, <1>5, <1>6

\* tail, too.
LEMMA TailFileStep ==
    ASSUME NEW u, JobOk(u), u.F = fs, u.prog = prog, TextState(u, fi, g, pc, v, off, out), TailFile, ok'
    PROVE  Onward(u)
<1>1. pc = "file" /\ prog = "tail"
  BY DEF TailFile
<1>2. /\ Between(u, fi, g, out) /\ fi \in 1..(Len(fs) + 1) /\ Len(fs) \in Nat
      /\ (fi > Len(fs)) => out = u.sofar[Len(fs)]
      /\ fi <= Len(fs) => fi \in 1..Len(u.F)
  BY <1>1, FileStart
<1>3. \/ fi > Len(fs) /\ Exit(TRUE)
      \/ Return(FALSE)
      \/ /\ fi <= Len(fs) /\ Goto(TailCall, None) /\ off' = 0
         /\ IF TailHeaders
            THEN out' = out \o Header(fi) /\ g' = [g EXCEPT !.first_line = FALSE]
            ELSE UNCHANGED <<out, g>>
  BY DEF TailFile
<1>4. CASE fi > Len(fs) /\ Exit(TRUE)
  <2>1. pc' = "exit" /\ out' = u.sofar[Len(u.F)]
    BY <1>2, <1>4 DEF Exit
  <2> QED BY <2>1 DEF Onward, TextState
<1>5. CASE Return(FALSE)
  BY <1>5 DEF Return
<1>6. CASE /\ fi <= Len(fs) /\ Goto(TailCall, None) /\ off' = 0
           /\ IF TailHeaders
              THEN out' = out \o Header(fi) /\ g' = [g EXCEPT !.first_line = FALSE]
              ELSE UNCHANGED <<out, g>>
  <2>1. u.heads <=> TailHeaders
    BY <1>2 DEF Between, Settings, TailHeaders
  <2>2. Opens(u)
    BY <1>6, <2>1 DEF Opens
  <2>3. fi \in 1..Len(u.F)
    BY <1>2, <1>6
  <2>4. PICK t : t = Task(u, fi)
    OBVIOUS
  <2>5. Started(u, g') /\ g'.num = u.num /\ OwesAll(t, out')
    BY <1>2, <2>2, <2>3, <2>4, InputOpened
  <2>6. TaskOk(t) /\ OfJob(u, t.c)
    BY <2>3, <2>4 DEF JobOk, JobTask
  <2>7. t.c.prog = "tail" /\ g.elide = t.c.elide /\ g.bytes = (t.c.o = "c") /\ t.c.o \in {"c", "n"}
        /\ t.c.elide \in BOOLEAN
    BY <1>1, <1>2, <2>6 DEF OfJob, TaskOk, Between, Settings
  <2>8. Entered(t.c, TailCall)
    BY <2>7 DEF Entered, TailCall
  <2>9. pc' = TailCall /\ fi' = fi /\ off' = 0
    BY <1>6 DEF Goto
  <2>10. Part(t, pc', v', off', out')
    BY <2>5, <2>8, <2>9 DEF Part
  <2>11. Within(u, fi, g', pc', v', off', out')
    BY <2>3, <2>4, <2>5, <2>10 DEF Within
  <2> QED BY <2>9, <2>11 DEF Onward, TextState
<1> QED BY <1>3, <1>4, <1>5, <1>6

\* main parses the options.
LEMMA TextMainStep ==
    ASSUME TextArgs, fs \in Seq(TextFiles), TextUsual, NEW u, u = TextJob, JobOk(u),
           TextState(u, fi, g, pc, v, off, out), HeadMain \/ TailMain
    PROVE  Onward(u)
<1>1. pc = "main" /\ pc' = "file" /\ fi' = fi /\ out' = out
  BY DEF HeadMain, TailMain, Goto
<1>2. fi = 1 /\ out = <<>>
  BY <1>1 DEF TextState, Within, Part, Entered, Scanning
<1>3. TextParses(g') /\ prog \in {"head", "tail"}
  <2>1. CASE HeadMain
    BY <2>1, HeadParsed DEF HeadMain
  <2>2. CASE TailMain
    <3>1. prog = "tail" /\ Usable
      BY <2>2 DEF TailMain, TextUsual, Usable
    <3> QED BY <2>2, <3>1, TailParsed DEF TailMain
  <2> QED BY <2>1, <2>2
<1>4. /\ u.F = fs /\ u.o = Asked.o /\ u.elide = (Asked.sign # "") /\ u.num = Count /\ u.le = LineEnd
      /\ u.heads = Headers
  BY DEF TextJob
<1>5. /\ DOMAIN g' = {"bytes", "elide", "num", "q", "v", "line_end", "first_line"} /\ g'.first_line = TRUE
      /\ g'.q = Has("q") /\ g'.v = Has("v") /\ g'.line_end = LineEnd
      /\ g'.num = Count /\ g'.bytes = (Asked.o = "c") /\ g'.elide = (Asked.sign = TextSign)
  BY <1>3 DEF TextParses, TextOptions
<1>6. (Asked.sign = TextSign) = (Asked.sign # "")
  <2>1. Asked.sign \in {"", TextSign} /\ TextSign # ""
    BY AskedIs DEF TextSign
  <2> QED BY <2>1
<1>7. Settings(u, g')
  <2>1. u.heads <=> g'.v \/ (~g'.q /\ Len(u.F) > 1)
    BY <1>4, <1>5 DEF Headers
  <2> QED BY <1>4, <1>5, <1>6, <2>1 DEF Settings
<1>8. Len(u.F) \in Nat /\ u.sofar[0] = <<>>
  BY DEF JobOk
<1>9. 1 \in 1..(Len(u.F) + 1) /\ 1 - 1 = 0 /\ TRUE = (1 = 1)
  BY <1>8
<1>10. Between(u, 1, g', out')
  BY <1>1, <1>2, <1>4, <1>5, <1>7, <1>8, <1>9 DEF Between
<1> QED BY <1>1, <1>2, <1>10 DEF Onward, TextState

\* What lseek and fstat give.
LEMMA SizeIs ==
    ASSUME NEW u, NEW t, Here(u, t)
    PROVE  /\ Seekable <=> t.c.kind # "pipe"
           /\ t.c.kind \in {"file", "pipe", "dir", "missing"}
           /\ t.c.kind = "file" => FileSize = Len(t.c.d)
           /\ t.c.kind = "missing" => FileSize = 0 /\ Len(t.c.d) = 0
           /\ t.c.kind = "dir" => FileSize = 1 /\ Len(t.c.d) = 0 /\ \A a, n : Reads(a, n) = {-1}
           /\ t.c.kind # "pipe" /\ FileSize # 0 /\ (\E a, n : -1 \notin Reads(a, n))
              => t.c.kind = "file" /\ t.c.d # <<>>
<1>1. In.data = t.c.d /\ In.kind = t.c.kind /\ t.c.kind \in {"file", "pipe", "dir", "missing"}
      /\ (t.c.kind \in {"dir", "missing"} => t.c.d = <<>>)
  BY DEF Here, TaskOk
<1>2. Len(<<>>) = 0
  OBVIOUS
<1>3. t.c.kind \in {"dir", "missing"} => Len(t.c.d) = 0
  BY <1>1, <1>2
<1>4. Seekable <=> t.c.kind # "pipe"
  BY <1>1 DEF Seekable
<1>5. t.c.kind \in {"file", "missing"} => FileSize = Len(t.c.d)
  BY <1>1 DEF FileSize
<1>6. ASSUME t.c.kind = "dir" PROVE FileSize = 1 /\ \A a, n : Reads(a, n) = {-1}
  <2>1. FileSize = 1
    BY <1>1, <1>6 DEF FileSize
  <2>2. ASSUME NEW a, NEW n PROVE Reads(a, n) = {-1}
    BY <1>1, <1>6 DEF Reads
  <2> QED BY <2>1, <2>2
<1>7. ASSUME t.c.kind # "pipe", FileSize # 0, NEW a, NEW n, -1 \notin Reads(a, n)
      PROVE  t.c.kind = "file" /\ t.c.d # <<>>
  <2>1. t.c.kind # "dir"
    BY <1>6, <1>7
  <2>2. t.c.kind # "missing"
    BY <1>3, <1>5, <1>7
  <2>3. t.c.kind = "file"
    BY <1>1, <1>7, <2>1, <2>2
  <2>4. Len(t.c.d) # 0
    BY <1>5, <1>7, <2>3
  <2> QED BY <1>2, <2>3, <2>4
<1> QED BY <1>1, <1>3, <1>4, <1>5, <1>6, <1>7

\* elide_tail_lines_file, before its loop.
LEMMA ElideTailLinesStep ==
    ASSUME NEW u, NEW t, Here(u, t), Part(t, pc, v, off, out), ElideTailLines, ok'
    PROVE  Onward(u)
<1>1. pc = "elide_tail_lines"
  BY DEF ElideTailLines
<1>2. off = 0 /\ t.c.prog = "head" /\ t.c.o = "n" /\ t.c.elide /\ OwesAll(t, out)
  BY <1>1 DEF Part, Entered, Scanning
<1>3. TaskOk(t) /\ In.data = t.c.d /\ Len(t.c.d) \in Nat /\ t.c.d \in Seq(t.S) /\ g.num = t.c.num /\ t.c.num \in Nat
  BY <1>1 DEF Here, TaskOk
<1>4. t.c.kind # "pipe"
  BY <1>2, <1>3 DEF TaskOk, Plain
<1>5. /\ Begin(t.c) = 0 /\ Close(t.c) = LineAt(t.c.d, t.c.le, LinesOf(t.c.d, t.c.le) - t.c.num)
      /\ Close(t.c) \in Nat /\ Close(t.c) <= Len(t.c.d)
  BY <1>2, <1>3 DEF Begin, Close, TaskOk
<1>6. Owes(t, out, 0, Close(t.c))
  BY <1>2, <1>5 DEF OwesAll
<1> DEFINE size == FileSize
           b == size % BufSize
           last == Block(size - b, b)
<1>7. CASE g.num = 0 \/ size = 0
  <2>1. Goto("copy", CopyLocals(size, <<>>)) /\ g' = g /\ out' = out /\ off' = 0
    BY <1>2, <1>7 DEF ElideTailLines
  <2>2. CASE t.c.kind \in {"file", "missing"}
    <3>1. size = Len(t.c.d)
      BY <2>2, SizeIs
    <3>2. Close(t.c) = Len(t.c.d)
      <4>1. CASE g.num = 0
        <5>1. LinesOf(t.c.d, t.c.le) - t.c.num = LinesOf(t.c.d, t.c.le)
          BY <1>3, <4>1, AllLines
        <5> QED BY <1>3, <1>5, <5>1, AllLines
      <4>2. CASE size = 0
        BY <1>3, <1>5, <3>1, <4>2
      <4> QED BY <1>7, <4>1, <4>2
    <3>3. PICK n : n = Len(t.c.d)
      OBVIOUS
    <3>4. Reaches(0, n, n, Len(t.c.d)) /\ n \in Nat /\ size = n /\ Owes(t, out, 0, n)
      BY <1>3, <1>6, <3>1, <3>2, <3>3 DEF Reaches
    <3> HIDE DEF size
    <3> QED BY <1>1, <2>1, <3>4, CopyOnward
  <2>3. CASE t.c.kind = "dir"
    <3>1. size = 1 /\ Len(t.c.d) = 0
      BY <2>3, SizeIs
    <3>2. Owes(t, out, 0, 0)
      <4>1. Close(t.c) = 0
        BY <1>5, <3>1
      <4> QED BY <1>6, <4>1
    <3>3. out = t.due
      BY <1>3, <3>2, OwesNothing
    <3>4. 1 \in Int /\ 0 \in Nat /\ 0 >= Len(t.c.d)
      BY <3>1
    <3>5. Part(t, "copy", [left |-> 1, rest |-> <<>>, num |-> t.c.num], 0, out)
      BY <3>3, <3>4, CopyNothing
    <3>6. CopyLocals(size, <<>>) = [left |-> 1, rest |-> <<>>, num |-> t.c.num]
      BY <1>3, <3>1 DEF CopyLocals
    <3> QED BY <1>1, <2>1, <3>5, <3>6, GoesOnSame
  <2> QED BY <1>4, <2>2, <2>3, SizeIs
<1>8. CASE g.num # 0 /\ size # 0 /\ Return(FALSE)
  BY <1>8 DEF Return
<1>9. CASE /\ g.num # 0 /\ size # 0 /\ -1 \notin Reads(size - b, b)
           /\ Goto("elide_tail_scan",
                     [pos |-> size - b, buf |-> last,
                      lines |-> IF b > 0 /\ last[b] # Newline THEN g.num - 1 ELSE g.num])
           /\ UNCHANGED <<out, g, off>>
  <2>1. t.c.kind = "file" /\ t.c.d # <<>>
    BY <1>4, <1>9, SizeIs
  <2>2. PICK d, le, num, len, n, pos :
          /\ d = t.c.d /\ le = t.c.le /\ num = t.c.num /\ len = Len(t.c.d) /\ n = len % BufSize
          /\ pos = len - n
    OBVIOUS
  <2>3. size = len /\ b = n
    BY <2>1, <2>2, SizeIs
  <2>4. len \in Nat /\ d \in Seq(t.S) /\ num \in Nat /\ g.num = num
    BY <1>3, <2>2
  <2>5. n \in 0..(BufSize - 1) /\ n <= len /\ Multiple(pos)
    BY <2>2, <2>4, LastBuffer
  <2>6. n \in Nat /\ pos \in Nat /\ pos + n = len
    BY <2>2, <2>4, <2>5
  <2>7. PICK x : x = SubSeq(d, pos + 1, pos + n)
    OBVIOUS
  <2>8. last = x
    BY <1>3, <2>2, <2>3, <2>7 DEF Block
  <2>9. Backward(t.c)
    BY <1>2 DEF Backward
  <2>10. EndSeen(t.c)
    BY <1>3, <2>1, <2>9 DEF TaskOk, Plain
  <2>11. (n # 0 /\ d[len] # Newline) <=> d[len] # le
    BY <1>2, <2>2, <2>10 DEF EndSeen, Last
  <2>12. (n > 0 /\ x[n] # Newline) <=> d[len] # le
    <3>1. CASE n = 0
      BY <2>11, <3>1
    <3>2. CASE n # 0
      <4>1. IsBlock(x, d, pos, n)
        BY <2>2, <2>4, <2>6, <2>7 DEF IsBlock
      <4>2. n \in 1..n /\ n > 0
        BY <2>6, <3>2
      <4>3. x[n] = d[pos + n]
        <5>1. \A i \in 1..n : x[i] = d[pos + i] /\ (i \in Ends(x, le) <=> pos + i \in Ends(d, le))
          BY ONLY <2>4, <2>6, <4>1, EndsOfBlock
        <5> QED BY <4>2, <5>1
      <4> QED BY <2>6, <2>11, <3>2, <4>2, <4>3
    <3> QED BY <3>1, <3>2
  <2>13. PICK lines : lines = IF d[len] # le THEN num - 1 ELSE num
    OBVIOUS
  <2>14. (IF n > 0 /\ x[n] # Newline THEN num - 1 ELSE num) = lines
    BY <2>12, <2>13
  <2>15. Backwards(t, [pos |-> pos, buf |-> x, lines |-> lines])
    <3>1. t.c.num # 0 /\ Multiple(Len(t.c.d) - n) /\ n \in Nat /\ n <= Len(t.c.d)
      BY <1>3, <1>9, <2>2, <2>5, <2>6
    <3>2. x = SubSeq(t.c.d, Len(t.c.d) - n + 1, Len(t.c.d) - n + n)
      BY <2>2, <2>7
    <3>3. lines = IF t.c.d[Len(t.c.d)] # t.c.le THEN t.c.num - 1 ELSE t.c.num
      BY <2>2, <2>13
    <3>4. Backwards(t, [pos |-> Len(t.c.d) - n, buf |-> x, lines |-> lines])
      BY <1>3, <2>1, <2>9, <3>1, <3>2, <3>3, BackStart
    <3> QED BY <2>2, <3>4
  <2>16. Part(t, "elide_tail_scan", [pos |-> pos, buf |-> x, lines |-> lines], off', out')
    BY <1>2, <1>9, <2>15 DEF Part, Scanning
  <2>17. Goto("elide_tail_scan", [pos |-> pos, buf |-> x, lines |-> lines])
    BY <1>9, <2>2, <2>3, <2>4, <2>8, <2>14
  <2> QED BY <1>1, <1>9, <2>16, <2>17, GoesOnSame
<1> QED BY <1>7, <1>8, <1>9 DEF ElideTailLines

\* Its loop.
LEMMA ElideTailScanStep ==
    ASSUME NEW u, NEW t, Here(u, t), Part(t, pc, v, off, out), ElideTailScan, ok'
    PROVE  Onward(u)
<1>1. pc = "elide_tail_scan"
  BY DEF ElideTailScan
<1>2. t.c.prog = "head" /\ Backwards(t, v) /\ OwesAll(t, out)
  BY <1>1 DEF Part, Entered, Scanning
<1>3. TaskOk(t) /\ In.data = t.c.d /\ Len(t.c.d) \in Nat /\ t.c.d \in Seq(t.S) /\ g.line_end = t.c.le
      /\ g.num = t.c.num
  BY <1>1 DEF Here
<1>4. t.c.o = "n" /\ t.c.elide
  BY <1>2 DEF Backwards, Backward
<1>5. /\ Begin(t.c) = 0 /\ Close(t.c) = LineAt(t.c.d, t.c.le, Goal(t.c))
      /\ Close(t.c) \in Nat /\ Close(t.c) <= Len(t.c.d)
  BY <1>2, <1>3, <1>4 DEF Begin, Close, TaskOk, Goal
<1>6. Owes(t, out, 0, Close(t.c))
  BY <1>2, <1>5 DEF OwesAll
<1>7. PICK found : found = Cardinality(Ends(v.buf, t.c.le))
  OBVIOUS
<1>8. Len(v.buf) \in Nat /\ found \in Nat /\ v.pos \in Nat /\ v.lines \in Nat
      /\ IsBlock(v.buf, t.c.d, v.pos, Len(v.buf))
  BY <1>2, <1>3, <1>7, BackIs
<1>9. CASE /\ found > v.lines
           /\ Goto("copy", CopyLocals(v.pos, SubSeq(v.buf, 1, LastShown(v.buf, v.lines))))
           /\ off' = 0 /\ UNCHANGED <<out, g>>
  <2>1. PICK k, pos : k = NthLastEnd(v.buf, t.c.le, v.lines + 1) /\ pos = v.pos
    OBVIOUS
  <2>2. k \in 0..Len(v.buf) /\ pos + k = Close(t.c)
    BY <1>2, <1>3, <1>5, <1>7, <1>9, <2>1, BackFound
  <2>3. SubSeq(v.buf, 1, k) = Piece(t.c.d, pos, pos + k)
    <3>1. PICK b, d, n : b = v.buf /\ d = t.c.d /\ n = Len(v.buf)
      OBVIOUS
    <3>2. d \in Seq(t.S) /\ pos \in Nat /\ n \in Nat /\ IsBlock(b, d, pos, n) /\ k \in 0..n
      BY <1>3, <1>8, <2>1, <2>2, <3>1
    <3>3. SubSeq(b, 1, k) = Piece(d, pos, pos + k)
      BY ONLY <3>2, BlockFront
    <3> QED BY <3>1, <3>3
  <2> DEFINE l == [left |-> pos, rest |-> Piece(t.c.d, pos, pos + k), num |-> t.c.num]
  <2>4. CopyLocals(v.pos, SubSeq(v.buf, 1, LastShown(v.buf, v.lines))) = l
    BY <1>3, <2>1, <2>3 DEF CopyLocals, LastShown
  <2>5. l.left = pos /\ l.rest = Piece(t.c.d, pos, pos + k) /\ l.num = t.c.num /\ DOMAIN l = {"left", "rest", "num"}
    OBVIOUS
  <2> HIDE DEF l
  <2>6. PICK stop : stop = pos + k
    OBVIOUS
  <2>7. pos \in Nat /\ stop \in Nat /\ pos <= stop /\ 0 <= pos
    BY <1>8, <2>1, <2>2, <2>6
  <2>8. Copying(t, l, 0, out, pos, stop)
    BY <1>6, <2>2, <2>5, <2>6, <2>7 DEF Copying, Reaches
  <2>9. AtCopy(t, l, 0, out)
    BY <2>5, <2>7, <2>8 DEF AtCopy
  <2>10. Part(t, "copy", l, off', out')
    BY <1>9, <2>9 DEF Part
  <2> QED BY <1>1, <1>9, <2>4, <2>10, GoesOnSame
<1>10. CASE found <= v.lines /\ v.pos = 0 /\ Return(TRUE) /\ UNCHANGED <<out, g>>
  <2>1. ~(found > v.lines)
    BY <1>8, <1>10
  <2>2. Close(t.c) = 0
    BY <1>2, <1>3, <1>5, <1>7, <1>10, <2>1, BackNone
  <2>3. out = t.due
    BY <1>3, <1>6, <2>2, OwesNothing
  <2> QED BY <1>1, <1>10, <2>3, DoneSame
<1>11. CASE /\ found <= v.lines /\ v.pos > 0
            /\ Goto("elide_tail_scan",
                  [pos |-> v.pos - BufSize, lines |-> v.lines - found,
                   buf |-> Block(v.pos - BufSize, BufSize)])
            /\ UNCHANGED <<out, g, off>>
  <2>1. ~(found > v.lines)
    BY <1>8, <1>11
  <2>2. PICK b : b = SubSeq(t.c.d, v.pos - BufSize + 1, v.pos - BufSize + BufSize)
    OBVIOUS
  <2>3. Backwards(t, [pos |-> v.pos - BufSize, buf |-> b, lines |-> v.lines - found])
    BY <1>2, <1>3, <1>7, <1>11, <2>1, <2>2, BackPass
  <2>4. b = Block(v.pos - BufSize, BufSize)
    BY <1>3, <2>2 DEF Block
  <2>5. Part(t, "elide_tail_scan", [pos |-> v.pos - BufSize, lines |-> v.lines - found, buf |-> b], off', out')
    BY <1>2, <1>11, <2>3 DEF Part, Scanning
  <2> QED BY <1>1, <1>11, <2>4, <2>5, GoesOnSame
<1> QED BY <1>3, <1>7, <1>9, <1>10, <1>11 DEF ElideTailScan

\* elide_tail_bytes_file.
LEMMA ElideTailBytesStep ==
    ASSUME NEW u, NEW t, Here(u, t), Part(t, pc, v, off, out), ElideTailBytes, ok'
    PROVE  Onward(u)
<1>1. pc = "elide_tail_bytes"
  BY DEF ElideTailBytes
<1>2. off = 0 /\ t.c.prog = "head" /\ t.c.o = "c" /\ t.c.elide /\ OwesAll(t, out)
  BY <1>1 DEF Part, Entered, Scanning
<1>3. TaskOk(t) /\ Len(t.c.d) \in Nat /\ g.num = t.c.num /\ t.c.num \in Nat /\ Started(u, g)
  BY <1>1 DEF Here, TaskOk
<1>4. t.c.kind # "pipe"
  BY <1>2, <1>3 DEF TaskOk, Plain
<1>5. PICK len, num, n : len = Len(t.c.d) /\ num = t.c.num /\ n = FileSize - num
  OBVIOUS
<1>6. len \in Nat /\ num \in Nat /\ g.num = num
  BY <1>3, <1>5
<1>7. Owes(t, out, 0, IF num < len THEN len - num ELSE 0)
  BY <1>2, <1>5 DEF OwesAll, Begin, Close
<1>8. \/ t.c.kind \in {"file", "missing"} /\ FileSize = len
      \/ t.c.kind = "dir" /\ FileSize = 1 /\ len = 0
  BY <1>4, <1>5, SizeIs
<1>9. Seekable
  BY <1>4, SizeIs
<1>10. \/ n > 0 /\ Goto("copy", CopyLocals(n, <<>>)) /\ off' = 0
                /\ g' = [g EXCEPT !.num = n] /\ UNCHANGED out
       \/ n <= 0 /\ Return(TRUE) /\ UNCHANGED <<out, g>>
  BY <1>5, <1>6, <1>9 DEF ElideTailBytes
<1>11. CASE n > 0 /\ Goto("copy", CopyLocals(n, <<>>)) /\ off' = 0
                /\ g' = [g EXCEPT !.num = n] /\ UNCHANGED out
  <2>1. CopyLocals(n, <<>>) = [left |-> n, rest |-> <<>>, num |-> t.c.num]
    BY <1>3 DEF CopyLocals
  <2>2. Started(u, g')
    BY <1>3, <1>11, Renumbered
  <2>3. Part(t, "copy", [left |-> n, rest |-> <<>>, num |-> t.c.num], 0, out)
    <3>1. CASE FileSize = len
      <4>1. n \in Nat /\ num < len /\ n = len - num
        BY <1>5, <1>6, <1>11, <3>1
      <4>2. Owes(t, out, 0, n) /\ Reaches(0, n, n, Len(t.c.d))
        BY <1>7, <4>1 DEF Reaches
      <4>3. AtCopy(t, [left |-> n, rest |-> <<>>, num |-> t.c.num], 0, out)
        BY <1>3, <4>1, <4>2, CopyAll
      <4> QED BY <4>3 DEF Part
    <3>2. CASE FileSize = 1 /\ len = 0
      <4>1. n \in Int /\ 0 \in Nat /\ 0 >= Len(t.c.d) /\ ~(num < len)
        BY <1>5, <1>6, <3>2
      <4>2. Owes(t, out, 0, 0)
        BY <1>7, <4>1
      <4>3. out = t.due
        BY <1>3, <4>2, OwesNothing
      <4> QED BY <4>1, <4>3, CopyNothing
    <3> QED BY <1>8, <3>1, <3>2
  <2>4. pc' = "copy" /\ fi' = fi /\ v' = [left |-> n, rest |-> <<>>, num |-> t.c.num] /\ off' = 0 /\ out' = out
    BY <1>11, <2>1 DEF Goto
  <2> QED BY <2>2, <2>3, <2>4, InputGoesOn
<1>12. CASE n <= 0 /\ Return(TRUE) /\ UNCHANGED <<out, g>>
  <2>1. ~(num < len)
    BY <1>5, <1>6, <1>8, <1>12
  <2>2. Owes(t, out, 0, 0)
    BY <1>7, <2>1
  <2>3. out = t.due
    BY <1>3, <2>2, OwesNothing
  <2> QED BY <1>1, <1>12, <2>3, DoneSame
<1> QED BY <1>10, <1>11, <1>12

\* tail_lines, before its loop.
LEMMA TailLinesStep ==
    ASSUME NEW u, NEW t, Here(u, t), Part(t, pc, v, off, out), TailLines, ok'
    PROVE  Onward(u)
<1>1. pc = "tail_lines"
  BY DEF TailLines
<1>2. t.c.prog = "tail" /\ t.c.o = "n" /\ ~t.c.elide /\ OwesAll(t, out)
  BY <1>1 DEF Part, Entered, Scanning
<1>3. TaskOk(t) /\ In.data = t.c.d /\ Len(t.c.d) \in Nat /\ t.c.d \in Seq(t.S) /\ g.num = t.c.num /\ t.c.num \in Nat
  BY <1>1 DEF Here, TaskOk
<1>4. t.c.kind # "pipe"
  BY <1>2, <1>3 DEF TaskOk, Plain
<1>5. /\ Close(t.c) = Len(t.c.d) /\ Begin(t.c) = LineAt(t.c.d, t.c.le, LinesOf(t.c.d, t.c.le) - t.c.num)
      /\ Begin(t.c) \in Nat /\ Begin(t.c) <= Len(t.c.d)
  BY <1>2, <1>3 DEF Begin, Close, TaskOk
<1> DEFINE size == FileSize
           b == IF size % BufSize = 0 THEN BufSize ELSE size % BufSize
           last == Block(size - b, b)
<1>6. CASE (size = 0 \/ g.num = 0) /\ Return(TRUE) /\ UNCHANGED <<out, g>>
  <2>1. Begin(t.c) = Len(t.c.d)
    <3>1. CASE g.num = 0
      <4>1. LinesOf(t.c.d, t.c.le) - t.c.num = LinesOf(t.c.d, t.c.le)
        BY <1>3, <3>1, AllLines
      <4> QED BY <1>3, <1>5, <4>1, AllLines
    <3>2. CASE size = 0
      <4>1. Len(t.c.d) = 0
        BY <1>4, <3>2, SizeIs
      <4> QED BY <1>5, <4>1
    <3> QED BY <1>6, <3>1, <3>2
  <2>2. PICK a : a = Begin(t.c)
    OBVIOUS
  <2>3. Owes(t, out, a, a)
    BY <1>2, <1>5, <2>1, <2>2 DEF OwesAll
  <2>4. out = t.due
    BY <1>3, <2>3, OwesNothing
  <2> QED BY <1>1, <1>6, <2>4, DoneSame
<1>7. CASE Return(FALSE)
  BY <1>7 DEF Return
<1>8. CASE /\ size # 0 /\ g.num # 0 /\ -1 \notin Reads(size - b, b)
           /\ Goto("tail_scan",
                     [pos |-> size - b, buf |-> last,
                      lines |-> IF last[b] # Newline THEN g.num - 1 ELSE g.num])
           /\ UNCHANGED <<out, g, off>>
  <2>1. t.c.kind = "file" /\ t.c.d # <<>>
    BY <1>4, <1>8, SizeIs
  <2>2. PICK d, le, num, len, n, pos :
          /\ d = t.c.d /\ le = t.c.le /\ num = t.c.num /\ len = Len(t.c.d)
          /\ n = (IF len % BufSize = 0 THEN BufSize ELSE len % BufSize) /\ pos = len - n
    OBVIOUS
  <2>3. size = len /\ b = n
    BY <2>1, <2>2, SizeIs
  <2>4. len \in Nat /\ len > 0 /\ d \in Seq(t.S) /\ num \in Nat /\ g.num = num
    <3>1. len # 0
      BY <1>8, <2>3
    <3> QED BY <1>3, <2>2, <3>1
  <2>5. n \in Nat /\ n > 0 /\ n <= len /\ Multiple(pos)
    <3>1. /\ len % BufSize \in 0..(BufSize - 1) /\ len % BufSize <= len
          /\ Multiple(len - (len % BufSize))
          /\ len % BufSize = 0 /\ len > 0 => BufSize <= len /\ Multiple(len - BufSize)
      BY <2>4, LastBuffer
    <3>2. CASE len % BufSize = 0
      <4>1. n = BufSize /\ pos = len - BufSize /\ BufSize <= len /\ Multiple(len - BufSize)
        BY <2>2, <2>4, <3>1, <3>2
      <4> QED BY ONLY <4>1, BufAssumption
    <3>3. CASE len % BufSize # 0
      <4>1. n = len % BufSize /\ pos = len - (len % BufSize)
        BY <2>2, <3>3
      <4> HIDE DEF b, last
      <4> QED BY <3>1, <3>3, <4>1
    <3> QED BY <3>2, <3>3
  <2>6. pos \in Nat /\ pos + n = len /\ len = Len(d)
    <3>1. pos = len - n /\ len = Len(d)
      BY <2>2
    <3> QED BY ONLY <2>4, <2>5, <3>1
  <2>7. PICK x : x = SubSeq(d, pos + 1, pos + n)
    OBVIOUS
  <2>8. last = x
    BY <1>3, <2>2, <2>3, <2>7 DEF Block
  <2>9. Backward(t.c)
    BY <1>2 DEF Backward
  <2>10. EndSeen(t.c)
    BY <1>3, <2>1, <2>9 DEF TaskOk, Plain
  <2>11. d[len] = Newline <=> d[len] = le
    BY <1>2, <2>2, <2>10 DEF EndSeen, Last
  <2>12. x[n] = d[len]
    <3>1. IsBlock(x, d, pos, n)
      BY ONLY <2>4, <2>5, <2>6, <2>7 DEF IsBlock
    <3>2. \A i \in 1..n : x[i] = d[pos + i] /\ (i \in Ends(x, le) <=> pos + i \in Ends(d, le))
      BY ONLY <2>4, <2>5, <2>6, <3>1, EndsOfBlock
    <3>3. n \in 1..n
      BY <2>5
    <3> QED BY <2>6, <3>2, <3>3
  <2>13. PICK lines : lines = IF d[len] # le THEN num - 1 ELSE num
    OBVIOUS
  <2>14. (IF x[n] # Newline THEN num - 1 ELSE num) = lines
    BY <2>11, <2>12, <2>13
  <2>15. Backwards(t, [pos |-> pos, buf |-> x, lines |-> lines])
    <3>1. t.c.num # 0 /\ Multiple(Len(t.c.d) - n) /\ n \in Nat /\ n <= Len(t.c.d)
      BY <1>3, <1>8, <2>2, <2>5
    <3>2. x = SubSeq(t.c.d, Len(t.c.d) - n + 1, Len(t.c.d) - n + n)
      BY <2>2, <2>7
    <3>3. lines = IF t.c.d[Len(t.c.d)] # t.c.le THEN t.c.num - 1 ELSE t.c.num
      BY <2>2, <2>13
    <3>4. Backwards(t, [pos |-> Len(t.c.d) - n, buf |-> x, lines |-> lines])
      BY <1>3, <2>1, <2>9, <3>1, <3>2, <3>3, BackStart
    <3> QED BY <2>2, <3>4
  <2>16. Part(t, "tail_scan", [pos |-> pos, buf |-> x, lines |-> lines], off', out')
    BY <1>2, <1>8, <2>15 DEF Part, Scanning
  <2>17. Goto("tail_scan", [pos |-> pos, buf |-> x, lines |-> lines])
    BY <1>8, <2>2, <2>3, <2>4, <2>8, <2>14
  <2> QED BY <1>1, <1>8, <2>16, <2>17, GoesOnSame
<1> QED BY <1>6, <1>7, <1>8 DEF TailLines

\* From here on everything is owed.
LEMMA CopyRest ==
    ASSUME NEW u, NEW t, Here(u, t), pc # "copy", t.c.prog = "tail", t.c.kind = "file", OwesAll(t, out),
           NEW from, from = Begin(t.c), Goto("copy", CopyLocals(FileSize - from, <<>>)), off' = from,
           UNCHANGED <<out, g>>
    PROVE  Onward(u)
<1>1. PICK len : len = Len(t.c.d)
  OBVIOUS
<1>2. FileSize = len /\ len \in Nat /\ TaskOk(t)
  BY <1>1, SizeIs DEF Here
<1>3. from \in Nat /\ from <= len /\ Close(t.c) = len
  BY <1>1, <1>2 DEF TaskOk, Close
<1>4. PICK n : n = len - from
  OBVIOUS
<1>5. n \in Nat /\ Reaches(from, n, len, len)
  BY <1>2, <1>3, <1>4 DEF Reaches
<1>6. Owes(t, out, from, len)
  BY <1>3 DEF OwesAll
<1>7. Goto("copy", CopyLocals(n, <<>>)) /\ g' = g /\ out' = out
  BY <1>2, <1>4
<1> QED BY <1>1, <1>5, <1>6, <1>7, CopyOnward

\* The loop of tail_lines.
LEMMA TailScanStep ==
    ASSUME NEW u, NEW t, Here(u, t), Part(t, pc, v, off, out), TailScan, ok'
    PROVE  Onward(u)
<1>1. pc = "tail_scan"
  BY DEF TailScan
<1>2. t.c.prog = "tail" /\ Backwards(t, v) /\ OwesAll(t, out)
  BY <1>1 DEF Part, Entered, Scanning
<1>3. TaskOk(t) /\ In.data = t.c.d /\ g.line_end = t.c.le
  BY <1>1 DEF Here
<1>4. t.c.o = "n" /\ ~t.c.elide /\ t.c.kind = "file"
  BY <1>2 DEF Backwards, Backward
<1>5. Begin(t.c) = LineAt(t.c.d, t.c.le, Goal(t.c))
  BY <1>2, <1>4 DEF Begin, Goal
<1>6. PICK found, k : found = Cardinality(Ends(v.buf, t.c.le)) /\ k = NthLastEnd(v.buf, t.c.le, v.lines + 1)
  OBVIOUS
<1>7. found \in Nat /\ v.pos \in Nat /\ v.lines \in Nat
  BY <1>2, <1>3, <1>6, BackIs
<1>8. \/ /\ found > v.lines
         /\ Goto("copy", CopyLocals(FileSize - (v.pos + k), <<>>)) /\ off' = v.pos + k /\ UNCHANGED <<out, g>>
      \/ /\ found <= v.lines /\ v.pos = 0
         /\ Goto("copy", CopyLocals(FileSize - 0, <<>>)) /\ off' = 0 /\ UNCHANGED <<out, g>>
      \/ /\ found <= v.lines /\ v.pos > 0
         /\ Goto("tail_scan",
                 [pos |-> v.pos - BufSize, lines |-> v.lines - found,
                  buf |-> Block(v.pos - BufSize, BufSize)])
         /\ UNCHANGED <<out, g, off>>
  BY <1>3, <1>6 DEF TailScan
<1>9. CASE /\ found > v.lines
           /\ Goto("copy", CopyLocals(FileSize - (v.pos + k), <<>>)) /\ off' = v.pos + k /\ UNCHANGED <<out, g>>
  <2>1. v.pos + k = Begin(t.c)
    BY <1>2, <1>3, <1>5, <1>6, <1>9, BackFound
  <2> QED BY <1>1, <1>2, <1>4, <1>9, <2>1, CopyRest
<1>10. CASE /\ found <= v.lines /\ v.pos = 0
            /\ Goto("copy", CopyLocals(FileSize - 0, <<>>)) /\ off' = 0 /\ UNCHANGED <<out, g>>
  <2>1. ~(found > v.lines)
    BY <1>7, <1>10
  <2>2. 0 = Begin(t.c)
    BY <1>2, <1>3, <1>5, <1>6, <1>10, <2>1, BackNone
  <2>3. PICK o : o = 0
    OBVIOUS
  <2>4. o = Begin(t.c) /\ Goto("copy", CopyLocals(FileSize - o, <<>>)) /\ off' = o
    BY <1>10, <2>2, <2>3
  <2> QED BY <1>1, <1>2, <1>4, <1>10, <2>4, CopyRest
<1>11. CASE /\ found <= v.lines /\ v.pos > 0
            /\ Goto("tail_scan",
                 [pos |-> v.pos - BufSize, lines |-> v.lines - found,
                  buf |-> Block(v.pos - BufSize, BufSize)])
            /\ UNCHANGED <<out, g, off>>
  <2>1. ~(found > v.lines)
    BY <1>7, <1>11
  <2>2. PICK b : b = SubSeq(t.c.d, v.pos - BufSize + 1, v.pos - BufSize + BufSize)
    OBVIOUS
  <2>3. Backwards(t, [pos |-> v.pos - BufSize, buf |-> b, lines |-> v.lines - found])
    BY <1>2, <1>3, <1>6, <1>11, <2>1, <2>2, BackPass
  <2>4. b = Block(v.pos - BufSize, BufSize)
    BY <1>3, <2>2 DEF Block
  <2>5. Part(t, "tail_scan", [pos |-> v.pos - BufSize, lines |-> v.lines - found, buf |-> b], off', out')
    BY <1>2, <1>11, <2>3 DEF Part, Scanning
  <2> QED BY <1>1, <1>11, <2>4, <2>5, GoesOnSame
<1> QED BY <1>8, <1>9, <1>10, <1>11

\* tail_bytes, with num or with what its caller makes of it.
LEMMA CopyLastStep ==
    ASSUME NEW u, NEW t, Here(u, t), pc # "copy", t.c.prog = "tail", OwesAll(t, out),
           NEW n \in Int, CopyLast(n, g.num), ok',
           Seekable => \/ Max({0, FileSize - n}) >= Len(t.c.d) /\ out = t.due
                       \/ /\ n \in Nat /\ Max({0, FileSize - n}) = Begin(t.c)
                          /\ Reaches(Begin(t.c), n, Len(t.c.d), Len(t.c.d))
    PROVE  Onward(u)
<1>1. TaskOk(t) /\ g.num = t.c.num /\ Started(u, g)
  BY DEF Here
<1>2. CASE Return(FALSE)
  BY <1>2 DEF Return
<1>3. CASE /\ Seekable
           /\ off' = Max({0, FileSize - n})
           /\ Goto("copy", [left |-> n, rest |-> <<>>, num |-> g.num])
           /\ g' = [g EXCEPT !.num = n] /\ UNCHANGED out
  <2>1. PICK a : a = Max({0, FileSize - n})
    OBVIOUS
  <2>2. a \in Nat
    <3>1. FileSize \in Int
      <4>1. Len(t.c.d) \in Nat
        BY DEF Here
      <4> QED BY <1>3, <4>1, SizeIs
    <3>2. PICK m : m = FileSize - n
      OBVIOUS
    <3>3. m \in Int /\ 0 \in Int
      BY <3>1, <3>2
    <3>4. Max({0, m}) = IF 0 >= m THEN 0 ELSE m
      BY <3>3, OfTwo
    <3> QED BY <2>1, <3>2, <3>3, <3>4
  <2>3. Part(t, "copy", [left |-> n, rest |-> <<>>, num |-> t.c.num], a, out)
    <3>1. CASE a >= Len(t.c.d) /\ out = t.due
      BY <2>2, <3>1, CopyNothing
    <3>2. CASE /\ n \in Nat /\ a = Begin(t.c) /\ Reaches(Begin(t.c), n, Len(t.c.d), Len(t.c.d))
      <4>1. Owes(t, out, a, Len(t.c.d))
        BY <3>2 DEF OwesAll, Close
      <4>2. AtCopy(t, [left |-> n, rest |-> <<>>, num |-> t.c.num], a, out)
        BY <1>1, <3>2, <4>1, CopyAll
      <4> QED BY <4>2 DEF Part
    <3> QED BY <1>3, <2>1, <3>1, <3>2
  <2>4. Started(u, g')
    BY <1>1, <1>3, Renumbered
  <2>5. pc' = "copy" /\ fi' = fi /\ v' = [left |-> n, rest |-> <<>>, num |-> t.c.num] /\ off' = a /\ out' = out
    BY <1>1, <1>3, <2>1 DEF Goto
  <2> QED BY <2>3, <2>4, <2>5, InputGoesOn
<1> QED BY <1>2, <1>3 DEF CopyLast

\* The two that call it.
LEMMA TailBytesStep ==
    ASSUME NEW u, NEW t, Here(u, t), Part(t, pc, v, off, out), TailBytes \/ ElideHeadBytes, ok'
    PROVE  Onward(u)
<1>1. pc \in {"tail_bytes", "elide_head_bytes"}
  BY DEF TailBytes, ElideHeadBytes
<1>2. /\ t.c.prog = "tail" /\ t.c.o = "c" /\ OwesAll(t, out)
      /\ pc = "tail_bytes" <=> ~t.c.elide
  BY <1>1 DEF Part, Entered, Scanning
<1>3. TaskOk(t) /\ g.num = t.c.num
  BY <1>1 DEF Here
<1>4. PICK len, num, size, n :
        /\ len = Len(t.c.d) /\ num = t.c.num /\ size = FileSize
        /\ n = IF t.c.elide THEN size - num + 1 ELSE num
  OBVIOUS
<1>5. len \in Nat /\ num \in Nat /\ g.num = num
  BY <1>3, <1>4 DEF Here, TaskOk
<1>6. /\ Seekable => size = len \/ (size = 1 /\ len = 0)
      /\ ~Seekable => size = 0
  BY <1>4, <1>5, SizeIs DEF FileSize, Seekable
<1>7. n \in Int /\ size \in Int
  BY <1>4, <1>5, <1>6
<1>8. CopyLast(n, g.num)
  BY <1>1, <1>2, <1>4, <1>5 DEF TailBytes, ElideHeadBytes
<1>9. Max({0, size - n}) = IF 0 >= size - n THEN 0 ELSE size - n
  <2>1. PICK m : m = size - n
    OBVIOUS
  <2>2. m \in Int /\ 0 \in Int
    BY <1>7, <2>1
  <2>3. Max({0, m}) = IF 0 >= m THEN 0 ELSE m
    BY <2>2, OfTwo
  <2> QED BY <2>1, <2>3
<1>10. /\ Close(t.c) = len /\ Begin(t.c) \in Nat
       /\ ~t.c.elide => Begin(t.c) = IF num < len THEN len - num ELSE 0
       /\ t.c.elide => Begin(t.c) = IF num = 0 THEN 0 ELSE IF num > len THEN len ELSE num - 1
  BY <1>2, <1>3, <1>4 DEF Close, Begin, TaskOk
<1>11. ASSUME Begin(t.c) = len PROVE out = t.due
  <2>1. PICK a : a = Begin(t.c)
    OBVIOUS
  <2>2. Owes(t, out, a, a)
    BY <1>2, <1>10, <1>11, <2>1 DEF OwesAll
  <2> QED BY <1>3, <2>2, OwesNothing
<1>12. PICK a, begin : a = Max({0, size - n}) /\ begin = Begin(t.c)
  OBVIOUS
<1>13. ASSUME Seekable
       PROVE  (a >= len /\ begin = len) \/ (n \in Nat /\ a = begin /\ (begin + n = len \/ begin + n >= len))
  <2>1. CASE ~t.c.elide
    <3>1. n = num /\ a = (IF 0 >= size - n THEN 0 ELSE size - n) /\ begin = IF num < len THEN len - num ELSE 0
      BY <1>4, <1>9, <1>10, <1>12, <2>1
    <3> QED BY <1>5, <1>6, <1>13, <3>1
  <2>2. CASE t.c.elide
    <3>1. /\ n = size - num + 1 /\ a = (IF 0 >= size - n THEN 0 ELSE size - n)
          /\ begin = IF num = 0 THEN 0 ELSE IF num > len THEN len ELSE num - 1
      BY <1>4, <1>9, <1>10, <1>12, <2>2
    <3> QED BY <1>5, <1>6, <1>13, <3>1
  <2> QED BY <2>1, <2>2
<1>14. Seekable => \/ Max({0, FileSize - n}) >= Len(t.c.d) /\ out = t.due
                   \/ /\ n \in Nat /\ Max({0, FileSize - n}) = Begin(t.c)
                      /\ Reaches(Begin(t.c), n, Len(t.c.d), Len(t.c.d))
  BY <1>4, <1>11, <1>12, <1>13 DEF Reaches
<1> QED BY <1>1, <1>2, <1>7, <1>8, <1>14, CopyLastStep

\* elide_head_lines, before its loop.
LEMMA ElideHeadLinesStep ==
    ASSUME NEW u, NEW t, Here(u, t), Part(t, pc, v, off, out), ElideHeadLines, ok'
    PROVE  Onward(u)
<1>1. pc = "elide_head_lines"
  BY DEF ElideHeadLines
<1>2. t.c.prog = "tail" /\ t.c.o = "n" /\ t.c.elide /\ OwesAll(t, out)
  BY <1>1 DEF Part, Entered, Scanning
<1>3. TaskOk(t) /\ In.data = t.c.d /\ Len(t.c.d) \in Nat /\ t.c.d \in Seq(t.S) /\ g.num = t.c.num /\ t.c.num \in Nat
  BY <1>1 DEF Here, TaskOk
<1>4. t.c.kind # "pipe" /\ t.c.num > 0
  BY <1>2, <1>3 DEF TaskOk, Plain
<1>5. /\ Close(t.c) = Len(t.c.d) /\ Begin(t.c) = LineAt(t.c.d, t.c.le, t.c.num - 1)
      /\ Begin(t.c) \in Nat /\ Begin(t.c) <= Len(t.c.d)
  BY <1>2, <1>3 DEF Begin, Close, TaskOk
<1>6. ASSUME Len(t.c.d) = 0 PROVE out = t.due
  <2>1. PICK a : a = Begin(t.c) /\ a = Close(t.c)
    BY <1>3, <1>5, <1>6
  <2>2. Owes(t, out, a, a)
    BY <1>2, <2>1 DEF OwesAll
  <2> QED BY <1>3, <2>2, OwesNothing
<1>7. CASE (FileSize = 0 \/ g.num = 0) /\ Return(TRUE) /\ UNCHANGED <<out, g>>
  <2>1. FileSize = 0
    BY <1>3, <1>4, <1>7
  <2>2. Len(t.c.d) = 0
    BY <1>4, <2>1, SizeIs
  <2>3. out = t.due
    BY <1>6, <2>2
  <2> QED BY <1>1, <1>7, <2>3, DoneSame
<1>8. CASE /\ FileSize # 0 /\ g.num = 1 /\ off' = 0
           /\ Goto("copy", CopyLocals(FileSize, <<>>)) /\ UNCHANGED <<out, g>>
  <2>1. CASE t.c.kind = "file"
    <3>1. t.c.num - 1 = 0 /\ 0 \in Int
      BY <1>3, <1>8
    <3>2. Begin(t.c) = 0
      BY <1>3, <1>5, <3>1, LineAtIs
    <3>3. PICK o, len : o = 0 /\ len = Len(t.c.d)
      OBVIOUS
    <3>4. FileSize - o = FileSize
      BY <1>3, <2>1, <3>3, SizeIs
    <3>5. o = Begin(t.c) /\ off' = o /\ Goto("copy", CopyLocals(FileSize - o, <<>>))
      BY <1>8, <3>2, <3>3, <3>4
    <3> QED BY <1>1, <1>2, <1>8, <2>1, <3>5, CopyRest
  <2>2. CASE t.c.kind = "dir"
    <3>1. FileSize = 1 /\ Len(t.c.d) = 0
      BY <2>2, SizeIs
    <3>2. out = t.due /\ 1 \in Int /\ 0 \in Nat /\ 0 >= Len(t.c.d)
      BY <1>6, <3>1
    <3>3. Part(t, "copy", [left |-> 1, rest |-> <<>>, num |-> t.c.num], 0, out)
      BY <3>2, CopyNothing
    <3>4. CopyLocals(FileSize, <<>>) = [left |-> 1, rest |-> <<>>, num |-> t.c.num]
      BY <1>3, <3>1 DEF CopyLocals
    <3> QED BY <1>1, <1>8, <3>3, <3>4, GoesOnSame
  <2>3. CASE t.c.kind = "missing"
    BY <1>8, <2>3, SizeIs
  <2> QED BY <1>4, <2>1, <2>2, <2>3, SizeIs
<1>9. CASE /\ FileSize # 0 /\ g.num > 1 /\ off' = 0
           /\ \E n \in Reads(0, BufSize) :
               \/ n < 0 /\ Return(FALSE) /\ UNCHANGED <<out, g>>
               \/ /\ n >= 0 /\ UNCHANGED <<out, g>>
                  /\ Goto("elide_head_scan", [pos |-> 0, lines |-> g.num - 1,
                                              buf |-> Block(0, n), ptr |-> 0, n |-> n])
  <2>1. PICK n \in Reads(0, BufSize) :
               \/ n < 0 /\ Return(FALSE) /\ UNCHANGED <<out, g>>
               \/ /\ n >= 0 /\ UNCHANGED <<out, g>>
                  /\ Goto("elide_head_scan", [pos |-> 0, lines |-> g.num - 1,
                                              buf |-> Block(0, n), ptr |-> 0, n |-> n])
    BY <1>9
  <2>2. CASE Return(FALSE)
    BY <2>2 DEF Return
  <2>3. CASE /\ n >= 0 /\ UNCHANGED <<out, g>>
             /\ Goto("elide_head_scan", [pos |-> 0, lines |-> g.num - 1,
                                         buf |-> Block(0, n), ptr |-> 0, n |-> n])
    <3>1. t.c.kind = "file"
      <4>1. t.c.kind # "missing"
        BY <1>9, SizeIs
      <4>2. ASSUME t.c.kind = "dir" PROVE FALSE
        <5>1. n = -1
          BY <4>2, SizeIs
        <5> QED BY <2>3, <5>1
      <4> QED BY <1>4, <4>1, <4>2, SizeIs
    <3>2. PICK len, most : len = Len(t.c.d) /\ most = Min({BufSize, len})
      OBVIOUS
    <3>3. FileSize = len /\ len \in Nat /\ len # 0
      BY <1>3, <1>9, <3>1, <3>2, SizeIs
    <3>4. most = IF BufSize <= len THEN BufSize ELSE len
      BY <3>2, <3>3, BufAssumption, OfTwo
    <3>5. most > 0 /\ ~(most <= 0)
      BY <3>3, <3>4, BufAssumption
    <3>6. Min({BufSize, Len(In.data) - 0}) = most
      <4>1. Len(In.data) - 0 = len
        BY <1>3, <3>2, <3>3
      <4> QED BY <3>2, <4>1
    <3>7. In.kind = "file"
      BY <3>1 DEF Here
    <3>8. n = most
      BY <3>5, <3>6, <3>7 DEF Reads
    <3>9. t.c.d # <<>>
      BY <3>2, <3>3
    <3>10. t.c.num > 1 /\ n = Min({BufSize, Len(t.c.d)})
      BY <1>3, <1>9, <3>2, <3>8
    <3>11. Forward(t, [pos |-> 0, lines |-> t.c.num - 1, buf |-> SubSeq(t.c.d, 0 + 1, 0 + n),
                       ptr |-> 0, n |-> n])
      BY <1>2, <1>3, <3>1, <3>9, <3>10, ForwardStart
    <3>12. Block(0, n) = SubSeq(t.c.d, 0 + 1, 0 + n)
      BY <1>3 DEF Block
    <3> DEFINE l == [pos |-> 0, lines |-> g.num - 1, buf |-> Block(0, n), ptr |-> 0, n |-> n]
    <3>13. Forward(t, l)
      BY <1>3, <3>11, <3>12
    <3>14. Goto("elide_head_scan", l) /\ g' = g /\ out' = out
      BY <2>3
    <3> HIDE DEF l
    <3>15. Part(t, "elide_head_scan", l, off', out')
      BY <1>2, <3>13, <3>14 DEF Part, Scanning
    <3> QED BY <1>1, <3>14, <3>15, GoesOnSame
  <2> QED BY <2>1, <2>2, <2>3
<1> QED BY <1>7, <1>8, <1>9 DEF ElideHeadLines

\* Its loop, where the number of bytes memchr may look at stays right.
LEMMA ElideHeadScanStep ==
    ASSUME NEW u, NEW t, Here(u, t), Part(t, pc, v, off, out), ElideHeadScan, ok'
    PROVE  Onward(u)
<1>1. pc = "elide_head_scan"
  BY DEF ElideHeadScan
<1>2. Forward(t, v) /\ OwesAll(t, out)
  BY <1>1 DEF Part, Entered, Scanning
<1>3. TaskOk(t) /\ In.data = t.c.d /\ g.line_end = t.c.le
  BY <1>1 DEF Here
<1>4. t.c.prog = "tail" /\ t.c.o = "n" /\ t.c.elide /\ t.c.kind = "file"
  BY <1>2 DEF Forward
<1>5. FileSize = Len(t.c.d)
  BY <1>4, SizeIs
<1>6. Begin(t.c) = LineAt(t.c.d, t.c.le, t.c.num - 1)
  BY <1>4 DEF Begin
<1>7. v.pos \in Nat /\ v.n \in Nat /\ v.lines \in Nat \ {0} /\ Len(v.buf) \in Nat
  BY <1>2, <1>3, ForwardIs
<1>8. PICK last, ends, i, next :
        /\ last = IF v.n < 0 THEN Len(v.buf) ELSE v.ptr + v.n
        /\ ends = {j \in Ends(v.buf, t.c.le) : v.ptr < j /\ j <= last}
        /\ i = Min(ends) /\ next = v.pos + Len(v.buf)
  OBVIOUS
<1>9. ends = Ahead(v, t.c.le)
  <2>1. {j \in Ends(v.buf, t.c.le) : v.ptr < j /\ j <= last} = Ahead(v, t.c.le)
    BY <1>2, <1>3, <1>8, ForwardLooks
  <2> QED BY <1>8, <2>1
<1>10. \/ /\ ends # {} /\ v.lines = 1
          /\ Goto("copy", CopyLocals(FileSize - (v.pos + i), <<>>))
          /\ off' = v.pos + i /\ UNCHANGED <<out, g>>
       \/ /\ ends # {} /\ v.lines > 1
          /\ Goto("elide_head_scan", [v EXCEPT !.lines = v.lines - 1, !.ptr = i, !.n = v.n - i])
          /\ UNCHANGED <<out, g, off>>
       \/ v.n < 0
       \/ ends = {} /\ next = FileSize /\ Return(TRUE) /\ UNCHANGED <<out, g>>
       \/ /\ ends = {} /\ next < FileSize
          /\ Goto("elide_head_scan",
                  [v EXCEPT !.pos = next, !.ptr = 0,
                            !.buf = Block(next, Min({BufSize, FileSize - next})),
                            !.n = Min({BufSize, FileSize - next})])
          /\ UNCHANGED <<out, g, off>>
  BY <1>3, <1>8 DEF ElideHeadScan
<1>11. ASSUME ends # {} PROVE i = Min(Ahead(v, t.c.le)) /\ Ahead(v, t.c.le) # {}
  BY <1>8, <1>9, <1>11
<1>12. CASE /\ ends # {} /\ v.lines = 1
            /\ Goto("copy", CopyLocals(FileSize - (v.pos + i), <<>>))
            /\ off' = v.pos + i /\ UNCHANGED <<out, g>>
  <2>1. v.pos + i = Begin(t.c)
    BY <1>2, <1>3, <1>6, <1>11, <1>12, ForwardFound
  <2> QED BY <1>1, <1>2, <1>4, <1>12, <2>1, CopyRest
<1>13. CASE /\ ends # {} /\ v.lines > 1
            /\ Goto("elide_head_scan", [v EXCEPT !.lines = v.lines - 1, !.ptr = i, !.n = v.n - i])
            /\ UNCHANGED <<out, g, off>>
  <2>1. Forward(t, [v EXCEPT !.lines = v.lines - 1, !.ptr = i, !.n = v.n - i])
    BY <1>2, <1>3, <1>11, <1>13, ForwardNext
  <2>2. PICK l : l = [v EXCEPT !.lines = v.lines - 1, !.ptr = i, !.n = v.n - i]
    OBVIOUS
  <2>3. Part(t, "elide_head_scan", l, off', out') /\ Goto("elide_head_scan", l) /\ g' = g
    BY <1>2, <1>13, <2>1, <2>2 DEF Part, Scanning
  <2> QED BY <1>1, <2>3, GoesOnSame
<1>14. CASE v.n < 0
  BY <1>7, <1>14
<1>15. CASE ends = {} /\ next = FileSize /\ Return(TRUE) /\ UNCHANGED <<out, g>>
  <2>1. Begin(t.c) = Len(t.c.d)
    BY <1>2, <1>3, <1>5, <1>6, <1>8, <1>9, <1>15, ForwardNone
  <2>2. Close(t.c) = Len(t.c.d)
    BY <1>4 DEF Close
  <2>3. PICK a : a = Begin(t.c) /\ a = Close(t.c)
    BY <2>1, <2>2
  <2>4. Owes(t, out, a, a)
    BY <1>2, <2>3 DEF OwesAll
  <2>5. out = t.due
    BY <1>3, <2>4, OwesNothing
  <2> QED BY <1>1, <1>15, <2>5, DoneSame
<1>16. CASE /\ ends = {} /\ next < FileSize
            /\ Goto("elide_head_scan",
                  [v EXCEPT !.pos = next, !.ptr = 0,
                            !.buf = Block(next, Min({BufSize, FileSize - next})),
                            !.n = Min({BufSize, FileSize - next})])
            /\ UNCHANGED <<out, g, off>>
  <2>1. PICK m : m = Min({BufSize, Len(t.c.d) - next})
    OBVIOUS
  <2>2. PICK b : b = SubSeq(t.c.d, next + 1, next + m)
    OBVIOUS
  <2>3. Forward(t, [v EXCEPT !.pos = next, !.ptr = 0, !.buf = b, !.n = m])
    BY <1>2, <1>3, <1>5, <1>8, <1>9, <1>16, <2>1, <2>2, ForwardPass
  <2>4. Min({BufSize, FileSize - next}) = m
    BY <1>5, <2>1
  <2>5. Block(next, m) = b
    BY <1>3, <2>2 DEF Block
  <2>6. PICK l : l = [v EXCEPT !.pos = next, !.ptr = 0, !.buf = b, !.n = m]
    OBVIOUS
  <2>7. Goto("elide_head_scan", l)
    BY <1>16, <2>4, <2>5, <2>6
  <2>8. Part(t, "elide_head_scan", l, off', out') /\ g' = g
    BY <1>2, <1>16, <2>3, <2>6 DEF Part, Scanning
  <2> QED BY <1>1, <2>7, <2>8, GoesOnSame
<1> QED BY <1>10, <1>12, <1>13, <1>14, <1>15, <1>16
-----------------------------------------------------------------------------
(* head and tail: what they print *)

TextInv ==
    prog \in {"head", "tail"} =>
        /\ TextArgs /\ fs \in Seq(TextFiles)
        /\ ok /\ TextUsual => TextState(TextJob, fi, g, pc, v, off, out)

\* What is asked for does not change.
LEMMA TextSame ==
    ASSUME prog' = prog, argv' = argv, fs' = fs
    PROVE  /\ TextJob' = TextJob /\ (TextArgs <=> TextArgs') /\ (TextUsual <=> TextUsual')
           /\ (fs \in Seq(TextFiles) <=> (fs \in Seq(TextFiles))')
<1>1. /\ Asked' = Asked /\ \A l : Has(l)' = Has(l) /\ Given({"c", "n"})' = Given({"c", "n"})
  BY DEF Asked, Has, Given, LastGiven
<1>2. Count' = Count /\ LineEnd' = LineEnd /\ TextSign' = TextSign
  BY <1>1 DEF Count, LineEnd, TextSign
<1>3. TextBytes' = TextBytes /\ TextFiles' = TextFiles /\ TextElems' = TextElems /\ Headers' = Headers
  BY <1>1 DEF TextBytes, TextFiles, TextElems, Headers
<1>4. \A k : TextCall(k)' = TextCall(k)
  BY <1>1, <1>2 DEF TextCall
<1>5. \A k : HeaderOf(k)' = HeaderOf(k)
  BY <1>3 DEF HeaderOf
<1>6. \A k : Share(k)' = Share(k)
  BY <1>4, <1>5 DEF Share
<1>7. Shares' = Shares
  BY <1>6 DEF Shares
<1>8. Sofar' = Sofar
  BY <1>3, <1>7 DEF Sofar
<1>9. [k \in DOMAIN fs |-> TextCall(k)]' = [k \in DOMAIN fs |-> TextCall(k)]
  BY <1>4
<1>10. TextJob' = TextJob
  BY <1>1, <1>2, <1>3, <1>8, <1>9 DEF TextJob
<1>11. TextArgs <=> TextArgs'
  BY <1>2 DEF TextArgs
<1>12. \A d : (LastLineSeen(d) <=> LastLineSeen(d)') /\ (Passable(d) <=> Passable(d)')
  BY <1>2 DEF LastLineSeen, Passable
<1>13. TextUsual <=> TextUsual'
  BY <1>1, <1>2, <1>12 DEF TextUsual
<1> QED BY <1>3, <1>10, <1>11, <1>13

\* Nor do the operands; who has failed has failed.
Stays == argv' = argv /\ fs' = fs /\ (ok' => ok)
\* A step leaves the command line and the inputs alone and mends no failure.
LEMMA TextStays == ASSUME HeadNext \/ TailNext PROVE Stays
<1>1. /\ \A r : Return(r) => Stays
      /\ \A r : Exit(r) => Stays
      /\ \A f, l : Goto(f, l) => Stays
  <2>1. ASSUME NEW r, Return(r) PROVE Stays
    <3>1. argv' = argv /\ fs' = fs /\ ok' = (ok /\ r)
      BY <2>1 DEF Return
    <3> QED BY ONLY <3>1 DEF Stays
  <2>2. ASSUME NEW r, Exit(r) PROVE Stays
    <3>1. argv' = argv /\ fs' = fs /\ ok' = (ok /\ r)
      BY <2>2 DEF Exit
    <3> QED BY ONLY <3>1 DEF Stays
  <2>3. ASSUME NEW f, NEW l, Goto(f, l) PROVE Stays
    BY <2>3 DEF Goto, Stays
  <2> QED BY <2>1, <2>2, <2>3
<1>2. CASE HeadMain \/ TailMain
  BY <1>1, <1>2 DEF HeadMain, TailMain
<1>3. CASE HeadFile \/ TailFile
  BY <1>1, <1>3 DEF HeadFile, TailFile
<1>4. CASE HeadCopy \/ TailCopy
  BY <1>1, <1>4 DEF HeadCopy, TailCopy, CopyFd, CopyDone
<1>5. CASE HeadLines
  BY <1>1, <1>5 DEF HeadLines
<1>6. CASE ElideTailLines
  BY <1>1, <1>6 DEF ElideTailLines
<1>7. CASE ElideTailScan \/ ElideTailBytes
  BY <1>1, <1>7 DEF ElideTailScan, ElideTailBytes
<1>8. CASE TailLines
  BY <1>1, <1>8 DEF TailLines
<1>9. CASE TailScan
  BY <1>1, <1>9 DEF TailScan
<1>10. CASE TailBytes \/ ElideHeadBytes
  BY <1>1, <1>10 DEF TailBytes, ElideHeadBytes, CopyLast
<1>11. CASE ElideHeadLines
  BY <1>1, <1>11 DEF ElideHeadLines
<1>12. CASE ElideHeadScan
  BY <1>1, <1>12 DEF ElideHeadScan
<1> QED BY <1>2, <1>3, <1>4, <1>5, <1>6, <1>7, <1>8, <1>9, <1>10, <1>11, <1>12 DEF HeadNext, TailNext

\* A step of head or of tail.
LEMMA TextNext ==
    ASSUME prog \in {"head", "tail"}, TextInv, TextUsual, HeadNext \/ TailNext, ok, ok'
    PROVE  Onward(TextJob)
<1>1. TextArgs /\ fs \in Seq(TextFiles) /\ TextState(TextJob, fi, g, pc, v, off, out)
  BY DEF TextInv
<1>2. PICK u : u = TextJob
  OBVIOUS
<1>3. JobOk(u) /\ u.F = fs /\ u.prog = prog /\ TextState(u, fi, g, pc, v, off, out)
  BY <1>1, <1>2, TextJobOk
<1>4. CASE HeadMain \/ TailMain
  BY <1>1, <1>2, <1>3, <1>4, TextMainStep
<1>5. CASE HeadFile \/ TailFile
  BY <1>2, <1>3, <1>5, HeadFileStep, TailFileStep
<1>6. CASE \/ HeadLines \/ HeadCopy \/ ElideTailLines \/ ElideTailScan \/ ElideTailBytes
           \/ TailCopy \/ TailLines \/ TailScan \/ TailBytes \/ ElideHeadBytes
           \/ ElideHeadLines \/ ElideHeadScan
  <2>1. pc \notin {"main", "file", "exit"}
    BY <1>6 DEF HeadLines, HeadCopy, ElideTailLines, ElideTailScan, ElideTailBytes, TailCopy, TailLines,
                TailScan, TailBytes, ElideHeadBytes, ElideHeadLines, ElideHeadScan, CopyFd
  <2>2. PICK t : Here(u, t) /\ Part(t, pc, v, off, out)
    BY <1>3, <2>1, InsideIs
  <2>3. CASE HeadCopy \/ TailCopy
    BY <1>2, <2>2, <2>3, CopyStep DEF HeadCopy, TailCopy
  <2>4. CASE HeadLines
    BY <1>2, <2>2, <2>4, HeadLinesStep
  <2>5. CASE ElideTailLines
    BY <1>2, <2>2, <2>5, ElideTailLinesStep
  <2>6. CASE ElideTailScan
    BY <1>2, <2>2, <2>6, ElideTailScanStep
  <2>7. CASE ElideTailBytes
    BY <1>2, <2>2, <2>7, ElideTailBytesStep
  <2>8. CASE TailLines
    BY <1>2, <2>2, <2>8, TailLinesStep
  <2>9. CASE TailScan
    BY <1>2, <2>2, <2>9, TailScanStep
  <2>10. CASE TailBytes \/ ElideHeadBytes
    BY <1>2, <2>2, <2>10, TailBytesStep
  <2>11. CASE ElideHeadLines
    BY <1>2, <2>2, <2>11, ElideHeadLinesStep
  <2>12. CASE ElideHeadScan
    BY <1>2, <2>2, <2>12, ElideHeadScanStep
  <2> QED BY <1>6, <2>3, <2>4, <2>5, <2>6, <2>7, <2>8, <2>9, <2>10, <2>11, <2>12
<1> QED BY <1>4, <1>5, <1>6 DEF HeadNext, TailNext

\* The steps of all commands.
LEMMA TextKept == ASSUME TextInv, [Next]_vars PROVE TextInv'
<1>1. ASSUME prog' = prog, argv' = argv, fs' = fs,
             prog \in {"head", "tail"} /\ ok' /\ TextUsual =>
                 TextState(TextJob, fi', g', pc', v', off', out')
      PROVE  TextInv'
  <2>1. TextJob' = TextJob /\ (TextArgs <=> TextArgs') /\ (TextUsual <=> TextUsual')
        /\ (fs \in Seq(TextFiles) <=> (fs \in Seq(TextFiles))')
    BY <1>1, TextSame
  <2>2. PICK u : u = TextJob /\ u = TextJob'
    BY <2>1
  <2>3. prog \in {"head", "tail"} /\ ok' /\ TextUsual => TextState(u, fi', g', pc', v', off', out')
    BY <1>1, <2>2
  <2> QED BY <1>1, <2>1, <2>2, <2>3 DEF TextInv
<1>2. CASE UNCHANGED vars
  <2>1. /\ prog' = prog /\ argv' = argv /\ fs' = fs /\ pc' = pc /\ g' = g /\ fi' = fi /\ off' = off
        /\ out' = out /\ v' = v /\ ok' = ok
    BY <1>2 DEF vars
  <2>2. PICK u : u = TextJob
    OBVIOUS
  <2>3. prog \in {"head", "tail"} /\ ok' /\ TextUsual => TextState(u, fi', g', pc', v', off', out')
    BY <2>1, <2>2 DEF TextInv
  <2> QED BY <1>1, <2>1, <2>2, <2>3
<1>3. CASE HeadNext \/ TailNext
  <2>1. prog \in {"head", "tail"} /\ prog' = prog
    BY <1>3, OwnSteps DEF Step
  <2>2. argv' = argv /\ fs' = fs /\ (ok' => ok)
    BY <1>3, TextStays DEF Stays
  <2>3. ok' /\ TextUsual => Onward(TextJob)
    BY <1>3, <2>1, <2>2, TextNext
  <2> QED BY <1>1, <2>1, <2>2, <2>3 DEF Onward
<1>4. CASE CatNext \/ OdNext \/ ChownNext \/ ChmodNext \/ CpNext \/ PwdNext
           \/ ChildSyncNext \/ MultiJoinNext \/ SeqNumNext
  <2>1. prog \notin {"head", "tail"} /\ prog' = prog
    BY <1>4, OwnSteps DEF Step, Waiters
  <2> QED BY <2>1 DEF TextInv
<1> QED BY <1>2, <1>3, <1>4 DEF Next, Exited

\* Before anything is written.
LEMMA InitText == ASSUME Init PROVE TextInv
<1>1. PICK i \in DOMAIN Cases : \E c \in Cases[i] :
        /\ prog = c.prog /\ argv = c.argv /\ fs = c.fs
        /\ pc = "main" /\ g = None /\ v = None
        /\ fi = 1 /\ off = 0 /\ out = <<>> /\ ok = TRUE
  BY DEF Init
<1>2. PICK c \in Cases[i] : /\ prog = c.prog /\ argv = c.argv /\ fs = c.fs
                            /\ pc = "main" /\ fi = 1 /\ out = <<>>
  BY <1>1
<1>3. ASSUME prog \in {"head", "tail"} PROVE TextArgs /\ fs \in Seq(TextFiles)
  <2>1. /\ c.argv \in Seq(ToSet(c.argv))
        /\ \A k \in DOMAIN c.argv : LET a == c.argv[k] IN
             \/ /\ a.o \in {"c", "n"} /\ a.digits \in Seq(Nat)
                /\ a.sign \in {"", IF c.prog = "head" THEN "-" ELSE "+"}
             \/ a.o \in {"q", "v", "z"}
             \/ a.o \in {"f", "s"} /\ c.prog = "tail"
        /\ c.fs \in Seq([kind : {"file", "pipe"}, data : Seq(UNION {ToSet(c.fs[k].data) : k \in DOMAIN c.fs})]
                         \cup [kind : {"dir", "missing"}, data : {<<>>}])
    BY <1>2, <1>3, TextsAssumption
  <2>2. TextArgs
    BY <1>2, <2>1 DEF TextArgs, TextSign
  <2>3. fs \in Seq(TextFiles)
    BY <1>2, <2>1 DEF TextFiles, TextBytes
  <2> QED BY <2>2, <2>3
<1>4. TextState(TextJob, fi, g, pc, v, off, out)
  BY <1>2 DEF TextState
<1> QED BY <1>3, <1>4 DEF TextInv

\* What has been written at the end is what was asked for.
LEMMA TextWrites == ASSUME TextInv PROVE HeadTailExact
<1>1. ASSUME prog \in {"head", "tail"}, pc = "exit", ok, TextUsual
      PROVE  /\ prog = "head" => out = WithHeaders(HeadText)
             /\ prog = "tail" => out = WithHeaders(TailText)
  <2>1. TextArgs /\ fs \in Seq(TextFiles) /\ TextState(TextJob, fi, g, pc, v, off, out)
    BY <1>1 DEF TextInv
  <2>2. out = TextJob.sofar[Len(TextJob.F)] /\ TextJob.F = fs
    BY <1>1, <2>1, TextJobOk DEF TextState, Within, Part, Entered, Scanning
  <2> QED BY <1>1, <2>1, <2>2, TextJobOk
<1>2. HeadExact
  <2>1. SUFFICES ASSUME prog = "head", pc = "exit", ok,
                        Asked.sign = "-" => \A i \in DOMAIN fs :
                            /\ fs[i].kind # "pipe"
                            /\ Asked.o = "n" /\ fs[i].data # <<>> => LastLineSeen(fs[i].data)
                 PROVE  out = WithHeaders(HeadText)
    BY DEF HeadExact
  <2>2. TextUsual
    BY <2>1 DEF TextUsual
  <2> QED BY <1>1, <2>1, <2>2
<1>3. TailExact
  <2>1. SUFFICES ASSUME prog = "tail", pc = "exit", ok, Given({"c", "n"}) # {},
                        Asked.o = "n" => \A i \in DOMAIN fs : LET d == fs[i].data IN
                            /\ fs[i].kind # "pipe"
                            /\ Asked.sign = "" /\ d # <<>> => (Last(d) = Newline <=> Last(d) = LineEnd)
                            /\ Asked.sign = "+" => Count > 0 /\ Passable(d)
                 PROVE  out = WithHeaders(TailText)
    BY DEF TailExact
  <2>2. TextUsual
    BY <2>1 DEF TextUsual
  <2> QED BY <1>1, <2>1, <2>2
<1> QED BY <1>2, <1>3 DEF HeadTailExact

\* head and tail print exactly the lines or bytes that they are asked for,
\* with the headers, from any inputs, in pieces of any length and with a
\* buffer of any size, forwards and backwards, except where HeadExact and
\* TailExact say that the code differs.
THEOREM HeadTailPrint == Spec => []HeadTailExact
<1>1. Init => TextInv
  BY InitText
<1>2. TextInv /\ [Next]_vars => TextInv'
  BY TextKept
<1>3. TextInv => HeadTailExact
  BY TextWrites
<1> QED BY <1>1, <1>2, <1>3, PTL DEF Spec
=============================================================================

--------------------------- MODULE ContainerProofs ---------------------------
(***************************************************************************)
(* What the calls of the three containers make of their data, of any size. *)
(* The slots of timer_heap are seen as the function keys from indices to   *)
(* expiries, so that the invariants of its two loops are statements about  *)
(* integers; a doubly linked list of sort_timer_lst is seen as the         *)
(* sequence of its timers, and a timer_wheel as one such list for each     *)
(* slot.                                                                   *)
(***************************************************************************)
EXTENDS HeapTimer, ListTimer, WheelTimer, FiniteSetTheorems, SequenceTheorems,
        WellFoundedInduction, TLAPS

\* The slots hold the timers in C, each once.
Holds(h, C) ==
    /\ h \in Seq(Timer) /\ {h[i] : i \in 1..Len(h)} = C
    /\ \A i, j \in 1..Len(h) : h[i] = h[j] => i = j

KeysOf(h, e) == [j \in 0..(Len(h) - 1) |-> e[Slot(h, j)]]

\* No timer expires before its parent; nor any but the one in slot i, which
\* may move up; nor any but its children, and it may move down.
HeapOrder(k, n) == \A j \in 1..(n - 1) : k[j \div 2] <= k[j]
UpOrder(k, n, i) ==
    /\ i \in 0..(n - 1)
    /\ \A j \in 1..(n - 1) : j # i => k[j \div 2] <= k[j]
    /\ i > 0 => \A j \in 1..(n - 1) : j \div 2 = i => k[i \div 2] <= k[j]
DownOrder(k, n, i) ==
    /\ i \in Nat
    /\ \A j \in 1..(n - 1) : j \div 2 # i => k[j \div 2] <= k[j]
    /\ i > 0 => \A j \in 1..(n - 1) : j \div 2 = i => k[i \div 2] <= k[j]

\* The keys l are k with those in slots i and c exchanged; slot c is a child
\* of i (the root is its own) with the smallest key.
Exchanged(k, l, n, i, c) ==
    \A j \in 0..(n - 1) : l[j] = IF j = i THEN k[c] ELSE IF j = c THEN k[i] ELSE k[j]
LeastChild(k, n, i, c) ==
    /\ c \in 0..(n - 1) /\ c \div 2 = i
    /\ \A j \in 1..(n - 1) : j \div 2 = i => k[c] <= k[j]
-----------------------------------------------------------------------------
(* Loops *)

\* A set of naturals has a least element.
LEMMA Least ==
    ASSUME NEW S, S \subseteq Nat, S # {}
    PROVE  \E x \in S : \A y \in S : x <= y
<1> DEFINE R == OpToRel(<, Nat)
<1>1. \E x \in S : \A y \in S : ~(<<y, x>> \in R)
  <2>1. IsWellFoundedOn(R, Nat)
    BY NatLessThanWellFounded
  <2> HIDE DEF R
  <2> QED BY <2>1, WFMin
<1>2. ASSUME NEW x \in Nat, NEW y \in Nat, y < x PROVE <<y, x>> \in R
  BY <1>2 DEF OpToRel
<1> HIDE DEF R
<1>3. PICK x \in S : \A y \in S : ~(<<y, x>> \in R)
  BY <1>1
<1>4. \A y \in S : ~(y < x)
  BY <1>2, <1>3
<1> QED BY <1>4

\* The states of a loop: the first is s, every pass makes the next one.
LEMMA PassesExist ==
    ASSUME NEW Pass, NEW s, NEW n \in Nat
    PROVE  \E f : f = [k \in 0..n |-> IF k = 0 THEN s ELSE Pass[f[k - 1]]]
<1> DEFINE Has(m) == \E f : f = [k \in 0..m |-> IF k = 0 THEN s ELSE Pass[f[k - 1]]]
           without == {m \in Nat : ~Has(m)}
<1>1. CASE without = {}
  BY <1>1
<1>2. CASE without # {}
  <2>1. PICK m \in without : \A y \in without : m <= y
    <3>1. without \subseteq Nat
      OBVIOUS
    <3> HIDE DEF without
    <3> QED BY <1>2, <3>1, Least
  <2>2. m # 0
    <3> DEFINE f == [k \in 0..0 |-> s]
    <3>1. f = [k \in 0..0 |-> IF k = 0 THEN s ELSE Pass[f[k - 1]]]
      OBVIOUS
    <3> HIDE DEF f
    <3>2. Has(0)
      BY <3>1
    <3> QED BY <2>1, <3>2
  <2>3. m - 1 \in Nat /\ m - 1 \notin without
    <3>1. m \in Nat
      OBVIOUS
    <3> HIDE DEF without
    <3> QED BY <2>1, <2>2, <3>1
  <2>4. PICK f : f = [k \in 0..(m - 1) |-> IF k = 0 THEN s ELSE Pass[f[k - 1]]]
    BY <2>3
  <2> DEFINE longer == [k \in 0..m |-> IF k = m THEN Pass[f[m - 1]] ELSE f[k]]
  <2>5. \A k \in 0..m : longer[k] = IF k = 0 THEN s ELSE Pass[longer[k - 1]]
    <3> TAKE k \in 0..m
    <3>1. CASE k = m
      BY <2>1, <2>2, <3>1
    <3>2. CASE k # m
      <4>1. k \in 0..(m - 1) /\ longer[k] = f[k]
        BY <2>1, <2>2, <3>2
      <4>2. k # 0 => longer[k - 1] = f[k - 1]
        BY <2>1, <2>2, <4>1
      <4>3. f[k] = IF k = 0 THEN s ELSE Pass[f[k - 1]]
        BY <2>4, <4>1
      <4> QED BY <4>1, <4>2, <4>3
    <3> QED BY <3>1, <3>2
  <2>6. longer = [k \in 0..m |-> IF k = 0 THEN s ELSE Pass[longer[k - 1]]]
    <3>1. longer = [k \in 0..m |-> longer[k]]
      OBVIOUS
    <3> HIDE DEF longer
    <3> QED BY <2>5, <3>1
  <2> HIDE DEF longer
  <2>7. Has(m)
    BY <2>6
  <2> QED BY <2>1, <2>7
<1> QED BY <1>1, <1>2

\* The first state, and what each pass does.
LEMMA TrailIs ==
    ASSUME NEW Pass, NEW s, NEW n \in Nat
    PROVE  LET after == Trail(Pass, s, n)
           IN after[0] = s /\ \A k \in 1..n : after[k] = Pass[after[k - 1]]
<1> DEFINE after == CHOOSE f : f = [k \in 0..n |-> IF k = 0 THEN s ELSE Pass[f[k - 1]]]
<1>1. Trail(Pass, s, n) = after
  BY DEF Trail
<1>2. after = [k \in 0..n |-> IF k = 0 THEN s ELSE Pass[after[k - 1]]]
  BY PassesExist
<1> HIDE DEF after
<1> QED BY <1>1, <1>2

\* From s on, every pass keeps the invariant and makes the measure m smaller,
\* or the loop has ended; and n passes are enough.
Loop(Pass, Inv, m, s, n) ==
    /\ s \in Inv /\ n \in Nat /\ m[s] <= n
    /\ \A x \in Inv : /\ Pass[x] \in Inv /\ m[x] \in Nat
                      /\ Pass[x] = x \/ m[Pass[x]] < m[x]

\* Such a loop ends in a state of its invariant.
LEMMA LoopEnds ==
    ASSUME NEW Pass, NEW Inv, NEW m, NEW s, NEW n, Loop(Pass, Inv, m, s, n)
    PROVE  Passes(Pass, s, n) \in Inv /\ Pass[Passes(Pass, s, n)] = Passes(Pass, s, n)
<1>0. /\ s \in Inv /\ n \in Nat /\ m[s] <= n
      /\ \A x \in Inv : /\ Pass[x] \in Inv /\ m[x] \in Nat
                        /\ Pass[x] = x \/ m[Pass[x]] < m[x]
  BY DEF Loop
<1> DEFINE after == Trail(Pass, s, n)
<1>1. Passes(Pass, s, n) = after[n]
  BY DEF Passes
<1>2. after[0] = s /\ \A k \in 1..n : after[k] = Pass[after[k - 1]]
  BY <1>0, TrailIs
<1> HIDE DEF after
<1> DEFINE Fine(k) == after[k] \in Inv /\ (Pass[after[k]] = after[k] \/ m[after[k]] + k <= m[s])
           bad == {k \in 0..n : ~Fine(k)}
<1>3. bad = {}
  <2> SUFFICES ASSUME bad # {} PROVE FALSE
    OBVIOUS
  <2>1. PICK k \in bad : \A y \in bad : k <= y
    <3>1. bad \subseteq Nat
      BY <1>0
    <3> HIDE DEF bad
    <3> QED BY <3>1, Least
  <2>2. k # 0
    BY <1>0, <1>2, <2>1
  <2>3. k - 1 \in 0..n /\ k - 1 \notin bad /\ k \in 1..n
    BY <1>0, <2>1, <2>2
  <2>4. Fine(k - 1)
    BY <2>3
  <2>5. after[k] = Pass[after[k - 1]] /\ k \in Nat
    BY <1>0, <1>2, <2>3
  <2>6. /\ after[k - 1] \in Inv /\ after[k] \in Inv
        /\ m[after[k - 1]] \in Nat /\ m[after[k]] \in Nat /\ m[s] \in Nat
    BY <1>0, <2>4, <2>5
  <2>7. Pass[after[k]] = after[k] \/ m[after[k]] + k <= m[s]
    <3>1. CASE Pass[after[k - 1]] = after[k - 1]
      BY <2>5, <3>1
    <3>2. CASE Pass[after[k - 1]] # after[k - 1]
      <4>1. m[after[k]] < m[after[k - 1]]
        BY <1>0, <2>5, <2>6, <3>2
      <4>2. m[after[k - 1]] + (k - 1) <= m[s]
        BY <2>4, <3>2
      <4> QED BY <2>5, <2>6, <4>1, <4>2
    <3> QED BY <3>1, <3>2
  <2> QED BY <1>0, <2>1, <2>6, <2>7
<1>4. Fine(n)
  BY <1>0, <1>3
<1>5. CASE Pass[after[n]] # after[n]
  <2>1. m[after[n]] + n <= m[s] /\ m[after[n]] \in Nat /\ m[s] \in Nat
    BY <1>0, <1>4, <1>5
  <2>2. m[Pass[after[n]]] \in Nat /\ m[Pass[after[n]]] < m[after[n]]
    BY <1>0, <1>4, <1>5
  <2> QED BY <1>0, <2>1, <2>2
<1> QED BY <1>1, <1>4, <1>5
-----------------------------------------------------------------------------
(* The order, as a statement about keys *)

\* Parents and children.
LEMMA Halves ==
    ASSUME NEW j \in Nat
    PROVE  /\ j \div 2 \in Nat /\ j \div 2 <= j /\ (j > 0 => j \div 2 < j)
           /\ \A i \in Nat : j \div 2 = i <=> j = 2 * i \/ j = 2 * i + 1
OBVIOUS

\* A timer that expires before its parent changes places with it: the only
\* one that can be out of order is now one level higher.
LEMMA UpSwap ==
    ASSUME NEW n \in Nat, NEW k \in [0..(n - 1) -> Int], NEW l \in [0..(n - 1) -> Int], NEW i,
           UpOrder(k, n, i), i > 0, k[i] < k[i \div 2], Exchanged(k, l, n, i, i \div 2)
    PROVE  UpOrder(l, n, i \div 2)
<1> DEFINE p == i \div 2
           up(j) == j \div 2
<1>1. /\ i \in 1..(n - 1) /\ p \in 0..(n - 1) /\ p < i
      /\ \A j \in 1..(n - 1) : up(j) \in 0..(n - 1) /\ up(j) < j
      /\ up(i) = p /\ (p > 0 => up(p) < p)
  BY Halves DEF UpOrder
<1>2. /\ \A j \in 1..(n - 1) : j # i => k[up(j)] <= k[j]
      /\ \A j \in 1..(n - 1) : up(j) = i => k[p] <= k[j]
  BY DEF UpOrder
<1>3. k[i] < k[p] /\ \A j \in 0..(n - 1) : l[j] = IF j = i THEN k[p] ELSE IF j = p THEN k[i] ELSE k[j]
  BY DEF Exchanged
<1>4. \A j \in 0..(n - 1) : k[j] \in Int
  OBVIOUS
<1>5. l[i] = k[p] /\ l[p] = k[i] /\ \A j \in 0..(n - 1) : j # i /\ j # p => l[j] = k[j]
  BY <1>1, <1>3
<1> HIDE DEF p, up
<1>6. ASSUME NEW j \in 1..(n - 1), j # p PROVE l[up(j)] <= l[j]
  <2>1. j \in 0..(n - 1) /\ up(j) \in 0..(n - 1) /\ up(j) < j
    BY <1>1
  <2>2. CASE j = i
    BY <1>1, <1>3, <1>4, <1>5, <2>2
  <2>3. CASE j # i /\ up(j) = i
    BY <1>2, <1>5, <1>6, <2>1, <2>3
  <2>4. CASE j # i /\ up(j) = p
    <3>1. k[p] <= k[j] /\ k[i] < k[p] /\ k[i] \in Int /\ k[p] \in Int /\ k[j] \in Int
      BY <1>1, <1>2, <1>3, <1>4, <2>1, <2>4
    <3>2. l[up(j)] = k[i] /\ l[j] = k[j]
      BY <1>5, <1>6, <2>1, <2>4
    <3> QED BY <3>1, <3>2
  <2>5. CASE j # i /\ up(j) # i /\ up(j) # p
    BY <1>2, <1>5, <1>6, <2>1, <2>5
  <2> QED BY <2>2, <2>3, <2>4, <2>5
<1>7. ASSUME p > 0, NEW j \in 1..(n - 1), up(j) = p PROVE l[up(p)] <= l[j]
  <2>1. j \in 0..(n - 1) /\ j # p /\ p \in 1..(n - 1) /\ up(p) \in 0..(n - 1) /\ up(p) # p /\ up(p) # i
    <3>1. p \in 1..(n - 1) /\ p < i /\ up(p) < p
      BY <1>1, <1>7
    <3>2. up(p) \in 0..(n - 1)
      BY <1>1, <3>1
    <3>3. p < j
      BY <1>1, <1>7
    <3> QED BY <3>1, <3>2, <3>3
  <2>2. l[up(p)] = k[up(p)] /\ k[up(p)] <= k[p]
    BY <1>1, <1>2, <1>5, <2>1
  <2>3. CASE j = i
    BY <1>5, <2>2, <2>3
  <2>4. CASE j # i
    <3>1. l[j] = k[j] /\ k[p] <= k[j]
      BY <1>2, <1>5, <1>7, <2>1, <2>4
    <3>2. k[p] \in Int /\ k[j] \in Int /\ k[up(p)] \in Int
      BY <1>1, <1>4, <2>1
    <3> QED BY <2>2, <3>1, <3>2
  <2> QED BY <2>3, <2>4
<1> QED BY <1>1, <1>6, <1>7 DEF UpOrder, p, up

\* One that expires after the smaller of its children changes places with it,
\* and the only ones that can be out of order are now its new children.
LEMMA DownSwap ==
    ASSUME NEW n \in Nat, NEW k \in [0..(n - 1) -> Int], NEW l \in [0..(n - 1) -> Int],
           NEW i, NEW c, DownOrder(k, n, i), LeastChild(k, n, i, c), k[c] < k[i], c # i,
           Exchanged(k, l, n, i, c)
    PROVE  DownOrder(l, n, c)
<1> DEFINE up(j) == j \div 2
<1>0. c \in 1..(n - 1) /\ up(c) = i
  <2>1. c \in 0..(n - 1) /\ up(c) = i
    BY DEF LeastChild
  <2> QED BY <2>1
<1>1. /\ i \in 0..(n - 1) /\ i < c
      /\ \A j \in 1..(n - 1) : up(j) \in 0..(n - 1) /\ up(j) < j
      /\ (i > 0 => up(i) < i)
  BY <1>0, Halves DEF DownOrder
<1>2. /\ \A j \in 1..(n - 1) : up(j) # i => k[up(j)] <= k[j]
      /\ i > 0 => \A j \in 1..(n - 1) : up(j) = i => k[up(i)] <= k[j]
      /\ \A j \in 1..(n - 1) : up(j) = i => k[c] <= k[j]
  BY DEF DownOrder, LeastChild
<1>3. l[i] = k[c] /\ l[c] = k[i] /\ \A j \in 0..(n - 1) : j # i /\ j # c => l[j] = k[j]
  BY <1>0, <1>1 DEF Exchanged
<1>4. \A j \in 0..(n - 1) : k[j] \in Int
  OBVIOUS
<1> HIDE DEF up
<1>5. ASSUME NEW j \in 1..(n - 1), up(j) # c PROVE l[up(j)] <= l[j]
  <2>1. j \in 0..(n - 1) /\ up(j) \in 0..(n - 1) /\ up(j) < j
    BY <1>0, <1>1
  <2>2. CASE j = c
    BY <1>0, <1>1, <1>3, <1>4, <2>2
  <2>3. CASE j # c /\ up(j) = i
    BY <1>2, <1>3, <2>1, <2>3
  <2>4. CASE j = i
    BY <1>0, <1>1, <1>2, <1>3, <1>5, <2>1, <2>4
  <2>5. CASE j # c /\ j # i /\ up(j) # i
    BY <1>2, <1>3, <1>5, <2>1, <2>5
  <2> QED BY <2>2, <2>3, <2>4, <2>5
<1>6. ASSUME NEW j \in 1..(n - 1), up(j) = c PROVE l[up(c)] <= l[j]
  <2>1. j \in 0..(n - 1) /\ j # c /\ j # i /\ up(j) # i
    BY <1>0, <1>1, <1>6
  <2>2. l[up(c)] = k[c] /\ l[j] = k[j] /\ k[c] <= k[j]
    BY <1>0, <1>1, <1>2, <1>3, <1>6, <2>1
  <2> QED BY <2>2
<1> QED BY <1>0, <1>5, <1>6 DEF DownOrder, up

\* The root of an ordered heap expires first.
LEMMA RootFirst ==
    ASSUME NEW n \in Nat, NEW k \in [0..(n - 1) -> Int], HeapOrder(k, n)
    PROVE  \A j \in 0..(n - 1) : k[0] <= k[j]
<1> DEFINE bad == {j \in 0..(n - 1) : ~(k[0] <= k[j])}
<1> SUFFICES ASSUME bad # {} PROVE FALSE
  OBVIOUS
<1>1. PICK j \in bad : \A y \in bad : j <= y
  <2>1. bad \subseteq Nat
    OBVIOUS
  <2> HIDE DEF bad
  <2> QED BY <2>1, Least
<1>2. j \in 1..(n - 1) /\ j \div 2 \in 0..(n - 1) /\ j \div 2 < j
  BY Halves
<1>3. j \div 2 \notin bad
  <2> HIDE DEF bad
  <2> QED BY <1>1, <1>2
<1>4. k[0] <= k[j \div 2] /\ k[j \div 2] <= k[j]
  BY <1>2, <1>3 DEF HeapOrder
<1>5. k[0] \in Int /\ k[j] \in Int /\ k[j \div 2] \in Int
  BY <1>2
<1> QED BY <1>4, <1>5
-----------------------------------------------------------------------------
(* The slots *)

\* Each used slot holds another timer.
LEMMA HoldsCount ==
    ASSUME NEW s, NEW C, Holds(s, C)
    PROVE  {s[i] : i \in DOMAIN s} = C /\ Len(s) = Cardinality(C)
<1>1. /\ s \in Seq(Timer) /\ Len(s) \in Nat /\ DOMAIN s = 1..Len(s)
      /\ C = {s[i] : i \in 1..Len(s)} /\ \A i, j \in 1..Len(s) : s[i] = s[j] => i = j
  BY LenProperties DEF Holds
<1> DEFINE n == Len(s)
           f == [i \in 1..n |-> s[i]]
<1>2. f \in Bijection(1..n, C)
  <2>1. f \in [1..n -> C]
    BY <1>1
  <2>2. \A i, j \in 1..n : f[i] = f[j] => i = j
    BY <1>1
  <2>3. \A t \in C : \E i \in 1..n : f[i] = t
    BY <1>1
  <2> HIDE DEF f
  <2> QED BY <2>1, <2>2, <2>3 DEF Bijection, Injection, Surjection, IsInjective
<1>3. ExistsBijection(1..n, C)
  BY <1>2 DEF ExistsBijection
<1>4. Cardinality(C) = n
  BY <1>1, <1>3, FS_CountingElements
<1> QED BY <1>1, <1>4

\* The keys of a heap are integers, and its slots hold its timers.
LEMMA SlotsAre ==
    ASSUME NEW h, NEW C, NEW e \in [Timer -> Int], Holds(h, C)
    PROVE  /\ Len(h) \in Nat /\ C \subseteq Timer /\ DOMAIN h = 1..Len(h)
           /\ \A j \in 0..(Len(h) - 1) : Slot(h, j) \in C
           /\ \A t \in C : \E j \in 0..(Len(h) - 1) : Slot(h, j) = t
           /\ KeysOf(h, e) \in [0..(Len(h) - 1) -> Int]
           /\ \A j \in 0..(Len(h) - 1) : KeysOf(h, e)[j] = e[Slot(h, j)]
<1>1. h \in Seq(Timer) /\ C = {h[i] : i \in 1..Len(h)} /\ Len(h) \in Nat /\ DOMAIN h = 1..Len(h)
  BY LenProperties DEF Holds
<1>2. \A i \in 1..Len(h) : h[i] \in Timer /\ h[i] \in C
  BY <1>1, ElementOfSeq
<1>3. \A j \in 0..(Len(h) - 1) : j + 1 \in 1..Len(h)
  BY <1>1
<1>4. \A j \in 0..(Len(h) - 1) : Slot(h, j) \in C /\ Slot(h, j) \in Timer
  BY <1>2, <1>3 DEF Slot
<1>5. ASSUME NEW t \in C PROVE \E j \in 0..(Len(h) - 1) : Slot(h, j) = t
  <2>1. PICK i \in 1..Len(h) : h[i] = t
    BY <1>1
  <2>2. i - 1 \in 0..(Len(h) - 1) /\ (i - 1) + 1 = i
    BY <1>1
  <2> QED BY <2>1, <2>2 DEF Slot
<1>6. \A j \in 0..(Len(h) - 1) : KeysOf(h, e)[j] = e[Slot(h, j)] /\ e[Slot(h, j)] \in Int
  BY <1>4 DEF KeysOf
<1>7. KeysOf(h, e) \in [0..(Len(h) - 1) -> Int]
  BY <1>6 DEF KeysOf
<1> QED BY <1>1, <1>2, <1>4, <1>5, <1>6, <1>7

\* Two timers change places, and nothing else happens.
LEMMA SwapIs ==
    ASSUME NEW h, NEW C, Holds(h, C),
           NEW i \in 0..(Len(h) - 1), NEW j \in 0..(Len(h) - 1)
    PROVE  /\ Holds(Swap(h, i, j), C) /\ Len(Swap(h, i, j)) = Len(h)
           /\ \A k \in 0..(Len(h) - 1) :
                Slot(Swap(h, i, j), k) = IF k = i THEN Slot(h, j)
                                         ELSE IF k = j THEN Slot(h, i) ELSE Slot(h, k)
<1> DEFINE g == Swap(h, i, j)
           n == Len(h)
           a == i + 1
           b == j + 1
<1>1. h \in Seq(Timer) /\ n \in Nat /\ a \in 1..n /\ b \in 1..n
  BY LenProperties DEF Holds
<1>2. g = [h EXCEPT ![a] = h[b], ![b] = h[a]]
  BY DEF Swap, Slot
<1>3. h[a] \in Timer /\ h[b] \in Timer
  BY <1>1, ElementOfSeq
<1> HIDE DEF a, b, n
<1>4. /\ [h EXCEPT ![a] = h[b]] \in Seq(Timer) /\ Len([h EXCEPT ![a] = h[b]]) = Len(h)
      /\ \A k \in 1..Len(h) : [h EXCEPT ![a] = h[b]][k] = IF k = a THEN h[b] ELSE h[k]
  BY <1>1, <1>3, ExceptSeq DEF n
<1> DEFINE f == [h EXCEPT ![a] = h[b]]
<1>5. g = [f EXCEPT ![b] = h[a]]
  BY <1>2
<1> HIDE DEF f, g
<1>6. /\ [f EXCEPT ![b] = h[a]] \in Seq(Timer) /\ Len([f EXCEPT ![b] = h[a]]) = Len(f)
      /\ \A k \in 1..Len(f) : [f EXCEPT ![b] = h[a]][k] = IF k = b THEN h[a] ELSE f[k]
  BY <1>1, <1>3, <1>4, ExceptSeq DEF n, f
<1>7. /\ g \in Seq(Timer) /\ Len(g) = n
      /\ \A k \in 1..n : g[k] = IF k = b THEN h[a] ELSE IF k = a THEN h[b] ELSE h[k]
  BY <1>4, <1>5, <1>6 DEF n, f
<1>8. /\ C = {h[k] : k \in 1..n}
      /\ \A k, l \in 1..n : h[k] = h[l] => k = l
  BY DEF Holds, n
<1>9. {g[k] : k \in 1..n} = C
  <2>1. \A k \in 1..n : \E l \in 1..n : g[k] = h[l]
    BY <1>1, <1>7
  <2>2. \A k \in 1..n : \E l \in 1..n : h[k] = g[l]
    <3> TAKE k \in 1..n
    <3>1. CASE k = a
      BY <1>1, <1>7, <3>1
    <3>2. CASE k = b
      BY <1>1, <1>7, <3>2
    <3>3. CASE k # a /\ k # b
      BY <1>1, <1>7, <3>3
    <3> QED BY <3>1, <3>2, <3>3
  <2>3. {g[k] : k \in 1..n} \subseteq {h[k] : k \in 1..n}
    BY <2>1
  <2>4. {h[k] : k \in 1..n} \subseteq {g[k] : k \in 1..n}
    BY <2>2
  <2> QED BY <1>8, <2>3, <2>4
<1>10. \A k, l \in 1..n : g[k] = g[l] => k = l
  BY <1>1, <1>7, <1>8
<1>11. Holds(g, C)
  BY <1>7, <1>9, <1>10 DEF Holds
<1>12. ASSUME NEW k \in 0..(n - 1)
       PROVE  Slot(g, k) = IF k = i THEN Slot(h, j) ELSE IF k = j THEN Slot(h, i) ELSE Slot(h, k)
  <2>1. k + 1 \in 1..n /\ (k + 1 = a <=> k = i) /\ (k + 1 = b <=> k = j)
    BY <1>1 DEF a, b
  <2>2. g[k + 1] = IF k + 1 = b THEN h[a] ELSE IF k + 1 = a THEN h[b] ELSE h[k + 1]
    BY <1>7, <2>1
  <2>3. h[a] = Slot(h, i) /\ h[b] = Slot(h, j) /\ h[k + 1] = Slot(h, k) /\ g[k + 1] = Slot(g, k)
    BY DEF a, b, Slot
  <2> QED BY <2>1, <2>2, <2>3
<1> QED BY <1>7, <1>11, <1>12 DEF n, g

\* The keys after an exchange.
LEMMA SwapKeys ==
    ASSUME NEW h, NEW C, NEW e \in [Timer -> Int], Holds(h, C),
           NEW i \in 0..(Len(h) - 1), NEW j \in 0..(Len(h) - 1)
    PROVE  Exchanged(KeysOf(h, e), KeysOf(Swap(h, i, j), e), Len(h), i, j)
<1> USE DEF Exchanged
<1>1. Holds(Swap(h, i, j), C) /\ Len(Swap(h, i, j)) = Len(h)
  BY SwapIs
<1> DEFINE g == Swap(h, i, j)
           n == Len(h)
<1>2. \A k \in 0..(n - 1) : KeysOf(h, e)[k] = e[Slot(h, k)]
  BY SlotsAre
<1>3. \A k \in 0..(n - 1) :
        Slot(g, k) = IF k = i THEN Slot(h, j) ELSE IF k = j THEN Slot(h, i) ELSE Slot(h, k)
  BY SwapIs
<1> HIDE DEF g
<1>4. \A k \in 0..(n - 1) : KeysOf(g, e)[k] = e[Slot(g, k)]
  BY <1>1, SlotsAre DEF g
<1> HIDE DEF n
<1>5. ASSUME NEW k \in 0..(n - 1)
      PROVE  KeysOf(g, e)[k] = IF k = i THEN KeysOf(h, e)[j]
                               ELSE IF k = j THEN KeysOf(h, e)[i] ELSE KeysOf(h, e)[k]
  <2>1. i \in 0..(n - 1) /\ j \in 0..(n - 1)
    BY DEF n
  <2>2. CASE k = i
    BY <1>2, <1>3, <1>4, <2>1, <2>2
  <2>3. CASE k # i /\ k = j
    BY <1>2, <1>3, <1>4, <2>1, <2>3
  <2>4. CASE k # i /\ k # j
    BY <1>2, <1>3, <1>4, <2>1, <2>4
  <2> QED BY <2>2, <2>3, <2>4
<1> QED BY <1>5 DEF g, n

\* The last timer moves to slot i, whose timer leaves.
LEMMA VacateIs ==
    ASSUME NEW h, NEW C, Holds(h, C), NEW i \in 0..(Len(h) - 1)
    PROVE  /\ Holds(Vacate(h, i), C \ {Slot(h, i)}) /\ Len(Vacate(h, i)) = Len(h) - 1
           /\ \A k \in 0..(Len(h) - 2) :
                Slot(Vacate(h, i), k) = IF k = i THEN Slot(h, Len(h) - 1) ELSE Slot(h, k)
<1> DEFINE n == Len(h)
           a == i + 1
           f == [h EXCEPT ![a] = h[n]]
           g == SubSeq(f, 1, n - 1)
<1>1. h \in Seq(Timer) /\ n \in Nat /\ a \in 1..n /\ n \in 1..n /\ h[n] \in Timer
  BY LenProperties, ElementOfSeq DEF Holds
<1>2. Vacate(h, i) = g
  BY DEF Vacate
<1>3. C = {h[k] : k \in 1..n} /\ \A k, l \in 1..n : h[k] = h[l] => k = l
  BY DEF Holds
<1>4. /\ f \in Seq(Timer) /\ Len(f) = n
      /\ \A k \in 1..n : f[k] = IF k = a THEN h[n] ELSE h[k]
  <2> HIDE DEF a
  <2> QED BY <1>1, ExceptSeq
<1> HIDE DEF f
<1>5. g \in Seq(Timer) /\ Len(g) = n - 1 /\ \A k \in 1..(n - 1) : g[k] = f[k]
  <2>1. \A k \in 1..(n - 1) : f[k] \in Timer
    BY <1>1, <1>4, ElementOfSeq
  <2>2. /\ g \in Seq(Timer) /\ Len(g) = IF 1 <= n - 1 THEN (n - 1) - 1 + 1 ELSE 0
        /\ \A k \in 1..((n - 1) - 1 + 1) : g[k] = f[1 + k - 1]
    <3>1. n - 1 \in Int
      BY <1>1
    <3> QED BY <2>1, <3>1, SubSeqProperties
  <2> HIDE DEF g, n
  <2> QED BY <1>1, <2>2
<1> HIDE DEF g, n
<1>6. \A k \in 1..(n - 1) : g[k] = IF k = a THEN h[n] ELSE h[k]
  BY <1>1, <1>4, <1>5
<1>7. {g[k] : k \in 1..(n - 1)} = C \ {h[a]}
  <2>1. ASSUME NEW k \in 1..(n - 1) PROVE g[k] \in C \ {h[a]}
    <3>1. k \in 1..n /\ k # n
      BY <1>1
    <3>2. CASE k = a
      BY <1>1, <1>3, <1>6, <3>1, <3>2
    <3>3. CASE k # a
      BY <1>1, <1>3, <1>6, <3>1, <3>3
    <3> QED BY <3>2, <3>3
  <2>2. ASSUME NEW t \in C \ {h[a]} PROVE \E k \in 1..(n - 1) : g[k] = t
    <3>1. PICK k \in 1..n : h[k] = t
      BY <1>3
    <3>2. k # a
      BY <3>1
    <3>3. CASE k = n
      <4>1. a \in 1..(n - 1) /\ g[a] = t
        BY <1>1, <1>6, <3>1, <3>2, <3>3
      <4> QED BY <4>1
    <3>4. CASE k # n
      <4>1. k \in 1..(n - 1) /\ g[k] = t
        BY <1>1, <1>6, <3>1, <3>2, <3>4
      <4> QED BY <4>1
    <3> QED BY <3>3, <3>4
  <2> QED BY <2>1, <2>2
<1>8. \A k, l \in 1..(n - 1) : g[k] = g[l] => k = l
  <2> SUFFICES ASSUME NEW k \in 1..(n - 1), NEW l \in 1..(n - 1), g[k] = g[l] PROVE k = l
    OBVIOUS
  <2>1. k \in 1..n /\ l \in 1..n /\ k # n /\ l # n
    BY <1>1
  <2> QED BY <1>1, <1>3, <1>6, <2>1
<1>9. h[a] = Slot(h, i)
  BY DEF Slot, a
<1>10. Holds(g, C \ {Slot(h, i)})
  BY <1>5, <1>7, <1>8, <1>9 DEF Holds
<1>11. ASSUME NEW k \in 0..(n - 2)
       PROVE  Slot(g, k) = IF k = i THEN Slot(h, n - 1) ELSE Slot(h, k)
  <2>1. k + 1 \in 1..(n - 1) /\ (k + 1 = a <=> k = i) /\ (n - 1) + 1 = n
    BY <1>1 DEF a
  <2>2. g[k + 1] = IF k + 1 = a THEN h[n] ELSE h[k + 1]
    BY <1>6, <2>1
  <2> QED BY <2>1, <2>2 DEF Slot
<1> QED BY <1>2, <1>5, <1>10, <1>11 DEF n

\* getIdx finds a timer that is in the heap.
LEMMA GetIdxIs ==
    ASSUME NEW h, NEW C, Holds(h, C), NEW t \in C
    PROVE  GetIdx(h, t) \in 0..(Len(h) - 1) /\ Slot(h, GetIdx(h, t)) = t
<1> DEFINE c == CHOOSE i \in 1..Len(h) : h[i] = t
<1>1. c \in 1..Len(h) /\ h[c] = t /\ Len(h) \in Nat
  <2>1. \E i \in 1..Len(h) : h[i] = t
    BY DEF Holds
  <2> QED BY <2>1, LenProperties DEF Holds
<1>2. GetIdx(h, t) = c - 1
  BY DEF GetIdx
<1> HIDE DEF c
<1>3. (c - 1) + 1 = c /\ c - 1 \in 0..(Len(h) - 1)
  BY <1>1
<1> QED BY <1>1, <1>2, <1>3 DEF Slot
-----------------------------------------------------------------------------
(* The loops of percolate_up and percolate_down *)

\* One pass of percolate_up keeps its invariant; when it ends, the heap is
\* ordered.
LEMMA Climb ==
    ASSUME NEW h, NEW C, NEW e \in [Timer -> Int], NEW i,
           Holds(h, C), UpOrder(KeysOf(h, e), Len(h), i)
    PROVE  /\ i \in 0..(Len(h) - 1)
           /\ i > 0 /\ e[Slot(h, i)] < e[Slot(h, i \div 2)] =>
                /\ Holds(Swap(h, i, i \div 2), C) /\ Len(Swap(h, i, i \div 2)) = Len(h)
                /\ UpOrder(KeysOf(Swap(h, i, i \div 2), e), Len(h), i \div 2)
                /\ i \div 2 \in Nat /\ i \div 2 < i
           /\ ~(i > 0 /\ e[Slot(h, i)] < e[Slot(h, i \div 2)]) => HeapOrder(KeysOf(h, e), Len(h))
<1> DEFINE n == Len(h)
           p == i \div 2
           k == KeysOf(h, e)
<1>1. n \in Nat /\ k \in [0..(n - 1) -> Int] /\ \A j \in 0..(n - 1) : k[j] = e[Slot(h, j)]
  BY SlotsAre
<1>2. i \in 0..(n - 1) /\ \A j \in 1..(n - 1) : j # i => k[j \div 2] <= k[j]
  BY DEF UpOrder
<1>3. p \in Nat /\ p <= i /\ (i > 0 => p < i)
  BY <1>1, <1>2, Halves
<1>4. p \in 0..(n - 1)
  <2> HIDE DEF p
  <2> QED BY <1>1, <1>2, <1>3
<1>5. ASSUME i > 0, k[i] < k[p]
      PROVE  /\ Holds(Swap(h, i, p), C) /\ Len(Swap(h, i, p)) = n
             /\ UpOrder(KeysOf(Swap(h, i, p), e), n, p)
  <2> DEFINE g == Swap(h, i, p)
             l == KeysOf(g, e)
  <2>1. Holds(g, C) /\ Len(g) = n
    <3> HIDE DEF p
    <3> QED BY <1>2, <1>4, SwapIs
  <2>2. l \in [0..(n - 1) -> Int]
    <3> HIDE DEF g
    <3> QED BY <2>1, SlotsAre
  <2>3. Exchanged(k, l, n, i, p)
    <3> HIDE DEF p
    <3> QED BY <1>2, <1>4, SwapKeys
  <2>4. UpOrder(l, n, p)
    <3>1. UpOrder(k, n, i)
      OBVIOUS
    <3> HIDE DEF l, k, n, g
    <3> QED BY <1>1, <1>5, <2>2, <2>3, <3>1, UpSwap
  <2> QED BY <2>1, <2>4
<1>6. ASSUME ~(i > 0 /\ k[i] < k[p]) PROVE HeapOrder(k, n)
  <2>1. i > 0 => k[p] <= k[i]
    <3>1. k[i] \in Int /\ k[p] \in Int
      BY <1>1, <1>2, <1>4
    <3> HIDE DEF k, p
    <3> QED BY <1>2, <1>6, <3>1
  <2> SUFFICES ASSUME NEW j \in 1..(n - 1) PROVE k[j \div 2] <= k[j]
    BY DEF HeapOrder
  <2>2. CASE j = i
    <3>1. i > 0
      BY <1>1, <2>2
    <3> QED BY <2>1, <2>2, <3>1
  <2> QED BY <1>2, <2>2
<1>7. k[i] = e[Slot(h, i)] /\ k[p] = e[Slot(h, p)]
  <2> HIDE DEF k, p
  <2> QED BY <1>1, <1>2, <1>4
<1> HIDE DEF k
<1> QED BY <1>2, <1>3, <1>5, <1>6, <1>7 DEF k

\* A timer that may have to move up ends in an ordered heap of the same timers.
LEMMA PercolateUpIs ==
    ASSUME NEW h, NEW C, NEW e \in [Timer -> Int], NEW i,
           Holds(h, C), UpOrder(KeysOf(h, e), Len(h), i)
    PROVE  LET g == PercolateUp(h, e, i) IN
           Holds(g, C) /\ Len(g) = Len(h) /\ HeapOrder(KeysOf(g, e), Len(g))
<1> DEFINE n == Len(h)
           Inv == {s \in Place : /\ Holds(s.h, C) /\ Len(s.h) = n
                                 /\ UpOrder(KeysOf(s.h, e), n, s.i)}
           m == [s \in Inv |-> s.i]
           s0 == [h |-> h, i |-> i]
           Pass == UpPass(e)
           Climbs(s) == s.i > 0 /\ e[Slot(s.h, s.i)] < e[Slot(s.h, s.i \div 2)]
           Higher(s) == [h |-> Swap(s.h, s.i, s.i \div 2), i |-> s.i \div 2]
<1>1. n \in Nat /\ i \in 0..(n - 1) /\ h \in Seq(Timer)
  BY LenProperties DEF Holds, UpOrder
<1>2. s0 \in Inv /\ m[s0] = i
  BY <1>1 DEF Place
<1>3. \A s \in Inv : Pass[s] = IF Climbs(s) THEN Higher(s) ELSE s
  BY DEF UpPass
<1>4. \A s \in Inv : /\ s \in Place /\ s.i \in Nat /\ Holds(s.h, C) /\ Len(s.h) = n
                     /\ UpOrder(KeysOf(s.h, e), Len(s.h), s.i)
  BY DEF Place
<1>5. ASSUME NEW s \in Inv, Climbs(s)
      PROVE  Higher(s) \in Inv /\ Higher(s).i < s.i
  <2>1. /\ Holds(Swap(s.h, s.i, s.i \div 2), C) /\ Len(Swap(s.h, s.i, s.i \div 2)) = n
        /\ UpOrder(KeysOf(Swap(s.h, s.i, s.i \div 2), e), n, s.i \div 2)
        /\ s.i \div 2 \in Nat /\ s.i \div 2 < s.i
    <3> HIDE DEF Inv, n
    <3> QED BY <1>4, <1>5, Climb
  <2>2. Higher(s) \in Place
    BY <2>1 DEF Holds, Place
  <2> QED BY <2>1, <2>2
<1>6. ASSUME NEW s \in Inv, ~Climbs(s)
      PROVE  HeapOrder(KeysOf(s.h, e), n)
  <2> HIDE DEF Inv, n
  <2> QED BY <1>4, <1>6, Climb
<1>7. Loop(Pass, Inv, m, s0, n)
  <2> SUFFICES ASSUME NEW s \in Inv
               PROVE  /\ Pass[s] \in Inv /\ m[s] \in Nat
                      /\ Pass[s] = s \/ m[Pass[s]] < m[s]
    <3>1. m[s0] <= n
      BY <1>1, <1>2
    <3> HIDE DEF Inv, m, s0, Pass, n
    <3> QED BY <1>1, <1>2, <3>1 DEF Loop
  <2>1. m[s] = s.i /\ s.i \in Nat
    BY <1>4
  <2>2. CASE Climbs(s)
    <3>1. Pass[s] = Higher(s)
      BY <1>3, <2>2
    <3>2. Higher(s) \in Inv /\ Higher(s).i < s.i
      BY <1>5, <2>2
    <3>3. m[Higher(s)] = Higher(s).i
      BY <3>2
    <3> HIDE DEF Inv, Pass, m, Higher
    <3> QED BY <2>1, <3>1, <3>2, <3>3
  <2>3. CASE ~Climbs(s)
    <3>1. Pass[s] = s
      BY <1>3, <2>3
    <3> HIDE DEF Inv, Pass, m
    <3> QED BY <2>1, <3>1
  <2> QED BY <2>2, <2>3
<1> DEFINE y == Passes(Pass, s0, n)
<1>8. y \in Inv /\ Pass[y] = y
  <2> HIDE DEF Inv, m, s0, Pass, n
  <2> QED BY <1>7, LoopEnds
<1>9. PercolateUp(h, e, i) = y.h
  BY DEF PercolateUp
<1> HIDE DEF y, Pass, Inv
<1>10. ~Climbs(y)
  <2> SUFFICES ASSUME Climbs(y) PROVE FALSE
    OBVIOUS
  <2>1. y = Higher(y)
    BY <1>3, <1>8
  <2>2. Higher(y).i < y.i /\ y.i \in Nat
    BY <1>4, <1>5, <1>8
  <2> HIDE DEF Higher
  <2> QED BY <2>1, <2>2
<1>11. HeapOrder(KeysOf(y.h, e), n)
  BY <1>6, <1>8, <1>10
<1> QED BY <1>4, <1>8, <1>9, <1>11


\* The slot percolate_down compares slot i with, if it has a child: one of its
\* children (the root is among its own), and none of them has a smaller key.
LEMMA SmallerChildIs ==
    ASSUME NEW h, NEW C, NEW e \in [Timer -> Int], Holds(h, C),
           NEW i \in Nat, 2 * i < Len(h)
    PROVE  LET c == SmallerChild(h, e, i)
               k == KeysOf(h, e)
           IN LeastChild(k, Len(h), i, c) /\ (c # i => c > i)
<1> DEFINE n == Len(h)
           c == SmallerChild(h, e, i)
           k == KeysOf(h, e)
           a == 2 * i
           b == 2 * i + 1
<1>1. n \in Nat /\ k \in [0..(n - 1) -> Int] /\ \A j \in 0..(n - 1) : k[j] = e[Slot(h, j)]
  BY SlotsAre
<1>2. /\ a \in 0..(n - 1) /\ a \div 2 = i /\ b \div 2 = i /\ b > i /\ (a # i => a > i)
      /\ (b < n => b \in 0..(n - 1))
  BY <1>1
<1>3. \A j \in 1..(n - 1) : j \div 2 = i => j = a \/ (j = b /\ b < n)
  <2> TAKE j \in 1..(n - 1)
  <2> QED BY <1>1
<1>4. c = IF b < n /\ e[Slot(h, b)] < e[Slot(h, a)] THEN b ELSE a
  BY DEF SmallerChild
<1> HIDE DEF a, b, k, c, n
<1>5. c = IF b < n /\ k[b] < k[a] THEN b ELSE a
  <2>1. k[a] = e[Slot(h, a)] /\ (b < n => k[b] = e[Slot(h, b)])
    BY <1>1, <1>2
  <2> QED BY <1>4, <2>1
<1>6. k[a] \in Int /\ (b < n => k[b] \in Int)
  BY <1>1, <1>2
<1>7. k[c] <= k[a] /\ (b < n => k[c] <= k[b])
  <2>1. CASE b < n /\ k[b] < k[a]
    BY <1>5, <1>6, <2>1
  <2>2. CASE ~(b < n /\ k[b] < k[a])
    BY <1>5, <1>6, <2>2
  <2> QED BY <2>1, <2>2
<1>8. \A j \in 1..(n - 1) : j \div 2 = i => k[c] <= k[j]
  BY <1>3, <1>7
<1>9. c \in 0..(n - 1) /\ c \div 2 = i /\ (c # i => c > i)
  BY <1>2, <1>5
<1> QED BY <1>8, <1>9 DEF c, k, n, LeastChild

\* One pass of percolate_down keeps its invariant; when it ends, the heap is
\* ordered.
LEMMA Sink ==
    ASSUME NEW h, NEW C, NEW e \in [Timer -> Int], NEW i,
           Holds(h, C), DownOrder(KeysOf(h, e), Len(h), i)
    PROVE  LET c == SmallerChild(h, e, i)
               sinks == 2 * i < Len(h) /\ e[Slot(h, c)] < e[Slot(h, i)]
           IN /\ sinks => /\ Holds(Swap(h, i, c), C) /\ Len(Swap(h, i, c)) = Len(h)
                          /\ DownOrder(KeysOf(Swap(h, i, c), e), Len(h), c)
                          /\ c \in Nat /\ c > i /\ c <= Len(h)
              /\ ~sinks => HeapOrder(KeysOf(h, e), Len(h))
<1> DEFINE n == Len(h)
           c == SmallerChild(h, e, i)
           k == KeysOf(h, e)
           g == Swap(h, i, c)
           l == KeysOf(g, e)
<1>1. n \in Nat /\ k \in [0..(n - 1) -> Int] /\ \A j \in 0..(n - 1) : k[j] = e[Slot(h, j)]
  BY SlotsAre
<1>2. i \in Nat /\ \A j \in 1..(n - 1) : j \div 2 # i => k[j \div 2] <= k[j]
  BY DEF DownOrder
<1>2a. 2 * i < n => LeastChild(k, n, i, c) /\ (c # i => c > i)
  BY <1>2, SmallerChildIs
<1>3. 2 * i < n => /\ c \in 0..(n - 1) /\ c \div 2 = i /\ (c # i => c > i)
                   /\ \A j \in 1..(n - 1) : j \div 2 = i => k[c] <= k[j]
  BY <1>2a DEF LeastChild
<1>4. 2 * i < n => i \in 0..(n - 1)
  BY <1>1, <1>2
<1> HIDE DEF c
<1>5. 2 * i < n => k[i] = e[Slot(h, i)] /\ k[c] = e[Slot(h, c)] /\ k[i] \in Int /\ k[c] \in Int
  BY <1>1, <1>3, <1>4
<1>6. ASSUME 2 * i < n, k[c] < k[i]
      PROVE  Holds(g, C) /\ Len(g) = n /\ DownOrder(l, n, c) /\ c > i
  <2>0. i \in 0..(n - 1) /\ c \in 0..(n - 1)
    BY <1>3, <1>4, <1>6
  <2>1. Holds(g, C) /\ Len(g) = n
    BY <2>0, SwapIs
  <2>2. l \in [0..(n - 1) -> Int]
    <3> HIDE DEF g
    <3> QED BY <2>1, SlotsAre
  <2>3. Exchanged(k, l, n, i, c)
    BY <2>0, SwapKeys
  <2>3a. c # i
    <3> HIDE DEF k
    <3> QED BY <1>5, <1>6
  <2>4. c > i /\ c \in 1..(n - 1)
    <3> HIDE DEF n
    <3> QED BY <1>1, <1>2, <1>3, <1>6, <2>3a
  <2>5. DownOrder(k, n, i)
    OBVIOUS
  <2>6. LeastChild(k, n, i, c)
    BY <1>2a, <1>6
  <2> HIDE DEF l, k, n, g
  <2>7. DownOrder(l, n, c)
    BY <1>1, <1>6, <2>2, <2>3, <2>3a, <2>5, <2>6, DownSwap
  <2> QED BY <2>1, <2>4, <2>7
<1>7. ASSUME ~(2 * i < n /\ k[c] < k[i]) PROVE HeapOrder(k, n)
  <2> SUFFICES ASSUME NEW j \in 1..(n - 1) PROVE k[j \div 2] <= k[j]
    BY DEF HeapOrder
  <2>1. CASE j \div 2 = i
    <3>1. 2 * i < n
      BY <1>1, <1>2, <2>1
    <3>2. k[j] \in Int
      BY <1>1
    <3> HIDE DEF k, n
    <3>3. k[c] <= k[j]
      BY <1>3, <2>1, <3>1
    <3>4. k[i] <= k[j]
      BY <1>5, <1>7, <3>1, <3>2, <3>3
    <3> QED BY <2>1, <3>4
  <2>2. CASE j \div 2 # i
    BY <1>2, <2>2
  <2> QED BY <2>1, <2>2
<1>8. c > i => i \in Nat
  BY <1>2
<1>9. 2 * i < n => c \in Nat /\ c <= n
  BY <1>1, <1>3
<1> HIDE DEF k
<1> QED BY <1>5, <1>6, <1>7, <1>9 DEF k, c

\* A timer that may have to move down ends in an ordered heap of the same timers.
LEMMA PercolateDownIs ==
    ASSUME NEW h, NEW C, NEW e \in [Timer -> Int], NEW i,
           Holds(h, C), DownOrder(KeysOf(h, e), Len(h), i)
    PROVE  LET g == PercolateDown(h, e, i) IN
           Holds(g, C) /\ Len(g) = Len(h) /\ HeapOrder(KeysOf(g, e), Len(g))
<1> DEFINE n == Len(h)
           Inv == {s \in Place : /\ Holds(s.h, C) /\ Len(s.h) = n
                                 /\ DownOrder(KeysOf(s.h, e), n, s.i)}
           m == [s \in Inv |-> IF s.i <= n THEN n - s.i ELSE 0]
           s0 == [h |-> h, i |-> i]
           Pass == DownPass(e)
           Child(s) == SmallerChild(s.h, e, s.i)
           Sinks(s) == 2 * s.i < Len(s.h) /\ e[Slot(s.h, Child(s))] < e[Slot(s.h, s.i)]
           Lower(s) == [h |-> Swap(s.h, s.i, Child(s)), i |-> Child(s)]
<1>1. n \in Nat /\ i \in Nat /\ h \in Seq(Timer)
  BY LenProperties DEF Holds, DownOrder
<1>2. s0 \in Inv /\ m[s0] = (IF i <= n THEN n - i ELSE 0)
  BY <1>1 DEF Place
<1>3. \A s \in Inv : Pass[s] = IF Sinks(s) THEN Lower(s) ELSE s
  BY DEF DownPass
<1>4. \A s \in Inv : /\ s \in Place /\ s.i \in Nat /\ Holds(s.h, C) /\ Len(s.h) = n
                     /\ DownOrder(KeysOf(s.h, e), Len(s.h), s.i)
  BY DEF Place
<1>5. ASSUME NEW s \in Inv, Sinks(s)
      PROVE  Lower(s) \in Inv /\ Lower(s).i > s.i /\ Lower(s).i <= n /\ Lower(s).i \in Nat
  <2>1. /\ Holds(Swap(s.h, s.i, Child(s)), C) /\ Len(Swap(s.h, s.i, Child(s))) = n
        /\ DownOrder(KeysOf(Swap(s.h, s.i, Child(s)), e), n, Child(s))
        /\ Child(s) \in Nat /\ Child(s) > s.i /\ Child(s) <= n
    <3> HIDE DEF Inv, n
    <3> QED BY <1>4, <1>5, Sink
  <2>2. Lower(s) \in Place
    BY <2>1 DEF Holds, Place
  <2> HIDE DEF Child
  <2> QED BY <2>1, <2>2
<1>6. ASSUME NEW s \in Inv, ~Sinks(s)
      PROVE  HeapOrder(KeysOf(s.h, e), n)
  <2> HIDE DEF Inv, n
  <2> QED BY <1>4, <1>6, Sink
<1>7. Loop(Pass, Inv, m, s0, n)
  <2> SUFFICES ASSUME NEW s \in Inv
               PROVE  /\ Pass[s] \in Inv /\ m[s] \in Nat
                      /\ Pass[s] = s \/ m[Pass[s]] < m[s]
    <3>1. m[s0] <= n
      BY <1>1, <1>2
    <3> HIDE DEF Inv, m, s0, Pass, n
    <3> QED BY <1>1, <1>2, <3>1 DEF Loop
  <2>1. m[s] = (IF s.i <= n THEN n - s.i ELSE 0) /\ s.i \in Nat
    BY <1>4
  <2>2. CASE Sinks(s)
    <3>1. Pass[s] = Lower(s)
      BY <1>3, <2>2
    <3>2. Lower(s) \in Inv /\ Lower(s).i > s.i /\ Lower(s).i <= n /\ Lower(s).i \in Nat
      BY <1>5, <2>2
    <3>3. m[Lower(s)] = n - Lower(s).i
      BY <3>2
    <3> HIDE DEF Inv, Pass, m, Lower, n
    <3>4. m[Lower(s)] < m[s] /\ m[s] \in Nat
      BY <1>1, <2>1, <3>2, <3>3
    <3> QED BY <3>1, <3>2, <3>4
  <2>3. CASE ~Sinks(s)
    <3>1. Pass[s] = s
      BY <1>3, <2>3
    <3> HIDE DEF Inv, Pass, m, n
    <3> QED BY <1>1, <2>1, <3>1
  <2> QED BY <2>2, <2>3
<1> DEFINE y == Passes(Pass, s0, n)
<1>8. y \in Inv /\ Pass[y] = y
  <2> HIDE DEF Inv, m, s0, Pass, n
  <2> QED BY <1>7, LoopEnds
<1>9. PercolateDown(h, e, i) = y.h
  BY DEF PercolateDown
<1> HIDE DEF y, Pass, Inv
<1>10. ~Sinks(y)
  <2> SUFFICES ASSUME Sinks(y) PROVE FALSE
    OBVIOUS
  <2>1. y = Lower(y)
    BY <1>3, <1>8
  <2>2. Lower(y).i > y.i /\ y.i \in Nat
    BY <1>4, <1>5, <1>8
  <2> HIDE DEF Lower
  <2> QED BY <2>1, <2>2
<1>11. HeapOrder(KeysOf(y.h, e), n)
  BY <1>6, <1>8, <1>10
<1> QED BY <1>4, <1>8, <1>9, <1>11
-----------------------------------------------------------------------------
(* The calls *)

Heap(h, C, e) == Holds(h, C) /\ HeapOrder(KeysOf(h, e), Len(h))

\* The keys k and l differ in slot i at most.
SameBut(k, l, n, i) ==
    \A j \in 0..(n - 1) : k[j] \in Int /\ l[j] \in Int /\ (j # i => l[j] = k[j])

\* When one key of an ordered heap changes, the timer may have to move up if
\* it expires earlier than before, or than its parent; and down if it expires
\* no earlier.
LEMMA Repair ==
    ASSUME NEW n \in Nat, NEW k, NEW l, NEW i \in 0..(n - 1),
           HeapOrder(k, n), SameBut(k, l, n, i)
    PROVE  /\ l[i] < k[i] \/ l[i] < l[i \div 2] => UpOrder(l, n, i)
           /\ k[i] <= l[i] \/ l[i \div 2] <= l[i] => DownOrder(l, n, i)
<1> DEFINE up(j) == j \div 2
<1>1. /\ \A j \in 1..(n - 1) : up(j) \in 0..(n - 1) /\ up(j) < j
      /\ up(i) \in 0..(n - 1) /\ (i = 0 => up(i) = 0)
  BY Halves
<1>2. \A j \in 1..(n - 1) : k[up(j)] <= k[j]
  BY DEF HeapOrder
<1>3. \A j \in 0..(n - 1) : k[j] \in Int /\ l[j] \in Int /\ (j # i => l[j] = k[j])
  BY DEF SameBut
<1>4. k[i] \in Int /\ l[i] \in Int /\ l[up(i)] \in Int /\ k[up(i)] \in Int
  BY <1>1, <1>3
<1> HIDE DEF up
<1>5. i > 0 => l[up(i)] = k[up(i)] /\ k[up(i)] <= k[i]
  BY <1>1, <1>2, <1>3
<1>6. ASSUME NEW j \in 1..(n - 1), j # i, up(j) # i PROVE l[up(j)] <= l[j]
  BY <1>1, <1>2, <1>3, <1>6
<1>7. ASSUME i > 0, NEW j \in 1..(n - 1), up(j) = i PROVE l[j] = k[j] /\ k[j] \in Int /\ k[i] <= k[j]
  BY <1>1, <1>2, <1>3, <1>7
<1>8. ASSUME i > 0, NEW j \in 1..(n - 1), up(j) = i PROVE l[up(i)] <= l[j]
  BY <1>4, <1>5, <1>7, <1>8
<1>9. ASSUME l[i] < k[i] \/ l[i] < l[up(i)] PROVE UpOrder(l, n, i)
  <2>1. ASSUME NEW j \in 1..(n - 1), j # i, up(j) = i PROVE l[up(j)] <= l[j]
    <3>1. l[j] = k[j] /\ k[j] \in Int /\ k[i] <= k[j]
      BY <1>2, <1>3, <2>1
    <3>2. CASE i > 0
      BY <1>4, <1>5, <1>9, <2>1, <3>1, <3>2
    <3>3. CASE i = 0
      BY <1>1, <1>4, <1>9, <2>1, <3>1, <3>3
    <3> QED BY <3>2, <3>3
  <2>2. \A j \in 1..(n - 1) : j # i => l[up(j)] <= l[j]
    BY <1>6, <2>1
  <2> QED BY <1>8, <2>2 DEF UpOrder, up
<1>10. ASSUME k[i] <= l[i] \/ l[up(i)] <= l[i] PROVE DownOrder(l, n, i)
  <2>1. i > 0 => l[up(i)] <= l[i]
    BY <1>4, <1>5, <1>10
  <2>2. \A j \in 1..(n - 1) : up(j) # i => l[up(j)] <= l[j]
    <3> TAKE j \in 1..(n - 1)
    <3>1. CASE j = i
      BY <2>1, <3>1
    <3> QED BY <1>6, <3>1
  <2> QED BY <1>8, <2>2 DEF DownOrder, up
<1> QED BY <1>9, <1>10 DEF up

\* add_timer.
LEMMA HeapAddIs ==
    ASSUME NEW h, NEW C, NEW e \in [Timer -> Int], NEW t \in Timer \ C, Heap(h, C, e)
    PROVE  Heap(HeapAdd(h, e, t).box, C \cup {t}, e)
<1> DEFINE n == Len(h)
           g == Append(h, t)
           k == KeysOf(h, e)
           l == KeysOf(g, e)
<1>1. /\ h \in Seq(Timer) /\ n \in Nat /\ C = {h[j] : j \in 1..n}
      /\ \A i, j \in 1..n : h[i] = h[j] => i = j
  BY LenProperties DEF Heap, Holds
<1>2. /\ g \in Seq(Timer) /\ Len(g) = n + 1 /\ g[n + 1] = t
      /\ \A j \in 1..n : g[j] = h[j]
  BY <1>1, AppendProperties
<1> HIDE DEF g
<1>3. Holds(g, C \cup {t})
  <2>1. \A i, j \in 1..(n + 1) : g[i] = g[j] => i = j
    <3> SUFFICES ASSUME NEW i \in 1..(n + 1), NEW j \in 1..(n + 1), g[i] = g[j]
                 PROVE  i = j
      OBVIOUS
    <3>1. \A x \in 1..n : g[x] # t
      BY <1>1, <1>2
    <3>2. CASE i \in 1..n /\ j \in 1..n
      BY <1>1, <1>2, <3>2
    <3>3. CASE i = n + 1 \/ j = n + 1
      <4>1. g[i] = t /\ g[j] = t
        BY <1>2, <3>3
      <4>2. i \notin 1..n /\ j \notin 1..n
        BY <3>1, <4>1
      <4> QED BY <1>1, <4>2
    <3> QED BY <1>1, <3>2, <3>3
  <2>2. {g[i] : i \in 1..(n + 1)} = C \cup {t}
    <3>1. ASSUME NEW i \in 1..(n + 1) PROVE g[i] \in C \cup {t}
      <4>1. CASE i \in 1..n
        <5>1. h[i] \in C /\ g[i] = h[i]
          BY <1>1, <1>2, <4>1
        <5> QED BY <5>1
      <4>2. CASE i = n + 1
        BY <1>2, <4>2
      <4> QED BY <1>1, <4>1, <4>2
    <3>2. \A x \in C : \E i \in 1..(n + 1) : g[i] = x
      <4> TAKE x \in C
      <4>1. PICK i \in 1..n : h[i] = x
        BY <1>1
      <4>2. i \in 1..(n + 1) /\ g[i] = x
        BY <1>1, <1>2, <4>1
      <4> QED BY <4>2
    <3>3. n + 1 \in 1..(n + 1)
      BY <1>1
    <3> QED BY <1>2, <3>1, <3>2, <3>3
  <2> QED BY <1>2, <2>1, <2>2 DEF Holds
<1>4. UpOrder(l, n + 1, n)
  <2>1. \A j \in 1..(n - 1) : k[j \div 2] <= k[j]
    BY DEF Heap, HeapOrder
  <2>2. ASSUME NEW j \in 0..(n - 1) PROVE l[j] = k[j]
    <3>1. Slot(g, j) = Slot(h, j) /\ j \in 0..n
      BY <1>1, <1>2 DEF Slot
    <3> QED BY <1>1, <1>2, <3>1 DEF KeysOf
  <2>3. ASSUME NEW j \in 1..n PROVE j \div 2 \in 0..(n - 1) /\ j \div 2 # n
    BY <1>1
  <2> HIDE DEF k, l
  <2>4. ASSUME NEW j \in 1..n, j # n PROVE l[j \div 2] <= l[j]
    <3>1. j \in 1..(n - 1) /\ j \in 0..(n - 1)
      BY <1>1, <2>4
    <3> QED BY <2>1, <2>2, <2>3, <3>1
  <2>5. n \in 0..n /\ 0..(n + 1 - 1) = 0..n /\ 1..(n + 1 - 1) = 1..n
    BY <1>1
  <2> QED BY <2>3, <2>4, <2>5 DEF UpOrder
<1>5. HeapAdd(h, e, t).box = PercolateUp(g, e, n)
  BY DEF HeapAdd, Done, g
<1> QED BY <1>2, <1>3, <1>4, <1>5, PercolateUpIs DEF Heap

\* The order depends on the expiries of the timers in the heap only.
LEMMA HeapOfKeys ==
    ASSUME NEW h, NEW C, NEW e, NEW f, Heap(h, C, e), \A t \in C : f[t] = e[t]
    PROVE  Heap(h, C, f)
<1>1. \A j \in 0..(Len(h) - 1) : Slot(h, j) \in C
  <2>1. h \in Seq(Timer) /\ Len(h) \in Nat /\ C = {h[i] : i \in 1..Len(h)}
    BY LenProperties DEF Heap, Holds
  <2>2. \A j \in 0..(Len(h) - 1) : j + 1 \in 1..Len(h)
    BY <2>1
  <2> QED BY <2>1, <2>2 DEF Slot
<1>2. KeysOf(h, f) = KeysOf(h, e)
  BY <1>1 DEF KeysOf
<1> QED BY <1>2 DEF Heap

\* A heap in which one timer is in the wrong place is repaired by moving it up
\* when it expires before its parent, or before the timer d that was there, and
\* down otherwise.
LEMMA PercolateEither ==
    ASSUME NEW h, NEW C, NEW e \in [Timer -> Int], NEW i \in 0..(Len(h) - 1), NEW k,
           Holds(h, C), HeapOrder(k, Len(h)), SameBut(k, KeysOf(h, e), Len(h), i)
    PROVE  /\ e[Slot(h, i)] < e[Slot(h, i \div 2)] \/ e[Slot(h, i)] < k[i]
                => Heap(PercolateUp(h, e, i), C, e)
           /\ e[Slot(h, i \div 2)] <= e[Slot(h, i)] \/ k[i] <= e[Slot(h, i)]
                => Heap(PercolateDown(h, e, i), C, e)
<1> DEFINE n == Len(h)
           l == KeysOf(h, e)
           p == i \div 2
<1>1. n \in Nat /\ \A j \in 0..(n - 1) : l[j] = e[Slot(h, j)]
  BY SlotsAre
<1>2. p \in 0..(n - 1)
  BY <1>1, Halves
<1>3. /\ l[i] < k[i] \/ l[i] < l[p] => UpOrder(l, n, i)
      /\ k[i] <= l[i] \/ l[p] <= l[i] => DownOrder(l, n, i)
  BY <1>1, Repair
<1> HIDE DEF l, p
<1>4. l[i] = e[Slot(h, i)] /\ l[p] = e[Slot(h, p)]
  BY <1>1, <1>2
<1>5. UpOrder(l, n, i) => Heap(PercolateUp(h, e, i), C, e)
  BY PercolateUpIs DEF Heap, l
<1>6. DownOrder(l, n, i) => Heap(PercolateDown(h, e, i), C, e)
  BY PercolateDownIs DEF Heap, l
<1> QED BY <1>3, <1>4, <1>5, <1>6 DEF p

\* adjust_timer, after the expiry of t has changed from e to f.
LEMMA HeapAdjustIs ==
    ASSUME NEW h, NEW C, NEW e \in [Timer -> Int], NEW f \in [Timer -> Int], NEW t \in C,
           Heap(h, C, e), \A u \in C \ {t} : f[u] = e[u]
    PROVE  Heap(HeapAdjust(h, f, t).box, C, f)
<1> DEFINE n == Len(h)
           i == GetIdx(h, t)
           p == i \div 2
           k == KeysOf(h, e)
           l == KeysOf(h, f)
<1>1. Holds(h, C) /\ HeapOrder(k, n)
  BY DEF Heap
<1>2. i \in 0..(n - 1) /\ Slot(h, i) = t
  BY <1>1, GetIdxIs
<1>3. n \in Nat /\ k \in [0..(n - 1) -> Int] /\ \A j \in 0..(n - 1) : k[j] = e[Slot(h, j)]
  BY <1>1, SlotsAre
<1>4. /\ l \in [0..(n - 1) -> Int] /\ \A j \in 0..(n - 1) : l[j] = f[Slot(h, j)]
      /\ \A j \in 0..(n - 1) : Slot(h, j) \in C
      /\ C \subseteq Timer
  BY <1>1, SlotsAre
<1> HIDE DEF i, k, l
<1>5. \A j \in 0..(n - 1) : j # i => Slot(h, j) # t
  <2>1. \A a, b \in 1..n : h[a] = h[b] => a = b
    BY <1>1 DEF Holds
  <2>2. \A j \in 0..(n - 1) : j + 1 \in 1..n /\ (j + 1 = i + 1 => j = i)
    BY <1>2, <1>3
  <2> QED BY <1>2, <2>1, <2>2 DEF Slot
<1>6. SameBut(k, l, n, i)
  BY <1>3, <1>4, <1>5 DEF SameBut
<1>7. /\ f[t] < f[Slot(h, p)] => Heap(PercolateUp(h, f, i), C, f)
      /\ f[Slot(h, p)] <= f[t] => Heap(PercolateDown(h, f, i), C, f)
  <2> HIDE DEF n
  <2> QED BY <1>1, <1>2, <1>6, PercolateEither DEF n, l
<1>8. f[t] \in Int /\ f[Slot(h, p)] \in Int
  <2>1. p \in 0..(n - 1)
    BY <1>2, <1>3, Halves
  <2> HIDE DEF p
  <2> QED BY <1>4, <2>1
<1>9. HeapAdjust(h, f, t).box = IF f[t] < f[Slot(h, p)] THEN PercolateUp(h, f, i)
                                ELSE PercolateDown(h, f, i)
  BY DEF HeapAdjust, Done, i
<1> HIDE DEF p
<1> QED BY <1>7, <1>8, <1>9

\* The heap without the timer in slot i: what was ordered is, but for slot i.
LEMMA VacateKeys ==
    ASSUME NEW h, NEW C, NEW e \in [Timer -> Int], Heap(h, C, e), NEW i \in 0..(Len(h) - 1)
    PROVE  LET g == Vacate(h, i)
           IN /\ Holds(g, C \ {Slot(h, i)}) /\ Len(g) \in Nat /\ Len(g) = Len(h) - 1
              /\ HeapOrder(KeysOf(h, e), Len(g))
              /\ SameBut(KeysOf(h, e), KeysOf(g, e), Len(g), i)
              /\ KeysOf(h, e)[i] = e[Slot(h, i)]
<1> DEFINE n == Len(h)
           g == Vacate(h, i)
           k == KeysOf(h, e)
           l == KeysOf(g, e)
<1>1. Holds(h, C) /\ HeapOrder(k, n)
  BY DEF Heap
<1>2. n \in Nat /\ k \in [0..(n - 1) -> Int] /\ \A j \in 0..(n - 1) : k[j] = e[Slot(h, j)]
  BY <1>1, SlotsAre
<1>3. /\ Holds(g, C \ {Slot(h, i)}) /\ Len(g) = n - 1
      /\ \A j \in 0..(n - 2) : Slot(g, j) = IF j = i THEN Slot(h, n - 1) ELSE Slot(h, j)
  BY <1>1, VacateIs
<1> HIDE DEF g
<1>4. /\ l \in [0..(Len(g) - 1) -> Int]
      /\ \A j \in 0..(Len(g) - 1) : l[j] = e[Slot(g, j)]
  BY <1>3, SlotsAre
<1>5. 0..(Len(g) - 1) = 0..(n - 2)
  BY <1>2, <1>3
<1>6. \A j \in 0..(n - 2) : j \in 0..(n - 1)
  BY <1>2
<1> HIDE DEF k, l
<1>7. SameBut(k, l, Len(g), i)
  <2> SUFFICES ASSUME NEW j \in 0..(n - 2)
               PROVE  k[j] \in Int /\ l[j] \in Int /\ (j # i => l[j] = k[j])
    BY <1>5 DEF SameBut
  <2>1. k[j] \in Int /\ l[j] \in Int
    BY <1>2, <1>4, <1>5, <1>6
  <2>2. j # i => Slot(g, j) = Slot(h, j)
    BY <1>3
  <2> QED BY <1>2, <1>4, <1>5, <1>6, <2>1, <2>2
<1>8. HeapOrder(k, Len(g))
  <2>1. \A j \in 1..(Len(g) - 1) : j \in 1..(n - 1)
    BY <1>2, <1>3
  <2> QED BY <1>1, <2>1 DEF HeapOrder
<1>9. Len(g) \in Nat /\ k[i] = e[Slot(h, i)]
  BY <1>2, <1>3
<1> QED BY <1>3, <1>7, <1>8, <1>9 DEF g, k, l

\* del_timer.
LEMMA HeapDelIs ==
    ASSUME NEW h, NEW C, NEW e \in [Timer -> Int], NEW t \in C, Heap(h, C, e)
    PROVE  Heap(HeapDel(h, e, t).box, C \ {t}, e)
<1> DEFINE i == GetIdx(h, t)
           g == Vacate(h, i)
           k == KeysOf(h, e)
           m == Len(g)
           l == KeysOf(g, e)
<1>1. i \in 0..(Len(h) - 1) /\ Slot(h, i) = t
  BY GetIdxIs DEF Heap
<1>2. C \subseteq Timer
  BY SlotsAre DEF Heap
<1> HIDE DEF i
<1>3. /\ Holds(g, C \ {t}) /\ m \in Nat
      /\ HeapOrder(k, m) /\ SameBut(k, l, m, i) /\ k[i] = e[t]
  BY <1>1, VacateKeys
<1>4. HeapDel(h, e, t).box = IF i < m THEN Replaced(g, e, t, i) ELSE g
  BY DEF HeapDel, Done, i
<1> HIDE DEF g, k
<1>5. CASE i < m
  <2>1. i \in 0..(m - 1)
    BY <1>1, <1>3, <1>5
  <2>2. Slot(g, i) \in C \ {t}
    BY <1>3, <2>1, SlotsAre
  <2>3. e[Slot(g, i)] \in Int /\ e[t] \in Int
    BY <1>2, <2>2
  <2>4. /\ e[Slot(g, i)] < k[i] => Heap(PercolateUp(g, e, i), C \ {t}, e)
        /\ k[i] <= e[Slot(g, i)] => Heap(PercolateDown(g, e, i), C \ {t}, e)
    BY <1>3, <2>1, PercolateEither
  <2>5. Heap(Replaced(g, e, t, i), C \ {t}, e)
    BY <1>3, <2>3, <2>4 DEF Replaced
  <2> QED BY <1>4, <1>5, <2>5
<1>6. CASE ~(i < m)
  <2>1. \A j \in 0..(m - 1) : j # i
    BY <1>1, <1>3, <1>6
  <2>2. \A j \in 0..(m - 1) : l[j] = k[j]
    BY <1>3, <2>1 DEF SameBut
  <2>3. \A j \in 1..(m - 1) : j \div 2 \in 0..(m - 1) /\ j \in 0..(m - 1)
    BY <1>3, Halves
  <2> HIDE DEF l, m
  <2>4. HeapOrder(l, m)
    BY <1>3, <2>2, <2>3 DEF HeapOrder
  <2> QED BY <1>3, <1>4, <1>6, <2>4 DEF Heap, l, m
<1> QED BY <1>5, <1>6

\* One pass of tick: the root leaves, if it has expired.
LEMMA FireRoot ==
    ASSUME NEW h, NEW C, NEW e \in [Timer -> Int], Heap(h, C, e), h # <<>>
    PROVE  /\ Len(h) \in Nat \ {0} /\ Head(h) \in C
           /\ Heap(PercolateDown(Vacate(h, 0), e, 0), C \ {Head(h)}, e)
           /\ Len(PercolateDown(Vacate(h, 0), e, 0)) = Len(h) - 1
           /\ \A t \in C : e[Head(h)] <= e[t]
<1> DEFINE n == Len(h)
           g == Vacate(h, 0)
           k == KeysOf(h, e)
           l == KeysOf(g, e)
<1>1. h \in Seq(Timer) /\ n \in Nat \ {0} /\ Head(h) = Slot(h, 0) /\ Holds(h, C) /\ HeapOrder(k, n)
  BY EmptySeq, LenProperties, HeadTailProperties DEF Heap, Holds, Slot
<1>2. 0 \in 0..(n - 1)
  BY <1>1
<1>3. /\ Slot(h, 0) \in C /\ C \subseteq Timer
      /\ \A t \in C : \E j \in 0..(n - 1) : Slot(h, j) = t
      /\ k \in [0..(n - 1) -> Int] /\ \A j \in 0..(n - 1) : k[j] = e[Slot(h, j)]
  BY <1>1, <1>2, SlotsAre
<1>4. \A j \in 0..(n - 1) : k[0] <= k[j]
  <2> HIDE DEF k, n
  <2> QED BY <1>1, <1>3, RootFirst
<1>5. \A t \in C : e[Head(h)] <= e[t]
  <2> TAKE t \in C
  <2>1. PICK j \in 0..(n - 1) : Slot(h, j) = t
    BY <1>3
  <2>2. k[0] <= k[j] /\ k[0] = e[Slot(h, 0)] /\ k[j] = e[t]
    BY <1>2, <1>3, <1>4, <2>1
  <2> QED BY <1>1, <2>2
<1>6. /\ Holds(g, C \ {Head(h)}) /\ Len(g) \in Nat /\ Len(g) = n - 1
      /\ HeapOrder(k, Len(g)) /\ SameBut(k, l, Len(g), 0)
  BY <1>1, <1>2, VacateKeys
<1> HIDE DEF g, k, l
<1>7. DownOrder(l, Len(g), 0)
  <2>1. \A j \in 1..(Len(g) - 1) : j \in 0..(Len(g) - 1) /\ j # 0 /\ j \div 2 \in 0..(Len(g) - 1)
    BY <1>6, Halves
  <2>2. \A j \in 1..(Len(g) - 1) : j \div 2 # 0 => l[j \div 2] <= l[j]
    BY <1>6, <2>1 DEF HeapOrder, SameBut
  <2> QED BY <2>2 DEF DownOrder
<1>8. /\ Holds(PercolateDown(g, e, 0), C \ {Head(h)}) /\ Len(PercolateDown(g, e, 0)) = Len(g)
      /\ HeapOrder(KeysOf(PercolateDown(g, e, 0), e), Len(PercolateDown(g, e, 0)))
  BY <1>6, <1>7, PercolateDownIs DEF l
<1> QED BY <1>1, <1>3, <1>5, <1>6, <1>8 DEF Heap, g

Late(C, e, now) == {t \in C : e[t] <= now}
Kept(C, e, now) == {t \in C : e[t] > now}

\* tick runs and removes the timers that have expired and no other.
LEMMA HeapTickIs ==
    ASSUME NEW h, NEW C, NEW e \in [Timer -> Int], Heap(h, C, e), NEW now \in Int
    PROVE  /\ HeapTick(h, e, now).fired = Late(C, e, now)
           /\ Heap(HeapTick(h, e, now).box, Kept(C, e, now), e)
<1> DEFINE due == Late(C, e, now)
           Inv == {s \in [h : Seq(Timer), fired : SUBSET Timer] :
                     s.fired \subseteq due /\ Heap(s.h, C \ s.fired, e)}
           m == [s \in Inv |-> Len(s.h)]
           s0 == [h |-> h, fired |-> {}]
           Pass == FirePass(e, now)
           Fires(s) == s.h # <<>> /\ e[Head(s.h)] <= now
           Next(s) == [h |-> PercolateDown(Vacate(s.h, 0), e, 0),
                       fired |-> s.fired \cup {Head(s.h)}]
           n == Len(h)
<1>1. h \in Seq(Timer) /\ n \in Nat /\ C \subseteq Timer
  BY LenProperties, SlotsAre DEF Heap, Holds
<1>2. s0 \in Inv /\ m[s0] = n
  <2>1. C \ {} = C
    OBVIOUS
  <2> QED BY <1>1, <2>1
<1>3. \A s \in Inv : Pass[s] = IF Fires(s) THEN Next(s) ELSE s
  BY DEF FirePass, Expired
<1>4. \A s \in Inv : /\ s.h \in Seq(Timer) /\ s.fired \subseteq Timer /\ Len(s.h) \in Nat
                     /\ s.fired \subseteq due /\ Heap(s.h, C \ s.fired, e)
  BY LenProperties
<1>5. ASSUME NEW s \in Inv, Fires(s)
      PROVE  Next(s) \in Inv /\ Len(Next(s).h) = Len(s.h) - 1
  <2> DEFINE g == PercolateDown(Vacate(s.h, 0), e, 0)
             t == Head(s.h)
  <2>1. /\ t \in C \ s.fired /\ Heap(g, (C \ s.fired) \ {t}, e) /\ Len(g) = Len(s.h) - 1
    <3> HIDE DEF Inv
    <3> QED BY <1>4, <1>5, FireRoot
  <2>2. e[t] <= now
    BY <1>5
  <2> HIDE DEF g, t
  <2>3. (C \ s.fired) \ {t} = C \ (s.fired \cup {t})
    OBVIOUS
  <2>4. g \in Seq(Timer)
    BY <2>1 DEF Heap, Holds
  <2>5. [h |-> g, fired |-> s.fired \cup {t}] \in Inv
    BY <1>1, <1>4, <2>1, <2>2, <2>3, <2>4 DEF Late
  <2> QED BY <2>1, <2>5 DEF g, t
<1>6. Loop(Pass, Inv, m, s0, n)
  <2> SUFFICES ASSUME NEW s \in Inv
               PROVE  /\ Pass[s] \in Inv /\ m[s] \in Nat
                      /\ Pass[s] = s \/ m[Pass[s]] < m[s]
    <3>1. m[s0] <= n
      BY <1>1, <1>2
    <3> HIDE DEF Inv, m, s0, Pass, n
    <3> QED BY <1>1, <1>2, <3>1 DEF Loop
  <2>1. m[s] = Len(s.h) /\ Len(s.h) \in Nat
    BY <1>4
  <2>2. CASE Fires(s)
    <3>1. Pass[s] = Next(s) /\ Next(s) \in Inv /\ Len(Next(s).h) = Len(s.h) - 1
      BY <1>3, <1>5, <2>2
    <3>2. m[Next(s)] = Len(Next(s).h)
      BY <3>1
    <3> HIDE DEF Inv, Pass, m, Next
    <3> QED BY <2>1, <3>1, <3>2
  <2>3. CASE ~Fires(s)
    <3>1. Pass[s] = s
      BY <1>3, <2>3
    <3> HIDE DEF Inv, Pass, m
    <3> QED BY <2>1, <3>1
  <2> QED BY <2>2, <2>3
<1> DEFINE y == Passes(Pass, s0, n)
<1>7. y \in Inv /\ Pass[y] = y
  <2> HIDE DEF Inv, m, s0, Pass, n
  <2> QED BY <1>6, LoopEnds
<1>8. HeapTick(h, e, now).box = (IF h = <<>> THEN h ELSE y.h)
      /\ HeapTick(h, e, now).fired = (IF h = <<>> THEN {} ELSE y.fired)
  BY DEF HeapTick, Done
<1> HIDE DEF y, Pass, Inv
<1>9. ~Fires(y)
  <2> SUFFICES ASSUME Fires(y) PROVE FALSE
    OBVIOUS
  <2>1. y = Next(y)
    BY <1>3, <1>7
  <2>2. Len(Next(y).h) = Len(y.h) - 1 /\ Len(y.h) \in Nat
    BY <1>4, <1>5, <1>7
  <2> HIDE DEF Next
  <2> QED BY <2>1, <2>2
<1>10. ASSUME NEW g, NEW F, F \subseteq due, Heap(g, C \ F, e), ~(g # <<>> /\ e[Head(g)] <= now)
       PROVE  F = due /\ Heap(g, Kept(C, e, now), e)
  <2>1. \A t \in C \ F : e[t] \in Int /\ e[t] > now
    <3> TAKE t \in C \ F
    <3>1. g # <<>>
      <4>1. PICK j \in 0..(Len(g) - 1) : Slot(g, j) = t
        BY <1>10, SlotsAre DEF Heap
      <4>2. Len(g) # 0
        BY <4>1
      <4> QED BY <4>2, EmptySeq
    <3>2. Head(g) \in C \ F /\ e[Head(g)] <= e[t]
      BY <1>10, <3>1, FireRoot
    <3>3. ~(e[Head(g)] <= now) /\ e[Head(g)] \in Int /\ e[t] \in Int
      BY <1>1, <1>10, <3>1, <3>2
    <3> QED BY <3>2, <3>3
  <2>2. F = due
    <3>1. \A t \in due : t \notin F => FALSE
      BY <1>1, <2>1 DEF Late
    <3> QED BY <1>10, <3>1
  <2>3. C \ F = Kept(C, e, now)
    BY <1>1, <2>1, <2>2 DEF Late, Kept
  <2> QED BY <1>10, <2>2, <2>3
<1>11. CASE h = <<>>
  <2>1. C \ {} = C /\ {} \subseteq due
    OBVIOUS
  <2> QED BY <1>8, <1>10, <1>11, <2>1
<1>12. CASE h # <<>>
  <2> QED BY <1>4, <1>7, <1>8, <1>9, <1>10, <1>12
<1> QED BY <1>11, <1>12
-----------------------------------------------------------------------------
(* The linked containers *)

\* The i-th timer, or none.
At(s, i) == IF i \in 1..Len(s) THEN s[i] ELSE Null

\* The links lead from one timer of s to the next, and back.
Linking(next, prev, s) ==
    \A i \in 1..Len(s) : next[s[i]] = At(s, i + 1) /\ prev[s[i]] = At(s, i - 1)

\* s with t in place k, and without the one there; s from place k + 1 on.
With(s, k, t) ==
    [i \in 1..(Len(s) + 1) |-> IF i < k THEN s[i] ELSE IF i = k THEN t ELSE s[i - 1]]
Without(s, k) == [i \in 1..(Len(s) - 1) |-> IF i < k THEN s[i] ELSE s[i + 1]]
From(s, k) == [i \in 1..(Len(s) - k) |-> s[i + k]]
-----------------------------------------------------------------------------
(* Sequences of timers *)

\* What is in a sequence that holds timers, and where.
LEMMA HoldsIs ==
    ASSUME NEW s, NEW C, Holds(s, C)
    PROVE  /\ s \in Seq(Timer) /\ Len(s) \in Nat /\ C \subseteq Timer
           /\ \A i \in 1..Len(s) : s[i] \in C
           /\ \A t \in C : \E i \in 1..Len(s) : s[i] = t
           /\ \A i, j \in 1..Len(s) : s[i] = s[j] => i = j
           /\ Null \notin C
           /\ s = <<>> <=> C = {}
<1>1. /\ s \in Seq(Timer) /\ Len(s) \in Nat
      /\ C = {s[i] : i \in 1..Len(s)}
      /\ \A i, j \in 1..Len(s) : s[i] = s[j] => i = j
  BY LenProperties DEF Holds
<1>2. \A i \in 1..Len(s) : s[i] \in Timer /\ s[i] \in C
  BY <1>1, ElementOfSeq
<1>3. \A t \in C : \E i \in 1..Len(s) : s[i] = t
  BY <1>1
<1>4. C \subseteq Timer /\ Null \notin C
  BY <1>2, <1>3, TimerAssumption
<1>5. s = <<>> <=> C = {}
  <2>1. s = <<>> <=> Len(s) = 0
    BY <1>1, EmptySeq
  <2>2. Len(s) # 0 => 1 \in 1..Len(s)
    BY <1>1
  <2> QED BY <1>1, <1>2, <1>3, <2>1, <2>2
<1> QED BY <1>1, <1>2, <1>3, <1>4, <1>5

\* One more timer.
LEMMA WithIs ==
    ASSUME NEW s, NEW C, Holds(s, C), NEW t \in Timer \ C, NEW k \in 1..(Len(s) + 1)
    PROVE  /\ Holds(With(s, k, t), C \cup {t}) /\ Len(With(s, k, t)) = Len(s) + 1
           /\ \A i \in 1..(Len(s) + 1) :
                With(s, k, t)[i] = IF i < k THEN s[i] ELSE IF i = k THEN t ELSE s[i - 1]
<1> DEFINE n == Len(s)
           w == With(s, k, t)
<1>1. /\ s \in Seq(Timer) /\ n \in Nat /\ C \subseteq Timer
      /\ \A i \in 1..n : s[i] \in C
      /\ \A x \in C : \E i \in 1..n : s[i] = x
      /\ \A i, j \in 1..n : s[i] = s[j] => i = j
  BY HoldsIs
<1>2. \A i \in 1..(n + 1) : w[i] = IF i < k THEN s[i] ELSE IF i = k THEN t ELSE s[i - 1]
  BY DEF With
<1>3. \A i \in 1..(n + 1) : /\ i < k => i \in 1..n
                            /\ ~(i < k) /\ i # k => i - 1 \in 1..n
  BY <1>1
<1>4. ASSUME NEW i \in 1..(n + 1)
      PROVE  w[i] \in C \cup {t} /\ w[i] \in Timer /\ (i # k => w[i] \in C)
  <2>1. CASE i < k
    BY <1>1, <1>2, <1>3, <2>1
  <2>2. CASE i = k
    BY <1>1, <1>2, <2>2
  <2>3. CASE ~(i < k) /\ i # k
    BY <1>1, <1>2, <1>3, <2>3
  <2> QED BY <2>1, <2>2, <2>3
<1>5. w \in Seq(Timer) /\ Len(w) = n + 1
  <2>1. n + 1 \in Nat /\ w = [i \in 1..(n + 1) |-> w[i]]
    BY <1>1 DEF With
  <2> HIDE DEF w
  <2>2. w \in [1..(n + 1) -> Timer]
    BY <1>4, <2>1
  <2> QED BY <2>1, <2>2, SeqDef, LenProperties
<1> HIDE DEF w
<1>6. \A x \in C \cup {t} : \E i \in 1..(n + 1) : w[i] = x
  <2> TAKE x \in C \cup {t}
  <2>1. CASE x = t
    BY <1>1, <1>2, <2>1
  <2>2. CASE x # t
    <3>1. PICK i \in 1..n : s[i] = x
      BY <1>1, <2>2
    <3>2. CASE i < k
      <4>1. i \in 1..(n + 1) /\ w[i] = x
        BY <1>1, <1>2, <3>1, <3>2
      <4> QED BY <4>1
    <3>3. CASE ~(i < k)
      <4>1. i + 1 \in 1..(n + 1) /\ ~(i + 1 < k) /\ i + 1 # k /\ (i + 1) - 1 = i
        BY <1>1, <3>3
      <4>2. w[i + 1] = x
        BY <1>2, <3>1, <4>1
      <4> QED BY <4>1, <4>2
    <3> QED BY <3>2, <3>3
  <2> QED BY <2>1, <2>2
<1>7. ASSUME NEW i \in 1..(n + 1), NEW j \in 1..(n + 1), w[i] = w[j]
      PROVE  i = j
  <2>1. CASE i = k \/ j = k
    BY <1>2, <1>4, <1>7, <2>1
  <2>2. CASE i # k /\ j # k
    <3> DEFINE a == IF i < k THEN i ELSE i - 1
               b == IF j < k THEN j ELSE j - 1
    <3>1. w[i] = s[a] /\ w[j] = s[b] /\ a \in 1..n /\ b \in 1..n
      BY <1>2, <1>3, <2>2
    <3>2. a = b
      BY <1>1, <1>7, <3>1
    <3> QED BY <1>1, <2>2, <3>2
  <2> QED BY <2>1, <2>2
<1>8. {w[i] : i \in 1..(n + 1)} = C \cup {t}
  BY <1>4, <1>6
<1>9. Holds(w, C \cup {t})
  BY <1>5, <1>7, <1>8 DEF Holds
<1> QED BY <1>2, <1>5, <1>9 DEF w

\* One timer less.
LEMMA WithoutIs ==
    ASSUME NEW s, NEW C, Holds(s, C), NEW k \in 1..Len(s)
    PROVE  /\ Holds(Without(s, k), C \ {s[k]}) /\ Len(Without(s, k)) = Len(s) - 1
           /\ \A i \in 1..(Len(s) - 1) :
                Without(s, k)[i] = IF i < k THEN s[i] ELSE s[i + 1]
<1> DEFINE n == Len(s)
           w == Without(s, k)
           t == s[k]
<1>1. /\ s \in Seq(Timer) /\ n \in Nat /\ C \subseteq Timer
      /\ \A i \in 1..n : s[i] \in C
      /\ \A x \in C : \E i \in 1..n : s[i] = x
      /\ \A i, j \in 1..n : s[i] = s[j] => i = j
  BY HoldsIs
<1>2. \A i \in 1..(n - 1) : w[i] = IF i < k THEN s[i] ELSE s[i + 1]
  BY DEF Without
<1>3. ASSUME NEW i \in 1..(n - 1)
      PROVE  \E a \in 1..n : a # k /\ w[i] = s[a] /\ a = IF i < k THEN i ELSE i + 1
  <2>1. CASE i < k
    BY <1>1, <1>2, <2>1
  <2>2. CASE ~(i < k)
    <3>1. i + 1 \in 1..n /\ i + 1 # k
      BY <1>1, <2>2
    <3> QED BY <1>2, <2>2, <3>1
  <2> QED BY <2>1, <2>2
<1>4. \A i \in 1..(n - 1) : w[i] \in C \ {t} /\ w[i] \in Timer
  BY <1>1, <1>3
<1>5. w \in Seq(Timer) /\ Len(w) = n - 1
  <2>1. n - 1 \in Nat /\ w = [i \in 1..(n - 1) |-> w[i]]
    BY <1>1 DEF Without
  <2> HIDE DEF w
  <2>2. w \in [1..(n - 1) -> Timer]
    BY <1>4, <2>1
  <2> QED BY <2>1, <2>2, SeqDef, LenProperties
<1> HIDE DEF w
<1>6. \A x \in C \ {t} : \E i \in 1..(n - 1) : w[i] = x
  <2> TAKE x \in C \ {t}
  <2>1. PICK i \in 1..n : s[i] = x
    BY <1>1
  <2>2. CASE i < k
    <3>1. i \in 1..(n - 1) /\ w[i] = x
      BY <1>1, <1>2, <2>1, <2>2
    <3> QED BY <3>1
  <2>3. CASE ~(i < k)
    <3>1. i # k
      BY <2>1
    <3>2. i - 1 \in 1..(n - 1) /\ ~(i - 1 < k) /\ (i - 1) + 1 = i
      BY <1>1, <2>3, <3>1
    <3>3. w[i - 1] = x
      BY <1>2, <2>1, <3>2
    <3> QED BY <3>2, <3>3
  <2> QED BY <2>2, <2>3
<1>7. ASSUME NEW i \in 1..(n - 1), NEW j \in 1..(n - 1), w[i] = w[j]
      PROVE  i = j
  <2>1. PICK a \in 1..n : w[i] = s[a] /\ a = IF i < k THEN i ELSE i + 1
    BY <1>3
  <2>2. PICK b \in 1..n : w[j] = s[b] /\ b = IF j < k THEN j ELSE j + 1
    BY <1>3
  <2>3. a = b
    BY <1>1, <1>7, <2>1, <2>2
  <2> QED BY <1>1, <2>1, <2>2, <2>3
<1>8. {w[i] : i \in 1..(n - 1)} = C \ {t}
  BY <1>4, <1>6
<1>9. Holds(w, C \ {t})
  BY <1>5, <1>7, <1>8 DEF Holds
<1> QED BY <1>2, <1>5, <1>9 DEF w, t

\* The timers behind the k-th.
LEMMA FromIs ==
    ASSUME NEW s, NEW C, Holds(s, C), NEW k \in 0..Len(s)
    PROVE  /\ Holds(From(s, k), C \ {s[i] : i \in 1..k}) /\ Len(From(s, k)) = Len(s) - k
           /\ \A i \in 1..(Len(s) - k) : From(s, k)[i] = s[i + k]
<1> DEFINE n == Len(s)
           w == From(s, k)
           gone == {s[i] : i \in 1..k}
<1>1. /\ s \in Seq(Timer) /\ n \in Nat /\ C \subseteq Timer
      /\ \A i \in 1..n : s[i] \in C
      /\ \A x \in C : \E i \in 1..n : s[i] = x
      /\ \A i, j \in 1..n : s[i] = s[j] => i = j
  BY HoldsIs
<1>2. \A i \in 1..(n - k) : w[i] = s[i + k]
  BY DEF From
<1>3. \A i \in 1..(n - k) : i + k \in 1..n /\ i + k \notin 1..k
  BY <1>1
<1>4. \A i \in 1..(n - k) : w[i] \in C \ gone /\ w[i] \in Timer
  <2> TAKE i \in 1..(n - k)
  <2>1. w[i] = s[i + k] /\ i + k \in 1..n
    BY <1>2, <1>3
  <2>2. \A j \in 1..k : j \in 1..n /\ j # i + k
    BY <1>1, <1>3
  <2>3. w[i] \notin gone
    BY <1>1, <2>1, <2>2
  <2> QED BY <1>1, <2>1, <2>3
<1>5. w \in Seq(Timer) /\ Len(w) = n - k
  <2>1. n - k \in Nat /\ w = [i \in 1..(n - k) |-> w[i]]
    BY <1>1 DEF From
  <2> HIDE DEF w
  <2>2. w \in [1..(n - k) -> Timer]
    BY <1>4, <2>1
  <2> QED BY <2>1, <2>2, SeqDef, LenProperties
<1> HIDE DEF w
<1>6. \A x \in C \ gone : \E i \in 1..(n - k) : w[i] = x
  <2> TAKE x \in C \ gone
  <2>1. PICK i \in 1..n : s[i] = x
    BY <1>1
  <2>2. i \notin 1..k
    BY <2>1
  <2>3. i - k \in 1..(n - k) /\ (i - k) + k = i
    BY <1>1, <2>2
  <2>4. w[i - k] = x
    BY <1>2, <2>1, <2>3
  <2> QED BY <2>3, <2>4
<1>7. ASSUME NEW i \in 1..(n - k), NEW j \in 1..(n - k), w[i] = w[j]
      PROVE  i = j
  <2>1. i + k = j + k
    BY <1>1, <1>2, <1>3, <1>7
  <2> QED BY <2>1
<1>8. {w[i] : i \in 1..(n - k)} = C \ gone
  <2> HIDE DEF gone
  <2> QED BY <1>4, <1>6
<1>9. Holds(w, C \ gone)
  BY <1>5, <1>7, <1>8 DEF Holds
<1> QED BY <1>2, <1>5, <1>9 DEF w, gone

\* A sequence holds no more timers than there are.
LEMMA HoldsFew ==
    ASSUME NEW s, NEW C, Holds(s, C)
    PROVE  Len(s) <= Cardinality(Timer) /\ Cardinality(Timer) \in Nat /\ IsFiniteSet(C)
<1>1. C \subseteq Timer /\ Len(s) = Cardinality(C)
  BY HoldsIs, HoldsCount
<1> QED BY <1>1, TimerAssumption, FS_Subset, FS_CardinalityType

\* Following the links from the first timer of s one meets those of s.
LEMMA ChainIs ==
    ASSUME NEW s, NEW C, NEW next, Holds(s, C),
           \A i \in 1..Len(s) : next[s[i]] = At(s, i + 1)
    PROVE  Chain(next, At(s, 1)) = s
<1> DEFINE n == Len(s)
           size == Cardinality(Timer)
           step == Link(next)
           met == Trail(step, At(s, 1), size)
           found == {k \in 1..size : met[k - 1] # Null}
<1>1. /\ s \in Seq(Timer) /\ n \in Nat /\ C \subseteq Timer /\ Null \notin C
      /\ \A i \in 1..n : s[i] \in C /\ s[i] # Null
  BY HoldsIs
<1>2. n <= size /\ size \in Nat
  BY HoldsFew
<1>3. met[0] = At(s, 1) /\ \A k \in 1..size : met[k] = step[met[k - 1]]
  BY <1>2, TrailIs
<1>4. step[Null] = Null /\ \A i \in 1..n : step[s[i]] = At(s, i + 1)
  BY <1>1 DEF Link
<1> HIDE DEF met, step, size
<1>5. \A i \in Nat : step[At(s, i)] = IF i \in 1..n THEN At(s, i + 1) ELSE Null
  BY <1>4 DEF At
<1> DEFINE bad == {k \in 0..size : met[k] # At(s, k + 1)}
<1>6. bad = {}
  <2> SUFFICES ASSUME bad # {} PROVE FALSE
    OBVIOUS
  <2>1. PICK k \in bad : \A y \in bad : k <= y
    <3>1. bad \subseteq Nat
      BY <1>2
    <3> HIDE DEF bad
    <3> QED BY <3>1, Least
  <2>2. k # 0
    BY <1>3, <2>1
  <2>3. k - 1 \in 0..size /\ k \in 1..size /\ k \in Nat
    BY <1>2, <2>2
  <2>4. k - 1 \notin bad
    <3> HIDE DEF bad
    <3> QED BY <2>1, <2>3
  <2>5. met[k - 1] = At(s, (k - 1) + 1) /\ (k - 1) + 1 = k
    BY <2>3, <2>4
  <2>6. met[k] = step[At(s, k)]
    BY <1>3, <2>3, <2>5
  <2>7. k \notin 1..n => At(s, k + 1) = Null
    BY <1>1, <2>3 DEF At
  <2> QED BY <1>5, <2>3, <2>6, <2>7
<1>7. \A k \in 1..size : met[k - 1] = At(s, k)
  <2> TAKE k \in 1..size
  <2>1. k - 1 \in 0..size /\ (k - 1) + 1 = k
    BY <1>2
  <2>2. met[k - 1] = At(s, (k - 1) + 1)
    BY <1>6, <2>1
  <2> QED BY <2>1, <2>2
<1>8. found = 1..n
  <2>1. \A k \in 1..size : met[k - 1] # Null <=> k \in 1..n
    BY <1>1, <1>7 DEF At
  <2>2. \A k \in 1..n : k \in 1..size
    BY <1>1, <1>2
  <2> QED BY <2>1, <2>2
<1>9. Cardinality(found) = n
  <2>1. n \in Int /\ 1 \in Int
    BY <1>1
  <2> HIDE DEF found, n
  <2>2. Cardinality(1..n) = IF 1 > n THEN 0 ELSE n - 1 + 1
    BY <2>1, FS_Interval
  <2>3. (IF 1 > n THEN 0 ELSE n - 1 + 1) = n
    BY <1>1
  <2> QED BY <1>8, <2>2, <2>3
<1>10. Chain(next, At(s, 1)) = [k \in 1..Cardinality(found) |-> met[k - 1]]
  BY DEF Chain, met, step, size
<1>11. \A k \in 1..n : met[k - 1] = s[k]
  BY <1>1, <1>2, <1>7 DEF At
<1>12. [k \in 1..n |-> met[k - 1]] = [k \in 1..n |-> s[k]]
  BY <1>11
<1>13. s = [k \in 1..n |-> s[k]]
  BY <1>1, LenProperties
<1> QED BY <1>9, <1>10, <1>12, <1>13
-----------------------------------------------------------------------------
(* Links *)

\* Links that no timer of s has are of no importance.
LEMMA SameLinks ==
    ASSUME NEW s, NEW C, Holds(s, C), NEW next, NEW prev, NEW next2, NEW prev2,
           Linking(next, prev, s), \A t \in C : next2[t] = next[t] /\ prev2[t] = prev[t]
    PROVE  Linking(next2, prev2, s)
<1>1. \A i \in 1..Len(s) : s[i] \in C
  BY HoldsIs
<1> QED BY <1>1 DEF Linking

\* The links when t was put between the (k-1)-th and the k-th timer of s.
LinkedIn(next, prev, next2, prev2, s, k, t) ==
    \A x \in Timer :
      /\ next2[x] = IF x = t THEN At(s, k) ELSE IF x = At(s, k - 1) THEN t ELSE next[x]
      /\ prev2[x] = IF x = t THEN At(s, k - 1) ELSE IF x = At(s, k) THEN t ELSE prev[x]

\* They lead along the longer sequence.
LEMMA LinkIn ==
    ASSUME NEW s, NEW C, Holds(s, C), NEW t \in Timer \ C, NEW k \in 1..(Len(s) + 1),
           NEW next, NEW prev, NEW next2, NEW prev2,
           Linking(next, prev, s), LinkedIn(next, prev, next2, prev2, s, k, t)
    PROVE  Linking(next2, prev2, With(s, k, t))
<1> DEFINE n == Len(s)
           w == With(s, k, t)
<1>1. /\ n \in Nat /\ C \subseteq Timer /\ Null \notin C
      /\ \A i \in 1..n : s[i] \in C /\ s[i] \in Timer /\ s[i] # t
      /\ \A i, j \in 1..n : s[i] = s[j] => i = j
  BY HoldsIs
<1>2. Len(w) = n + 1 /\ \A i \in 1..(n + 1) : w[i] = IF i < k THEN s[i] ELSE IF i = k THEN t ELSE s[i - 1]
  <2>1. t \in Timer \ C /\ k \in 1..(Len(s) + 1)
    OBVIOUS
  <2>2. Len(With(s, k, t)) = Len(s) + 1
    BY <2>1, WithIs
  <2>3. \A i \in 1..(Len(s) + 1) :
          With(s, k, t)[i] = IF i < k THEN s[i] ELSE IF i = k THEN t ELSE s[i - 1]
    BY DEF With
  <2> QED BY <2>2, <2>3
<1>3. \A i \in 1..n : next[s[i]] = At(s, i + 1) /\ prev[s[i]] = At(s, i - 1)
  BY DEF Linking
<1>4. \A j \in Int : \A i \in 1..n : s[i] = At(s, j) <=> i = j
  <2> TAKE j \in Int
  <2> TAKE i \in 1..n
  <2>1. CASE j \in 1..n
    BY <1>1, <2>1 DEF At
  <2>2. CASE j \notin 1..n
    BY <1>1, <2>2, TimerAssumption DEF At
  <2> QED BY <2>1, <2>2
<1>5. \A x \in Timer :
      /\ next2[x] = IF x = t THEN At(s, k) ELSE IF x = At(s, k - 1) THEN t ELSE next[x]
      /\ prev2[x] = IF x = t THEN At(s, k - 1) ELSE IF x = At(s, k) THEN t ELSE prev[x]
  BY DEF LinkedIn
<1>6. /\ next2[t] = At(s, k) /\ prev2[t] = At(s, k - 1)
      /\ \A i \in 1..n : /\ next2[s[i]] = IF i = k - 1 THEN t ELSE At(s, i + 1)
                         /\ prev2[s[i]] = IF i = k THEN t ELSE At(s, i - 1)
  <2>1. next2[t] = At(s, k) /\ prev2[t] = At(s, k - 1)
    BY <1>5
  <2>2. ASSUME NEW i \in 1..n
        PROVE  /\ next2[s[i]] = IF i = k - 1 THEN t ELSE At(s, i + 1)
               /\ prev2[s[i]] = IF i = k THEN t ELSE At(s, i - 1)
    <3>1. s[i] \in Timer /\ s[i] # t
      BY <1>1
    <3>2. s[i] = At(s, k - 1) <=> i = k - 1
      BY <1>4
    <3>3. s[i] = At(s, k) <=> i = k
      BY <1>4
    <3>4. next[s[i]] = At(s, i + 1) /\ prev[s[i]] = At(s, i - 1)
      BY <1>3
    <3> QED BY <1>5, <3>1, <3>2, <3>3, <3>4
  <2> QED BY <2>1, <2>2
<1> HIDE DEF w
<1>7. \A j \in Int : At(w, j) = IF j < k THEN At(s, j) ELSE IF j = k THEN t ELSE At(s, j - 1)
  <2> TAKE j \in Int
  <2>1. CASE j \in 1..(n + 1)
    <3>1. At(w, j) = w[j]
      BY <1>2, <2>1 DEF At
    <3>2. j < k => j \in 1..n
      BY <1>1, <2>1
    <3>3. ~(j < k) /\ j # k => j - 1 \in 1..n
      BY <1>1, <2>1
    <3> QED BY <1>2, <2>1, <3>1, <3>2, <3>3 DEF At
  <2>2. CASE j \notin 1..(n + 1)
    <3>1. At(w, j) = Null
      BY <1>2, <2>2 DEF At
    <3>2. j # k /\ (j < k => j \notin 1..n) /\ (~(j < k) => j - 1 \notin 1..n)
      BY <1>1, <2>2
    <3> QED BY <3>1, <3>2 DEF At
  <2> QED BY <2>1, <2>2
<1>8. ASSUME NEW i \in 1..(n + 1)
      PROVE  next2[w[i]] = At(w, i + 1) /\ prev2[w[i]] = At(w, i - 1)
  <2>1. /\ At(w, i + 1) = IF i + 1 < k THEN At(s, i + 1) ELSE IF i + 1 = k THEN t ELSE At(s, i)
        /\ At(w, i - 1) = IF i - 1 < k THEN At(s, i - 1) ELSE IF i - 1 = k THEN t ELSE At(s, i - 2)
    <3>1. i + 1 \in Int /\ i - 1 \in Int /\ (i + 1) - 1 = i /\ (i - 1) - 1 = i - 2
      OBVIOUS
    <3>2. At(w, i + 1) = IF i + 1 < k THEN At(s, i + 1) ELSE IF i + 1 = k THEN t ELSE At(s, (i + 1) - 1)
      BY <1>7, <3>1
    <3>3. At(w, i - 1) = IF i - 1 < k THEN At(s, i - 1) ELSE IF i - 1 = k THEN t ELSE At(s, (i - 1) - 1)
      BY <1>7, <3>1
    <3> QED BY <3>1, <3>2, <3>3
  <2>2. CASE i < k
    <3>1. i \in 1..n /\ w[i] = s[i] /\ i # k /\ i - 1 < k /\ (i + 1 < k <=> i # k - 1)
          /\ (i + 1 = k <=> i = k - 1)
      BY <1>1, <1>2, <2>2
    <3> QED BY <1>6, <2>1, <3>1
  <2>3. CASE i = k
    <3>1. w[i] = t /\ ~(i + 1 < k) /\ i + 1 # k /\ i - 1 < k
      BY <1>2, <2>3
    <3> QED BY <1>6, <2>1, <2>3, <3>1
  <2>4. CASE i > k
    <3> DEFINE j == i - 1
    <3>1. /\ j \in 1..n /\ w[i] = s[j] /\ j # k - 1 /\ ~(i + 1 < k) /\ i + 1 # k
          /\ j + 1 = i /\ j - 1 = i - 2 /\ ~(i - 1 < k) /\ (j = k <=> i - 1 = k)
      BY <1>1, <1>2, <2>4
    <3> HIDE DEF j
    <3> QED BY <1>6, <2>1, <3>1
  <2> QED BY <1>1, <2>2, <2>3, <2>4
<1> QED BY <1>2, <1>8 DEF Linking, w


\* The links when the k-th timer was taken out of s.
LinkedOut(next, prev, next2, prev2, s, k, C) ==
    \A x \in C \ {s[k]} :
      /\ next2[x] = IF x = At(s, k - 1) THEN At(s, k + 1) ELSE next[x]
      /\ prev2[x] = IF x = At(s, k + 1) THEN At(s, k - 1) ELSE prev[x]

\* They lead along the shorter sequence.
LEMMA LinkOut ==
    ASSUME NEW s, NEW C, Holds(s, C), NEW k \in 1..Len(s),
           NEW next, NEW prev, NEW next2, NEW prev2,
           Linking(next, prev, s), LinkedOut(next, prev, next2, prev2, s, k, C)
    PROVE  Linking(next2, prev2, Without(s, k))
<1> DEFINE n == Len(s)
           w == Without(s, k)
<1>1. /\ n \in Nat /\ C \subseteq Timer /\ Null \notin C
      /\ \A i \in 1..n : s[i] \in C
      /\ \A i, j \in 1..n : s[i] = s[j] => i = j
  BY HoldsIs
<1>2. Len(w) = n - 1 /\ \A i \in 1..(n - 1) : w[i] = IF i < k THEN s[i] ELSE s[i + 1]
  <2>1. Len(w) = n - 1
    BY WithoutIs
  <2>2. \A i \in 1..(n - 1) : w[i] = IF i < k THEN s[i] ELSE s[i + 1]
    BY DEF Without
  <2> QED BY <2>1, <2>2
<1>3. \A i \in 1..n : next[s[i]] = At(s, i + 1) /\ prev[s[i]] = At(s, i - 1)
  BY DEF Linking
<1>4. \A j \in Int : \A i \in 1..n : s[i] = At(s, j) <=> i = j
  <2> TAKE j \in Int
  <2> TAKE i \in 1..n
  <2>1. CASE j \in 1..n
    BY <1>1, <2>1 DEF At
  <2>2. CASE j \notin 1..n
    BY <1>1, <2>2 DEF At
  <2> QED BY <2>1, <2>2
<1>5. \A x \in C \ {s[k]} :
      /\ next2[x] = IF x = At(s, k - 1) THEN At(s, k + 1) ELSE next[x]
      /\ prev2[x] = IF x = At(s, k + 1) THEN At(s, k - 1) ELSE prev[x]
  BY DEF LinkedOut
<1>6. \A i \in 1..n : i # k =>
        /\ next2[s[i]] = IF i = k - 1 THEN At(s, k + 1) ELSE At(s, i + 1)
        /\ prev2[s[i]] = IF i = k + 1 THEN At(s, k - 1) ELSE At(s, i - 1)
  <2> TAKE i \in 1..n
  <2> HAVE i # k
  <2>1. s[i] \in C \ {s[k]}
    BY <1>1
  <2>2. k - 1 \in Int /\ k + 1 \in Int
    OBVIOUS
  <2>3. s[i] = At(s, k - 1) <=> i = k - 1
    BY <1>4, <2>2
  <2>4. s[i] = At(s, k + 1) <=> i = k + 1
    BY <1>4, <2>2
  <2>5. next[s[i]] = At(s, i + 1) /\ prev[s[i]] = At(s, i - 1)
    BY <1>3
  <2> QED BY <1>5, <2>1, <2>3, <2>4, <2>5
<1> HIDE DEF w
<1>7. \A j \in Int : At(w, j) = IF j < k THEN At(s, j) ELSE At(s, j + 1)
  <2> TAKE j \in Int
  <2>1. CASE j \in 1..(n - 1)
    <3>1. At(w, j) = w[j]
      BY <1>2, <2>1 DEF At
    <3>2. j \in 1..n /\ j + 1 \in 1..n
      BY <1>1, <2>1
    <3> QED BY <1>2, <2>1, <3>1, <3>2 DEF At
  <2>2. CASE j \notin 1..(n - 1)
    <3>1. At(w, j) = Null
      BY <1>2, <2>2 DEF At
    <3>2. (j < k => j \notin 1..n) /\ (~(j < k) => j + 1 \notin 1..n)
      BY <1>1, <2>2
    <3> QED BY <3>1, <3>2 DEF At
  <2> QED BY <2>1, <2>2
<1>8. ASSUME NEW i \in 1..(n - 1)
      PROVE  next2[w[i]] = At(w, i + 1) /\ prev2[w[i]] = At(w, i - 1)
  <2>1. /\ At(w, i + 1) = IF i + 1 < k THEN At(s, i + 1) ELSE At(s, i + 2)
        /\ At(w, i - 1) = IF i - 1 < k THEN At(s, i - 1) ELSE At(s, i)
    <3>1. i + 1 \in Int /\ i - 1 \in Int /\ (i + 1) + 1 = i + 2 /\ (i - 1) + 1 = i
      OBVIOUS
    <3>2. At(w, i + 1) = IF i + 1 < k THEN At(s, i + 1) ELSE At(s, (i + 1) + 1)
      BY <1>7, <3>1
    <3>3. At(w, i - 1) = IF i - 1 < k THEN At(s, i - 1) ELSE At(s, (i - 1) + 1)
      BY <1>7, <3>1
    <3> QED BY <3>1, <3>2, <3>3
  <2>2. CASE i < k
    <3>1. /\ i \in 1..n /\ w[i] = s[i] /\ i # k /\ i - 1 < k /\ i # k + 1
          /\ (i + 1 < k <=> i # k - 1) /\ (i = k - 1 => i + 2 = k + 1)
      BY <1>1, <1>2, <2>2
    <3> QED BY <1>6, <2>1, <3>1
  <2>3. CASE ~(i < k)
    <3> DEFINE j == i + 1
    <3>1. /\ j \in 1..n /\ w[i] = s[j] /\ j # k /\ j # k - 1 /\ ~(i + 1 < k)
          /\ j + 1 = i + 2 /\ j - 1 = i /\ (i - 1 < k <=> j = k + 1)
          /\ (j = k + 1 => k - 1 = i - 1)
      BY <1>1, <1>2, <2>3
    <3> HIDE DEF j
    <3> QED BY <1>6, <2>1, <3>1
  <2> QED BY <2>2, <2>3
<1> QED BY <1>2, <1>8 DEF Linking, w
-----------------------------------------------------------------------------
(* The list *)

\* No timer of s expires before an earlier one.
Sorted(s, e) == \A i, j \in 1..Len(s) : i <= j => e[s[i]] <= e[s[j]]

ListBox == [head : Timer \cup {Null}, tail : Timer \cup {Null}, next : Links, prev : Links]

\* Container b holds the timers of s, those in C; the ones in D have no links.
\* The tail of an empty list may be stale: add_timer writes it before it is read.
ListOf(b, s, C, D) ==
    /\ b \in ListBox /\ Holds(s, C)
    /\ b.head = At(s, 1) /\ (s # <<>> => b.tail = At(s, Len(s)))
    /\ Linking(b.next, b.prev, s)
    /\ D \cap C = {} /\ \A x \in D : b.next[x] = Null /\ b.prev[x] = Null

\* What a container with a list looks like from its ends.
LEMMA ListIs ==
    ASSUME NEW b, NEW s, NEW C, NEW D, ListOf(b, s, C, D)
    PROVE  /\ Chain(b.next, b.head) = s
           /\ b.head = Null <=> s = <<>>
           /\ s # <<>> => Len(s) \in 1..Len(s) /\ 1 \in 1..Len(s)
                          /\ b.head = s[1] /\ b.tail = s[Len(s)]
           /\ \A i \in 1..Len(s) : b.next[s[i]] = At(s, i + 1) /\ b.prev[s[i]] = At(s, i - 1)
           /\ \A i \in 1..Len(s) : (s[i] = b.head <=> i = 1) /\ (s[i] = b.tail <=> i = Len(s))
<1> USE DEF ListOf
<1>1. /\ Len(s) \in Nat /\ s \in Seq(Timer) /\ Null \notin C
      /\ \A i \in 1..Len(s) : s[i] \in C
      /\ \A i, j \in 1..Len(s) : s[i] = s[j] => i = j
  BY HoldsIs
<1>2. \A i \in 1..Len(s) : b.next[s[i]] = At(s, i + 1) /\ b.prev[s[i]] = At(s, i - 1)
  BY DEF Linking
<1>3. Chain(b.next, At(s, 1)) = s
  <2>1. Holds(s, C) /\ \A i \in 1..Len(s) : b.next[s[i]] = At(s, i + 1)
    BY <1>2
  <2> QED BY <2>1, ChainIs
<1>4. s # <<>> => Len(s) \in 1..Len(s) /\ 1 \in 1..Len(s)
  BY <1>1, EmptySeq
<1>5. s # <<>> => b.head = s[1] /\ b.tail = s[Len(s)]
  BY <1>4 DEF At
<1>6. b.head = Null <=> s = <<>>
  <2>1. s = <<>> => 1 \notin 1..Len(s)
    BY <1>1
  <2> QED BY <1>1, <1>4, <1>5, <2>1 DEF At
<1>7. \A i \in 1..Len(s) : s # <<>>
  BY <1>1
<1>8. \A i \in 1..Len(s) : (s[i] = b.head <=> i = 1) /\ (s[i] = b.tail <=> i = Len(s))
  BY <1>1, <1>4, <1>5, <1>7
<1> QED BY <1>2, <1>3, <1>4, <1>5, <1>6, <1>8

\* The first timer of a sorted sequence is the earliest.
LEMMA SortedFirst ==
    ASSUME NEW s, NEW C, NEW e, Holds(s, C), Sorted(s, e)
    PROVE  \A t \in C : e[s[1]] <= e[t]
<1> TAKE t \in C
<1>1. PICK i \in 1..Len(s) : s[i] = t
  BY HoldsIs
<1>2. 1 \in 1..Len(s) /\ 1 <= i
  BY HoldsIs
<1> QED BY <1>1, <1>2 DEF Sorted

\* A timer between those that expire no later and those that expire no earlier.
LEMMA SortedIn ==
    ASSUME NEW s, NEW C, Holds(s, C), NEW t \in Timer \ C, NEW k \in 1..(Len(s) + 1),
           NEW e \in [Timer -> Int], Sorted(s, e),
           k > 1 => e[s[k - 1]] <= e[t], k <= Len(s) => e[t] <= e[s[k]]
    PROVE  Sorted(With(s, k, t), e)
<1> DEFINE n == Len(s)
           w == With(s, k, t)
           key(i) == e[s[i]]
<1>1. n \in Nat /\ e[t] \in Int /\ \A i \in 1..n : key(i) \in Int
  BY HoldsIs
<1>2. \A i, j \in 1..n : i <= j => key(i) <= key(j)
  BY DEF Sorted
<1>3. Len(w) = n + 1 /\ \A i \in 1..(n + 1) : w[i] = IF i < k THEN s[i] ELSE IF i = k THEN t ELSE s[i - 1]
  <2>1. t \in Timer \ C /\ k \in 1..(Len(s) + 1)
    OBVIOUS
  <2>2. Len(w) = n + 1
    BY <2>1, WithIs
  <2>3. \A i \in 1..(n + 1) : w[i] = IF i < k THEN s[i] ELSE IF i = k THEN t ELSE s[i - 1]
    BY DEF With
  <2> QED BY <2>2, <2>3
<1>4. /\ \A i \in 1..n : i < k => key(i) <= e[t]
      /\ \A i \in 1..n : i >= k => e[t] <= key(i)
  <2>1. ASSUME NEW i \in 1..n, i < k PROVE key(i) <= e[t]
    <3>1. k - 1 \in 1..n /\ i <= k - 1 /\ key(k - 1) <= e[t]
      BY <1>1, <2>1
    <3>2. key(i) <= key(k - 1)
      BY <1>2, <3>1
    <3> QED BY <1>1, <3>1, <3>2
  <2>2. ASSUME NEW i \in 1..n, i >= k PROVE e[t] <= key(i)
    <3>1. k \in 1..n /\ e[t] <= key(k)
      BY <1>1, <2>2
    <3>2. key(k) <= key(i)
      BY <1>2, <2>2, <3>1
    <3> QED BY <1>1, <3>1, <3>2
  <2> QED BY <2>1, <2>2
<1>5. \A i \in 1..(n + 1) : e[w[i]] = IF i < k THEN key(i) ELSE IF i = k THEN e[t] ELSE key(i - 1)
  BY <1>3
<1> HIDE DEF w, key
<1>6. ASSUME NEW i \in 1..(n + 1), NEW j \in 1..(n + 1), i <= j
      PROVE  e[w[i]] <= e[w[j]]
  <2>1. CASE i < k /\ j < k
    <3>1. i \in 1..n /\ j \in 1..n
      BY <1>1, <2>1
    <3> QED BY <1>2, <1>5, <1>6, <2>1, <3>1
  <2>2. CASE i < k /\ j = k
    <3>1. i \in 1..n
      BY <1>1, <2>2
    <3> QED BY <1>4, <1>5, <2>2, <3>1
  <2>3. CASE i < k /\ j > k
    <3>1. i \in 1..n /\ j - 1 \in 1..n /\ i <= j - 1 /\ ~(j < k) /\ j # k
      BY <1>1, <2>3
    <3> QED BY <1>2, <1>5, <2>3, <3>1
  <2>4. CASE i = k /\ j = k
    BY <1>1, <1>5, <2>4
  <2>5. CASE i = k /\ j > k
    <3>1. j - 1 \in 1..n /\ j - 1 >= k /\ ~(j < k) /\ j # k
      BY <1>1, <2>5
    <3> QED BY <1>4, <1>5, <2>5, <3>1
  <2>6. CASE i > k /\ j > k
    <3>1. i - 1 \in 1..n /\ j - 1 \in 1..n /\ i - 1 <= j - 1 /\ ~(j < k) /\ j # k /\ ~(i < k) /\ i # k
      BY <1>1, <1>6, <2>6
    <3> QED BY <1>2, <1>5, <3>1
  <2> QED BY <1>1, <1>6, <2>1, <2>2, <2>3, <2>4, <2>5, <2>6
<1> QED BY <1>3, <1>6 DEF Sorted, w


\* The private add_timer finds the place of t.
LEMMA InsertPlace ==
    ASSUME NEW b, NEW s, NEW C, NEW D, ListOf(b, s, C, D), s # <<>>,
           NEW e \in [Timer -> Int], NEW t \in Timer, e[s[1]] < e[t]
    PROVE  \E j \in 1..Len(s) :
              /\ InsertAfter(b, e, t) = s[j] /\ b.next[s[j]] = At(s, j + 1)
              /\ e[s[j]] <= e[t]
              /\ j + 1 <= Len(s) => e[t] <= e[s[j + 1]]
<1> DEFINE n == Len(s)
           Ends(i) == b.next[s[i]] = Null \/ e[b.next[s[i]]] >= e[t]
           First(i) == Ends(i) /\ \A k \in 1..(i - 1) : ~Ends(k)
           ends == {i \in 1..n : Ends(i)}
           j == CHOOSE i \in 1..n : First(i)
<1>1. /\ n \in Nat /\ C \subseteq Timer /\ Null \notin C
      /\ \A i \in 1..n : s[i] \in C /\ s[i] \in Timer /\ e[s[i]] \in Int
  BY HoldsIs DEF ListOf
<1>2. /\ Chain(b.next, b.head) = s /\ n \in 1..n /\ 1 \in 1..n
      /\ \A i \in 1..n : b.next[s[i]] = At(s, i + 1)
  BY ListIs
<1>3. DOMAIN s = 1..n
  BY HoldsIs, LenProperties DEF ListOf
<1>4. InsertAfter(b, e, t) = s[j]
  BY <1>2, <1>3 DEF InsertAfter
<1>5. n \in ends
  <2>1. n + 1 \notin 1..n
    BY <1>1
  <2> QED BY <1>2, <2>1 DEF At
<1>6. \E i \in 1..n : First(i)
  <2>1. ends \subseteq Nat /\ ends \subseteq 1..n
    OBVIOUS
  <2>2. PICK i \in ends : \A k \in ends : i <= k
    <3> HIDE DEF ends
    <3> QED BY <1>5, <2>1, Least
  <2>3. \A k \in 1..(i - 1) : k \in 1..n /\ ~(i <= k)
    BY <1>1, <2>1
  <2>4. \A k \in 1..(i - 1) : ~Ends(k)
    <3> TAKE k \in 1..(i - 1)
    <3>1. k \in 1..n /\ k \notin ends
      BY <2>2, <2>3
    <3> QED BY <3>1
  <2> QED BY <2>4
<1>7. j \in 1..n /\ First(j)
  <2> HIDE DEF First
  <2> QED BY <1>6
<1> HIDE DEF j
<1>8. e[s[j]] <= e[t]
  <2>1. CASE j = 1
    BY <1>1, <1>2, <2>1
  <2>2. CASE j # 1
    <3>1. j - 1 \in 1..n /\ j - 1 \in 1..(j - 1) /\ (j - 1) + 1 = j
      BY <1>1, <1>7, <2>2
    <3>2. b.next[s[j - 1]] = s[j]
      BY <1>2, <1>7, <3>1 DEF At
    <3>3. ~(e[s[j]] >= e[t])
      BY <1>7, <3>1, <3>2
    <3> QED BY <1>1, <1>7, <3>3
  <2> QED BY <2>1, <2>2
<1>9. ASSUME j + 1 <= n PROVE e[t] <= e[s[j + 1]]
  <2>1. j + 1 \in 1..n
    BY <1>1, <1>7, <1>9
  <2>2. b.next[s[j]] = s[j + 1] /\ s[j + 1] # Null
    BY <1>1, <1>2, <1>7, <2>1 DEF At
  <2>3. e[s[j + 1]] >= e[t]
    BY <1>7, <2>2
  <2> QED BY <1>1, <2>1, <2>3
<1> QED BY <1>2, <1>4, <1>7, <1>8, <1>9

\* A timer with no links is put into place k of the list, whose fields become
\* those of c.
LEMMA PutIn ==
    ASSUME NEW b, NEW s, NEW C, NEW D, ListOf(b, s, C, D), NEW t \in D, NEW c \in ListBox,
           NEW k \in 1..(Len(s) + 1), D \subseteq Timer,
           LinkedIn(b.next, b.prev, c.next, c.prev, s, k, t),
           c.head = IF k = 1 THEN t ELSE b.head,
           c.tail = IF k = Len(s) + 1 THEN t ELSE b.tail
    PROVE  ListOf(c, With(s, k, t), C \cup {t}, D \ {t})
<1> DEFINE n == Len(s)
           w == With(s, k, t)
<1>1. /\ n \in Nat /\ C \subseteq Timer /\ Null \notin C /\ t \in Timer \ C /\ Holds(s, C)
      /\ \A i \in 1..n : s[i] \in C
  BY HoldsIs DEF ListOf
<1>2. Holds(w, C \cup {t}) /\ Len(w) = n + 1
  <2>1. t \in Timer \ C /\ k \in 1..(Len(s) + 1) /\ Holds(s, C)
    BY <1>1
  <2>2. Holds(With(s, k, t), C \cup {t})
    BY <2>1, WithIs
  <2>3. Len(With(s, k, t)) = Len(s) + 1
    BY <2>1, WithIs
  <2> QED BY <2>2, <2>3
<1>3. \A i \in 1..(n + 1) : w[i] = IF i < k THEN s[i] ELSE IF i = k THEN t ELSE s[i - 1]
  BY DEF With
<1>4. Linking(c.next, c.prev, w)
  BY <1>1, LinkIn DEF ListOf
<1>5. 1 \in 1..(n + 1) /\ n + 1 \in 1..(n + 1)
  BY <1>1
<1>6. c.head = At(w, 1)
  <2>1. At(w, 1) = w[1]
    BY <1>2, <1>5 DEF At
  <2>2. CASE k = 1
    BY <1>3, <1>5, <2>1, <2>2
  <2>3. CASE k # 1
    <3>1. 1 \in 1..n /\ 1 < k
      BY <1>1, <2>3
    <3> QED BY <1>3, <1>5, <2>1, <2>3, <3>1 DEF At, ListOf
  <2> QED BY <2>2, <2>3
<1>7. c.tail = At(w, Len(w))
  <2>1. At(w, Len(w)) = w[n + 1]
    BY <1>2, <1>5 DEF At
  <2>2. CASE k = n + 1
    BY <1>3, <1>5, <2>1, <2>2
  <2>3. CASE k # n + 1
    <3>1. n \in 1..n /\ ~(n + 1 < k) /\ (n + 1) - 1 = n
      BY <1>1, <2>3
    <3>2. w[n + 1] = s[n]
      BY <1>3, <1>5, <2>3, <3>1
    <3>3. b.tail = s[n]
      BY <3>1, ListIs, EmptySeq, <1>1, HoldsIs
    <3> QED BY <2>1, <2>3, <3>2, <3>3
  <2> QED BY <2>2, <2>3
<1>8. \A x \in D \ {t} : c.next[x] = Null /\ c.prev[x] = Null
  <2> TAKE x \in D \ {t}
  <2>1. x \in Timer /\ x \notin C /\ x # t /\ x # Null
    BY TimerAssumption DEF ListOf
  <2>2. \A j \in Int : x # At(s, j)
    BY <1>1, <2>1 DEF At
  <2>3. b.next[x] = Null /\ b.prev[x] = Null
    BY DEF ListOf
  <2>4. x # At(s, k - 1) /\ x # At(s, k)
    BY <2>2
  <2> QED BY <2>1, <2>3, <2>4 DEF LinkedIn
<1>9. (D \ {t}) \cap (C \cup {t}) = {}
  BY DEF ListOf
<1> QED BY <1>2, <1>4, <1>6, <1>7, <1>8, <1>9 DEF ListOf


\* A sorted list of the timers in C.
SortedList(b, C, D, e) == \E s : ListOf(b, s, C, D) /\ Sorted(s, e)

\* The call completes with container b; if it does not reset the alarm, the
\* container had a timer and its first one is still the same.
ListCall(r, b, C) ==
    /\ r.fault = "none" /\ r.fired = {} /\ r.rearm \in BOOLEAN
    /\ ~r.rearm => r.box.head = b.head /\ b.head \in C

\* add_timer puts a timer into the sorted list.
LEMMA ListAddIs ==
    ASSUME NEW b, NEW C, NEW D \in SUBSET Timer, NEW e \in [Timer -> Int], SortedList(b, C, D, e),
           NEW t \in D
    PROVE  /\ SortedList(ListAdd(b, e, t).box, C \cup {t}, D \ {t}, e)
           /\ ListCall(ListAdd(b, e, t), b, C)
<1>1. PICK s : ListOf(b, s, C, D) /\ Sorted(s, e)
  BY DEF SortedList
<1> DEFINE n == Len(s)
           r == ListAdd(b, e, t)
<1>2. /\ n \in Nat /\ C \subseteq Timer /\ Null \notin C /\ t \in Timer \ C /\ Holds(s, C)
      /\ \A i \in 1..n : s[i] \in C /\ s[i] \in Timer /\ e[s[i]] \in Int
      /\ e[t] \in Int /\ t \in Timer /\ t \notin C /\ t # Null
  BY <1>1, HoldsIs, TimerAssumption DEF ListOf
<1>3. b \in ListBox /\ b.head = At(s, 1) /\ b.next[t] = Null /\ b.prev[t] = Null
  BY <1>1 DEF ListOf
<1>4. /\ b.head = Null <=> s = <<>>
      /\ s # <<>> => n \in 1..n /\ 1 \in 1..n /\ b.head = s[1] /\ b.tail = s[n]
      /\ \A i \in 1..n : b.next[s[i]] = At(s, i + 1) /\ b.prev[s[i]] = At(s, i - 1)
  BY <1>1, ListIs
<1>5. b.next \in [Timer -> Timer \cup {Null}] /\ b.prev \in [Timer -> Timer \cup {Null}]
  BY <1>3 DEF ListBox, Links
<1>6. \A j \in Int : At(s, j) \in Timer \cup {Null}
  BY <1>2 DEF At
<1>7. CASE s = <<>>
  <2> DEFINE c == [b EXCEPT !.head = t, !.tail = t]
  <2>1. r = Done(c, {}, TRUE)
    BY <1>4, <1>7 DEF ListAdd
  <2>2. c \in ListBox /\ c.head = t /\ c.tail = t /\ c.next = b.next /\ c.prev = b.prev
    BY <1>2, <1>3 DEF ListBox
  <2>3. n = 0 /\ 1 \in 1..(n + 1) /\ 1 = Len(s) + 1
    BY <1>7, EmptySeq
  <2>4. At(s, 1) = Null /\ At(s, 1 - 1) = Null
    BY <2>3 DEF At
  <2> HIDE DEF c
  <2>5. LinkedIn(b.next, b.prev, c.next, c.prev, s, 1, t)
    BY <1>2, <1>3, <2>2, <2>4, TimerAssumption DEF LinkedIn
  <2>6. ListOf(c, With(s, 1, t), C \cup {t}, D \ {t})
    <3>1. c.head = (IF 1 = 1 THEN t ELSE b.head) /\ c.tail = (IF 1 = Len(s) + 1 THEN t ELSE b.tail)
      BY <2>2, <2>3
    <3> QED BY <1>1, <2>2, <2>3, <2>5, <3>1, PutIn
  <2>7. Sorted(With(s, 1, t), e)
    <3>1. ~(1 > 1) /\ ~(1 <= Len(s))
      BY <2>3
    <3> QED BY <1>1, <1>2, <2>3, <3>1, SortedIn
  <2>8. ListCall(r, b, C) /\ r.box = c
    BY <2>1 DEF Done, ListCall
  <2> QED BY <2>6, <2>7, <2>8 DEF SortedList
<1>8. CASE s # <<>> /\ e[s[1]] >= e[t]
  <2> DEFINE c == [b EXCEPT !.next[t] = b.head, !.prev[b.head] = t, !.head = t]
  <2>1. r = Done(c, {}, TRUE)
    BY <1>4, <1>8 DEF ListAdd, BeforeHead
  <2>2. n \in 1..n /\ 1 \in 1..n /\ b.head = s[1] /\ s[1] \in Timer
    BY <1>2, <1>4, <1>8
  <2>3. /\ c \in ListBox /\ c.head = t /\ c.tail = b.tail
        /\ c.next = [b.next EXCEPT ![t] = s[1]] /\ c.prev = [b.prev EXCEPT ![s[1]] = t]
    <3>1. c = [head |-> t, tail |-> b.tail, next |-> [b.next EXCEPT ![t] = s[1]],
               prev |-> [b.prev EXCEPT ![s[1]] = t]]
      <4>1. c = [head |-> t, tail |-> b.tail, next |-> [b.next EXCEPT ![t] = b.head],
                 prev |-> [b.prev EXCEPT ![b.head] = t]]
        <5> DEFINE next2 == [b.next EXCEPT ![t] = b.head]
                   c1 == [b EXCEPT !.next = next2]
                   c2 == [c1 EXCEPT !.prev = [c1.prev EXCEPT ![b.head] = t]]
        <5>1. b = [head |-> b.head, tail |-> b.tail, next |-> b.next, prev |-> b.prev]
          BY <1>3 DEF ListBox
        <5> HIDE DEF next2
        <5>2. c1 = [head |-> b.head, tail |-> b.tail, next |-> next2, prev |-> b.prev]
          BY <5>1
        <5>3. c2 = [head |-> b.head, tail |-> b.tail, next |-> next2,
                    prev |-> [b.prev EXCEPT ![b.head] = t]]
          <6> HIDE DEF c1
          <6> QED BY <5>2
        <5>4. [c2 EXCEPT !.head = t] = [head |-> t, tail |-> b.tail, next |-> next2,
                    prev |-> [b.prev EXCEPT ![b.head] = t]]
          <6> HIDE DEF c2
          <6> QED BY <5>3
        <5> QED BY <5>4 DEF next2
      <4> QED BY <2>2, <4>1
    <3>2. [b.next EXCEPT ![t] = s[1]] \in Links /\ [b.prev EXCEPT ![s[1]] = t] \in Links
      BY <1>2, <1>5, <2>2 DEF Links
    <3>3. b.tail \in Timer \cup {Null}
      BY <1>3 DEF ListBox
    <3> QED BY <1>2, <3>1, <3>2, <3>3 DEF ListBox
  <2>4. At(s, 1) = s[1] /\ At(s, 1 - 1) = Null
    BY <2>2 DEF At
  <2> HIDE DEF c
  <2>5. LinkedIn(b.next, b.prev, c.next, c.prev, s, 1, t)
    <3>1. s[1] # t /\ s[1] \in Timer
      BY <1>2, <2>2
    <3>2. ASSUME NEW x \in Timer
          PROVE  /\ c.next[x] = IF x = t THEN s[1] ELSE b.next[x]
                 /\ c.prev[x] = IF x = s[1] THEN t ELSE b.prev[x]
      BY <1>5, <2>3
    <3>3. \A x \in Timer : x # Null
      BY TimerAssumption
    <3> QED BY <1>3, <2>4, <3>1, <3>2, <3>3 DEF LinkedIn
  <2>6. 1 \in 1..(Len(s) + 1) /\ 1 # Len(s) + 1
    BY <1>2, <2>2
  <2>7. ListOf(c, With(s, 1, t), C \cup {t}, D \ {t})
    <3>1. c.head = (IF 1 = 1 THEN t ELSE b.head) /\ c.tail = (IF 1 = Len(s) + 1 THEN t ELSE b.tail)
      BY <2>3, <2>6
    <3> QED BY <1>1, <2>3, <2>5, <2>6, <3>1, PutIn
  <2>8. Sorted(With(s, 1, t), e)
    <3>1. ~(1 > 1) /\ e[t] <= e[s[1]]
      BY <1>2, <1>8, <2>2
    <3> QED BY <1>1, <1>2, <2>6, <3>1, SortedIn
  <2>9. ListCall(r, b, C) /\ r.box = c
    BY <2>1 DEF Done, ListCall
  <2> QED BY <2>7, <2>8, <2>9 DEF SortedList
<1>9. CASE s # <<>> /\ ~(e[s[1]] >= e[t])
  <2> DEFINE c == Insert(b, e, t)
  <2>1. r = Done(c, {}, FALSE)
    BY <1>4, <1>9 DEF ListAdd, BeforeHead
  <2>2. n \in 1..n /\ 1 \in 1..n /\ b.head = s[1] /\ s[1] \in C
    BY <1>2, <1>4, <1>9
  <2>3. PICK j \in 1..n : /\ InsertAfter(b, e, t) = s[j] /\ b.next[s[j]] = At(s, j + 1)
                          /\ e[s[j]] <= e[t]
                          /\ j + 1 <= n => e[t] <= e[s[j + 1]]
    <3>1. e[s[1]] < e[t]
      BY <1>2, <1>9, <2>2
    <3> QED BY <1>1, <1>2, <1>9, <3>1, InsertPlace
  <2> DEFINE cur == s[j]
             after == At(s, j + 1)
             k == j + 1
  <2>4. /\ cur \in Timer /\ cur # t /\ after \in Timer \cup {Null} /\ after # t /\ after # cur
        /\ k \in 1..(n + 1) /\ k - 1 = j /\ k # 1 /\ At(s, k - 1) = cur
        /\ k = n + 1 <=> after = Null
    <3>1. cur \in Timer /\ cur # t
      BY <1>2
    <3>2. j + 1 \in 1..n => s[j + 1] \in C /\ s[j + 1] # t /\ s[j + 1] # s[j]
      <4> HAVE j + 1 \in 1..n
      <4>1. j + 1 # j
        OBVIOUS
      <4>2. s[j + 1] # s[j]
        BY <1>2, <4>1, HoldsIs
      <4> QED BY <1>2, <4>2
    <3>3. /\ k \in 1..(n + 1) /\ k - 1 = j /\ k # 1 /\ j \in 1..n
          /\ k = n + 1 <=> j + 1 \notin 1..n
      BY <1>2
    <3> QED BY <1>2, <3>1, <3>2, <3>3 DEF At
  <2> HIDE DEF cur, after, k
  <2>5. c = IF after # Null
            THEN [b EXCEPT !.next = [@ EXCEPT ![t] = after, ![cur] = t],
                           !.prev = [@ EXCEPT ![after] = t, ![t] = cur]]
            ELSE [b EXCEPT !.next = [@ EXCEPT ![t] = Null, ![cur] = t],
                           !.prev[t] = cur, !.tail = t]
    <3>1. InsertAfter(b, e, t) = cur /\ b.next[cur] = after
      BY <2>3 DEF cur, after
    <3> QED BY <3>1 DEF Insert
  <2> DEFINE next2 == [b.next EXCEPT ![t] = after, ![cur] = t]
             prev2 == IF after # Null THEN [b.prev EXCEPT ![after] = t, ![t] = cur]
                      ELSE [b.prev EXCEPT ![t] = cur]
             tail2 == IF after # Null THEN b.tail ELSE t
  <2>6. c = [head |-> b.head, tail |-> tail2, next |-> next2, prev |-> prev2]
    <3>1. CASE after # Null
      BY <1>3, <2>5, <3>1 DEF ListBox
    <3>2. CASE after = Null
      BY <1>3, <2>5, <3>2 DEF ListBox
    <3> QED BY <3>1, <3>2
  <2>7. next2 \in Links /\ prev2 \in Links
    BY <1>2, <1>5, <2>4 DEF Links
  <2>8. ASSUME NEW x \in Timer
        PROVE  /\ next2[x] = IF x = t THEN after ELSE IF x = cur THEN t ELSE b.next[x]
               /\ prev2[x] = IF x = t THEN cur ELSE IF x = after THEN t ELSE b.prev[x]
    <3>1. x # Null
      BY TimerAssumption
    <3> QED BY <1>2, <1>5, <2>4, <3>1
  <2> HIDE DEF next2, prev2
  <2>9. c \in ListBox /\ c.head = b.head /\ c.tail = tail2 /\ c.next = next2 /\ c.prev = prev2
    <3>1. b.head \in Timer \cup {Null} /\ tail2 \in Timer \cup {Null}
      BY <1>2, <1>3 DEF ListBox
    <3> HIDE DEF tail2, c
    <3> QED BY <2>6, <2>7, <3>1 DEF ListBox
  <2>10. LinkedIn(b.next, b.prev, c.next, c.prev, s, k, t)
    <3>1. At(s, k) = after
      BY DEF after, k
    <3> HIDE DEF c
    <3> QED BY <2>4, <2>8, <2>9, <3>1 DEF LinkedIn
  <2>11. ListOf(c, With(s, k, t), C \cup {t}, D \ {t})
    <3>1. c.head = (IF k = 1 THEN t ELSE b.head) /\ c.tail = (IF k = Len(s) + 1 THEN t ELSE b.tail)
      <4> HIDE DEF c
      <4> QED BY <2>4, <2>9
    <3> HIDE DEF c
    <3> QED BY <1>1, <2>4, <2>9, <2>10, <3>1, PutIn
  <2>12. Sorted(With(s, k, t), e)
    <3>1. k > 1 => e[s[k - 1]] <= e[t]
      BY <2>3, <2>4
    <3>2. k <= Len(s) => e[t] <= e[s[k]]
      BY <2>3 DEF k
    <3> QED BY <1>1, <1>2, <2>4, <3>1, <3>2, SortedIn
  <2>13. ListCall(r, b, C) /\ r.box = c
    <3>1. c.head = b.head /\ b.head \in C
      BY <2>2, <2>9
    <3> HIDE DEF c
    <3> QED BY <2>1, <3>1 DEF Done, ListCall
  <2> QED BY <2>11, <2>12, <2>13 DEF SortedList
<1> QED BY <1>7, <1>8, <1>9


\* adjust_timer leaves a timer between its neighbours where it is.
LEMMA ListAdjustIs ==
    ASSUME NEW b, NEW C, NEW D, NEW e \in [Timer -> Int], NEW f \in [Timer -> Int],
           SortedList(b, C, D, e), NEW t \in C,
           \A u \in C \ {t} : f[u] = e[u], b.prev[t] # Null => e[b.prev[t]] <= f[t],
           b.next[t] # Null => f[t] <= e[b.next[t]]
    PROVE  SortedList(b, C, D, f) /\ ListAdjust(b, C, f, t) = Done(b, {}, FALSE)
<1>1. PICK s : ListOf(b, s, C, D) /\ Sorted(s, e)
  BY DEF SortedList
<1> DEFINE n == Len(s)
<1>2. /\ n \in Nat /\ C \subseteq Timer /\ Null \notin C
      /\ \A i \in 1..n : s[i] \in C /\ s[i] \in Timer
      /\ \A i, j \in 1..n : s[i] = s[j] => i = j
      /\ \E i \in 1..n : s[i] = t
  BY <1>1, HoldsIs DEF ListOf
<1>3. PICK k \in 1..n : s[k] = t
  BY <1>2
<1>4. b.next[t] = At(s, k + 1) /\ b.prev[t] = At(s, k - 1)
  BY <1>1, <1>3, ListIs
<1>5. \A i, j \in 1..n : i <= j => e[s[i]] <= e[s[j]]
  BY <1>1 DEF Sorted
<1>6. \A i \in 1..n : i # k => f[s[i]] = e[s[i]]
  BY <1>2, <1>3
<1>7. \A u \in C : e[u] \in Int /\ f[u] \in Int
  BY <1>2
<1>8. ASSUME NEW i \in 1..n, NEW j \in 1..n, i <= j PROVE f[s[i]] <= f[s[j]]
  <2>1. CASE i = j
    BY <1>2, <1>7, <2>1
  <2>2. CASE i # k /\ j # k
    BY <1>5, <1>6, <1>8, <2>2
  <2>3. CASE i # k /\ j = k
    <3>1. k - 1 \in 1..n /\ i <= k - 1
      BY <1>2, <1>8, <2>3
    <3>2. b.prev[t] = s[k - 1] /\ s[k - 1] # Null /\ s[k - 1] \in C
      BY <1>2, <1>4, <3>1 DEF At
    <3>3. e[s[i]] <= e[s[k - 1]] /\ e[s[k - 1]] <= f[t] /\ f[s[i]] = e[s[i]] /\ s[i] \in C
      BY <1>2, <1>5, <1>6, <2>3, <3>1, <3>2
    <3> QED BY <1>3, <1>7, <2>3, <3>2, <3>3
  <2>4. CASE i = k /\ j # k
    <3>1. k + 1 \in 1..n /\ k + 1 <= j
      BY <1>2, <1>8, <2>4
    <3>2. b.next[t] = s[k + 1] /\ s[k + 1] # Null /\ s[k + 1] \in C
      BY <1>2, <1>4, <3>1 DEF At
    <3>3. f[t] <= e[s[k + 1]] /\ e[s[k + 1]] <= e[s[j]] /\ f[s[j]] = e[s[j]] /\ s[j] \in C
      BY <1>2, <1>5, <1>6, <2>4, <3>1, <3>2
    <3> QED BY <1>3, <1>7, <2>4, <3>2, <3>3
  <2> QED BY <2>1, <2>2, <2>3, <2>4
<1>9. SortedList(b, C, D, f)
  BY <1>1, <1>8 DEF SortedList, Sorted
<1>10. /\ b.prev[t] \in C \cup {Null}
       /\ b.prev[t] = Null \/ f[t] >= f[b.prev[t]]
  <2>1. CASE k = 1
    <3>1. k - 1 \notin 1..n
      BY <2>1
    <3> QED BY <1>4, <3>1 DEF At
  <2>2. CASE k # 1
    <3>1. k - 1 \in 1..n /\ k - 1 <= k
      BY <1>2, <2>2
    <3>2. b.prev[t] = s[k - 1] /\ s[k - 1] \in C
      BY <1>2, <1>4, <3>1 DEF At
    <3>3. f[s[k - 1]] <= f[s[k]]
      BY <1>8, <3>1
    <3> QED BY <1>3, <1>7, <3>2, <3>3
  <2> QED BY <2>1, <2>2
<1>11. ListAdjust(b, C, f, t) = Done(b, {}, FALSE)
  BY <1>10 DEF ListAdjust, LeftInPlace
<1> QED BY <1>9, <1>11

\* Where the places of a sequence of n are.
LEMMA Places ==
    ASSUME NEW n \in Nat, NEW k \in 1..n
    PROVE  /\ n - 1 # 0 <=> n # 1
           /\ 1 \in 1..n /\ n \in 1..n /\ n - 1 \in Nat /\ (n - 1) + 1 = n
           /\ 1 < k <=> k # 1
           /\ k # n => ~(n - 1 < k)
           /\ n # 1 => 1 \in 1..(n - 1) /\ 2 \in 1..n /\ n - 1 \in 1..(n - 1)
           /\ n = 1 => k = 1 /\ 1 \notin 1..(n - 1) /\ 2 \notin 1..n
OBVIOUS

\* The k-th timer is taken out of the list, whose fields become those of c.
LEMMA TakeOut ==
    ASSUME NEW b, NEW s, NEW C, NEW D, ListOf(b, s, C, D), NEW c \in ListBox,
           NEW k \in 1..Len(s), k = Len(s) => k = 1,
           LinkedOut(b.next, b.prev, c.next, c.prev, s, k, C),
           \A x \in D : c.next[x] = b.next[x] /\ c.prev[x] = b.prev[x],
           c.head = IF k = 1 THEN At(s, 2) ELSE b.head,
           k # Len(s) => c.tail = b.tail
    PROVE  ListOf(c, Without(s, k), C \ {s[k]}, D)
<1> DEFINE n == Len(s)
           w == Without(s, k)
<1>1. n \in Nat /\ Holds(s, C)
  BY HoldsIs DEF ListOf
<1>2. Holds(w, C \ {s[k]}) /\ Len(w) = n - 1
  BY <1>1, WithoutIs
<1>3. \A i \in 1..(n - 1) : w[i] = IF i < k THEN s[i] ELSE s[i + 1]
  BY DEF Without
<1>4. Linking(c.next, c.prev, w)
  BY <1>1, LinkOut DEF ListOf
<1>5. c.head = At(w, 1)
  <2>1. CASE n = 1
    <3>1. k = 1 /\ 1 \notin 1..(n - 1) /\ 2 \notin 1..n
      BY <1>1, <2>1, Places
    <3> QED BY <1>2, <3>1 DEF At
  <2>2. CASE n # 1
    <3>1. 1 \in 1..(n - 1) /\ 1 \in 1..n /\ 2 \in 1..n /\ (1 < k <=> k # 1)
      BY <1>1, <2>2, Places
    <3>2. At(w, 1) = w[1] /\ w[1] = IF 1 < k THEN s[1] ELSE s[1 + 1]
      BY <1>2, <1>3, <3>1 DEF At
    <3>3. b.head = s[1] /\ At(s, 2) = s[2]
      BY <3>1 DEF ListOf, At
    <3>4. 1 + 1 = 2
      OBVIOUS
    <3> QED BY <3>1, <3>2, <3>3, <3>4
  <2> QED BY <2>1, <2>2
<1>6. ASSUME w # <<>> PROVE c.tail = At(w, Len(w))
  <2>1. n - 1 # 0
    <3>1. w \in Seq(Timer)
      BY <1>2 DEF Holds
    <3> QED BY <1>2, <1>6, <3>1, EmptySeq
  <2>2. k # n /\ n # 1
    <3>1. n # 1
      BY <1>1, <2>1, Places
    <3> QED BY <3>1
  <2>3. n - 1 \in 1..(n - 1) /\ n \in 1..n /\ (n - 1) + 1 = n /\ ~(n - 1 < k)
    BY <1>1, <2>2, Places
  <2>4. At(w, Len(w)) = s[n]
    BY <1>2, <1>3, <2>3 DEF At
  <2>5. s # <<>>
    BY <1>1, EmptySeq, HoldsIs
  <2>6. b.tail = s[n]
    BY <2>3, <2>5 DEF ListOf, At
  <2> QED BY <2>2, <2>4, <2>6
<1>7. D \cap (C \ {s[k]}) = {} /\ \A x \in D : c.next[x] = Null /\ c.prev[x] = Null
  BY DEF ListOf
<1> QED BY <1>2, <1>4, <1>5, <1>6, <1>7 DEF ListOf

\* A sorted sequence is sorted without one of its timers, and from a place on.
LEMMA SortedOut ==
    ASSUME NEW s, NEW C, Holds(s, C), NEW e, Sorted(s, e)
    PROVE  /\ \A k \in 1..Len(s) : Sorted(Without(s, k), e)
           /\ \A k \in 0..Len(s) : Sorted(From(s, k), e)
<1> DEFINE n == Len(s)
<1>1. n \in Nat /\ \A i, j \in 1..n : i <= j => e[s[i]] <= e[s[j]]
  BY HoldsIs DEF Sorted
<1>2. ASSUME NEW k \in 1..n PROVE Sorted(Without(s, k), e)
  <2> DEFINE w == Without(s, k)
             at(i) == IF i < k THEN i ELSE i + 1
  <2>1. Len(w) = n - 1
    BY WithoutIs
  <2>2. \A i \in 1..(n - 1) : w[i] = s[at(i)] /\ at(i) \in 1..n
    BY <1>1 DEF Without
  <2>3. \A i, j \in 1..(n - 1) : i <= j => at(i) <= at(j)
    BY <1>1
  <2> HIDE DEF w, at
  <2>4. \A i, j \in 1..(n - 1) : i <= j => e[w[i]] <= e[w[j]]
    BY <1>1, <2>2, <2>3
  <2> QED BY <2>1, <2>4 DEF Sorted, w
<1>3. ASSUME NEW k \in 0..n PROVE Sorted(From(s, k), e)
  <2> DEFINE w == From(s, k)
  <2>1. Len(w) = n - k
    BY FromIs
  <2>2. \A i \in 1..(n - k) : w[i] = s[i + k] /\ i + k \in 1..n
    BY <1>1 DEF From
  <2>3. \A i, j \in 1..(n - k) : i <= j => i + k <= j + k
    BY <1>1
  <2> HIDE DEF w
  <2>4. \A i, j \in 1..(n - k) : i <= j => e[w[i]] <= e[w[j]]
    BY <1>1, <2>2, <2>3
  <2> QED BY <2>1, <2>4 DEF Sorted, w
<1> QED BY <1>2, <1>3

\* del_timer takes a timer out of the list, except the last of several.
LEMMA ListDelIs ==
    ASSUME NEW b, NEW C, NEW D, NEW e, SortedList(b, C, D, e), D \subseteq Timer,
           NEW t \in C, t = b.tail => t = b.head
    PROVE  /\ SortedList(ListDel(b, C, t).box, C \ {t}, D, e)
           /\ ListCall(ListDel(b, C, t), b, C \ {t})
<1>1. PICK s : ListOf(b, s, C, D) /\ Sorted(s, e)
  BY DEF SortedList
<1> DEFINE n == Len(s)
           c == Unlink(b, t)
<1>2. /\ n \in Nat /\ C \subseteq Timer /\ Null \notin C /\ Holds(s, C) /\ t \in Timer
      /\ \A i \in 1..n : s[i] \in C
      /\ \A i, j \in 1..n : s[i] = s[j] => i = j
      /\ \E i \in 1..n : s[i] = t
  BY <1>1, HoldsIs DEF ListOf
<1>3. PICK k \in 1..n : s[k] = t
  BY <1>2
<1> DEFINE p == At(s, k - 1)
           q == At(s, k + 1)
<1>4. /\ b.prev[t] = p /\ b.next[t] = q
      /\ t = b.head <=> k = 1
      /\ t = b.tail <=> k = n
      /\ 1 \in 1..n /\ b.head = s[1]
  <2>1. s # <<>>
    BY <1>2, <1>3, EmptySeq, HoldsIs
  <2> QED BY <1>1, <1>3, <2>1, ListIs
<1>5. /\ k # 1 => p \in C /\ p = s[k - 1]
      /\ k # n => q \in C /\ q = s[k + 1]
      /\ k = 1 => p = Null
      /\ k = n => q = Null
      /\ k = n => k = 1
  <2>1. k # 1 => k - 1 \in 1..n
    BY <1>2
  <2>2. k # n => k + 1 \in 1..n
    BY <1>2
  <2>3. k = 1 => k - 1 \notin 1..n
    BY <1>2
  <2>4. k = n => k + 1 \notin 1..n
    BY <1>2
  <2> QED BY <1>2, <1>4, <2>1, <2>2, <2>3, <2>4 DEF At
<1> HIDE DEF p, q
<1>6. ListDel(b, C, t) = Done(c, {}, t = b.head)
  BY <1>4, <1>5 DEF ListDel
<1> DEFINE next2 == IF k # 1 THEN [b.next EXCEPT ![p] = q] ELSE b.next
           prev2 == IF k # n THEN [b.prev EXCEPT ![q] = p] ELSE b.prev
           head2 == IF k = 1 THEN q ELSE b.head
           tail2 == IF k = 1 /\ q = Null THEN Null ELSE b.tail
<1>7. /\ b \in ListBox /\ b.next \in Links /\ b.prev \in Links
      /\ b.head \in Timer \cup {Null} /\ b.tail \in Timer \cup {Null}
      /\ b = [head |-> b.head, tail |-> b.tail, next |-> b.next, prev |-> b.prev]
  <2>1. b \in ListBox
    BY <1>1 DEF ListOf
  <2> QED BY <2>1 DEF ListBox
<1>8. c = [head |-> head2, tail |-> tail2, next |-> next2, prev |-> prev2]
  <2> DEFINE g(x, y, z, v) ==
        [b EXCEPT !.next = x, !.prev = y, !.head = z, !.tail = v]
  <2>1. c = g(next2, prev2, head2, tail2)
    BY <1>4 DEF Unlink
  <2>2. ASSUME NEW x, NEW y, NEW z, NEW v
        PROVE  g(x, y, z, v) = [head |-> z, tail |-> v, next |-> x, prev |-> y]
    <3> DEFINE b1 == [b EXCEPT !.next = x]
               b2 == [b1 EXCEPT !.prev = y]
               b3 == [b2 EXCEPT !.head = z]
    <3>1. b1 = [head |-> b.head, tail |-> b.tail, next |-> x, prev |-> b.prev]
      BY <1>7
    <3> HIDE DEF b1
    <3>2. b2 = [head |-> b.head, tail |-> b.tail, next |-> x, prev |-> y]
      BY <3>1
    <3> HIDE DEF b2
    <3>3. b3 = [head |-> z, tail |-> b.tail, next |-> x, prev |-> y]
      BY <3>2
    <3> HIDE DEF b3
    <3>4. [b3 EXCEPT !.tail = v] = [head |-> z, tail |-> v, next |-> x, prev |-> y]
      BY <3>3
    <3> QED BY <3>4 DEF b1, b2, b3
  <2> HIDE DEF g, next2, prev2, head2, tail2, c
  <2> QED BY <2>1, <2>2
<1>9. next2 \in Links /\ prev2 \in Links /\ head2 \in Timer \cup {Null} /\ tail2 \in Timer \cup {Null}
  BY <1>2, <1>5, <1>7 DEF Links
<1>10. ASSUME NEW x \in Timer
       PROVE  /\ next2[x] = IF x = p THEN q ELSE b.next[x]
              /\ prev2[x] = IF x = q THEN p ELSE b.prev[x]
  <2>1. x # Null
    BY TimerAssumption
  <2> QED BY <1>2, <1>5, <1>7, <2>1 DEF Links
<1> HIDE DEF next2, prev2, tail2
<1>11. c \in ListBox /\ c.next = next2 /\ c.prev = prev2 /\ c.head = head2 /\ c.tail = tail2
  <2> HIDE DEF head2, c
  <2> QED BY <1>8, <1>9 DEF ListBox
<1> HIDE DEF c
<1>12. LinkedOut(b.next, b.prev, c.next, c.prev, s, k, C)
  <2>1. C \ {s[k]} \subseteq Timer
    BY <1>2
  <2> QED BY <1>10, <1>11, <2>1 DEF LinkedOut, p, q
<1>13. \A x \in D : c.next[x] = b.next[x] /\ c.prev[x] = b.prev[x]
  <2> TAKE x \in D
  <2>1. x \in Timer /\ x \notin C /\ x # Null
    BY <1>1, TimerAssumption DEF ListOf
  <2>2. x # p /\ x # q
    BY <1>5, <2>1
  <2> QED BY <1>10, <1>11, <2>1, <2>2
<1>14. ListOf(c, Without(s, k), C \ {s[k]}, D)
  <2>1. c.head = IF k = 1 THEN At(s, 2) ELSE b.head
    <3>1. k = 1 => q = At(s, 2)
      BY DEF q
    <3> QED BY <1>11, <3>1
  <2>2. k # n => c.tail = b.tail
    BY <1>2, <1>5, <1>11 DEF tail2
  <2>3. k = Len(s) => k = 1
    BY <1>5
  <2> QED BY <1>1, <1>11, <1>12, <1>13, <2>1, <2>2, <2>3, TakeOut
<1>15. Sorted(Without(s, k), e)
  BY <1>1, <1>2, SortedOut
<1>16. ListCall(ListDel(b, C, t), b, C \ {t})
  <2>1. k # 1 => b.head \in C \ {t} /\ c.head = b.head
    BY <1>2, <1>3, <1>4, <1>11
  <2> DEFINE first == t = b.head
  <2>2. first \in BOOLEAN /\ (~first => k # 1)
    BY <1>4
  <2> HIDE DEF first
  <2>3. ListCall(Done(c, {}, first), b, C \ {t})
    BY <2>1, <2>2 DEF ListCall, Done
  <2> QED BY <1>6, <2>3 DEF first
<1> QED BY <1>3, <1>6, <1>14, <1>15, <1>16 DEF SortedList, Done


\* tick runs and deletes the expired timers of the list, and no others.
LEMMA ListTickIs ==
    ASSUME NEW b, NEW C, NEW D, NEW e \in [Timer -> Int], SortedList(b, C, D, e),
           D \subseteq Timer, NEW now \in Int
    PROVE  LET r == ListTick(b, e, now)
           IN /\ SortedList(r.box, Kept(C, e, now), D, e)
              /\ r.fired = Late(C, e, now) /\ r.fault = "none" /\ r.rearm = TRUE
<1>1. PICK s : ListOf(b, s, C, D) /\ Sorted(s, e)
  BY DEF SortedList
<1> DEFINE n == Len(s)
           gone == {i \in 1..n : \A k \in 1..i : e[s[k]] <= now}
           g == Cardinality(gone)
           rest == At(s, g + 1)
           c == [b EXCEPT !.head = rest,
                          !.prev = IF rest = Null THEN @ ELSE [@ EXCEPT ![rest] = Null]]
<1>2. /\ n \in Nat /\ C \subseteq Timer /\ Null \notin C /\ Holds(s, C) /\ DOMAIN s = 1..n
      /\ \A i \in 1..n : s[i] \in C /\ e[s[i]] \in Int
      /\ \A i, j \in 1..n : s[i] = s[j] => i = j
      /\ \A t \in C : \E i \in 1..n : s[i] = t
  BY <1>1, HoldsIs, LenProperties DEF ListOf
<1>3. \A i, j \in 1..n : i <= j => e[s[i]] <= e[s[j]]
  BY <1>1 DEF Sorted
<1>4. \A i \in 1..n : i \in gone <=> e[s[i]] <= now
  <2> TAKE i \in 1..n
  <2>1. i \in 1..i /\ \A k \in 1..i : k \in 1..n /\ k <= i
    BY <1>2
  <2>2. \A k \in 1..i : e[s[k]] <= e[s[i]] /\ e[s[k]] \in Int /\ e[s[i]] \in Int
    BY <1>2, <1>3, <2>1
  <2> QED BY <2>1, <2>2
<1>5. g \in 0..n /\ gone = 1..g
  <2> DEFINE first == {i \in 1..(n + 1) : i \notin gone}
  <2>1. n + 1 \in first /\ first \subseteq Nat
    BY <1>2
  <2>2. PICK m \in first : \A y \in first : m <= y
    <3> HIDE DEF first
    <3> QED BY <2>1, Least
  <2>3. m \in 1..(n + 1) /\ m \notin gone /\ m - 1 \in 0..n /\ m - 1 \in Int
    BY <1>2
  <2>4. \A i \in 1..n : i < m => i \in gone
    <3> TAKE i \in 1..n
    <3> HAVE i < m
    <3>1. i \notin first
      <4> HIDE DEF first
      <4> QED BY <1>2, <2>2, <2>3
    <3>2. i \in 1..(n + 1)
      BY <1>2
    <3> QED BY <3>1, <3>2
  <2>5. \A i \in 1..n : i \in gone => i < m
    <3> TAKE i \in 1..n
    <3> SUFFICES ASSUME i \in gone, ~(i < m) PROVE FALSE
      OBVIOUS
    <3>1. m \in 1..n /\ m \in 1..i
      BY <1>2, <2>3
    <3>2. \A k \in 1..m : k \in 1..i
      BY <3>1
    <3>3. m \in gone
      BY <3>1, <3>2
    <3> QED BY <2>3, <3>3
  <2>6. gone = 1..(m - 1)
    <3>1. gone \subseteq 1..n /\ \A i \in 1..(m - 1) : i \in 1..n /\ i < m
      BY <1>2, <2>3
    <3>2. \A i \in 1..n : i < m => i \in 1..(m - 1)
      BY <2>3
    <3> HIDE DEF gone
    <3> QED BY <2>4, <2>5, <3>1, <3>2
  <2>7. Cardinality(1..(m - 1)) = m - 1
    <3>1. Cardinality(1..(m - 1)) = IF 1 > m - 1 THEN 0 ELSE (m - 1) - 1 + 1
      BY <2>3, FS_Interval
    <3>2. (IF 1 > m - 1 THEN 0 ELSE (m - 1) - 1 + 1) = m - 1
      BY <2>3
    <3> QED BY <3>1, <3>2
  <2> HIDE DEF gone
  <2> QED BY <2>3, <2>6, <2>7
<1> HIDE DEF gone, g
<1>6. Chain(b.next, b.head) = s
  BY <1>1, ListIs
<1>7. rest = IF g = n THEN Null ELSE s[g + 1]
  <2>1. g + 1 \in 1..n <=> g # n
    <3>1. n \in Nat /\ g \in 0..n
      BY <1>2, <1>5
    <3> HIDE DEF n, rest, c
    <3> QED BY <3>1
  <2> QED BY <2>1 DEF At
<1>8. ListTick(b, e, now) = Done(c, {s[i] : i \in gone}, TRUE)
  <2>1. gone = {i \in DOMAIN s : \A k \in 1..i : e[s[k]] <= now} /\ g = Cardinality(gone)
    BY <1>2 DEF gone, g
  <2>2. rest = IF Cardinality(gone) = Len(s) THEN Null ELSE s[Cardinality(gone) + 1]
    BY <1>7, <2>1
  <2> HIDE DEF rest
  <2> QED BY <1>6, <2>1, <2>2 DEF ListTick
<1>9. {s[i] : i \in gone} = Late(C, e, now)
  <2>1. \A t \in Late(C, e, now) : \E i \in gone : s[i] = t
    BY <1>2, <1>4 DEF Late
  <2>2. \A i \in gone : s[i] \in Late(C, e, now)
    <3>1. \A i \in gone : i \in 1..n
      BY <1>2, <1>5
    <3> QED BY <1>2, <1>4, <3>1 DEF Late
  <2> QED BY <2>1, <2>2
<1>10. C \ {s[i] : i \in 1..g} = Kept(C, e, now)
  <2>1. {s[i] : i \in 1..g} = Late(C, e, now)
    BY <1>5, <1>9
  <2>2. \A t \in C : e[t] \in Int
    BY <1>2
  <2> QED BY <2>1, <2>2 DEF Late, Kept
<1> DEFINE w == From(s, g)
<1>11. Holds(w, Kept(C, e, now)) /\ Len(w) = n - g
  <2>1. Holds(s, C) /\ g \in 0..Len(s)
    BY <1>2, <1>5
  <2>2. Holds(From(s, g), C \ {s[i] : i \in 1..g})
    BY <2>1, FromIs
  <2>3. Len(From(s, g)) = Len(s) - g
    BY <2>1, FromIs
  <2> QED BY <1>10, <2>2, <2>3
<1>12. \A i \in 1..(n - g) : w[i] = s[i + g] /\ i + g \in 1..n
  BY <1>2, <1>5 DEF From
<1>13. Sorted(w, e)
  BY <1>1, <1>2, <1>5, SortedOut
<1> HIDE DEF w
<1>14. \A j \in Int : At(w, j) = IF j >= 1 THEN At(s, j + g) ELSE Null
  <2> TAKE j \in Int
  <2>1. j \in 1..(n - g) <=> j >= 1 /\ j + g \in 1..n
    BY <1>2, <1>5
  <2> QED BY <1>11, <1>12, <2>1 DEF At
<1> DEFINE prev2 == IF rest = Null THEN b.prev ELSE [b.prev EXCEPT ![rest] = Null]
<1>15. rest \in C \cup {Null} /\ rest \in Timer \cup {Null}
  BY <1>2 DEF At
<1>16. b \in ListBox /\ b.next \in Links /\ b.prev \in Links /\ b.tail \in Timer \cup {Null}
  <2>1. b \in ListBox
    BY <1>1 DEF ListOf
  <2> QED BY <2>1 DEF ListBox
<1>17. c = [head |-> rest, tail |-> b.tail, next |-> b.next, prev |-> prev2]
  <2> DEFINE b1 == [b EXCEPT !.head = rest]
  <2>1. b = [head |-> b.head, tail |-> b.tail, next |-> b.next, prev |-> b.prev]
    BY <1>16 DEF ListBox
  <2>2. b1 = [head |-> rest, tail |-> b.tail, next |-> b.next, prev |-> b.prev]
    BY <2>1
  <2>3. c = [b1 EXCEPT !.prev = prev2]
    BY <2>2
  <2> HIDE DEF b1, prev2
  <2> QED BY <2>2, <2>3
<1> HIDE DEF c, rest
<1>18. prev2 \in Links
  BY <1>15, <1>16 DEF Links
<1>19. \A x \in Timer : prev2[x] = IF x = rest THEN Null ELSE b.prev[x]
  BY <1>15, <1>16, TimerAssumption DEF Links
<1> HIDE DEF prev2
<1>20. /\ c \in ListBox /\ c.head = rest /\ c.tail = b.tail /\ c.next = b.next /\ c.prev = prev2
  BY <1>15, <1>16, <1>17, <1>18 DEF ListBox
<1>21. c.head = At(w, 1)
  BY <1>5, <1>14, <1>20 DEF rest
<1>22. w # <<>> => c.tail = At(w, Len(w))
  <2> SUFFICES ASSUME w # <<>> PROVE c.tail = At(w, Len(w))
    OBVIOUS
  <2>1. n - g # 0
    <3>1. w \in Seq(Timer)
      BY <1>11 DEF Holds
    <3> QED BY <1>11, <3>1, EmptySeq
  <2>2. n - g >= 1 /\ (n - g) + g = n /\ n \in 1..n /\ n - g \in Int
    <3>1. n \in Nat /\ g \in 0..n
      BY <1>2, <1>5
    <3> HIDE DEF n
    <3> QED BY <2>1, <3>1
  <2>3. At(w, Len(w)) = At(s, n)
    BY <1>11, <1>14, <2>2
  <2>4. s # <<>>
    BY <1>2, <2>2, EmptySeq, HoldsIs
  <2> QED BY <1>1, <1>20, <2>3, <2>4 DEF ListOf
<1>23. Linking(c.next, c.prev, w)
  <2>1. ASSUME NEW i \in 1..(n - g)
        PROVE  c.next[w[i]] = At(w, i + 1) /\ c.prev[w[i]] = At(w, i - 1)
    <3>1. w[i] = s[i + g] /\ i + g \in 1..n /\ s[i + g] \in Timer
      BY <1>2, <1>12
    <3>2. b.next[s[i + g]] = At(s, (i + g) + 1) /\ b.prev[s[i + g]] = At(s, (i + g) - 1)
      BY <1>1, <3>1, ListIs
    <3>3. /\ i + 1 >= 1 /\ i + 1 \in Int /\ i - 1 \in Int
          /\ (i + 1) + g = (i + g) + 1 /\ (i - 1) + g = (i + g) - 1
      BY <1>2, <1>5
    <3>4. At(w, i + 1) = At(s, (i + g) + 1)
      BY <1>14, <3>3
    <3>5. c.prev[w[i]] = At(w, i - 1)
      <4>1. CASE i = 1
        <5>1. rest = s[g + 1] /\ i + g = g + 1
          BY <1>5, <1>2, <3>1, <4>1 DEF rest, At
        <5>2. ~(i - 1 >= 1)
          BY <4>1
        <5>3. At(w, i - 1) = Null
          BY <1>14, <3>3, <5>2
        <5>4. prev2[s[i + g]] = Null
          BY <1>19, <3>1, <5>1
        <5> QED BY <1>20, <3>1, <5>3, <5>4
      <4>2. CASE i # 1
        <5>1. i - 1 >= 1 /\ i + g # g + 1
          BY <1>5, <1>2, <4>2
        <5>2. s[i + g] # rest
          BY <1>2, <3>1, <5>1, TimerAssumption DEF rest, At
        <5>3. At(w, i - 1) = At(s, (i + g) - 1)
          BY <1>14, <3>3, <5>1
        <5> QED BY <1>19, <1>20, <3>1, <3>2, <5>2, <5>3
      <4> QED BY <4>1, <4>2
    <3> QED BY <1>20, <3>1, <3>2, <3>4, <3>5
  <2> QED BY <1>11, <2>1 DEF Linking
<1>24. D \cap Kept(C, e, now) = {} /\ \A x \in D : c.next[x] = Null /\ c.prev[x] = Null
  <2>1. \A x \in D : x \in Timer /\ x \notin C /\ b.next[x] = Null /\ b.prev[x] = Null
    BY <1>1 DEF ListOf
  <2>2. Kept(C, e, now) \subseteq C
    BY DEF Kept
  <2> QED BY <1>19, <1>20, <2>1, <2>2
<1>25. SortedList(c, Kept(C, e, now), D, e)
  BY <1>11, <1>13, <1>20, <1>21, <1>22, <1>23, <1>24 DEF SortedList, ListOf
<1> QED BY <1>8, <1>9, <1>25 DEF Done
-----------------------------------------------------------------------------
(* The wheel *)

\* The timers of C that are in slot u, and the sequence that its links make.
InSlot(b, C, u) == {x \in C : b.slot[x] = u}
SlotIs(b, C, u, s) ==
    Holds(s, InSlot(b, C, u)) /\ Linking(b.next, b.prev, s) /\ b.slots[u] = At(s, 1)
SlotsOf(b, C) == \A u \in 0..(N - 1) : \E s : SlotIs(b, C, u, s)

\* Wheel b holds the timers in C; those in D have no links.
WheelOf(b, C, D) ==
    /\ b \in Wheel /\ C \subseteq Timer /\ D \subseteq Timer /\ D \cap C = {}
    /\ SlotsOf(b, C) /\ b.count = Cardinality(C)
    /\ \A x \in D : b.next[x] = Null /\ b.prev[x] = Null

\* Wheel c with the timers C2 differs from b with C in slot u only.
Elsewhere(b, C, c, C2, u) ==
    \A v \in 0..(N - 1) : v # u =>
      /\ InSlot(c, C2, v) = InSlot(b, C, v) /\ c.slots[v] = b.slots[v]
      /\ \A x \in InSlot(b, C, v) : c.next[x] = b.next[x] /\ c.prev[x] = b.prev[x]

\* The other slots stay as they are.
LEMMA SlotChanged ==
    ASSUME NEW b, NEW C, NEW c, NEW C2, NEW u, NEW s, SlotsOf(b, C),
           Elsewhere(b, C, c, C2, u), SlotIs(c, C2, u, s)
    PROVE  SlotsOf(c, C2)
<1> SUFFICES ASSUME NEW v \in 0..(N - 1) PROVE \E w : SlotIs(c, C2, v, w)
  BY DEF SlotsOf
<1>1. CASE v = u
  BY <1>1
<1>2. CASE v # u
  <2>1. PICK w : SlotIs(b, C, v, w)
    BY DEF SlotsOf
  <2>2. Linking(c.next, c.prev, w)
    <3>1. \A x \in InSlot(b, C, v) : c.next[x] = b.next[x] /\ c.prev[x] = b.prev[x]
      BY <1>2 DEF Elsewhere
    <3> QED BY <2>1, <3>1, SameLinks DEF SlotIs
  <2> QED BY <1>2, <2>1, <2>2 DEF Elsewhere, SlotIs
<1> QED BY <1>1, <1>2

\* A wheel by its members.
LEMMA WheelIs ==
    ASSUME NEW b \in Wheel
    PROVE  /\ b = [slots |-> b.slots, cur |-> b.cur, count |-> b.count, next |-> b.next,
                   prev |-> b.prev, rotation |-> b.rotation, slot |-> b.slot]
           /\ b.slots \in [0..(N - 1) -> Timer \cup {Null}] /\ b.cur \in 0..(N - 1)
           /\ b.count \in Int /\ b.next \in [Timer -> Timer \cup {Null}]
           /\ b.prev \in [Timer -> Timer \cup {Null}]
           /\ b.rotation \in [Timer -> Int] /\ b.slot \in [Timer -> 0..(N - 1)]
  BY DEF Wheel, Links

\* The timers of a slot, and what the links of one of them are.
LEMMA SlotOf ==
    ASSUME NEW b, NEW C, NEW D, WheelOf(b, C, D), NEW u \in 0..(N - 1)
    PROVE  \E s : /\ SlotIs(b, C, u, s) /\ Holds(s, InSlot(b, C, u)) /\ Linking(b.next, b.prev, s)
                  /\ b.slots[u] = At(s, 1) /\ Chain(b.next, b.slots[u]) = s
                  /\ \A i \in 1..Len(s) : b.next[s[i]] = At(s, i + 1) /\ b.prev[s[i]] = At(s, i - 1)
<1>1. PICK s : SlotIs(b, C, u, s)
  BY DEF WheelOf, SlotsOf
<1>2. Holds(s, InSlot(b, C, u)) /\ Linking(b.next, b.prev, s) /\ b.slots[u] = At(s, 1)
  BY <1>1 DEF SlotIs
<1>3. \A i \in 1..Len(s) : b.next[s[i]] = At(s, i + 1) /\ b.prev[s[i]] = At(s, i - 1)
  BY <1>2 DEF Linking
<1>4. Chain(b.next, At(s, 1)) = s
  <2>1. \A i \in 1..Len(s) : b.next[s[i]] = At(s, i + 1)
    BY <1>3
  <2> QED BY <1>2, <2>1, ChainIs
<1> QED BY <1>1, <1>2, <1>3, <1>4

\* Adding an element to a finite set and removing one.
LEMMA CountOneMore ==
    ASSUME NEW C, C \subseteq Timer
    PROVE  /\ IsFiniteSet(C) /\ Cardinality(C) \in Nat
           /\ \A t \in Timer \ C : Cardinality(C \cup {t}) = Cardinality(C) + 1
           /\ \A t \in C : Cardinality(C \ {t}) = Cardinality(C) - 1
<1>1. IsFiniteSet(C) /\ Cardinality(C) \in Nat
  BY TimerAssumption, FS_Subset, FS_CardinalityType
<1>2. \A t \in Timer \ C : Cardinality(C \cup {t}) = Cardinality(C) + 1
  BY <1>1, FS_AddElement
<1>3. \A t \in C : Cardinality(C \ {t}) = Cardinality(C) - 1
  BY <1>1, FS_RemoveElement
<1> QED BY <1>1, <1>2, <1>3

\* Slot and turns of the timers in C are the same, and the slot in turn.
SameTurns(b, c, C) ==
    /\ c.cur = b.cur
    /\ \A x \in C : c.slot[x] = b.slot[x] /\ c.rotation[x] = b.rotation[x]

\* Call r has put t where it is reached after that many ticks; r has taken it out.
WheelPut(b, r, C, D, t, ticks) ==
    /\ r = Done(r.box, {}, TRUE) /\ WheelOf(r.box, C, D)
    /\ SameTurns(b, r.box, Timer \ {t})
    /\ r.box.slot[t] = (b.cur + ticks) % N /\ r.box.rotation[t] = ticks \div N
WheelTaken(b, r, C, D, t) ==
    /\ r = Done(r.box, {}, TRUE) /\ WheelOf(r.box, C, D)
    /\ SameTurns(b, r.box, Timer)
    /\ r.box.next[t] = b.next[t] /\ r.box.prev[t] = b.prev[t]

\* add_timer puts the timer in front of its slot.
LEMMA WheelAddIs ==
    ASSUME NEW b, NEW C, NEW D, WheelOf(b, C, D), NEW t \in D, NEW live, C \subseteq live,
           NEW e \in [Timer -> Int], NEW now \in Int, now <= e[t]
    PROVE  WheelPut(b, WheelAdd(b, live, e, t, now), C \cup {t}, D \ {t}, t, Ticks(e[t] - now))
<1> DEFINE ticks == Ticks(e[t] - now)
           u == (b.cur + ticks) % N
           old == b.slots[u]
           turns == Rotations(ticks)
           c == [b EXCEPT !.rotation[t] = Rotations(ticks), !.slot[t] = u,
                          !.slots[u] = t, !.count = @ + 1]
           d == IF old = Null THEN c ELSE [c EXCEPT !.next[t] = old, !.prev[old] = t]
           C2 == C \cup {t}
<1>1. b \in Wheel /\ C \subseteq Timer /\ t \in Timer /\ t \notin C /\ D \subseteq Timer
  BY DEF WheelOf
<1>2. ticks \in Nat /\ ticks >= 1 /\ turns \in Int /\ turns = ticks \div N
  <2>1. e[t] \in Int
    BY <1>1
  <2>2. ticks \in Nat /\ ticks >= 1
    BY <2>1 DEF Ticks
  <2> HIDE DEF ticks
  <2> QED BY <2>2, WheelAssumption DEF Rotations
<1>3. u \in 0..(N - 1)
  <2>1. b.cur + ticks \in Int
    BY <1>1, <1>2, WheelIs
  <2> HIDE DEF ticks
  <2> QED BY <2>1, WheelAssumption
<1>4. PICK s : /\ SlotIs(b, C, u, s) /\ Holds(s, InSlot(b, C, u)) /\ Linking(b.next, b.prev, s)
               /\ b.slots[u] = At(s, 1)
               /\ \A i \in 1..Len(s) : b.next[s[i]] = At(s, i + 1) /\ b.prev[s[i]] = At(s, i - 1)
  <2> HIDE DEF u
  <2> QED BY <1>3, SlotOf
<1> HIDE DEF u, ticks
<1>5. /\ old = At(s, 1) /\ old # t /\ old \in C \cup {Null}
      /\ \A i \in 1..Len(s) : s[i] \in C
  <2>1. \A i \in 1..Len(s) : s[i] \in InSlot(b, C, u)
    BY <1>4, HoldsIs
  <2> QED BY <1>1, <1>4, <2>1, TimerAssumption DEF At, InSlot
<1>6. WheelAdd(b, live, e, t, now) = Done(d, {}, TRUE)
  <2>1. old = Null \/ old \in live
    BY <1>5
  <2>2. CASE old = Null
    BY <2>2 DEF WheelAdd, ticks, u
  <2>3. CASE old # Null
    BY <2>1, <2>3 DEF WheelAdd, ticks, u
  <2> QED BY <2>2, <2>3
<1> DEFINE slots2 == [b.slots EXCEPT ![u] = t]
           rotation2 == [b.rotation EXCEPT ![t] = turns]
           slot2 == [b.slot EXCEPT ![t] = u]
           next2 == IF old = Null THEN b.next ELSE [b.next EXCEPT ![t] = old]
           prev2 == IF old = Null THEN b.prev ELSE [b.prev EXCEPT ![old] = t]
<1>7. c = [slots |-> slots2, cur |-> b.cur, count |-> b.count + 1, next |-> b.next,
           prev |-> b.prev, rotation |-> rotation2, slot |-> slot2]
  <2> DEFINE c1 == [b EXCEPT !.rotation = [b.rotation EXCEPT ![t] = turns]]
             c2 == [c1 EXCEPT !.slot = [c1.slot EXCEPT ![t] = u]]
             c3 == [c2 EXCEPT !.slots = [c2.slots EXCEPT ![u] = t]]
  <2>1. b = [slots |-> b.slots, cur |-> b.cur, count |-> b.count, next |-> b.next,
             prev |-> b.prev, rotation |-> b.rotation, slot |-> b.slot]
    BY <1>1, WheelIs
  <2> HIDE DEF turns
  <2>2. c1 = [slots |-> b.slots, cur |-> b.cur, count |-> b.count, next |-> b.next,
              prev |-> b.prev, rotation |-> rotation2, slot |-> b.slot]
    BY <2>1
  <2> HIDE DEF c1, rotation2
  <2>3. c2 = [slots |-> b.slots, cur |-> b.cur, count |-> b.count, next |-> b.next,
              prev |-> b.prev, rotation |-> rotation2, slot |-> slot2]
    BY <2>2
  <2> HIDE DEF c2, slot2
  <2>4. c3 = [slots |-> slots2, cur |-> b.cur, count |-> b.count, next |-> b.next,
              prev |-> b.prev, rotation |-> rotation2, slot |-> slot2]
    BY <2>3
  <2> HIDE DEF c3, slots2
  <2>5. [c3 EXCEPT !.count = c3.count + 1]
          = [slots |-> slots2, cur |-> b.cur, count |-> b.count + 1, next |-> b.next,
             prev |-> b.prev, rotation |-> rotation2, slot |-> slot2]
    BY <2>4
  <2>6. c = [c3 EXCEPT !.count = c3.count + 1]
    BY <2>1 DEF c1, c2, c3, turns
  <2> QED BY <2>5, <2>6
<1> HIDE DEF c, slots2, rotation2, slot2
<1>8. d = [slots |-> slots2, cur |-> b.cur, count |-> b.count + 1, next |-> next2,
           prev |-> prev2, rotation |-> rotation2, slot |-> slot2]
  <2>1. CASE old = Null
    BY <1>7, <2>1
  <2>2. CASE old # Null
    <3> DEFINE d1 == [c EXCEPT !.next = [c.next EXCEPT ![t] = old]]
    <3>1. d1 = [slots |-> slots2, cur |-> b.cur, count |-> b.count + 1, next |-> next2,
           prev |-> b.prev, rotation |-> rotation2, slot |-> slot2]
      BY <1>7, <2>2
    <3>2. d = [d1 EXCEPT !.prev = [d1.prev EXCEPT ![old] = t]]
      BY <2>2
    <3> HIDE DEF d1, next2
    <3>3. [d1 EXCEPT !.prev = [d1.prev EXCEPT ![old] = t]]
            = [slots |-> slots2, cur |-> b.cur, count |-> b.count + 1, next |-> next2,
               prev |-> prev2, rotation |-> rotation2, slot |-> slot2]
      BY <2>2, <3>1
    <3> QED BY <3>2, <3>3
  <2> QED BY <2>1, <2>2
<1> HIDE DEF d
<1>9. /\ slots2 \in [0..(N - 1) -> Timer \cup {Null}]
      /\ rotation2 \in [Timer -> Int] /\ slot2 \in [Timer -> 0..(N - 1)]
      /\ \A v \in 0..(N - 1) : slots2[v] = IF v = u THEN t ELSE b.slots[v]
      /\ \A x \in Timer : /\ rotation2[x] = IF x = t THEN turns ELSE b.rotation[x]
                          /\ slot2[x] = IF x = t THEN u ELSE b.slot[x]
  <2> HIDE DEF turns
  <2> QED BY <1>1, <1>2, <1>3, WheelIs DEF slots2, rotation2, slot2
<1>10. /\ next2 \in [Timer -> Timer \cup {Null}] /\ prev2 \in [Timer -> Timer \cup {Null}]
       /\ \A x \in Timer : next2[x] = IF x = t THEN old ELSE b.next[x]
       /\ \A x \in Timer : prev2[x] = IF x = old THEN t ELSE b.prev[x]
  <2>1. /\ b.next \in [Timer -> Timer \cup {Null}] /\ b.prev \in [Timer -> Timer \cup {Null}]
        /\ b.next[t] = Null
    BY <1>1, WheelIs DEF WheelOf
  <2>2. \A x \in Timer : x # Null
    BY TimerAssumption
  <2>3. old = Null \/ old \in Timer
    BY <1>1, <1>5
  <2> HIDE DEF old
  <2> QED BY <1>1, <2>1, <2>2, <2>3
<1> HIDE DEF next2, prev2
<1>11. d \in Wheel /\ d.slots = slots2 /\ d.cur = b.cur /\ d.count = b.count + 1 /\ d.next = next2
       /\ d.prev = prev2 /\ d.rotation = rotation2 /\ d.slot = slot2
  <2>1. b.cur \in 0..(N - 1) /\ b.count + 1 \in Int
    BY <1>1, WheelIs
  <2> QED BY <1>8, <1>9, <1>10, <2>1 DEF Wheel, Links
<1>12. InSlot(d, C2, u) = InSlot(b, C, u) \cup {t}
  BY <1>1, <1>9, <1>11 DEF InSlot
<1>13. SlotIs(d, C2, u, With(s, 1, t))
  <2>1. /\ t \in Timer \ InSlot(b, C, u) /\ 1 \in 1..(Len(s) + 1) /\ Len(s) \in Nat
    <3>1. Len(s) \in Nat
      BY <1>4, HoldsIs
    <3> QED BY <1>1, <3>1 DEF InSlot
  <2>2. Holds(With(s, 1, t), InSlot(b, C, u) \cup {t})
    BY <1>4, <2>1, WithIs
  <2>3. Len(With(s, 1, t)) = Len(s) + 1
    BY <1>4, <2>1, WithIs
  <2>4. LinkedIn(b.next, b.prev, d.next, d.prev, s, 1, t)
    <3>1. At(s, 1) = old /\ At(s, 1 - 1) = Null /\ b.prev[t] = Null
      BY <1>5 DEF At, WheelOf
    <3>2. \A x \in Timer : x # Null
      BY TimerAssumption
    <3> HIDE DEF old
    <3> QED BY <1>5, <1>10, <1>11, <3>1, <3>2 DEF LinkedIn
  <2>5. Linking(d.next, d.prev, With(s, 1, t))
    BY <1>4, <2>1, <2>4, LinkIn
  <2>6. At(With(s, 1, t), 1) = t
    <3>1. With(s, 1, t)[1] = t
      BY <2>1 DEF With
    <3> QED BY <2>1, <2>3, <3>1 DEF At
  <2>7. d.slots[u] = t
    BY <1>3, <1>9, <1>11
  <2> QED BY <1>12, <2>2, <2>5, <2>6, <2>7 DEF SlotIs
<1>14. Elsewhere(b, C, d, C2, u)
  <2> SUFFICES ASSUME NEW v \in 0..(N - 1), v # u
               PROVE  /\ InSlot(d, C2, v) = InSlot(b, C, v) /\ d.slots[v] = b.slots[v]
                      /\ \A x \in InSlot(b, C, v) : d.next[x] = b.next[x] /\ d.prev[x] = b.prev[x]
    BY DEF Elsewhere
  <2>1. InSlot(d, C2, v) = InSlot(b, C, v) /\ d.slots[v] = b.slots[v]
    BY <1>1, <1>9, <1>11 DEF InSlot
  <2>2. \A x \in InSlot(b, C, v) : x \in Timer /\ x # t /\ x # old
    <3>1. old = Null \/ old \in InSlot(b, C, u)
      BY <1>4, HoldsIs DEF At
    <3> HIDE DEF old
    <3> QED BY <1>1, <3>1, TimerAssumption DEF InSlot
  <2> QED BY <1>10, <1>11, <2>1, <2>2
<1>15. SlotsOf(d, C2)
  <2>1. SlotsOf(b, C)
    BY DEF WheelOf
  <2> HIDE DEF C2
  <2> QED BY <1>13, <1>14, <2>1, SlotChanged
<1>16. WheelOf(d, C2, D \ {t})
  <2>1. Cardinality(C2) = Cardinality(C) + 1
    BY <1>1, CountOneMore
  <2>2. d.count = Cardinality(C2)
    BY <1>11, <2>1 DEF WheelOf
  <2>3. \A x \in D \ {t} : d.next[x] = Null /\ d.prev[x] = Null
    <3>1. \A x \in D \ {t} : x \in Timer /\ x # t /\ x # old /\ b.next[x] = Null /\ b.prev[x] = Null
      <4>1. \A x \in D : x \in Timer /\ x \notin C /\ x # Null /\ b.next[x] = Null /\ b.prev[x] = Null
        BY TimerAssumption DEF WheelOf
      <4> HIDE DEF old
      <4> QED BY <1>5, <4>1
    <3> HIDE DEF old
    <3> QED BY <1>10, <1>11, <3>1
  <2>4. C2 \subseteq Timer /\ D \ {t} \subseteq Timer /\ (D \ {t}) \cap C2 = {}
    BY <1>1 DEF WheelOf
  <2> HIDE DEF C2
  <2> QED BY <1>11, <1>15, <2>2, <2>3, <2>4 DEF WheelOf
<1>17. SameTurns(b, d, Timer \ {t}) /\ d.slot[t] = u /\ d.rotation[t] = turns
  BY <1>1, <1>9, <1>11 DEF SameTurns
<1> QED BY <1>2, <1>6, <1>16, <1>17 DEF Done, WheelPut, u, ticks


\* The members of wheel c when the k-th timer s of slot u was taken out of b.
TakenOut(b, c, C, s, k, u) ==
    /\ \A x \in Timer \ {s[k]} :
         /\ c.next[x] = IF x = At(s, k - 1) THEN At(s, k + 1) ELSE b.next[x]
         /\ c.prev[x] = IF x = At(s, k + 1) THEN At(s, k - 1) ELSE b.prev[x]
    /\ \A v \in 0..(N - 1) :
         c.slots[v] = IF v = u /\ k = 1 THEN At(s, 2) ELSE b.slots[v]
    /\ \A x \in C \ {s[k]} : c.slot[x] = b.slot[x]
    /\ c.count = b.count - 1

\* It holds the other timers.
LEMMA WheelLess ==
    ASSUME NEW b, NEW C, NEW D, WheelOf(b, C, D), NEW c \in Wheel, NEW s, NEW u \in 0..(N - 1),
           SlotIs(b, C, u, s), NEW k \in 1..Len(s), TakenOut(b, c, C, s, k, u)
    PROVE  /\ WheelOf(c, C \ {s[k]}, D) /\ InSlot(c, C \ {s[k]}, u) = InSlot(b, C, u) \ {s[k]}
           /\ SlotIs(c, C \ {s[k]}, u, Without(s, k))
<1> DEFINE t == s[k]
           n == Len(s)
           C2 == C \ {t}
           w == Without(s, k)
<1>0. /\ \A x \in Timer \ {s[k]} :
           /\ c.next[x] = IF x = At(s, k - 1) THEN At(s, k + 1) ELSE b.next[x]
           /\ c.prev[x] = IF x = At(s, k + 1) THEN At(s, k - 1) ELSE b.prev[x]
      /\ \A v \in 0..(N - 1) :
           c.slots[v] = IF v = u /\ k = 1 THEN At(s, 2) ELSE b.slots[v]
      /\ \A x \in C \ {s[k]} : c.slot[x] = b.slot[x]
      /\ c.count = b.count - 1
  BY DEF TakenOut
<1>1. /\ n \in Nat /\ Holds(s, InSlot(b, C, u)) /\ Linking(b.next, b.prev, s)
      /\ b.slots[u] = At(s, 1)
      /\ \A i \in 1..n : s[i] \in C /\ b.slot[s[i]] = u
      /\ C \subseteq Timer /\ t \in C
  <2>1. Holds(s, InSlot(b, C, u)) /\ Linking(b.next, b.prev, s) /\ b.slots[u] = At(s, 1)
    BY DEF SlotIs
  <2>2. n \in Nat /\ \A i \in 1..n : s[i] \in InSlot(b, C, u)
    BY <2>1, HoldsIs
  <2> QED BY <2>1, <2>2 DEF InSlot, WheelOf
<1>2. InSlot(c, C2, u) = InSlot(b, C, u) \ {t}
  BY <1>0, <1>1 DEF InSlot
<1>3. SlotIs(c, C2, u, w)
  <2>1. Holds(w, InSlot(b, C, u) \ {t}) /\ Len(w) = n - 1
    BY <1>1, WithoutIs
  <2>2. LinkedOut(b.next, b.prev, c.next, c.prev, s, k, InSlot(b, C, u))
    <3>1. InSlot(b, C, u) \ {s[k]} \subseteq Timer \ {s[k]}
      BY <1>1 DEF InSlot
    <3> QED BY <1>0, <3>1 DEF LinkedOut
  <2>3. Linking(c.next, c.prev, w)
    BY <1>1, <2>2, LinkOut
  <2>4. c.slots[u] = IF k = 1 THEN At(s, 2) ELSE At(s, 1)
    BY <1>0, <1>1
  <2>5. At(w, 1) = IF k = 1 THEN At(s, 2) ELSE At(s, 1)
    <3>1. \A i \in 1..(n - 1) : w[i] = IF i < k THEN s[i] ELSE s[i + 1]
      BY DEF Without
    <3> HIDE DEF w
    <3>2. CASE n = 1
      <4>1. k = 1 /\ 1 \notin 1..(n - 1) /\ 2 \notin 1..n
        BY <1>1, <3>2, Places
      <4> QED BY <2>1, <4>1 DEF At
    <3>3. CASE n # 1
      <4>1. 1 \in 1..(n - 1) /\ 1 \in 1..n /\ 2 \in 1..n /\ (1 < k <=> k # 1)
        BY <1>1, <3>3, Places
      <4>2. w[1] = IF 1 < k THEN s[1] ELSE s[2]
        <5>1. 1 + 1 = 2
          OBVIOUS
        <5> QED BY <3>1, <4>1, <5>1
      <4> QED BY <2>1, <4>1, <4>2 DEF At
    <3> QED BY <3>2, <3>3
  <2> QED BY <1>2, <2>1, <2>3, <2>4, <2>5 DEF SlotIs
<1>4. Elsewhere(b, C, c, C2, u)
  <2> SUFFICES ASSUME NEW v \in 0..(N - 1), v # u
               PROVE  /\ InSlot(c, C2, v) = InSlot(b, C, v) /\ c.slots[v] = b.slots[v]
                      /\ \A x \in InSlot(b, C, v) : c.next[x] = b.next[x] /\ c.prev[x] = b.prev[x]
    BY DEF Elsewhere
  <2>1. InSlot(c, C2, v) = InSlot(b, C, v)
    BY <1>0, <1>1 DEF InSlot
  <2>2. c.slots[v] = b.slots[v]
    BY <1>0
  <2>3. \A x \in InSlot(b, C, v) : x \in Timer \ {t} /\ x # At(s, k - 1) /\ x # At(s, k + 1)
    <3>1. \A x \in InSlot(b, C, v) : x \in Timer /\ x # Null /\ b.slot[x] = v
      BY <1>1, TimerAssumption DEF InSlot
    <3>2. \A j \in Int : At(s, j) = Null \/ b.slot[At(s, j)] = u
      BY <1>1 DEF At
    <3>3. k - 1 \in Int /\ k + 1 \in Int /\ b.slot[t] = u
      BY <1>1
    <3> HIDE DEF t
    <3> QED BY <3>1, <3>2, <3>3
  <2> QED BY <1>0, <2>1, <2>2, <2>3
<1>5. SlotsOf(c, C2)
  <2>1. SlotsOf(b, C)
    BY DEF WheelOf
  <2> HIDE DEF C2, w
  <2> QED BY <1>3, <1>4, <2>1, SlotChanged
<1>6. c.count = Cardinality(C2)
  <2>1. Cardinality(C2) = Cardinality(C) - 1
    BY <1>1, CountOneMore
  <2> QED BY <1>0, <2>1 DEF WheelOf
<1>7. \A x \in D : c.next[x] = Null /\ c.prev[x] = Null
  <2>1. \A x \in D : x \in Timer /\ x \notin C /\ x # Null /\ b.next[x] = Null /\ b.prev[x] = Null
    BY TimerAssumption DEF WheelOf
  <2>2. \A j \in Int : At(s, j) = Null \/ At(s, j) \in C
    BY <1>1 DEF At
  <2>3. k - 1 \in Int /\ k + 1 \in Int
    OBVIOUS
  <2>4. \A x \in D : x \in Timer \ {t} /\ x # At(s, k - 1) /\ x # At(s, k + 1)
    BY <1>1, <2>1, <2>2, <2>3
  <2> QED BY <1>0, <2>1, <2>4
<1>8. C2 \subseteq Timer /\ D \subseteq Timer /\ D \cap C2 = {}
  BY <1>1 DEF WheelOf
<1> HIDE DEF C2
<1>9. WheelOf(c, C2, D)
  BY <1>5, <1>6, <1>7, <1>8 DEF WheelOf
<1> QED BY <1>2, <1>3, <1>9 DEF C2

\* del_timer finds the timer in its slot and takes it out.
LEMMA WheelDelIs ==
    ASSUME NEW b, NEW C, NEW D, WheelOf(b, C, D), NEW t \in C
    PROVE  WheelTaken(b, WheelDel(b, C, t), C \ {t}, D, t)
<1> DEFINE u == b.slot[t]
           p == b.prev[t]
           q == b.next[t]
           c == [Bypass(b, t) EXCEPT !.count = @ - 1]
<1>1. b \in Wheel /\ C \subseteq Timer /\ t \in Timer /\ Null \notin C /\ u \in 0..(N - 1)
  <2>1. b \in Wheel /\ C \subseteq Timer /\ t \in Timer
    BY DEF WheelOf
  <2> QED BY <2>1, WheelIs, TimerAssumption
<1>2. PICK s : /\ SlotIs(b, C, u, s) /\ Holds(s, InSlot(b, C, u)) /\ Linking(b.next, b.prev, s)
               /\ b.slots[u] = At(s, 1) /\ Chain(b.next, b.slots[u]) = s
               /\ \A i \in 1..Len(s) : b.next[s[i]] = At(s, i + 1) /\ b.prev[s[i]] = At(s, i - 1)
  <2> HIDE DEF u
  <2> QED BY <1>1, SlotOf
<1> DEFINE n == Len(s)
<1>3. /\ n \in Nat /\ DOMAIN s = 1..n
      /\ \A i \in 1..n : s[i] \in C
      /\ \A i, j \in 1..n : s[i] = s[j] => i = j
  <2>1. n \in Nat /\ DOMAIN s = 1..n /\ \A i \in 1..n : s[i] \in InSlot(b, C, u)
    BY <1>2, HoldsIs, LenProperties
  <2>2. \A i, j \in 1..n : s[i] = s[j] => i = j
    BY <1>2, HoldsIs
  <2> QED BY <2>1, <2>2 DEF InSlot
<1>4. PICK k \in 1..n : s[k] = t
  <2>1. t \in InSlot(b, C, u)
    BY DEF InSlot
  <2> QED BY <1>2, <2>1, HoldsIs
<1>5. /\ p = At(s, k - 1) /\ q = At(s, k + 1)
      /\ p \in C \cup {Null} /\ q \in C \cup {Null} /\ p # t /\ q # t
      /\ p = Null <=> k = 1
  <2>1. p = At(s, k - 1) /\ q = At(s, k + 1)
    BY <1>2, <1>4
  <2>2. \A j \in Int : /\ At(s, j) \in C \cup {Null} /\ (At(s, j) = t => j = k)
                       /\ At(s, j) = Null <=> j \notin 1..n
    BY <1>1, <1>3, <1>4 DEF At
  <2>3. k - 1 \in Int /\ k + 1 \in Int /\ k - 1 # k /\ k + 1 # k /\ (k - 1 \notin 1..n <=> k = 1)
    BY <1>3
  <2> QED BY <2>1, <2>2, <2>3
<1>6. WheelDel(b, C, t) = Done(c, {}, TRUE)
  <2>1. \E i \in 1..n : s[i] = t
    BY <1>4
  <2> QED BY <1>2, <1>3, <1>5, <2>1 DEF WheelDel
<1> HIDE DEF u, p, q
<1> DEFINE next2 == IF p # Null THEN [b.next EXCEPT ![p] = q] ELSE b.next
           slots2 == IF p = Null THEN [b.slots EXCEPT ![u] = q] ELSE b.slots
           prev2 == IF q # Null THEN [b.prev EXCEPT ![q] = p] ELSE b.prev
<1>7. c = [slots |-> slots2, cur |-> b.cur, count |-> b.count - 1, next |-> next2,
           prev |-> prev2, rotation |-> b.rotation, slot |-> b.slot]
  <2> DEFINE c1 == [b EXCEPT !.next = next2]
             c2 == [c1 EXCEPT !.slots = slots2]
             c3 == [c2 EXCEPT !.prev = prev2]
  <2>1. b = [slots |-> b.slots, cur |-> b.cur, count |-> b.count, next |-> b.next,
             prev |-> b.prev, rotation |-> b.rotation, slot |-> b.slot]
    BY <1>1, WheelIs
  <2>2. Bypass(b, t) = [[[b EXCEPT !.next = next2] EXCEPT !.slots = slots2] EXCEPT !.prev = prev2]
    <3>1. c1 = [slots |-> b.slots, cur |-> b.cur, count |-> b.count, next |-> next2,
                prev |-> b.prev, rotation |-> b.rotation, slot |-> b.slot]
      BY <2>1
    <3>2. c2 = [slots |-> slots2, cur |-> b.cur, count |-> b.count, next |-> next2,
                prev |-> b.prev, rotation |-> b.rotation, slot |-> b.slot]
      <4> HIDE DEF c1
      <4> QED BY <3>1
    <3>3. c1.slots = b.slots /\ c2.prev = b.prev
      <4> HIDE DEF c1, c2
      <4> QED BY <3>1, <3>2
    <3> QED BY <3>3 DEF Bypass, p, q, u
  <2> HIDE DEF next2, slots2, prev2
  <2>3. c1 = [slots |-> b.slots, cur |-> b.cur, count |-> b.count, next |-> next2,
              prev |-> b.prev, rotation |-> b.rotation, slot |-> b.slot]
    BY <2>1
  <2> HIDE DEF c1
  <2>4. c2 = [slots |-> slots2, cur |-> b.cur, count |-> b.count, next |-> next2,
              prev |-> b.prev, rotation |-> b.rotation, slot |-> b.slot]
    BY <2>3
  <2> HIDE DEF c2
  <2>5. c3 = [slots |-> slots2, cur |-> b.cur, count |-> b.count, next |-> next2,
              prev |-> prev2, rotation |-> b.rotation, slot |-> b.slot]
    BY <2>4
  <2>6. Bypass(b, t) = c3
    BY <2>2 DEF c1, c2
  <2> HIDE DEF c3
  <2> QED BY <2>5, <2>6
<1> HIDE DEF c
<1>8. /\ next2 \in Links /\ prev2 \in Links /\ slots2 \in [0..(N - 1) -> Timer \cup {Null}]
      /\ \A x \in Timer : /\ next2[x] = IF x = p THEN q ELSE b.next[x]
                          /\ prev2[x] = IF x = q THEN p ELSE b.prev[x]
      /\ \A v \in 0..(N - 1) : slots2[v] = IF v = u /\ k = 1 THEN q ELSE b.slots[v]
  <2>1. /\ b.slots \in [0..(N - 1) -> Timer \cup {Null}]
        /\ b.next \in [Timer -> Timer \cup {Null}] /\ b.prev \in [Timer -> Timer \cup {Null}]
    BY <1>1, WheelIs
  <2>2. p \in Timer \cup {Null} /\ q \in Timer \cup {Null} /\ u \in 0..(N - 1)
    BY <1>1, <1>5 DEF u
  <2>3. \A x \in Timer : x # Null
    BY TimerAssumption
  <2>4. next2 \in Links /\ \A x \in Timer : next2[x] = IF x = p THEN q ELSE b.next[x]
    BY <2>1, <2>2, <2>3 DEF Links
  <2>5. prev2 \in Links /\ \A x \in Timer : prev2[x] = IF x = q THEN p ELSE b.prev[x]
    BY <2>1, <2>2, <2>3 DEF Links
  <2>6. /\ slots2 \in [0..(N - 1) -> Timer \cup {Null}]
        /\ \A v \in 0..(N - 1) : slots2[v] = IF v = u /\ k = 1 THEN q ELSE b.slots[v]
    BY <1>5, <2>1, <2>2
  <2> HIDE DEF next2, prev2, slots2
  <2> QED BY <2>4, <2>5, <2>6
<1> HIDE DEF next2, prev2, slots2
<1>9. c \in Wheel /\ c.slots = slots2 /\ c.cur = b.cur /\ c.count = b.count - 1 /\ c.next = next2
      /\ c.prev = prev2 /\ c.rotation = b.rotation /\ c.slot = b.slot
  <2>1. /\ b.cur \in 0..(N - 1) /\ b.count - 1 \in Int /\ b.rotation \in [Timer -> Int]
        /\ b.slot \in [Timer -> 0..(N - 1)]
    BY <1>1, WheelIs
  <2> QED BY <1>7, <1>8, <2>1 DEF Wheel
<1>10. WheelOf(c, C \ {s[k]}, D)
  <2>1. \A x \in Timer \ {s[k]} :
              /\ c.next[x] = IF x = At(s, k - 1) THEN At(s, k + 1) ELSE b.next[x]
              /\ c.prev[x] = IF x = At(s, k + 1) THEN At(s, k - 1) ELSE b.prev[x]
    BY <1>5, <1>8, <1>9
  <2>2. \A v \in 0..(N - 1) : c.slots[v] = IF v = u /\ k = 1 THEN At(s, 2) ELSE b.slots[v]
    <3>1. k = 1 => q = At(s, 2)
      BY <1>5
    <3> QED BY <1>8, <1>9, <3>1
  <2>3. \A x \in C \ {s[k]} : c.slot[x] = b.slot[x]
    BY <1>9
  <2>4. u \in 0..(N - 1) /\ SlotIs(b, C, u, s) /\ c.count = b.count - 1
    BY <1>1, <1>2, <1>9 DEF u
  <2>5. TakenOut(b, c, C, s, k, u)
    BY <2>1, <2>2, <2>3, <2>4 DEF TakenOut
  <2> QED BY <1>9, <2>4, <2>5, WheelLess
<1>11. c.next[t] = b.next[t] /\ c.prev[t] = b.prev[t] /\ SameTurns(b, c, Timer)
  BY <1>1, <1>5, <1>8, <1>9 DEF SameTurns
<1> QED BY <1>4, <1>6, <1>10, <1>11 DEF Done, WheelTaken

\* A slot is occupied when a timer says that it is in it.
LEMMA Occupied ==
    ASSUME NEW b, NEW C, NEW D, WheelOf(b, C, D), NEW u \in 0..(N - 1)
    PROVE  b.slots[u] # Null <=> \E x \in C : b.slot[x] = u
<1>1. PICK s : Holds(s, InSlot(b, C, u)) /\ b.slots[u] = At(s, 1)
  BY SlotOf
<1>2. /\ Len(s) \in Nat /\ \A i \in 1..Len(s) : s[i] \in InSlot(b, C, u)
      /\ \A x \in InSlot(b, C, u) : \E i \in 1..Len(s) : s[i] = x
      /\ Null \notin InSlot(b, C, u)
  BY <1>1, HoldsIs
<1>3. b.slots[u] # Null <=> 1 \in 1..Len(s)
  BY <1>1, <1>2 DEF At
<1>4. 1 \in 1..Len(s) <=> InSlot(b, C, u) # {}
  BY <1>2
<1> QED BY <1>3, <1>4 DEF InSlot

\* The timer next to another one is in the same slot.
LEMMA NextInSlot ==
    ASSUME NEW b, NEW C, NEW D, WheelOf(b, C, D), NEW t \in C, b.next[t] # Null
    PROVE  b.next[t] \in C \ {t} /\ b.slot[b.next[t]] = b.slot[t]
<1> DEFINE u == b.slot[t]
<1>1. u \in 0..(N - 1)
  BY WheelIs DEF WheelOf
<1>2. PICK s : /\ Holds(s, InSlot(b, C, u))
               /\ \A i \in 1..Len(s) : b.next[s[i]] = At(s, i + 1)
  BY <1>1, SlotOf
<1> HIDE DEF u
<1>3. t \in InSlot(b, C, u)
  BY DEF InSlot, u
<1>4. /\ Len(s) \in Nat /\ \A i \in 1..Len(s) : s[i] \in InSlot(b, C, u)
      /\ \A i, j \in 1..Len(s) : s[i] = s[j] => i = j
  BY <1>2, HoldsIs
<1>5. PICK k \in 1..Len(s) : s[k] = t
  BY <1>2, <1>3, HoldsIs
<1>6. b.next[t] = At(s, k + 1)
  BY <1>2, <1>5
<1>7. k + 1 \in 1..Len(s) /\ b.next[t] = s[k + 1]
  BY <1>6 DEF At
<1>8. s[k + 1] # t /\ s[k + 1] \in InSlot(b, C, u)
  BY <1>4, <1>5, <1>7
<1> QED BY <1>7, <1>8 DEF InSlot, u

\* The members of a wheel, and wheel b after timer t was put into slot u in
\* front of old.
Members(slots, cur, count, next, prev, rotation, slot) ==
    [slots |-> slots, cur |-> cur, count |-> count, next |-> next, prev |-> prev,
     rotation |-> rotation, slot |-> slot]
InFront(b, t, u, turns, old) ==
    [[b EXCEPT !.rotation[t] = turns, !.slot[t] = u, !.slots[u] = t, !.count = @ + 1]
       EXCEPT !.next[t] = old, !.prev[old] = t]

LEMMA PutBefore ==
    ASSUME NEW b \in Wheel, NEW t, NEW u, NEW turns, NEW old
    PROVE  InFront(b, t, u, turns, old)
           = Members([b.slots EXCEPT ![u] = t], b.cur, b.count + 1, [b.next EXCEPT ![t] = old],
                     [b.prev EXCEPT ![old] = t], [b.rotation EXCEPT ![t] = turns],
                     [b.slot EXCEPT ![t] = u])
<1> DEFINE slots == b.slots
           cur == b.cur
           count == b.count
           next == b.next
           prev == b.prev
           rotation == b.rotation
           slot == b.slot
           slots2 == [slots EXCEPT ![u] = t]
           count2 == count + 1
           next2 == [next EXCEPT ![t] = old]
           prev2 == [prev EXCEPT ![old] = t]
           rotation2 == [rotation EXCEPT ![t] = turns]
           slot2 == [slot EXCEPT ![t] = u]
           c1 == [b EXCEPT !.rotation = [b.rotation EXCEPT ![t] = turns]]
           c2 == [c1 EXCEPT !.slot = [c1.slot EXCEPT ![t] = u]]
           c3 == [c2 EXCEPT !.slots = [c2.slots EXCEPT ![u] = t]]
           c4 == [c3 EXCEPT !.count = c3.count + 1]
           c5 == [c4 EXCEPT !.next = [c4.next EXCEPT ![t] = old]]
           c6 == [c5 EXCEPT !.prev = [c5.prev EXCEPT ![old] = t]]
<1>1. b = [slots |-> slots, cur |-> cur, count |-> count, next |-> next,
           prev |-> prev, rotation |-> rotation, slot |-> slot]
  BY WheelIs
<1>2. c1 = [slots |-> slots, cur |-> cur, count |-> count, next |-> next,
            prev |-> prev, rotation |-> rotation2, slot |-> slot]
  <2>1. b.rotation = rotation
    OBVIOUS
  <2> HIDE DEF slots, cur, count, next, prev, rotation, slot
  <2>2. [b.rotation EXCEPT ![t] = turns] = rotation2
    BY <2>1
  <2> HIDE DEF rotation2
  <2> QED BY <1>1, <2>2
<1> HIDE DEF c1, slots, cur, count, next, prev, rotation, slot
<1>3. c2 = [slots |-> slots, cur |-> cur, count |-> count, next |-> next,
            prev |-> prev, rotation |-> rotation2, slot |-> slot2]
  BY <1>2
<1> HIDE DEF c2
<1>4. c3 = [slots |-> slots2, cur |-> cur, count |-> count, next |-> next,
            prev |-> prev, rotation |-> rotation2, slot |-> slot2]
  BY <1>3
<1> HIDE DEF c3
<1>5. c4 = [slots |-> slots2, cur |-> cur, count |-> count2, next |-> next,
            prev |-> prev, rotation |-> rotation2, slot |-> slot2]
  BY <1>4
<1> HIDE DEF c4
<1>6. c5 = [slots |-> slots2, cur |-> cur, count |-> count2, next |-> next2,
            prev |-> prev, rotation |-> rotation2, slot |-> slot2]
  BY <1>5
<1> HIDE DEF c5
<1>7. c6 = [slots |-> slots2, cur |-> cur, count |-> count2, next |-> next2,
            prev |-> prev2, rotation |-> rotation2, slot |-> slot2]
  BY <1>6
<1>8. c6 = InFront(b, t, u, turns, old)
  BY DEF c1, c2, c3, c4, c5, c6, InFront
<1> HIDE DEF c6
<1> QED BY <1>7, <1>8 DEF Members, slots, cur, count, next, prev, rotation, slot

\* Putting a timer into an occupied slot overwrites its next.
LEMMA NextOverwritten ==
    ASSUME NEW c \in Wheel, NEW C \in SUBSET Timer, NEW t \in Timer, NEW e, NEW now,
           c.next[t] = Null \/ c.slots[(c.cur + Ticks(e[t] - now)) % N] \in C
    PROVE  WheelAdd(c, C, e, t, now) = WheelAdd([c EXCEPT !.next[t] = Null], C, e, t, now)
<1> DEFINE c0 == [c EXCEPT !.next[t] = Null]
           nulled == [c.next EXCEPT ![t] = Null]
           u == (c.cur + Ticks(e[t] - now)) % N
           turns == Rotations(Ticks(e[t] - now))
           old == c.slots[u]
<1>1. /\ c = Members(c.slots, c.cur, c.count, c.next, c.prev, c.rotation, c.slot)
      /\ c.next \in [Timer -> Timer \cup {Null}]
  BY WheelIs DEF Members
<1>2. c0 = Members(c.slots, c.cur, c.count, nulled, c.prev, c.rotation, c.slot)
  BY <1>1 DEF Members
<1>3. /\ c0.slots = c.slots /\ c0.cur = c.cur /\ c0.count = c.count /\ c0.next = nulled
      /\ c0.prev = c.prev /\ c0.rotation = c.rotation /\ c0.slot = c.slot
  BY <1>2 DEF Members
<1>4. CASE c.next[t] = Null
  <2>1. nulled = c.next
    BY <1>1, <1>4
  <2>2. c0 = c
    <3> HIDE DEF c0, nulled
    <3> QED BY <1>1, <1>2, <2>1
  <2> QED BY <2>2
<1>5. CASE old \in C
  <2>1. old # Null
    BY <1>5, TimerAssumption
  <2>2. c0.slots = c.slots /\ c0.cur = c.cur
    BY <1>2 DEF Members
  <2>3. WheelAdd(c, C, e, t, now) = Done(InFront(c, t, u, turns, old), {}, TRUE)
    BY <1>5, <2>1 DEF WheelAdd, InFront
  <2>4. WheelAdd(c0, C, e, t, now) = Done(InFront(c0, t, u, turns, old), {}, TRUE)
    <3> HIDE DEF c0
    <3> QED BY <1>5, <2>1, <2>2 DEF WheelAdd, InFront
  <2> HIDE DEF c0, turns, u, old
  <2>5. InFront(c, t, u, turns, old)
        = Members([c.slots EXCEPT ![u] = t], c.cur, c.count + 1, [c.next EXCEPT ![t] = old],
                  [c.prev EXCEPT ![old] = t], [c.rotation EXCEPT ![t] = turns], [c.slot EXCEPT ![t] = u])
    BY PutBefore
  <2>6. [nulled EXCEPT ![t] = old] = [c.next EXCEPT ![t] = old]
    BY <1>1
  <2>7. InFront(c0, t, u, turns, old)
        = Members([c0.slots EXCEPT ![u] = t], c0.cur, c0.count + 1, [c0.next EXCEPT ![t] = old],
                  [c0.prev EXCEPT ![old] = t], [c0.rotation EXCEPT ![t] = turns], [c0.slot EXCEPT ![t] = u])
    <3>1. c0 \in Wheel
      BY DEF c0, Wheel, Links
    <3> QED BY <3>1, PutBefore
  <2>8. InFront(c0, t, u, turns, old) = InFront(c, t, u, turns, old)
    BY <1>3, <2>5, <2>6, <2>7
  <2>9. WheelAdd(c, C, e, t, now) = WheelAdd(c0, C, e, t, now)
    BY <2>3, <2>4, <2>8
  <2> QED BY <2>9 DEF c0
<1> QED BY <1>4, <1>5

\* A call that has set the alarm is not changed by a second one that does.
LEMMA SameRearm ==
    ASSUME NEW r, NEW box, NEW fired, NEW rearm, NEW fault,
           r = [box |-> box, fired |-> fired, rearm |-> rearm, fault |-> fault]
    PROVE  [r EXCEPT !.rearm = rearm] = r
OBVIOUS

LEMMA StaysRearmed ==
    ASSUME NEW r, NEW x, r = Done(x, {}, TRUE)
    PROVE  [r EXCEPT !.rearm = @ \/ TRUE] = r
<1> DEFINE yes == TRUE
<1>1. r = [box |-> x, fired |-> {}, rearm |-> yes, fault |-> "none"]
  BY DEF Done
<1>2. (r.rearm \/ TRUE) = yes
  OBVIOUS
<1> HIDE DEF yes
<1>3. [r EXCEPT !.rearm = yes] = r
  BY <1>1, SameRearm
<1> QED BY <1>2, <1>3

\* adjust_timer puts the first timer of a slot where it now belongs, if it has
\* no next or that is overwritten.
LEMMA WheelAdjustIs ==
    ASSUME NEW b, NEW C, NEW D, WheelOf(b, C, D), NEW t \in C, b.prev[t] = Null,
           NEW e \in [Timer -> Int], NEW now \in Int, now <= e[t],
           b.next[t] = Null \/ b.slots[(b.cur + Ticks(e[t] - now)) % N] # Null
    PROVE  WheelPut(b, WheelAdjust(b, C, e, t, now), C, D, t, Ticks(e[t] - now))
<1> DEFINE d == WheelDel(b, C, t)
           c == d.box
           c0 == [c EXCEPT !.next[t] = Null]
           r == WheelAdd(c, C, e, t, now)
           ticks == Ticks(e[t] - now)
           u == (b.cur + ticks) % N
           C2 == C \ {t}
           D2 == D \cup {t}
<1>1. d = Done(c, {}, TRUE) /\ WheelOf(c, C2, D) /\ SameTurns(b, c, Timer)
      /\ c.next[t] = b.next[t] /\ c.prev[t] = Null
  <2>1. WheelTaken(b, WheelDel(b, C, t), C \ {t}, D, t)
    BY WheelDelIs
  <2> QED BY <2>1 DEF WheelTaken
<1>2. t \in Timer /\ t \notin D /\ D \cap C = {} /\ c \in Wheel /\ b \in Wheel /\ C \subseteq Timer
  <2> HIDE DEF c
  <2> QED BY <1>1 DEF WheelOf
<1> HIDE DEF c
<1>3. c0 \in Wheel /\ SameTurns(c, c0, Timer) /\ c0.cur = c.cur /\ c0.slots = c.slots
      /\ c0.next = [c.next EXCEPT ![t] = Null] /\ c0.prev = c.prev /\ c0.slot = c.slot
      /\ c0.count = c.count /\ c0.rotation = c.rotation
  BY <1>2, WheelIs DEF SameTurns, Wheel, Links
<1>4. WheelOf(c0, C2, D2)
  <2> HIDE DEF c0
  <2>1. ASSUME NEW v \in 0..(N - 1) PROVE \E s : SlotIs(c0, C2, v, s)
    <3>1. PICK s : SlotIs(c, C2, v, s)
      BY <1>1 DEF WheelOf, SlotsOf
    <3>2. InSlot(c0, C2, v) = InSlot(c, C2, v)
      BY <1>3 DEF InSlot
    <3>3. \A i \in 1..Len(s) : s[i] \in C2
      BY <3>1, HoldsIs DEF SlotIs, InSlot
    <3>4. \A x \in C2 : x # t /\ x \in Timer
      BY <1>2
    <3>5. \A x \in C2 : c0.next[x] = c.next[x]
      BY <1>2, <1>3, <3>4, WheelIs
    <3> QED BY <1>3, <3>1, <3>2, <3>3, <3>5 DEF SlotIs, Linking
  <2>2. \A x \in D2 : c0.next[x] = Null /\ c0.prev[x] = Null
    BY <1>1, <1>2, <1>3, WheelIs DEF WheelOf
  <2> QED BY <1>1, <1>2, <1>3, <2>1, <2>2 DEF WheelOf, SlotsOf
<1>5. c.next[t] = Null \/ c.slots[u] \in C
  <2> SUFFICES ASSUME b.next[t] # Null PROVE c.slots[u] \in C
    BY <1>1
  <2>1. ticks \in Nat /\ b.cur \in 0..(N - 1) /\ N \in Nat \ {0}
    BY <1>2, WheelIs, WheelAssumption DEF Ticks
  <2>2. u \in 0..(N - 1)
    <3>1. b.cur + ticks \in Int
      BY <2>1
    <3> HIDE DEF ticks
    <3> QED BY <3>1, WheelAssumption
  <2> HIDE DEF u, C2
  <2>3. PICK x \in C : b.slot[x] = u
    BY <2>2, Occupied DEF u
  <2>4. b.next[t] \in C \ {t} /\ b.slot[b.next[t]] = b.slot[t]
    BY NextInSlot
  <2>5. \E y \in C \ {t} : b.slot[y] = u
    BY <2>3, <2>4
  <2>6. \E y \in C2 : c.slot[y] = u
    BY <1>1, <1>2, <2>5 DEF C2, SameTurns
  <2>7. c.slots[u] # Null
    BY <1>1, <2>2, <2>6, Occupied
  <2>8. PICK s : Holds(s, InSlot(c, C2, u)) /\ c.slots[u] = At(s, 1)
    BY <1>1, <2>2, SlotOf
  <2>9. c.slots[u] \in InSlot(c, C2, u)
    BY <2>7, <2>8, HoldsIs DEF At
  <2> QED BY <2>9 DEF InSlot, C2
<1>6. r = WheelAdd(c0, C, e, t, now)
  <2>1. c.cur = b.cur
    BY <1>1 DEF SameTurns
  <2> QED BY <1>2, <1>5, <2>1, NextOverwritten
<1>7. /\ r = Done(r.box, {}, TRUE) /\ WheelOf(r.box, C2 \cup {t}, D2 \ {t})
      /\ SameTurns(c, r.box, Timer \ {t})
      /\ r.box.slot[t] = (c.cur + ticks) % N /\ r.box.rotation[t] = ticks \div N
  <2>1. C2 \subseteq C /\ t \in D2
    OBVIOUS
  <2> HIDE DEF c0, C2, D2
  <2>2. WheelPut(c0, WheelAdd(c0, C, e, t, now), C2 \cup {t}, D2 \ {t}, t, ticks)
    BY <1>4, <2>1, WheelAddIs
  <2>3. WheelPut(c0, r, C2 \cup {t}, D2 \ {t}, t, ticks)
    BY <1>6, <2>2
  <2> HIDE DEF r, ticks
  <2> QED BY <1>3, <2>3 DEF WheelPut, SameTurns
<1>8. C2 \cup {t} = C /\ D2 \ {t} = D
  BY <1>2
<1>9. WheelAdjust(b, C, e, t, now) = r
  <2>1. WheelAdjust(b, C, e, t, now) = [r EXCEPT !.rearm = @ \/ TRUE]
    <3>1. d.fault = "none" /\ d.rearm = TRUE
      <4> HIDE DEF d, c
      <4> QED BY <1>1 DEF Done
    <3> QED BY <3>1 DEF WheelAdjust, Then, c
  <2>2. [r EXCEPT !.rearm = @ \/ TRUE] = r
    <3> HIDE DEF r
    <3> QED BY <1>7, StaysRearmed
  <2> QED BY <2>1, <2>2
<1>10. SameTurns(b, r.box, Timer \ {t}) /\ c.cur = b.cur
  BY <1>1, <1>7 DEF SameTurns
<1> HIDE DEF r, c
<1> QED BY <1>7, <1>8, <1>9, <1>10 DEF WheelPut
-----------------------------------------------------------------------------
(* A tick of the wheel *)

\* The loop of tick, which began with wheel c and the timers C, has come to
\* the i-th timer of those, q, that are still in the slot: the ones before it
\* wait another turn, and those in fired have run, their turns being over.
SweptAt(c, C, D, b, live, fired, q, i) ==
    /\ WheelOf(b, live, D) /\ fired \subseteq C /\ live = C \ fired
    /\ b.cur = c.cur /\ b.slot = c.slot
    /\ \A t \in fired : c.slot[t] = c.cur /\ c.rotation[t] = 0
    /\ \A t \in Timer : t \notin InSlot(c, live, c.cur) => b.rotation[t] = c.rotation[t]
    /\ SlotIs(b, live, c.cur, q) /\ i \in 1..(Len(q) + 1)
    /\ \A j \in 1..Len(q) :
         /\ j < i => c.rotation[q[j]] > 0 /\ b.rotation[q[j]] = c.rotation[q[j]] - 1
         /\ j >= i => b.rotation[q[j]] = c.rotation[q[j]]

\* The timers the loop has not met yet.
Pending(c, b, live) == {t \in live : c.slot[t] = c.cur /\ b.rotation[t] = c.rotation[t]}

\* Where the loop is, and what it finds there.
LEMMA SweptIs ==
    ASSUME NEW c \in Wheel, NEW C, NEW D, NEW b, NEW live, NEW fired, NEW q, NEW i,
           SweptAt(c, C, D, b, live, fired, q, i)
    PROVE  /\ b \in Wheel /\ c.cur \in 0..(N - 1) /\ Holds(q, InSlot(c, live, c.cur))
           /\ Linking(b.next, b.prev, q) /\ b.slots[c.cur] = At(q, 1) /\ live \subseteq Timer
           /\ Len(q) \in Nat /\ i \in 1..(Len(q) + 1) /\ live \subseteq C /\ Null \notin live
           /\ \A j \in 1..Len(q) : q[j] \in InSlot(c, live, c.cur) /\ q[j] \in live /\ q[j] \in Timer
           /\ \A j, k \in 1..Len(q) : q[j] = q[k] => j = k
           /\ At(q, i) = Null <=> i = Len(q) + 1
           /\ i \in 1..Len(q) => At(q, i) = q[i] /\ q[i] \in Pending(c, b, live)
<1>1. b \in Wheel /\ c.cur \in 0..(N - 1) /\ live \subseteq Timer /\ live \subseteq C /\ fired \subseteq C
  BY WheelIs DEF SweptAt, WheelOf
<1>2. InSlot(b, live, c.cur) = InSlot(c, live, c.cur)
  BY DEF SweptAt, InSlot
<1>3. /\ Holds(q, InSlot(c, live, c.cur)) /\ Linking(b.next, b.prev, q)
      /\ b.slots[c.cur] = At(q, 1) /\ i \in 1..(Len(q) + 1)
  BY <1>2 DEF SweptAt, SlotIs
<1>4. /\ Len(q) \in Nat
      /\ \A j \in 1..Len(q) : q[j] \in InSlot(c, live, c.cur)
      /\ \A j, k \in 1..Len(q) : q[j] = q[k] => j = k
  <2> DEFINE K == InSlot(c, live, c.cur)
  <2>1. Holds(q, K)
    BY <1>3
  <2> HIDE DEF K
  <2>2. Len(q) \in Nat /\ \A j \in 1..Len(q) : q[j] \in K
    BY <2>1, HoldsIs
  <2>3. \A j, k \in 1..Len(q) : q[j] = q[k] => j = k
    BY <2>1, HoldsIs
  <2> QED BY <2>2, <2>3 DEF K
<1>5. \A j \in 1..Len(q) : q[j] \in live /\ q[j] \in Timer /\ q[j] # Null /\ c.slot[q[j]] = c.cur
  BY <1>1, <1>4, TimerAssumption DEF InSlot
<1>6. At(q, i) = Null <=> i = Len(q) + 1
  <2>1. i \in 1..Len(q) <=> i # Len(q) + 1
    BY <1>3, <1>4
  <2> QED BY <1>5, <2>1 DEF At
<1>7. ASSUME i \in 1..Len(q) PROVE At(q, i) = q[i] /\ q[i] \in Pending(c, b, live)
  <2>1. i >= i
    BY <1>7, <1>4
  <2>2. b.rotation[q[i]] = c.rotation[q[i]]
    BY <1>7, <2>1 DEF SweptAt
  <2> QED BY <1>5, <1>7, <2>2 DEF At, Pending
<1>8. Null \notin live
  BY <1>1, TimerAssumption
<1> QED BY <1>1, <1>3, <1>4, <1>5, <1>6, <1>7, <1>8


\* The turns that timers have to wait are naturals; timer t waits one less.
TurnsKnown(b) == \A x \in Timer : b.rotation[x] \in Nat
Turned(b, t) == [b EXCEPT !.rotation[t] = @ - 1]

\* A timer of the slot waits another turn.
LEMMA SweepWaits ==
    ASSUME NEW c \in Wheel, NEW C, NEW D, NEW b, NEW live, NEW fired, NEW q, NEW i,
           SweptAt(c, C, D, b, live, fired, q, i), i \in 1..Len(q), WaitsTurn(b, q[i])
    PROVE  /\ SweptAt(c, C, D, Turned(b, q[i]), live, fired, q, i + 1)
           /\ Pending(c, Turned(b, q[i]), live) = Pending(c, b, live) \ {q[i]}
<1> DEFINE t == q[i]
           n == Len(q)
           rotation2 == [b.rotation EXCEPT ![t] = @ - 1]
           d == Turned(b, t)
<1>1. /\ b \in Wheel /\ live \subseteq Timer /\ n \in Nat /\ i \in 1..n
      /\ \A j \in 1..n : q[j] \in InSlot(c, live, c.cur) /\ q[j] \in Timer
      /\ \A j, k \in 1..n : q[j] = q[k] => j = k
      /\ t \in Pending(c, b, live) /\ t \in Timer
  BY SweptIs
<1>2. d = [slots |-> b.slots, cur |-> b.cur, count |-> b.count, next |-> b.next,
           prev |-> b.prev, rotation |-> rotation2, slot |-> b.slot]
  <2>1. b = [slots |-> b.slots, cur |-> b.cur, count |-> b.count, next |-> b.next,
             prev |-> b.prev, rotation |-> b.rotation, slot |-> b.slot]
    BY <1>1, WheelIs
  <2> QED BY <2>1 DEF Turned
<1> HIDE DEF d
<1>3. /\ rotation2 \in [Timer -> Int] /\ rotation2[t] = b.rotation[t] - 1
      /\ \A x \in Timer \ {t} : rotation2[x] = b.rotation[x]
  <2>1. b.rotation \in [Timer -> Int]
    BY <1>1, WheelIs
  <2> HIDE DEF t
  <2> QED BY <1>1, <2>1
<1> HIDE DEF rotation2, t
<1>4. /\ d \in Wheel /\ d.slots = b.slots /\ d.cur = b.cur /\ d.count = b.count
      /\ d.next = b.next /\ d.prev = b.prev /\ d.rotation = rotation2 /\ d.slot = b.slot
  <2>1. /\ b.slots \in [0..(N - 1) -> Timer \cup {Null}] /\ b.cur \in 0..(N - 1)
        /\ b.count \in Int /\ b.next \in [Timer -> Timer \cup {Null}]
        /\ b.prev \in [Timer -> Timer \cup {Null}] /\ b.slot \in [Timer -> 0..(N - 1)]
    BY <1>1, WheelIs
  <2> QED BY <1>2, <1>3, <2>1 DEF Wheel, Links
<1>5. b.rotation[t] = c.rotation[t] /\ c.rotation[t] > 0 /\ c.rotation[t] \in Int
  <2>1. b.rotation[t] > 0
    BY DEF WaitsTurn, t
  <2>2. c.rotation \in [Timer -> Int]
    BY WheelIs
  <2> QED BY <1>1, <2>1, <2>2 DEF Pending
<1>6. \A u : \A s : SlotIs(b, live, u, s) => SlotIs(d, live, u, s)
  BY <1>4 DEF SlotIs, InSlot
<1>7. WheelOf(d, live, D)
  <2>1. WheelOf(b, live, D)
    BY DEF SweptAt
  <2>2. SlotsOf(d, live)
    BY <1>6, <2>1 DEF WheelOf, SlotsOf
  <2> QED BY <1>4, <2>1, <2>2 DEF WheelOf
<1>8. \A j \in 1..n : j # i => q[j] \in Timer \ {t}
  BY <1>1 DEF t
<1>9. SweptAt(c, C, D, d, live, fired, q, i + 1)
  <2>1. /\ fired \subseteq C /\ live = C \ fired /\ b.cur = c.cur /\ b.slot = c.slot
        /\ \A x \in fired : c.slot[x] = c.cur /\ c.rotation[x] = 0
        /\ \A x \in Timer : x \notin InSlot(c, live, c.cur) => b.rotation[x] = c.rotation[x]
        /\ SlotIs(b, live, c.cur, q)
        /\ \A j \in 1..n :
             /\ j < i => c.rotation[q[j]] > 0 /\ b.rotation[q[j]] = c.rotation[q[j]] - 1
             /\ j >= i => b.rotation[q[j]] = c.rotation[q[j]]
    BY DEF SweptAt
  <2>2. \A x \in Timer : x \notin InSlot(c, live, c.cur) => d.rotation[x] = c.rotation[x]
    BY <1>1, <1>3, <1>4, <2>1 DEF t
  <2>3. SlotIs(d, live, c.cur, q) /\ i + 1 \in 1..(n + 1)
    <3>1. SlotIs(d, live, c.cur, q)
      BY <1>6, <2>1
    <3>2. i + 1 \in 1..(n + 1)
      BY <1>1
    <3> QED BY <3>1, <3>2
  <2>4. ASSUME NEW j \in 1..n
        PROVE  /\ j < i + 1 => c.rotation[q[j]] > 0 /\ d.rotation[q[j]] = c.rotation[q[j]] - 1
               /\ j >= i + 1 => d.rotation[q[j]] = c.rotation[q[j]]
    <3>1. CASE j = i
      <4>1. q[j] = t /\ ~(j >= i + 1)
        BY <1>1, <3>1 DEF t
      <4> QED BY <1>3, <1>4, <1>5, <4>1
    <3>2. CASE j # i
      <4>1. d.rotation[q[j]] = b.rotation[q[j]]
        BY <1>3, <1>4, <1>8, <3>2
      <4>2. (j < i + 1 => j < i) /\ (j >= i + 1 => j >= i)
        BY <1>1, <3>2
      <4> QED BY <2>1, <4>1, <4>2
    <3> QED BY <3>1, <3>2
  <2> QED BY <1>4, <1>7, <2>1, <2>2, <2>3, <2>4 DEF SweptAt
<1>10. Pending(c, d, live) = Pending(c, b, live) \ {t}
  <2>1. d.rotation[t] # c.rotation[t]
    BY <1>3, <1>4, <1>5
  <2>2. \A x \in live : x # t => d.rotation[x] = b.rotation[x]
    BY <1>1, <1>3, <1>4
  <2> QED BY <2>1, <2>2 DEF Pending
<1> QED BY <1>9, <1>10 DEF t, d

\* The wheel d without the i-th timer of the slot, and tick behind that timer.
FiredFrom(c, b, live, fired, q, i, d) ==
    /\ TakenOut(b, d, live, q, i, c.cur)
    /\ d.cur = b.cur /\ d.slot = b.slot /\ d.rotation = b.rotation
    /\ Fire(Sweeping(b, live, q[i], fired, "none"))
         = Sweeping(d, live \ {q[i]}, At(q, i + 1), fired \cup {q[i]}, "none")

\* The loop has come to the timer behind it.
FiredTo(c, C, D, b, live, fired, q, i, d) ==
    /\ SweptAt(c, C, D, d, live \ {q[i]}, fired \cup {q[i]}, Without(q, i), i)
    /\ At(Without(q, i), i) = At(q, i + 1)
    /\ Pending(c, d, live \ {q[i]}) = Pending(c, b, live) \ {q[i]}

\* A timer of the slot runs and leaves it.
LEMMA SweepFires ==
    ASSUME NEW c \in Wheel, TurnsKnown(c),
           NEW C, NEW D, NEW b, NEW live, NEW fired, NEW q, NEW i,
           SweptAt(c, C, D, b, live, fired, q, i), i \in 1..Len(q), ~WaitsTurn(b, q[i]),
           NEW d \in Wheel, FiredFrom(c, b, live, fired, q, i, d)
    PROVE  FiredTo(c, C, D, b, live, fired, q, i, d)
<1> DEFINE t == q[i]
           n == Len(q)
           w == Without(q, i)
           live2 == live \ {t}
<1>0. /\ TakenOut(b, d, live, q, i, c.cur)
      /\ d.cur = b.cur /\ d.slot = b.slot /\ d.rotation = b.rotation
  BY DEF FiredFrom
<1>1. /\ b \in Wheel /\ live \subseteq Timer /\ live \subseteq C /\ n \in Nat /\ i \in 1..n
      /\ c.cur \in 0..(N - 1) /\ Holds(q, InSlot(c, live, c.cur))
      /\ \A j \in 1..n : q[j] \in InSlot(c, live, c.cur) /\ q[j] \in Timer
      /\ \A j, k \in 1..n : q[j] = q[k] => j = k
      /\ t \in Pending(c, b, live) /\ t \in Timer
  BY SweptIs
<1>2. /\ WheelOf(b, live, D)
      /\ fired \subseteq C /\ live = C \ fired /\ b.cur = c.cur /\ b.slot = c.slot
      /\ \A x \in fired : c.slot[x] = c.cur /\ c.rotation[x] = 0
      /\ \A x \in Timer : x \notin InSlot(c, live, c.cur) => b.rotation[x] = c.rotation[x]
      /\ SlotIs(b, live, c.cur, q)
      /\ \A j \in 1..n :
           /\ j < i => c.rotation[q[j]] > 0 /\ b.rotation[q[j]] = c.rotation[q[j]] - 1
           /\ j >= i => b.rotation[q[j]] = c.rotation[q[j]]
  BY DEF SweptAt
<1>3. c.slot[t] = c.cur /\ c.rotation[t] = 0 /\ t \in live /\ t \in C
  <2>1. ~(b.rotation[t] > 0) /\ b.rotation[t] = c.rotation[t]
    BY <1>1 DEF WaitsTurn, Pending
  <2>2. c.rotation[t] \in Nat
    BY <1>1 DEF TurnsKnown
  <2> HIDE DEF t
  <2> QED BY <1>1, <2>1, <2>2 DEF Pending
<1>4. /\ WheelOf(d, live2, D) /\ InSlot(d, live2, c.cur) = InSlot(b, live, c.cur) \ {t}
      /\ SlotIs(d, live2, c.cur, w)
  <2>1. WheelOf(b, live, D) /\ c.cur \in 0..(N - 1) /\ SlotIs(b, live, c.cur, q) /\ i \in 1..Len(q)
    BY <1>1, <1>2
  <2>2. WheelOf(d, live \ {q[i]}, D)
    BY <1>0, <2>1, WheelLess
  <2>3. InSlot(d, live \ {q[i]}, c.cur) = InSlot(b, live, c.cur) \ {q[i]}
    BY <1>0 DEF InSlot
  <2>4. SlotIs(d, live \ {q[i]}, c.cur, Without(q, i))
    BY <1>0, <2>1, WheelLess
  <2> QED BY <2>2, <2>3, <2>4
<1>5. /\ Len(w) = n - 1 /\ Len(w) \in Nat
      /\ \A j \in 1..(n - 1) : w[j] = IF j < i THEN q[j] ELSE q[j + 1]
  <2>1. Len(w) = n - 1
    BY <1>1, WithoutIs
  <2>2. n - 1 \in Nat
    BY <1>1
  <2>3. \A j \in 1..(n - 1) : w[j] = IF j < i THEN q[j] ELSE q[j + 1]
    BY DEF Without
  <2> HIDE DEF w
  <2> QED BY <2>1, <2>2, <2>3
<1> HIDE DEF t, w
<1>6. SweptAt(c, C, D, d, live2, fired \cup {t}, w, i)
  <2>1. /\ fired \cup {t} \subseteq C /\ live2 = C \ (fired \cup {t}) /\ d.cur = c.cur /\ d.slot = c.slot
        /\ \A x \in fired \cup {t} : c.slot[x] = c.cur /\ c.rotation[x] = 0
    BY <1>0, <1>2, <1>3
  <2>2. \A x \in Timer : x \notin InSlot(c, live2, c.cur) => d.rotation[x] = c.rotation[x]
    <3> TAKE x \in Timer
    <3>1. CASE x = t
      BY <1>0, <1>1, <3>1 DEF Pending
    <3>2. CASE x # t
      BY <1>0, <1>2, <3>2 DEF InSlot
    <3> QED BY <3>1, <3>2
  <2>3. i \in 1..(Len(w) + 1)
    BY <1>1, <1>5
  <2>4. ASSUME NEW j \in 1..Len(w)
        PROVE  /\ j < i => c.rotation[w[j]] > 0 /\ d.rotation[w[j]] = c.rotation[w[j]] - 1
               /\ j >= i => d.rotation[w[j]] = c.rotation[w[j]]
    <3>1. j \in 1..(n - 1) /\ j \in 1..n /\ j + 1 \in 1..n
      BY <1>1, <1>5
    <3>2. CASE j < i
      <4>1. w[j] = q[j] /\ ~(j >= i)
        BY <1>1, <1>5, <3>1, <3>2
      <4> QED BY <1>0, <1>2, <3>1, <3>2, <4>1
    <3>3. CASE ~(j < i)
      <4>1. w[j] = q[j + 1] /\ j + 1 >= i
        BY <1>1, <1>5, <3>1, <3>3
      <4> QED BY <1>0, <1>2, <3>1, <3>3, <4>1
    <3> QED BY <3>2, <3>3
  <2> QED BY <1>4, <2>1, <2>2, <2>3, <2>4 DEF SweptAt
<1>7. At(w, i) = At(q, i + 1)
  <2>1. CASE i = n
    <3>1. i \notin 1..(n - 1) /\ i + 1 \notin 1..n
      BY <1>1, <2>1
    <3> QED BY <1>5, <3>1 DEF At
  <2>2. CASE i # n
    <3>1. i \in 1..(n - 1) /\ i + 1 \in 1..n /\ ~(i < i)
      BY <1>1, <2>2
    <3> QED BY <1>5, <3>1 DEF At
  <2> QED BY <2>1, <2>2
<1>8. Pending(c, d, live2) = Pending(c, b, live) \ {t}
  BY <1>0 DEF Pending
<1> QED BY <1>6, <1>7, <1>8 DEF FiredTo, t, w


\* What tick does to the links of a timer that runs.
LEMMA FireIs ==
    ASSUME NEW c \in Wheel, NEW C, NEW D, NEW b, NEW live, NEW fired, NEW q, NEW i,
           SweptAt(c, C, D, b, live, fired, q, i), i \in 1..Len(q)
    PROVE  \E d \in Wheel : FiredFrom(c, b, live, fired, q, i, d)
<1> DEFINE t == q[i]
           len == Len(q)
           n == b.next[t]
           p == b.prev[t]
           first == t = b.slots[b.cur]
           prev2 == IF n = Null THEN b.prev ELSE [b.prev EXCEPT ![n] = IF first THEN Null ELSE p]
           slots2 == IF first THEN [b.slots EXCEPT ![b.cur] = n] ELSE b.slots
           next2 == IF first THEN b.next ELSE [b.next EXCEPT ![p] = n]
           d == [b EXCEPT !.count = b.count - 1, !.prev = prev2, !.slots = slots2, !.next = next2]
           s == Sweeping(b, live, t, fired, "none")
<1>1. /\ b \in Wheel /\ live \subseteq Timer /\ len \in Nat /\ i \in 1..len /\ Null \notin live
      /\ \A j \in 1..len : q[j] \in live
      /\ \A j, k \in 1..len : q[j] = q[k] => j = k
      /\ Linking(b.next, b.prev, q) /\ b.slots[c.cur] = At(q, 1) /\ b.cur = c.cur
      /\ t \in Timer
  <2>1. b.cur = c.cur
    BY DEF SweptAt
  <2>2. /\ b \in Wheel /\ live \subseteq Timer /\ len \in Nat /\ i \in 1..len /\ Null \notin live
        /\ \A j \in 1..len : q[j] \in live
        /\ Linking(b.next, b.prev, q) /\ b.slots[c.cur] = At(q, 1)
    BY SweptIs
  <2>3. \A j, k \in 1..len : q[j] = q[k] => j = k
    BY SweptIs
  <2> QED BY <2>1, <2>2, <2>3
<1>2. n = At(q, i + 1) /\ p = At(q, i - 1)
  BY <1>1 DEF Linking
<1>3. /\ n \in live \cup {Null} /\ p \in live \cup {Null}
      /\ first <=> i = 1
      /\ i = 1 => p = Null
      /\ i # 1 => p \in live
      /\ n # t /\ p # t
  <2>1. i # 1 => i - 1 \in 1..len
    BY <1>1
  <2>2. 1 \in 1..len /\ 1 - 1 \notin 1..len /\ i + 1 # i /\ i - 1 # i
    BY <1>1
  <2>3. first <=> i = 1
    <3>1. b.slots[b.cur] = q[1]
      BY <1>1, <2>2 DEF At
    <3> QED BY <1>1, <2>2, <3>1
  <2>4. (i = 1 => p = Null) /\ (i # 1 => p \in live)
    BY <1>1, <1>2, <2>1, <2>2 DEF At
  <2>5. n \in live \cup {Null} /\ p \in live \cup {Null} /\ n # t /\ p # t
    BY <1>1, <1>2, <2>2 DEF At
  <2> HIDE DEF first
  <2> QED BY <2>3, <2>4, <2>5
<1>4. /\ s.b = b /\ s.live = live /\ s.x = t /\ s.fired = fired
  BY DEF Sweeping
<1> HIDE DEF t, n, p
<1>5. d = [slots |-> slots2, cur |-> b.cur, count |-> b.count - 1, next |-> next2,
           prev |-> prev2, rotation |-> b.rotation, slot |-> b.slot]
  <2> DEFINE c1 == [b EXCEPT !.count = b.count - 1]
             c2 == [c1 EXCEPT !.prev = prev2]
             c3 == [c2 EXCEPT !.slots = slots2]
             c4 == [c3 EXCEPT !.next = next2]
  <2> HIDE DEF prev2, slots2, next2
  <2>1. b = [slots |-> b.slots, cur |-> b.cur, count |-> b.count, next |-> b.next,
             prev |-> b.prev, rotation |-> b.rotation, slot |-> b.slot]
    BY <1>1, WheelIs
  <2>2. c1 = [slots |-> b.slots, cur |-> b.cur, count |-> b.count - 1, next |-> b.next,
              prev |-> b.prev, rotation |-> b.rotation, slot |-> b.slot]
    BY <2>1
  <2> HIDE DEF c1
  <2>3. c2 = [slots |-> b.slots, cur |-> b.cur, count |-> b.count - 1, next |-> b.next,
              prev |-> prev2, rotation |-> b.rotation, slot |-> b.slot]
    BY <2>2
  <2> HIDE DEF c2
  <2>4. c3 = [slots |-> slots2, cur |-> b.cur, count |-> b.count - 1, next |-> b.next,
              prev |-> prev2, rotation |-> b.rotation, slot |-> b.slot]
    BY <2>3
  <2> HIDE DEF c3
  <2>5. c4 = [slots |-> slots2, cur |-> b.cur, count |-> b.count - 1, next |-> next2,
              prev |-> prev2, rotation |-> b.rotation, slot |-> b.slot]
    BY <2>4
  <2> QED BY <2>5 DEF c1, c2, c3
<1>6. Fire(s) = Sweeping(d, live \ {t}, n, fired \cup {t}, "none")
  <2> DEFINE e == [b EXCEPT
                !.count = @ - 1,
                !.prev = IF n = Null THEN @ ELSE [@ EXCEPT ![n] = IF first THEN Null ELSE p],
                !.slots = IF first THEN [@ EXCEPT ![b.cur] = n] ELSE @,
                !.next = IF first THEN @ ELSE [@ EXCEPT ![p] = n]]
  <2>1. Fire(s) = Sweeping(e, live \ {t}, n, fired \cup {t}, "none")
    <3>1. ~(n # Null /\ n \notin live) /\ ~(~first /\ p = Null) /\ ~(~first /\ p \notin live)
      BY <1>1, <1>3
    <3> HIDE DEF e, s
    <3> QED BY <1>4, <3>1 DEF Fire, n, p, e
  <2>2. e = d
    <3> DEFINE c1 == [b EXCEPT !.count = b.count - 1]
               c2 == [c1 EXCEPT !.prev = prev2]
               c3 == [c2 EXCEPT !.slots = slots2]
    <3>1. b = [slots |-> b.slots, cur |-> b.cur, count |-> b.count, next |-> b.next,
               prev |-> b.prev, rotation |-> b.rotation, slot |-> b.slot]
      BY <1>1, WheelIs
    <3>2. c1.prev = b.prev /\ c1.slots = b.slots /\ c1.next = b.next
      BY <3>1
    <3>3. c2.slots = c1.slots /\ c2.next = c1.next /\ c3.next = c2.next
      BY <3>1
    <3> QED BY <3>2, <3>3
  <2> HIDE DEF d, e
  <2> QED BY <2>1, <2>2
<1> HIDE DEF d, s
<1>7. /\ next2 \in Links /\ prev2 \in Links /\ slots2 \in [0..(N - 1) -> Timer \cup {Null}]
      /\ \A x \in Timer \ {t} : /\ next2[x] = IF x = p THEN n ELSE b.next[x]
                                /\ prev2[x] = IF x = n THEN p ELSE b.prev[x]
      /\ \A v \in 0..(N - 1) : slots2[v] = IF v = c.cur /\ i = 1 THEN n ELSE b.slots[v]
  <2>1. /\ b.slots \in [0..(N - 1) -> Timer \cup {Null}] /\ b.cur \in 0..(N - 1)
        /\ b.next \in [Timer -> Timer \cup {Null}] /\ b.prev \in [Timer -> Timer \cup {Null}]
    BY <1>1, WheelIs
  <2>2. p \in Timer \cup {Null} /\ n \in Timer \cup {Null}
    BY <1>1, <1>3
  <2>3. \A x \in Timer : x # Null
    BY TimerAssumption
  <2>4. first \in BOOLEAN /\ (first <=> p = Null) /\ (first => i = 1) /\ (~first => i # 1)
    BY <1>1, <1>3
  <2> HIDE DEF first
  <2>5. next2 \in Links /\ \A x \in Timer : next2[x] = IF x = p THEN n ELSE b.next[x]
    BY <2>1, <2>2, <2>3, <2>4 DEF Links
  <2>6. prev2 \in Links /\ \A x \in Timer : prev2[x] = IF x = n THEN p ELSE b.prev[x]
    <3>1. (IF first THEN Null ELSE p) = p
      BY <2>4
    <3>2. prev2 = IF n = Null THEN b.prev ELSE [b.prev EXCEPT ![n] = p]
      BY <3>1
    <3> HIDE DEF prev2
    <3> QED BY <2>1, <2>2, <2>3, <3>2 DEF Links
  <2>7. /\ slots2 \in [0..(N - 1) -> Timer \cup {Null}]
        /\ \A v \in 0..(N - 1) : slots2[v] = IF v = c.cur /\ i = 1 THEN n ELSE b.slots[v]
    BY <1>1, <2>1, <2>2, <2>4
  <2> HIDE DEF next2, prev2, slots2
  <2> QED BY <2>5, <2>6, <2>7
<1> HIDE DEF next2, prev2, slots2
<1>8. d \in Wheel /\ d.slots = slots2 /\ d.cur = b.cur /\ d.count = b.count - 1 /\ d.next = next2
      /\ d.prev = prev2 /\ d.rotation = b.rotation /\ d.slot = b.slot
  <2>1. /\ b.cur \in 0..(N - 1) /\ b.count - 1 \in Int /\ b.rotation \in [Timer -> Int]
        /\ b.slot \in [Timer -> 0..(N - 1)]
    BY <1>1, WheelIs
  <2> QED BY <1>5, <1>7, <2>1 DEF Wheel
<1>9. TakenOut(b, d, live, q, i, c.cur)
  <2>1. i = 1 => n = At(q, 2)
    BY <1>2
  <2> QED BY <1>2, <1>7, <1>8, <2>1 DEF TakenOut, t
<1>10. FiredFrom(c, b, live, fired, q, i, d)
  BY <1>2, <1>6, <1>8, <1>9 DEF FiredFrom, t, s
<1> QED BY <1>8, <1>10


\* The states of the loop of tick while nothing goes wrong.
SweepStates ==
    [b : Wheel, live : SUBSET Timer, x : Timer \cup {Null}, fired : SUBSET Timer,
     fault : {"none", "pointer", "assert"}]
Sweep(c, C, D) ==
    {s \in SweepStates : /\ s.fault = "none"
                         /\ \E q, i : /\ SweptAt(c, C, D, s.b, s.live, s.fired, q, i)
                                      /\ s.x = At(q, i)}

\* From state s to r the loop has met one more timer.
SweepStep(c, s, r) ==
    \E t \in Pending(c, s.b, s.live) : Pending(c, r.b, r.live) = Pending(c, s.b, s.live) \ {t}

\* One pass of the loop takes one timer from those not met yet.
LEMMA SweepPassIs ==
    ASSUME NEW c \in Wheel, TurnsKnown(c), NEW C, NEW D,
           NEW s \in Sweep(c, C, D), s.x # Null
    PROVE  SweepPass[s] \in Sweep(c, C, D) /\ SweepStep(c, s, SweepPass[s])
<1>1. /\ s \in SweepStates /\ s.fault = "none" /\ s.b \in Wheel /\ s.live \subseteq Timer
      /\ s.fired \subseteq Timer
      /\ s = [b |-> s.b, live |-> s.live, x |-> s.x, fired |-> s.fired, fault |-> "none"]
  BY DEF Sweep, SweepStates
<1>2. PICK q, i : SweptAt(c, C, D, s.b, s.live, s.fired, q, i) /\ s.x = At(q, i)
  BY DEF Sweep
<1> DEFINE b == s.b
           live == s.live
           fired == s.fired
           t == q[i]
<1>3. /\ Len(q) \in Nat /\ i \in 1..Len(q) /\ s.x = t /\ t \in live /\ t \in Timer
      /\ t \in Pending(c, b, live) /\ Linking(b.next, b.prev, q)
  <2>1. Len(q) \in Nat /\ i \in 1..(Len(q) + 1) /\ (At(q, i) = Null <=> i = Len(q) + 1)
    BY <1>2, SweptIs
  <2>2. i \in 1..Len(q)
    BY <1>2, <2>1
  <2>3. At(q, i) = q[i] /\ q[i] \in Pending(c, b, live) /\ Linking(b.next, b.prev, q)
    BY <1>2, <2>2, SweptIs
  <2>4. q[i] \in live /\ q[i] \in Timer
    BY <1>2, <2>2, SweptIs
  <2> QED BY <1>2, <2>1, <2>2, <2>3, <2>4
<1>4. s = Sweeping(b, live, t, fired, "none")
  BY <1>1, <1>3 DEF Sweeping
<1>5. SweepPass[s] = IF WaitsTurn(b, t) THEN WaitOn(s) ELSE Fire(s)
  <2>1. s \in SweepStates /\ s.x # Null /\ s.fault = "none" /\ s.x \in s.live /\ s.x = t
    BY <1>1, <1>3
  <2>2. SweepPass[s] = IF s.x = Null \/ s.fault # "none" THEN s
                       ELSE IF s.x \notin s.live THEN [s EXCEPT !.fault = "pointer"]
                       ELSE IF WaitsTurn(s.b, s.x) THEN WaitOn(s) ELSE Fire(s)
    BY <2>1 DEF SweepPass, SweepStates
  <2> QED BY <2>1, <2>2
<1> DEFINE after == At(q, i + 1)
<1>6. after \in Timer \cup {Null} /\ b.next[t] = after
  <2>1. \A j \in 1..Len(q) : q[j] \in Timer
    BY <1>2, SweptIs
  <2>2. b.next[t] = after
    BY <1>3 DEF Linking
  <2> QED BY <2>1, <2>2 DEF At
<1>7. CASE WaitsTurn(b, t)
  <2> DEFINE d == Turned(b, q[i])
  <2>1. /\ SweptAt(c, C, D, d, live, fired, q, i + 1)
        /\ Pending(c, d, live) = Pending(c, b, live) \ {q[i]}
    <3>1. SweptAt(c, C, D, b, live, fired, q, i) /\ i \in 1..Len(q) /\ WaitsTurn(b, q[i])
      BY <1>2, <1>3, <1>7
    <3> HIDE DEF b, live, fired, after
    <3> QED BY <3>1, SweepWaits
  <2>2. SweepPass[s] = Sweeping(d, live, after, fired, "none")
    <3>1. WaitOn(s) = Sweeping(d, live, after, fired, "none")
      BY <1>3, <1>6 DEF WaitOn, Turned
    <3> HIDE DEF d
    <3> QED BY <1>5, <1>7, <3>1
  <2> HIDE DEF d, after, b, live, fired
  <2>3. d \in Wheel
    BY <2>1 DEF SweptAt, WheelOf
  <2> DEFINE r == SweepPass[s]
  <2>4. /\ r.b = d /\ r.live = live /\ r.x = after /\ r.fired = fired /\ r.fault = "none"
        /\ r \in SweepStates
    <3>1. live \subseteq Timer /\ fired \subseteq Timer
      BY <1>1 DEF live, fired
    <3> QED BY <1>6, <2>2, <2>3, <3>1 DEF SweepStates, Sweeping
  <2> HIDE DEF r
  <2>5. r \in Sweep(c, C, D)
    BY <2>1, <2>4 DEF Sweep, after
  <2>6. SweepStep(c, s, r)
    BY <1>3, <2>1, <2>4 DEF SweepStep, b, live
  <2> QED BY <2>5, <2>6 DEF r
<1>8. CASE ~WaitsTurn(b, t)
  <2>1. PICK d \in Wheel : FiredFrom(c, b, live, fired, q, i, d)
    <3>1. SweptAt(c, C, D, b, live, fired, q, i) /\ i \in 1..Len(q)
      BY <1>2, <1>3
    <3> HIDE DEF b, live, fired, after
    <3> QED BY <3>1, FireIs
  <2>2. SweepPass[s] = Sweeping(d, live \ {t}, after, fired \cup {t}, "none")
    BY <1>4, <1>5, <1>8, <2>1 DEF FiredFrom
  <2>3. /\ SweptAt(c, C, D, d, live \ {q[i]}, fired \cup {q[i]}, Without(q, i), i)
        /\ At(Without(q, i), i) = At(q, i + 1)
        /\ Pending(c, d, live \ {q[i]}) = Pending(c, b, live) \ {q[i]}
    <3>1. SweptAt(c, C, D, b, live, fired, q, i) /\ i \in 1..Len(q) /\ ~WaitsTurn(b, q[i])
      BY <1>2, <1>3, <1>8
    <3> HIDE DEF b, live, fired, after
    <3>2. FiredTo(c, C, D, b, live, fired, q, i, d)
      BY <2>1, <3>1, SweepFires
    <3> QED BY <3>2 DEF FiredTo
  <2> DEFINE r == SweepPass[s]
  <2> HIDE DEF after, b, live, fired, t
  <2>4. /\ r.b = d /\ r.live = live \ {t} /\ r.x = after /\ r.fired = fired \cup {t}
        /\ r.fault = "none" /\ r \in SweepStates
    <3>1. live \ {t} \subseteq Timer /\ fired \cup {t} \subseteq Timer
      BY <1>1, <1>3 DEF live, fired
    <3> QED BY <1>6, <2>1, <2>2, <3>1 DEF SweepStates, Sweeping
  <2> HIDE DEF r
  <2>5. r \in Sweep(c, C, D)
    BY <2>3, <2>4 DEF Sweep, after, t
  <2>6. SweepStep(c, s, r)
    BY <1>3, <2>3, <2>4 DEF SweepStep, b, live, t
  <2> QED BY <2>5, <2>6 DEF r
<1> QED BY <1>7, <1>8


\* The loop is given at least as many passes as there are timers.
LEMMA PassesEnough ==
    ASSUME NEW b \in Wheel, TurnsKnown(b), NEW live, live \subseteq Timer
    PROVE  /\ MostPasses(b, live) \in Nat
           /\ \A P \in SUBSET live : Cardinality(P) \in Nat /\ Cardinality(P) <= MostPasses(b, live)
<1> DEFINE tries(t) == {t} \X (0..b.rotation[t])
           all == {tries(t) : t \in live}
           T == UNION all
<1>1. IsFiniteSet(live)
  BY TimerAssumption, FS_Subset
<1>2. IsFiniteSet(T)
  <2>1. IsFiniteSet(all)
    <3> DEFINE f == [t \in live |-> tries(t)]
    <3> HIDE DEF tries
    <3>1. f \in Surjection(live, all)
      BY DEF Surjection
    <3> HIDE DEF f, all
    <3> QED BY <1>1, <3>1, FS_Surjection
  <2>2. \A t \in live : IsFiniteSet(tries(t))
    <3> TAKE t \in live
    <3>1. b.rotation[t] \in Int /\ 0 \in Int
      BY DEF TurnsKnown
    <3>2. IsFiniteSet(0..b.rotation[t])
      BY <3>1, FS_Interval
    <3>3. IsFiniteSet({t})
      BY FS_Singleton
    <3> QED BY <3>2, <3>3, FS_Product
  <2> HIDE DEF tries
  <2>3. \A S \in all : IsFiniteSet(S)
    BY <2>2
  <2> HIDE DEF all
  <2> QED BY <2>1, <2>3, FS_UNION
<1>3. Cardinality(T) \in Nat /\ MostPasses(b, live) = Cardinality(T) + 1
  BY <1>2, FS_CardinalityType DEF MostPasses
<1>4. ASSUME NEW P \in SUBSET live
      PROVE  Cardinality(P) \in Nat /\ Cardinality(P) <= Cardinality(T)
  <2> DEFINE f == [t \in P |-> <<t, 0>>]
  <2>1. \A t \in P : <<t, 0>> \in T
    <3> TAKE t \in P
    <3>1. t \in live /\ b.rotation[t] \in Nat
      BY DEF TurnsKnown
    <3>2. <<t, 0>> \in tries(t)
      BY <3>1
    <3> QED BY <3>1, <3>2
  <2> HIDE DEF T
  <2>2. f \in Injection(P, T)
    <3>1. f \in [P -> T]
      BY <2>1
    <3>2. \A x, y \in P : f[x] = f[y] => x = y
      OBVIOUS
    <3> QED BY <3>1, <3>2 DEF Injection, IsInjective
  <2> HIDE DEF f
  <2>3. IsFiniteSet(P) /\ Cardinality(P) <= Cardinality(T)
    BY <1>2, <2>2, FS_Injection
  <2> QED BY <2>3, FS_CardinalityType
<1> HIDE DEF T
<1> QED BY <1>3, <1>4

\* The timers of the next slot whose turns are over.
Due(b, C) == {t \in InSlot(b, C, (b.cur + 1) % N) : b.rotation[t] = 0}

\* Call r has run those and let the others of the slot wait a turn less.
WheelTurned(b, r, C, D) ==
    /\ r = Done(r.box, Due(b, C), TRUE) /\ WheelOf(r.box, C \ Due(b, C), D)
    /\ r.box.cur = (b.cur + 1) % N /\ r.box.slot = b.slot
    /\ \A x \in Timer :
         r.box.rotation[x] = IF x \in InSlot(b, C \ Due(b, C), (b.cur + 1) % N)
                             THEN b.rotation[x] - 1 ELSE b.rotation[x]

\* What is known when the loop has come to the end of its slot.
LEMMA SweptAll ==
    ASSUME NEW c \in Wheel, TurnsKnown(c), NEW C, NEW D, NEW b, NEW live, NEW fired, NEW q, NEW i,
           SweptAt(c, C, D, b, live, fired, q, i), At(q, i) = Null
    PROVE  /\ fired = {t \in InSlot(c, C, c.cur) : c.rotation[t] = 0}
           /\ \A x \in InSlot(c, live, c.cur) : b.rotation[x] = c.rotation[x] - 1
<1>1. /\ Len(q) \in Nat /\ i = Len(q) + 1 /\ Holds(q, InSlot(c, live, c.cur))
  BY SweptIs
<1>2. \A x \in InSlot(c, live, c.cur) : \E j \in 1..Len(q) : q[j] = x
  <2> DEFINE K == InSlot(c, live, c.cur)
  <2>1. Holds(q, K)
    BY <1>1
  <2> HIDE DEF K
  <2>2. \A x \in K : \E j \in 1..Len(q) : q[j] = x
    BY <2>1, HoldsIs
  <2> QED BY <2>2 DEF K
<1>3. \A j \in 1..Len(q) : j < i
  BY <1>1
<1>4. \A j \in 1..Len(q) : c.rotation[q[j]] > 0 /\ b.rotation[q[j]] = c.rotation[q[j]] - 1
  BY <1>3 DEF SweptAt
<1>5. \A x \in InSlot(c, live, c.cur) : c.rotation[x] > 0 /\ b.rotation[x] = c.rotation[x] - 1
  BY <1>2, <1>4
<1>6. /\ fired \subseteq C /\ live = C \ fired
      /\ \A x \in fired : c.slot[x] = c.cur /\ c.rotation[x] = 0
  BY DEF SweptAt
<1>7. fired = {t \in InSlot(c, C, c.cur) : c.rotation[t] = 0}
  BY <1>5, <1>6 DEF InSlot
<1> QED BY <1>5, <1>7

\* tick runs exactly the timers of the next slot whose turns are over.
LEMMA WheelTickIs ==
    ASSUME NEW b, NEW C, NEW D, WheelOf(b, C, D), TurnsKnown(b)
    PROVE  WheelTurned(b, WheelTick(b, C), C, D)
<1> DEFINE next == (b.cur + 1) % N
           c == [b EXCEPT !.cur = (@ + 1) % N]
           s0 == Sweeping(c, C, c.slots[c.cur], {}, "none")
           n == MostPasses(b, C)
           s == Passes(SweepPass, s0, n)
           Inv == Sweep(c, C, D)
           m == [x \in Inv |-> Cardinality(Pending(c, x.b, x.live))]
<1>1. b \in Wheel /\ C \subseteq Timer /\ next \in 0..(N - 1)
  <2>1. b \in Wheel /\ C \subseteq Timer
    BY DEF WheelOf
  <2>2. b.cur + 1 \in Int
    BY <2>1, WheelIs
  <2> QED BY <2>1, <2>2, WheelAssumption
<1>2. c = [slots |-> b.slots, cur |-> next, count |-> b.count, next |-> b.next,
           prev |-> b.prev, rotation |-> b.rotation, slot |-> b.slot]
  <2>1. b = [slots |-> b.slots, cur |-> b.cur, count |-> b.count, next |-> b.next,
             prev |-> b.prev, rotation |-> b.rotation, slot |-> b.slot]
    BY <1>1, WheelIs
  <2> QED BY <2>1
<1> HIDE DEF c
<1>3. /\ c \in Wheel /\ c.slots = b.slots /\ c.cur = next /\ c.count = b.count
      /\ c.next = b.next /\ c.prev = b.prev /\ c.rotation = b.rotation /\ c.slot = b.slot
  <2>1. /\ b.slots \in [0..(N - 1) -> Timer \cup {Null}]
        /\ b.count \in Int /\ b.next \in [Timer -> Timer \cup {Null}]
        /\ b.prev \in [Timer -> Timer \cup {Null}]
        /\ b.rotation \in [Timer -> Int] /\ b.slot \in [Timer -> 0..(N - 1)]
    BY <1>1, WheelIs
  <2> HIDE DEF next
  <2> QED BY <1>1, <1>2, <2>1 DEF Wheel, Links
<1>4. TurnsKnown(c) /\ \A u : InSlot(c, C, u) = InSlot(b, C, u)
  BY <1>3 DEF TurnsKnown, InSlot
<1>5. WheelOf(c, C, D)
  <2>1. \A u : \A q : SlotIs(b, C, u, q) => SlotIs(c, C, u, q)
    BY <1>3, <1>4 DEF SlotIs
  <2>2. SlotsOf(c, C)
    BY <2>1 DEF WheelOf, SlotsOf
  <2> QED BY <1>3, <2>2 DEF WheelOf
<1> HIDE DEF next
<1>6. s0 \in Inv
  <2>1. PICK q : SlotIs(c, C, c.cur, q) /\ c.slots[c.cur] = At(q, 1) /\ Holds(q, InSlot(c, C, c.cur))
    <3>1. c.cur \in 0..(N - 1)
      BY <1>1, <1>3
    <3> QED BY <1>5, <3>1, SlotOf
  <2>2. SweptAt(c, C, D, c, C, {}, q, 1)
    <3>1. Len(q) \in Nat /\ 1 \in 1..(Len(q) + 1) /\ \A j \in 1..Len(q) : ~(j < 1)
      <4> DEFINE K == InSlot(c, C, c.cur)
      <4>1. Holds(q, K)
        BY <2>1
      <4> HIDE DEF K
      <4>2. Len(q) \in Nat
        BY <4>1, HoldsIs
      <4> QED BY <4>2
    <3> QED BY <1>5, <2>1, <3>1 DEF SweptAt
  <2>3. s0 \in SweepStates
    <3>1. At(q, 1) \in Timer \cup {Null}
      <4>1. \A j \in 1..Len(q) : q[j] \in Timer
        BY <1>3, <2>2, SweptIs
      <4> QED BY <4>1 DEF At
    <3> QED BY <1>1, <1>3, <2>1, <3>1 DEF SweepStates, Sweeping
  <2>4. s0.b = c /\ s0.live = C /\ s0.fired = {} /\ s0.x = At(q, 1) /\ s0.fault = "none"
    BY <2>1 DEF Sweeping
  <2> HIDE DEF s0
  <2> QED BY <2>2, <2>3, <2>4 DEF Sweep
<1>7. ASSUME NEW x \in Inv
      PROVE  Pending(c, x.b, x.live) \subseteq C /\ Pending(c, x.b, x.live) \subseteq Timer
  <2>1. PICK q, i : SweptAt(c, C, D, x.b, x.live, x.fired, q, i)
    BY DEF Sweep
  <2>2. x.live \subseteq C
    BY <2>1 DEF SweptAt
  <2> QED BY <1>1, <2>2 DEF Pending
<1>8. n \in Nat /\ \A x \in Inv : m[x] \in Nat /\ m[x] <= n
  <2>1. n \in Nat /\ \A P \in SUBSET C : Cardinality(P) \in Nat /\ Cardinality(P) <= n
    BY <1>1, PassesEnough
  <2> HIDE DEF n, Inv
  <2> QED BY <1>7, <2>1
<1>9. ASSUME NEW x \in Inv
      PROVE  SweepPass[x] \in Inv /\ (SweepPass[x] = x \/ m[SweepPass[x]] < m[x])
             /\ (x.x # Null => m[SweepPass[x]] < m[x])
  <2>1. CASE x.x = Null
    <3>1. x \in SweepStates
      BY DEF Sweep
    <3>2. SweepPass[x] = x
      BY <2>1, <3>1 DEF SweepPass, SweepStates
    <3> QED BY <2>1, <3>2
  <2>2. CASE x.x # Null
    <3> DEFINE r == SweepPass[x]
    <3>1. r \in Inv /\ SweepStep(c, x, r)
      BY <1>3, <1>4, <2>2, SweepPassIs
    <3> HIDE DEF r, Inv
    <3>2. m[r] < m[x]
      <4> DEFINE P == Pending(c, x.b, x.live)
      <4>1. PICK t \in P : Pending(c, r.b, r.live) = P \ {t}
        BY <3>1 DEF SweepStep
      <4>2. P \subseteq Timer
        BY <1>7
      <4>3. m[x] = Cardinality(P) /\ m[r] = Cardinality(P \ {t})
        BY <3>1, <4>1
      <4> HIDE DEF P, m
      <4>4. Cardinality(P \ {t}) = Cardinality(P) - 1 /\ Cardinality(P) \in Nat
        BY <4>1, <4>2, CountOneMore
      <4> QED BY <4>3, <4>4
    <3> QED BY <3>1, <3>2 DEF r
  <2> QED BY <2>1, <2>2
<1> HIDE DEF Inv, m, s0, n
<1>10. Loop(SweepPass, Inv, m, s0, n)
  BY <1>6, <1>8, <1>9 DEF Loop
<1>11. s \in Inv /\ SweepPass[s] = s
  BY <1>10, LoopEnds
<1> HIDE DEF s
<1>12. s.x = Null
  <2>1. s.x # Null => m[s] < m[s]
    BY <1>9, <1>11
  <2>2. m[s] \in Nat
    BY <1>8, <1>11
  <2> QED BY <2>1, <2>2
<1>13. PICK q, i : SweptAt(c, C, D, s.b, s.live, s.fired, q, i) /\ s.x = At(q, i)
  BY <1>11 DEF Inv, Sweep
<1>14. /\ s.fired = {t \in InSlot(c, C, c.cur) : c.rotation[t] = 0}
       /\ \A x \in InSlot(c, s.live, c.cur) : s.b.rotation[x] = c.rotation[x] - 1
  <2>1. At(q, i) = Null
    BY <1>12, <1>13
  <2> QED BY <1>3, <1>4, <1>13, <2>1, SweptAll
<1>15. s.fired = Due(b, C)
  BY <1>3, <1>4, <1>14 DEF Due, next
<1>16. /\ WheelOf(s.b, C \ Due(b, C), D) /\ s.live = C \ Due(b, C) /\ s.b.cur = next
       /\ s.b.slot = b.slot
       /\ \A x \in Timer : x \notin InSlot(c, s.live, c.cur) => s.b.rotation[x] = c.rotation[x]
  BY <1>3, <1>13, <1>15 DEF SweptAt
<1>17. InSlot(c, s.live, c.cur) = InSlot(b, C \ Due(b, C), next)
  BY <1>3, <1>16 DEF InSlot
<1>18. WheelTick(b, C) = Done(s.b, s.fired, TRUE)
  <2>1. s.fault = "none"
    BY <1>11 DEF Inv, Sweep
  <2>2. WheelTick(b, C) = IF s.fault # "none" THEN Fault(s.b, s.fault) ELSE Done(s.b, s.fired, TRUE)
    BY DEF WheelTick, s, s0, c, n
  <2> QED BY <2>1, <2>2
<1> DEFINE r == WheelTick(b, C)
<1>19. r.box = s.b /\ r = Done(r.box, Due(b, C), TRUE)
  BY <1>15, <1>18 DEF Done
<1> HIDE DEF r
<1>20. \A x \in Timer : r.box.rotation[x] = IF x \in InSlot(b, C \ Due(b, C), next)
                                            THEN b.rotation[x] - 1 ELSE b.rotation[x]
  BY <1>3, <1>14, <1>16, <1>17, <1>19
<1>21. WheelTurned(b, r, C, D)
  BY <1>16, <1>19, <1>20 DEF WheelTurned, next
<1> QED BY <1>21 DEF r
=============================================================================

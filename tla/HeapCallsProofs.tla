--------------------------- MODULE HeapCallsProofs ---------------------------
(***************************************************************************)
(* Every call of timer_heap on any ordered heap leaves an ordered heap of  *)
(* exactly the timers it should: the lemmas of ContainerProofs on each     *)
(* call, put together over the states of HeapCalls.                        *)
(***************************************************************************)
EXTENDS HeapCalls, ContainerProofs

\* The inductive invariant.  The slots hold the timers wanted, each once; that
\* there are as many slots as timers follows, and would not be enough to start
\* from.  The next timer to be added is the one after those in the slots.
IInv ==
    /\ want \subseteq Timer /\ e \in [Timer -> Keys] /\ called \in BOOLEAN
    /\ Heap(h, want, e)
    /\ ~called => want = 1..Len(h) /\ Len(h) <= MaxSize

\* The keys are expiries.
LEMMA KeysAreInts ==
    ASSUME NEW f \in [Timer -> Keys]
    PROVE  f \in [Timer -> Int]
<1>1. \A t \in Timer : f[t] \in Keys
  OBVIOUS
<1>2. Keys \subseteq Int
  BY HeapAssumption
<1> QED BY <1>1, <1>2

\* At first the timers are in the slots of their numbers.
LEMMA InitInv == Init => IInv
<1> SUFFICES ASSUME Init PROVE IInv
  OBVIOUS
<1>1. PICK n \in 0..MaxSize :
        /\ h = [i \in 1..n |-> i] /\ want = 1..n
        /\ e \in {f \in [Timer -> Keys] :
                     \A i \in 1..MaxSize :
                        IF i > n THEN f[i] = CHOOSE k \in Keys : TRUE
                        ELSE f[(i - 1) \div 2 + 1] <= f[i]}
  BY DEF Init
<1>2. n \in Nat /\ MaxSize \in Nat /\ n <= MaxSize /\ Timer = 1..MaxSize /\ Keys \subseteq Nat
  BY <1>1, HeapAssumption
<1>3. h \in Seq(Timer) /\ Len(h) = n /\ \A i \in 1..n : h[i] = i
  BY <1>1, <1>2
<1>4. Holds(h, want)
  <2>1. {h[i] : i \in 1..n} = 1..n
    BY <1>3
  <2> QED BY <1>1, <1>3, <2>1 DEF Holds
<1>5. e \in [Timer -> Keys] /\ \A i \in 1..n : e[(i - 1) \div 2 + 1] <= e[i]
  BY <1>1, <1>2
<1>6. HeapOrder(KeysOf(h, e), n)
  <2> SUFFICES ASSUME NEW j \in 1..(n - 1)
               PROVE  KeysOf(h, e)[j \div 2] <= KeysOf(h, e)[j]
    BY DEF HeapOrder
  <2>1. /\ j \in 0..(n - 1) /\ j \div 2 \in 0..(n - 1)
        /\ j + 1 \in 1..n /\ (j \div 2) + 1 \in 1..n /\ (j + 1) - 1 = j
    BY <1>2, Halves
  <2>2. KeysOf(h, e)[j] = e[j + 1]
    BY <1>3, <2>1 DEF KeysOf, Slot
  <2>3. KeysOf(h, e)[j \div 2] = e[(j \div 2) + 1]
    <3> DEFINE p == j \div 2
    <3> HIDE DEF p
    <3>1. p \in 0..(n - 1) /\ p + 1 \in 1..n
      BY <2>1 DEF p
    <3>2. KeysOf(h, e)[p] = e[p + 1]
      BY <1>3, <3>1 DEF KeysOf, Slot
    <3> QED BY <3>2 DEF p
  <2>4. e[(j \div 2) + 1] <= e[j + 1]
    BY <1>5, <2>1
  <2> QED BY <2>2, <2>3, <2>4
<1>7. called = FALSE /\ want \subseteq Timer
  <2>1. 1..n \subseteq 1..MaxSize
    BY <1>2
  <2> QED BY <1>1, <1>2, <2>1 DEF Init
<1> QED BY <1>1, <1>2, <1>3, <1>4, <1>5, <1>6, <1>7 DEF IInv, Heap

\* Every call keeps the invariant.
LEMMA NextInv == IInv /\ [Next]_vars => IInv'
<1> SUFFICES ASSUME IInv, [Next]_vars PROVE IInv'
  OBVIOUS
<1>1. /\ want \subseteq Timer /\ e \in [Timer -> Keys] /\ e \in [Timer -> Int]
      /\ called \in BOOLEAN /\ Heap(h, want, e)
      /\ ~called => want = 1..Len(h) /\ Len(h) <= MaxSize
  BY KeysAreInts DEF IInv
<1>2. MaxSize \in Nat /\ Timer = 1..MaxSize /\ Keys \subseteq Int
  BY HeapAssumption
<1>3. Len(h) \in Nat
  BY <1>1, LenProperties DEF Heap, Holds
<1>4. ASSUME NEW k \in Keys, Add(k) PROVE IInv'
  <2> DEFINE t == Len(h) + 1
  <2>1. /\ ~called /\ Len(h) < MaxSize /\ e' = [e EXCEPT ![t] = k]
        /\ want' = want \cup {t} /\ called' = TRUE /\ h' = HeapAdd(h, e', t).box
    BY <1>4 DEF Add, Call
  <2>2. t \in Timer /\ t \notin want
    BY <1>1, <1>2, <1>3, <2>1
  <2> HIDE DEF t
  <2>3. e' \in [Timer -> Keys] /\ \A u \in want : e'[u] = e[u]
    BY <1>1, <2>1, <2>2
  <2>4. e' \in [Timer -> Int]
    BY <2>3, KeysAreInts
  <2>5. Heap(h, want, e')
    BY <1>1, <2>3, HeapOfKeys
  <2>6. Heap(h', want', e')
    BY <2>1, <2>2, <2>4, <2>5, HeapAddIs
  <2>7. want' \subseteq Timer
    BY <1>1, <2>1, <2>2
  <2> QED BY <2>1, <2>3, <2>6, <2>7 DEF IInv
<1>5. ASSUME NEW t \in Timer, NEW k \in Keys, Adjust(t, k) PROVE IInv'
  <2>1. /\ t \in want /\ e' = [e EXCEPT ![t] = k] /\ want' = want /\ called' = TRUE
        /\ h' = HeapAdjust(h, e', t).box
    BY <1>5 DEF Adjust, Call
  <2>2. e' \in [Timer -> Keys] /\ \A u \in want \ {t} : e'[u] = e[u]
    BY <1>1, <2>1
  <2>3. e' \in [Timer -> Int]
    BY <2>2, KeysAreInts
  <2>4. Heap(h', want', e')
    BY <1>1, <2>1, <2>2, <2>3, HeapAdjustIs
  <2> QED BY <1>1, <2>1, <2>2, <2>4 DEF IInv
<1>6. ASSUME NEW t \in Timer, Del(t) PROVE IInv'
  <2>1. /\ t \in want /\ e' = e /\ want' = want \ {t} /\ called' = TRUE
        /\ h' = HeapDel(h, e, t).box
    BY <1>6 DEF Del, Call
  <2>2. Heap(h', want', e')
    BY <1>1, <2>1, HeapDelIs
  <2> QED BY <1>1, <2>1, <2>2 DEF IInv
<1>7. ASSUME NEW now \in Keys, Tick(now) PROVE IInv'
  <2>1. /\ e' = e /\ want' = {t \in want : e[t] > now} /\ called' = TRUE
        /\ h' = HeapTick(h, e, now).box
    BY <1>7 DEF Tick, Call
  <2>2. Heap(h', want', e')
    <3>1. now \in Int
      BY <1>2
    <3>2. Heap(HeapTick(h, e, now).box, Kept(want, e, now), e)
      BY <1>1, <3>1, HeapTickIs
    <3> QED BY <2>1, <3>2 DEF Kept
  <2>3. want' \subseteq Timer
    BY <1>1, <2>1
  <2> QED BY <1>1, <2>1, <2>2, <2>3 DEF IInv
<1>8. CASE UNCHANGED vars
  BY <1>1, <1>8 DEF IInv, vars
<1> QED BY <1>4, <1>5, <1>6, <1>7, <1>8 DEF Next

\* What is in the heap, in which order: timer_heap keeps both promises.
LEMMA InvImplies == IInv => OrderKept /\ ContentsExact
<1> SUFFICES ASSUME IInv PROVE OrderKept /\ ContentsExact
  OBVIOUS
<1>1. Holds(h, want) /\ HeapOrder(KeysOf(h, e), Len(h))
  BY DEF IInv, Heap
<1>2. ContentsExact
  BY <1>1, HoldsCount DEF ContentsExact
<1>3. OrderKept
  <2> SUFFICES ASSUME NEW i \in 2..Len(h) PROVE e[h[(i - 1) \div 2 + 1]] <= e[h[i]]
    BY DEF OrderKept, Ordered
  <2> DEFINE j == i - 1
             p == j \div 2
  <2>1. Len(h) \in Nat
    BY <1>1, LenProperties DEF Holds
  <2>2. /\ j \in 1..(Len(h) - 1) /\ j \in 0..(Len(h) - 1) /\ j + 1 = i
        /\ p \in 0..(Len(h) - 1)
    BY <2>1, Halves
  <2>3. KeysOf(h, e)[p] <= KeysOf(h, e)[j]
    BY <1>1, <2>2 DEF HeapOrder
  <2> HIDE DEF p, j
  <2>4. KeysOf(h, e)[p] = e[h[p + 1]] /\ KeysOf(h, e)[j] = e[h[j + 1]]
    BY <2>2 DEF KeysOf, Slot
  <2> QED BY <2>2, <2>3, <2>4 DEF p, j
<1> QED BY <1>2, <1>3

\* The heap is ordered and holds the timers it should, whatever the call.
THEOREM HeapCallsInvariant == Spec => []IInv
BY InitInv, NextInv, PTL DEF Spec

\* Every call leaves no timer before its parent in a heap of any size: the
\* conditions of percolate_up, percolate_down and del_timer choose the right
\* direction, and the loops end in the right place.
THEOREM HeapOrderKept == Spec => []OrderKept
BY HeapCallsInvariant, InvImplies, PTL

\* add_timer and adjust_timer lose no timer, del_timer removes the one it is
\* given, and tick removes all that have expired and no other.
THEOREM HeapContentsExact == Spec => []ContentsExact
BY HeapCallsInvariant, InvImplies, PTL
=============================================================================

------------------------------ MODULE HeapCalls ------------------------------
(***************************************************************************)
(* Every single call of timer_heap on every ordered heap of up to MaxSize  *)
(* timers.  Adding timers in the order of their slots builds any of these  *)
(* heaps, so each is a state the program can be in; and as every call      *)
(* leaves an ordered heap, one call from each stands for sequences of      *)
(* calls far longer than the runs of Timers reach.  The upward move in     *)
(* del_timer, for one, needs seven timers.                                 *)
(***************************************************************************)
EXTENDS HeapTimer

CONSTANTS
    MaxSize,    \* bound: timers in the heap
    Keys        \* values of expire

ASSUME HeapAssumption ==
    MaxSize \in Nat /\ Timer = 1..MaxSize /\ Keys \subseteq Nat

VARIABLES
    h,          \* slots[0 .. size-1]
    e,          \* expire
    want,       \* the timers that should be in the heap
    called      \* a call has been made

vars == <<h, e, want, called>>

Ordered == \A i \in 2..Len(h) : e[h[(i - 1) \div 2 + 1]] <= e[h[i]]

Init ==
    /\ called = FALSE
    /\ \E n \in 0..MaxSize :
         /\ h = [i \in 1..n |-> i] /\ want = 1..n
         /\ e \in {f \in [Timer -> Keys] :
                     \A i \in 1..MaxSize :
                        IF i > n THEN f[i] = CHOOSE k \in Keys : TRUE
                        ELSE f[(i - 1) \div 2 + 1] <= f[i]}

Call(r) == called' = TRUE /\ h' = r.box

Add(k) ==
    /\ ~called /\ Len(h) < MaxSize
    /\ e' = [e EXCEPT ![Len(h) + 1] = k]
    /\ want' = want \cup {Len(h) + 1}
    /\ Call(HeapAdd(h, e', Len(h) + 1))

Adjust(t, k) ==
    /\ ~called /\ t \in want
    /\ e' = [e EXCEPT ![t] = k]
    /\ want' = want
    /\ Call(HeapAdjust(h, e', t))

Del(t) ==
    /\ ~called /\ t \in want
    /\ want' = want \ {t}
    /\ Call(HeapDel(h, e, t))
    /\ e' = e

Tick(now) ==
    /\ ~called
    /\ want' = {t \in want : e[t] > now}
    /\ Call(HeapTick(h, e, now))
    /\ e' = e

Next ==
    \/ \E k \in Keys : Add(k) \/ Tick(k) \/ \E t \in Timer : Adjust(t, k)
    \/ \E t \in Timer : Del(t)
    \/ called /\ UNCHANGED vars

Spec == Init /\ [][Next]_vars

\* Every call leaves an ordered heap: no timer expires before its parent,
\* with the 0-based indices 2i, 2i+1 and i/2 the code uses.
OrderKept == Ordered

\* Every call leaves exactly the timers it should: add_timer and
\* adjust_timer lose none, del_timer removes the one it is given, and tick
\* removes all that have expired and no other.
ContentsExact ==
    /\ {h[i] : i \in DOMAIN h} = want
    /\ Len(h) = Cardinality(want)
=============================================================================

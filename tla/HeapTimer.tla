------------------------------ MODULE HeapTimer ------------------------------
(***************************************************************************)
(* timer_heap of lib/heap_timer.hh: a binary heap of timers ordered by     *)
(* expire.  The container is the sequence of the used slots; the children  *)
(* of index i are 2i and 2i+1, the parent is i/2, counted from 0 as in the *)
(* code.  The growing of the array by resize does not show.                *)
(***************************************************************************)
EXTENDS TimerBase

EmptyHeap == <<>>

Slot(h, i) == h[i + 1]
\* The faulty variant overwrites one of the two.
Swap_HalfDone(h, i, j) == [h EXCEPT ![j + 1] = Slot(h, i)]
Swap(h, i, j) == [h EXCEPT ![i + 1] = Slot(h, j), ![j + 1] = Slot(h, i)]

\* The smaller child of i.
SmallerChild(h, e, i) ==
    IF 2 * i + 1 < Len(h) /\ e[Slot(h, 2 * i + 1)] < e[Slot(h, 2 * i)]
    THEN 2 * i + 1 ELSE 2 * i

\* One pass of the loops of percolate_down and percolate_up at slot i.
Place == [h : Seq(Timer), i : Nat]
DownPass(e) ==
    [s \in Place |->
        LET c == SmallerChild(s.h, e, s.i) IN
        IF 2 * s.i < Len(s.h) /\ e[Slot(s.h, c)] < e[Slot(s.h, s.i)]
        THEN [h |-> Swap(s.h, s.i, c), i |-> c] ELSE s]
UpPass(e) ==
    [s \in Place |->
        LET p == s.i \div 2 IN
        IF s.i > 0 /\ e[Slot(s.h, s.i)] < e[Slot(s.h, p)]
        THEN [h |-> Swap(s.h, s.i, p), i |-> p] ELSE s]

PercolateDown(h, e, i) == Passes(DownPass(e), [h |-> h, i |-> i], Len(h)).h
PercolateUp(h, e, i) == Passes(UpPass(e), [h |-> h, i |-> i], Len(h)).h

\* The last timer takes the place of the one in slot i.
Vacate(h, i) == SubSeq([h EXCEPT ![i + 1] = h[Len(h)]], 1, Len(h) - 1)

GetIdx(h, t) == (CHOOSE i \in 1..Len(h) : h[i] = t) - 1

HeapAdd(h, e, t) == Done(PercolateUp(Append(h, t), e, Len(h)), {}, TRUE)

\* When the timer is not below its parent, the code calls percolate_down if
\* a child is smaller, which is the first thing percolate_down tests.
HeapAdjust(h, e, t) ==
    LET i == GetIdx(h, t) IN
    Done(IF e[t] < e[Slot(h, i \div 2)] THEN PercolateUp(h, e, i)
         ELSE PercolateDown(h, e, i), {}, TRUE)

\* The timer in the place of the deleted one t moves up or down.  The faulty
\* variant only moves it down.
Replaced_DownOnly(h, e, t, i) == PercolateDown(h, e, i)
Replaced(h, e, t, i) ==
    IF e[Slot(h, i)] < e[t] THEN PercolateUp(h, e, i)
    ELSE PercolateDown(h, e, i)

HeapDel(h, e, t) ==
    LET i == GetIdx(h, t)
        g == Vacate(h, i)
    IN Done(IF i < Len(g) THEN Replaced(g, e, t, i) ELSE g, {}, TRUE)

\* The loop of tick: the root runs and leaves while it has expired.  Faulty
\* variants: a second too early, a second too late.
Expired_Early(e, t, now) == e[t] <= now + 1
Expired_Strict(e, t, now) == e[t] < now
Expired(e, t, now) == e[t] <= now

FirePass(e, now) ==
    [s \in [h : Seq(Timer), fired : SUBSET Timer] |->
        IF s.h = <<>> \/ ~Expired(e, Head(s.h), now) THEN s
        ELSE [h |-> PercolateDown(Vacate(s.h, 0), e, 0), fired |-> s.fired \cup {Head(s.h)}]]

HeapTick(h, e, now) ==
    IF h = <<>> THEN Done(h, {}, FALSE)
    ELSE LET s == Passes(FirePass(e, now), [h |-> h, fired |-> {}], Len(h))
         IN Done(s.h, s.fired, TRUE)
=============================================================================

------------------------------ MODULE TimerBase ------------------------------
(***************************************************************************)
(* What the three timer containers of lib/ share: timer objects, links     *)
(* between them, and the outcome of a call.  A call works on the container *)
(* state b, the set live of timer objects that are allocated, and the      *)
(* function e from timers to the value of their field expire.              *)
(***************************************************************************)
EXTENDS Integers, Sequences, FiniteSets

CONSTANTS Timer, Null

ASSUME TimerAssumption == IsFiniteSet(Timer) /\ Null \notin Timer

\* A call that completes: the container, the timers whose callback ran and
\* that were deleted, and whether resetTimer was called.
Done(b, fired, rearm) ==
    [box |-> b, fired |-> fired, rearm |-> rearm, fault |-> "none"]

\* A call that dereferences a null or deleted timer ("pointer") or fails an
\* assertion ("assert").
Fault(b, why) == [box |-> b, fired |-> {}, rearm |-> FALSE, fault |-> why]

\* Sequential composition of two calls.
Then(r, Call(_)) ==
    IF r.fault # "none" THEN r
    ELSE LET s == Call(r.box) IN [s EXCEPT !.rearm = @ \/ r.rearm]

\* The states of a loop, the first of which is s, and what n passes make of
\* it; a pass that finds the loop ended changes nothing.
Trail(Pass, s, n) ==
    LET after[k \in 0..n] == IF k = 0 THEN s ELSE Pass[after[k - 1]] IN after
Passes(Pass, s, n) == Trail(Pass, s, n)[n]

\* The timers met from x on; on a cyclic chain each of them at least once.
Link(next) == [t \in Timer \cup {Null} |-> IF t = Null THEN Null ELSE next[t]]
Chain(next, x) ==
    LET met == Trail(Link(next), x, Cardinality(Timer))
        found == {k \in 1..Cardinality(Timer) : met[k - 1] # Null}
    IN [k \in 1..Cardinality(found) |-> met[k - 1]]

NoLinks == [t \in Timer |-> Null]
=============================================================================

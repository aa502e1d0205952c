----------------------------- MODULE WheelTimer -----------------------------
(***************************************************************************)
(* timer_wheel of lib/wheel_timer.hh: N slots, each the head of a doubly   *)
(* linked list of timers; tick moves to the next slot.  A timer keeps its  *)
(* slot, the turns it still has to wait and its links.                     *)
(***************************************************************************)
EXTENDS TimerBase

CONSTANT N      \* slots of the wheel; SI, the seconds of a tick, is 1

ASSUME WheelAssumption == N \in Nat \ {0}

EmptyWheel ==
    [slots |-> [i \in 0..(N - 1) |-> Null], cur |-> 0, count |-> 0,
     next |-> NoLinks, prev |-> NoLinks,
     rotation |-> [t \in Timer |-> 0], slot |-> [t \in Timer |-> 0]]

\* The ticks to wait.
Ticks(timeout) == IF timeout = 0 THEN 1 ELSE timeout

\* Whole turns to wait; the faulty variant waits one more.
Rotations_OneMore(ticks) == ticks \div N + 1
Rotations(ticks) == ticks \div N

\* The links of the new timer are only written when the slot is occupied.
WheelAdd(b, live, e, t, now) ==
    LET ticks == Ticks(e[t] - now)
        s == (b.cur + ticks) % N
        old == b.slots[s]
        c == [b EXCEPT !.rotation[t] = Rotations(ticks), !.slot[t] = s,
                       !.slots[s] = t, !.count = @ + 1]
    IN IF old = Null THEN Done(c, {}, TRUE)
       ELSE IF old \notin live THEN Fault(b, "pointer")
       ELSE Done([c EXCEPT !.next[t] = old, !.prev[old] = t], {}, TRUE)

\* The links around t closed; the faulty variant leaves the back link.
Bypass_NoBackLink(b, t) ==
    LET p == b.prev[t] IN
    [b EXCEPT !.next = IF p # Null THEN [@ EXCEPT ![p] = b.next[t]] ELSE @,
              !.slots = IF p = Null THEN [@ EXCEPT ![b.slot[t]] = b.next[t]]
                        ELSE @]
Bypass(b, t) ==
    LET p == b.prev[t]
        n == b.next[t]
    IN [b EXCEPT !.next = IF p # Null THEN [@ EXCEPT ![p] = n] ELSE @,
                 !.slots = IF p = Null THEN [@ EXCEPT ![b.slot[t]] = n] ELSE @,
                 !.prev = IF n # Null THEN [@ EXCEPT ![n] = p] ELSE @]

WheelDel(b, live, t) ==
    LET c == Chain(b.next, b.slots[b.slot[t]])
        upto == {i \in DOMAIN c : \A k \in 1..(i - 1) : c[k] # t}
    IN IF \/ \A i \in DOMAIN c : c[i] # t
          \/ \E i \in upto : c[i] \notin live
          \/ ~({b.prev[t], b.next[t]} \ {Null} \subseteq live)
       THEN Fault(b, "pointer")
       ELSE Done([Bypass(b, t) EXCEPT !.count = @ - 1], {}, TRUE)

WheelAdjust(b, live, e, t, now) ==
    Then(WheelDel(b, live, t), LAMBDA c : WheelAdd(c, live, e, t, now))

\* Does a timer of the current slot wait for another turn.  Faulty variants:
\* turns are not looked at, or one turn too many is counted down.
WaitsTurn_Never(b, x) == FALSE
WaitsTurn_AtZero(b, x) == b.rotation[x] >= 0
WaitsTurn(b, x) == b.rotation[x] > 0

\* The loop of tick at timer x: those that are still live, those that have
\* run, and what went wrong.
Sweeping(b, live, x, fired, fault) ==
    [b |-> b, live |-> live, x |-> x, fired |-> fired, fault |-> fault]

\* The timer waits another turn, or runs and leaves.
WaitOn(s) ==
    Sweeping([s.b EXCEPT !.rotation[s.x] = @ - 1], s.live, s.b.next[s.x], s.fired, "none")

Fire(s) ==
    LET n == s.b.next[s.x]
        p == s.b.prev[s.x]
        first == s.x = s.b.slots[s.b.cur]
        c == [s.b EXCEPT
                !.count = @ - 1,
                !.prev = IF n = Null THEN @ ELSE [@ EXCEPT ![n] = IF first THEN Null ELSE p],
                !.slots = IF first THEN [@ EXCEPT ![s.b.cur] = n] ELSE @,
                !.next = IF first THEN @ ELSE [@ EXCEPT ![p] = n]]
    IN IF n # Null /\ n \notin s.live THEN [s EXCEPT !.fault = "pointer"]
       ELSE IF ~first /\ p = Null THEN [s EXCEPT !.fault = "assert"]
       ELSE IF ~first /\ p \notin s.live THEN [s EXCEPT !.fault = "pointer"]
       ELSE Sweeping(c, s.live \ {s.x}, n, s.fired \cup {s.x}, "none")

Links == [Timer -> Timer \cup {Null}]
Wheel ==
    [slots : [0..(N - 1) -> Timer \cup {Null}], cur : 0..(N - 1), count : Int,
     next : Links, prev : Links, rotation : [Timer -> Int], slot : [Timer -> 0..(N - 1)]]

SweepPass ==
    [s \in [b : Wheel, live : SUBSET Timer, x : Timer \cup {Null}, fired : SUBSET Timer,
            fault : {"none", "pointer", "assert"}] |->
        IF s.x = Null \/ s.fault # "none" THEN s
        ELSE IF s.x \notin s.live THEN [s EXCEPT !.fault = "pointer"]
        ELSE IF WaitsTurn(s.b, s.x) THEN WaitOn(s) ELSE Fire(s)]

\* Every pass lowers a rotation or deletes a timer, so the loop ends even on
\* a chain that has become cyclic.
MostPasses(b, live) == Cardinality(UNION {{t} \X (0..b.rotation[t]) : t \in live}) + 1

WheelTick(b, live) ==
    LET c == [b EXCEPT !.cur = (@ + 1) % N]
        s == Passes(SweepPass, Sweeping(c, live, c.slots[c.cur], {}, "none"),
                    MostPasses(b, live))
    IN IF s.fault # "none" THEN Fault(s.b, s.fault) ELSE Done(s.b, s.fired, TRUE)
=============================================================================

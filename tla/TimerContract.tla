---------------------------- MODULE TimerContract ----------------------------
(***************************************************************************)
(* What timer_container of lib/timer.hh offers its callers, whatever class *)
(* implements it: a timer that was added fires at most once, not before    *)
(* its deadline, and not after it was deleted.  A class may be up to early *)
(* seconds ahead.                                                          *)
(***************************************************************************)
EXTENDS Integers

CONSTANTS Timer

VARIABLES now, expire, state, early

vars == <<now, expire, state, early>>

Init ==
    /\ now = 0 /\ early \in {0, 1}
    /\ expire = [t \in Timer |-> 0]
    /\ state = [t \in Timer |-> "new"]

Armed == {t \in Timer : state[t] = "armed"}

\* add_timer
Add(t, d) ==
    /\ state[t] = "new"
    /\ state' = [state EXCEPT ![t] = "armed"]
    /\ expire' = [expire EXCEPT ![t] = now + d]
    /\ UNCHANGED <<now, early>>

\* setExpire and adjust_timer
Adjust(t, d) ==
    /\ state[t] = "armed"
    /\ expire' = [expire EXCEPT ![t] = now + d]
    /\ UNCHANGED <<now, state, early>>

\* del_timer
Del(t) ==
    /\ state[t] = "armed"
    /\ state' = [state EXCEPT ![t] = "deleted"]
    /\ expire' = [expire EXCEPT ![t] = 0]
    /\ UNCHANGED <<now, early>>

\* tick runs the callbacks of expired timers; it may take time.
Tick(S) ==
    /\ \A t \in S : expire[t] <= now + early
    /\ state' = [t \in Timer |-> IF t \in S THEN "fired" ELSE state[t]]
    /\ expire' = [t \in Timer |-> IF t \in S THEN 0 ELSE expire[t]]
    /\ now' >= now /\ early' = early

\* The destructor deletes the timers without running them.
Destroy ==
    /\ state' = [t \in Timer |-> IF t \in Armed THEN "deleted" ELSE state[t]]
    /\ expire' = [t \in Timer |-> 0]
    /\ UNCHANGED <<now, early>>

Next ==
    \/ \E t \in Timer : \/ \E d \in 0..expire'[t] : Add(t, d) \/ Adjust(t, d)
                        \/ Del(t)
    \/ \E S \in SUBSET Armed : Tick(S)
    \/ Destroy

Spec == Init /\ [][Next]_vars
=============================================================================

------------------------------- MODULE JobPool -------------------------------
(***************************************************************************)
(* What thpool.h promises, without threads, locks, signals or counters.    *)
(* Jobs are started in the order in which they were added, each at most    *)
(* once.  thpool_wait returns only when every job that was queued or       *)
(* running at the call has finished.  thpool_destroy lets the running jobs *)
(* finish and then discards the queued ones; nothing starts afterwards.    *)
(***************************************************************************)
EXTENDS Integers, Sequences

CONSTANTS Jobs, Clients

VARIABLES
    phase,      \* "starting", "open", "closing" or "closed"
    pending,    \* jobs added and not started, oldest first
    active,     \* jobs being executed
    finished,   \* jobs that have returned
    discarded,  \* jobs released without being executed
    waiting     \* the set of jobs each client waits for, as a singleton;
                \* empty outside the call

vars == <<phase, pending, active, finished, discarded, waiting>>

PendingSet == {pending[i] : i \in DOMAIN pending}
Known == PendingSet \cup active \cup finished \cup discarded

Init ==
    /\ phase = "starting" /\ pending = <<>>
    /\ active = {} /\ finished = {} /\ discarded = {}
    /\ waiting = [c \in Clients |-> {}]

\* thpool_init returns a pool, or NULL.
Open ==
    /\ phase = "starting" /\ phase' \in {"open", "closed"}
    /\ UNCHANGED <<pending, active, finished, discarded, waiting>>

\* thpool_add_job
Add(j) ==
    /\ phase = "open" /\ j \notin Known
    /\ pending' = Append(pending, j)
    /\ UNCHANGED <<phase, active, finished, discarded, waiting>>

Start ==
    /\ phase \in {"open", "closing"} /\ pending # <<>>
    /\ pending' = Tail(pending)
    /\ active' = active \cup {Head(pending)}
    /\ UNCHANGED <<phase, finished, discarded, waiting>>

Finish(j) ==
    /\ j \in active
    /\ active' = active \ {j}
    /\ finished' = finished \cup {j}
    /\ UNCHANGED <<phase, pending, discarded, waiting>>

\* thpool_wait
Wait(c) ==
    /\ phase = "open" /\ waiting[c] = {}
    /\ waiting' = [waiting EXCEPT ![c] = {PendingSet \cup active}]
    /\ UNCHANGED <<phase, pending, active, finished, discarded>>

WaitReturns(c) ==
    /\ \E S \in waiting[c] : S \subseteq finished
    /\ waiting' = [waiting EXCEPT ![c] = {}]
    /\ UNCHANGED <<phase, pending, active, finished, discarded>>

\* thpool_destroy
Close ==
    /\ phase = "open" /\ \A c \in Clients : waiting[c] = {}
    /\ phase' = "closing"
    /\ UNCHANGED <<pending, active, finished, discarded, waiting>>

Closed ==
    /\ phase = "closing" /\ active = {}
    /\ phase' = "closed"
    /\ discarded' = discarded \cup PendingSet
    /\ pending' = <<>>
    /\ UNCHANGED <<active, finished, waiting>>

Next ==
    \/ Open \/ Start \/ Close \/ Closed
    \/ \E j \in Jobs : Add(j) \/ Finish(j)
    \/ \E c \in Clients : Wait(c) \/ WaitReturns(c)

Spec == Init /\ [][Next]_vars
=============================================================================

------------------------------ MODULE MultiJoin ------------------------------
(***************************************************************************)
(* thread_multijoin.c: a main thread that joins threads in the order in    *)
(* which they end.  fs.thread is where every thread is: "none", "run",     *)
(* "counted" (it has left its critical section), "ended", "joined"; g are  *)
(* the variables that the threads share.  A critical section of a thread   *)
(* is one step; locked says that the main thread has the mutex.            *)
(***************************************************************************)
EXTENDS CmdBase

Threads == DOMAIN fs.thread
Running == prog = "thread_multijoin" /\ pc \notin Ended

\* main, up to the creation of the threads.
JoinMain ==
    /\ Running /\ pc = "main"
    /\ IF argv = <<>> THEN Exit(FALSE)
       ELSE /\ g' = [numUnjoined |-> 0, numLive |-> 0, locked |-> FALSE,
                     state |-> [t \in Threads |-> "TS_ALIVE"]]
            /\ Goto("create", [idx |-> 1]) /\ UNCHANGED <<out, off>>

\* pthread_create may fail; when all threads run, they are counted.
CreateThread ==
    /\ Running /\ pc = "create"
    /\ \/ v.idx \in Threads /\ Exit(FALSE)
       \/ /\ v.idx \in Threads /\ fs' = [fs EXCEPT !.thread[v.idx] = "run"]
          /\ v' = [idx |-> v.idx + 1] /\ UNCHANGED <<prog, argv, g, fi, off, out, ok, pc>>
       \/ /\ v.idx \notin Threads /\ g' = [g EXCEPT !.numLive = Cardinality(Threads)]
          /\ Goto("lock", None) /\ UNCHANGED <<out, off>>

\* threadFunc: the critical section, and then the signal, which wakes the
\* main thread if it waits.
Terminate(t) ==
    /\ Running /\ fs.thread[t] = "run" /\ ~g.locked
    /\ fs' = [fs EXCEPT !.thread[t] = "counted"]
    /\ g' = [g EXCEPT !.numUnjoined = @ + 1, !.state[t] = "TS_TERMINATED"]
    /\ UNCHANGED <<prog, argv, fi, off, out, ok, pc, v>>
SignalDeath(t) ==
    /\ Running /\ fs.thread[t] = "counted"
    /\ fs' = [fs EXCEPT !.thread[t] = "ended"]
    /\ pc' = IF pc = "asleep" THEN "woken" ELSE pc
    /\ UNCHANGED <<prog, argv, g, fi, off, out, ok, v>>

\* The head of the loop: numLive is only changed by the main thread.
LockToJoin ==
    /\ Running /\ pc \in {"lock", "woken"}
    /\ IF pc = "lock" /\ g.numLive = 0 THEN Exit(TRUE)
       ELSE /\ g' = [g EXCEPT !.locked = TRUE]
            /\ Goto("look", None) /\ UNCHANGED <<out, off>>

\* pthread_cond_wait, if nobody has ended.
LookForDead ==
    /\ Running /\ pc = "look" /\ UNCHANGED <<out, off>>
    /\ IF g.numUnjoined = 0
       THEN g' = [g EXCEPT !.locked = FALSE] /\ Goto("asleep", None)
       ELSE g' = g /\ Goto("join", [idx |-> 1])

\* One pass of the for loop, or its end.  The join waits, with the mutex,
\* for a thread that has not yet sent its signal.
JoinThread ==
    /\ Running /\ pc = "join"
    /\ \/ /\ v.idx \in Threads /\ g.state[v.idx] # "TS_TERMINATED"
          /\ v' = [idx |-> v.idx + 1] /\ UNCHANGED <<prog, argv, fs, g, fi, off, out, ok, pc>>
       \/ /\ v.idx \in Threads /\ g.state[v.idx] = "TS_TERMINATED" /\ fs.thread[v.idx] = "ended"
          /\ fs' = [fs EXCEPT !.thread[v.idx] = "joined"]
          /\ g' = [g EXCEPT !.state[v.idx] = "TS_JOINED", !.numLive = @ - 1, !.numUnjoined = @ - 1]
          /\ v' = [idx |-> v.idx + 1] /\ UNCHANGED <<prog, argv, fi, off, out, ok, pc>>
       \/ /\ v.idx \notin Threads /\ g' = [g EXCEPT !.locked = FALSE]
          /\ Goto("lock", None) /\ UNCHANGED <<out, off>>

MultiJoinNext ==
    \/ JoinMain \/ CreateThread \/ LockToJoin \/ LookForDead \/ JoinThread
    \/ prog = "thread_multijoin" /\ \E t \in Threads : Terminate(t) \/ SignalDeath(t)
=============================================================================

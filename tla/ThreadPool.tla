----------------------------- MODULE ThreadPool -----------------------------
(***************************************************************************)
(* The thread pool of thpool/thpool.c: detached workers that run           *)
(* thread_do, a job queue under its own mutex, a semaphore has_job that    *)
(* counts queued jobs, the counters thread_alive and thread_working under  *)
(* count_locker, and client threads that call the public functions.        *)
(*                                                                         *)
(* Granularity.  A worker's critical section is two steps (take the mutex  *)
(* and do the body; release it), because a worker can be stopped by the    *)
(* pause signal inside it, and because thread_alive is read without the    *)
(* mutex.  A client is never signalled, so its critical sections are one   *)
(* step each.                                                              *)
(***************************************************************************)
EXTENDS Integers, Sequences, FiniteSets

CONSTANTS
    NumThreads,     \* nb_threads of thpool_init
    MaxJobs,        \* bound: jobs the clients submit in one behaviour
    MaxSem,         \* bound: the polling of thpool_destroy stops posting here
    Clients,        \* threads that call the public functions
    Ops,            \* the public functions the clients of this instance call
    CallsWhilePaused, \* do clients call into a paused pool (pause_resume.c does)
    Faults          \* library calls that may fail during thpool_init

AllOps == {"add", "wait", "pause", "resume", "destroy"}
AllFaults == {"alloc", "create", "jobqueue", "sigaction"}

ASSUME ThreadsAssumption == NumThreads \in Nat
ASSUME BoundsAssumption == MaxJobs \in Nat /\ MaxSem \in Nat
ASSUME UseAssumption == /\ Ops \subseteq AllOps
                        /\ CallsWhilePaused \in BOOLEAN
                        /\ Faults \subseteq AllFaults
ASSUME ClientsAssumption == IsFiniteSet(Clients)

Workers == 1..NumThreads
Jobs == 1..MaxJobs
NoJob == 0
Nobody == 0

VARIABLES
    life,       \* where the pool is in its life: see Lives
    created,    \* threads thpool_init has created so far (its variable i)
    wpc,        \* control point of each worker in thread_do
    hand,       \* the worker's local variable job
    sigpend,    \* SIGUSR1 sent to the worker and not yet delivered
    handler,    \* the worker is in thread_pause
    queue,      \* jobs: head first
    qlock,      \* holder of jobs->lock
    clock,      \* holder of count_locker
    sem,        \* value of has_job
    alive,      \* thread_alive
    working,    \* thread_working
    running,    \* running
    stop,       \* the static flag stop
    cpc,        \* control point of each client
    arg,        \* the client's job being added, or its loop index in pause
    nextJob,    \* the next job a client submits
    done,       \* jobs whose function has returned
    dropped,    \* jobs freed unexecuted by thpool_destroy
    waitFor     \* jobs queued or running when the client called thpool_wait

initVars == <<life, created>>
workerVars == <<wpc, hand>>
signalVars == <<sigpend, handler, stop>>
counters == <<alive, working, clock>>
clientVars == <<cpc, arg, nextJob, waitFor>>
jobVars == <<done, dropped>>
vars == <<initVars, workerVars, signalVars, queue, qlock, counters, sem,
          running, clientVars, jobVars>>

Lives == {"init", "spin", "up", "closing", "freed", "failed"}
\* Holding count_locker, holding jobs->lock.
CountHeld == {"aliveHeld", "busyHeld", "idleHeld", "exitHeld"}
WorkerPoints == CountHeld \cup
    {"none", "start", "aliveLock", "loop", "semWait", "check", "busyLock",
     "popLock", "popHeld", "run", "idleLock", "putBack", "exitLock", "dead"}
ClientPoints == {"idle", "add", "post", "wait", "cond", "kill", "destroy"}
\* The points between ++thread_alive and --thread_alive, and likewise working.
AlivePoints == WorkerPoints \ {"none", "start", "aliveLock", "exitHeld", "dead"}
WorkingPoints == {"busyHeld", "popLock", "popHeld", "run", "idleLock"}
\* Past sem_wait, with the pop or the sem_post that answers it still to come.
TokenPoints == {"check", "busyLock", "busyHeld", "popLock", "putBack"}

Elems(f) == {f[x] : x \in DOMAIN f}
Allocated == life \notin {"freed", "failed"}
WorkersAt(P) == {w \in Workers : wpc[w] \in P}
ClientsAt(p) == {c \in Clients : cpc[c] = p}
Adding == {arg[c] : c \in ClientsAt("add")}
InHands == {hand[w] : w \in Workers} \ {NoJob}

Init ==
    /\ life = "init" /\ created = 0
    /\ wpc = [w \in Workers |-> "none"]
    /\ hand = [w \in Workers |-> NoJob]
    /\ sigpend = [w \in Workers |-> FALSE]
    /\ handler = [w \in Workers |-> FALSE]
    /\ queue = <<>> /\ qlock = Nobody /\ clock = Nobody
    /\ sem = 0 /\ alive = 0 /\ working = 0
    /\ running = TRUE /\ stop = FALSE
    /\ cpc = [c \in Clients |-> "idle"]
    /\ arg = [c \in Clients |-> 0]
    /\ waitFor = [c \in Clients |-> {}]
    /\ nextJob = 1 /\ done = {} /\ dropped = {}
-----------------------------------------------------------------------------
(* thpool_init *)

\* malloc, pthread_mutex_init, pthread_cond_init or sem_init fails before a
\* thread exists: what was built is released and NULL is returned.
InitAllocFails ==
    /\ life = "init" /\ created = 0 /\ "alloc" \in Faults
    /\ life' = "failed"
    /\ UNCHANGED <<created, workerVars, signalVars, queue, qlock, counters,
                   sem, running, clientVars, jobVars>>

CreateThread ==
    /\ life = "init" /\ created < NumThreads
    /\ created' = created + 1
    /\ wpc' = [wpc EXCEPT ![created + 1] = "start"]
    /\ UNCHANGED <<life, hand, signalVars, queue, qlock, counters, sem,
                   running, clientVars, jobVars>>

\* pthread_create, or jobqueue_init once all threads run, fails: the pool is
\* freed although the threads created so far are not stopped.
InitFails ==
    /\ life = "init"
    /\ \/ created < NumThreads /\ "create" \in Faults
       \/ created = NumThreads /\ "jobqueue" \in Faults
    /\ life' = "failed"
    /\ UNCHANGED <<created, workerVars, signalVars, queue, qlock, counters,
                   sem, running, clientVars, jobVars>>

InitQueue ==
    /\ life = "init" /\ created = NumThreads
    /\ life' = "spin"
    /\ UNCHANGED <<created, workerVars, signalVars, queue, qlock, counters,
                   sem, running, clientVars, jobVars>>

\* The test that ends the spin; two faulty variants first: one thread too
\* early, and one thread too many.
AllCounted_Early == alive >= NumThreads - 1
AllCounted_Never == alive > NumThreads
AllCounted == alive >= NumThreads

\* The loop that waits for the workers, without the mutex or a yield.
InitSpin == life = "spin" /\ ~AllCounted /\ UNCHANGED vars

InitReturns ==
    /\ life = "spin" /\ AllCounted
    /\ life' = "up"
    /\ UNCHANGED <<created, workerVars, signalVars, queue, qlock, counters,
                   sem, running, clientVars, jobVars>>
-----------------------------------------------------------------------------
(* thread_do: the body of a worker.  A step needs the pool's memory and is *)
(* not taken while the thread is in the signal handler.                    *)

Runs(w) == Allocated /\ ~handler[w]

Goto(w, p) == wpc' = [wpc EXCEPT ![w] = p]
ClientGoto(c, p) == cpc' = [cpc EXCEPT ![c] = p]

\* sigaction; on failure the thread returns without counting itself.
InstallHandler(w) ==
    /\ Runs(w) /\ wpc[w] = "start"
    /\ \/ Goto(w, "aliveLock")
       \/ "sigaction" \in Faults /\ Goto(w, "dead")
    /\ UNCHANGED <<initVars, hand, signalVars, queue, qlock, counters, sem,
                   running, clientVars, jobVars>>

CountAlive(w) ==
    /\ Runs(w) /\ wpc[w] = "aliveLock" /\ clock = Nobody
    /\ clock' = w /\ alive' = alive + 1
    /\ Goto(w, "aliveHeld")
    /\ UNCHANGED <<initVars, hand, signalVars, queue, qlock, working, sem,
                   running, clientVars, jobVars>>

AfterUnlock == [p \in CountHeld |-> CASE p = "busyHeld" -> "popLock"
                                       [] p = "exitHeld" -> "dead"
                                       [] OTHER -> "loop"]

\* pthread_mutex_unlock(&count_locker), at each of its four places.
UnlockCount(w) ==
    /\ Runs(w) /\ wpc[w] \in CountHeld
    /\ clock' = Nobody
    /\ Goto(w, AfterUnlock[wpc[w]])
    /\ UNCHANGED <<initVars, hand, signalVars, queue, qlock, alive, working,
                   sem, running, clientVars, jobVars>>

LoopTest(w) ==
    /\ Runs(w) /\ wpc[w] = "loop"
    /\ Goto(w, IF running THEN "semWait" ELSE "exitLock")
    /\ UNCHANGED <<initVars, hand, signalVars, queue, qlock, counters, sem,
                   running, clientVars, jobVars>>

\* sem_wait goes through; the faulty variant misses the last token.
HasToken_OffByOne == sem > 1
HasToken == sem > 0

SemWait(w) ==
    /\ Runs(w) /\ wpc[w] = "semWait" /\ HasToken
    /\ sem' = sem - 1
    /\ Goto(w, "check")
    /\ UNCHANGED <<initVars, hand, signalVars, queue, qlock, counters,
                   running, clientVars, jobVars>>

\* The second test of running.  Faulty variants: the worker goes to the queue
\* uncounted; the token of a stopping worker is not returned.
AfterCheck_Uncounted == IF running THEN "popLock" ELSE "putBack"
AfterCheck_NoPutBack == IF running THEN "busyLock" ELSE "loop"
AfterCheck == IF running THEN "busyLock" ELSE "putBack"

CheckRunning(w) ==
    /\ Runs(w) /\ wpc[w] = "check"
    /\ Goto(w, AfterCheck)
    /\ UNCHANGED <<initVars, hand, signalVars, queue, qlock, counters, sem,
                   running, clientVars, jobVars>>

\* The else branch: the token is returned for the next blocked worker.
PutBack(w) ==
    /\ Runs(w) /\ wpc[w] = "putBack"
    /\ sem' = sem + 1
    /\ Goto(w, "loop")
    /\ UNCHANGED <<initVars, hand, signalVars, queue, qlock, counters,
                   running, clientVars, jobVars>>

CountWorking(w) ==
    /\ Runs(w) /\ wpc[w] = "busyLock" /\ clock = Nobody
    /\ clock' = w /\ working' = working + 1
    /\ Goto(w, "busyHeld")
    /\ UNCHANGED <<initVars, hand, signalVars, queue, qlock, alive, sem,
                   running, clientVars, jobVars>>

\* What jobqueue_pop leaves; the faulty variant does not advance the head.
Dequeued_Stuck == queue
Dequeued == Tail(queue)

\* jobqueue_pop up to its unlock; the queue may be empty, job is then NULL.
Pop(w) ==
    /\ Runs(w) /\ wpc[w] = "popLock" /\ qlock = Nobody
    /\ qlock' = w
    /\ IF queue = <<>>
       THEN UNCHANGED <<hand, queue>>
       ELSE /\ hand' = [hand EXCEPT ![w] = Head(queue)]
            /\ queue' = Dequeued
    /\ Goto(w, "popHeld")
    /\ UNCHANGED <<initVars, signalVars, counters, sem, running, clientVars,
                   jobVars>>

PopUnlock(w) ==
    /\ Runs(w) /\ wpc[w] = "popHeld"
    /\ qlock' = Nobody
    /\ Goto(w, IF hand[w] = NoJob THEN "idleLock" ELSE "run")
    /\ UNCHANGED <<initVars, hand, signalVars, queue, counters, sem, running,
                   clientVars, jobVars>>

\* job->fun(job->arg) returns and the job is freed.
RunJob(w) ==
    /\ Runs(w) /\ wpc[w] = "run"
    /\ done' = done \cup {hand[w]}
    /\ hand' = [hand EXCEPT ![w] = NoJob]
    /\ Goto(w, "idleLock")
    /\ UNCHANGED <<initVars, signalVars, queue, qlock, counters, sem, running,
                   clientVars, dropped>>

\* pthread_cond_signal(&all_idle): wakes one blocked client, if there is one.
SignalAllIdle ==
    IF ClientsAt("cond") = {} THEN cpc' = cpc
    ELSE \E c \in ClientsAt("cond") : ClientGoto(c, "wait")

\* --thread_working == 0; the faulty variant tests before it decrements.
NoneWorking_PostDec == working = 0
NoneWorking == working = 1

CountIdle(w) ==
    /\ Runs(w) /\ wpc[w] = "idleLock" /\ clock = Nobody
    /\ clock' = w /\ working' = working - 1
    /\ IF NoneWorking THEN SignalAllIdle ELSE cpc' = cpc
    /\ Goto(w, "idleHeld")
    /\ UNCHANGED <<initVars, hand, signalVars, queue, qlock, alive, sem,
                   running, arg, nextJob, waitFor, jobVars>>

CountExit(w) ==
    /\ Runs(w) /\ wpc[w] = "exitLock" /\ clock = Nobody
    /\ clock' = w /\ alive' = alive - 1
    /\ Goto(w, "exitHeld")
    /\ UNCHANGED <<initVars, hand, signalVars, queue, qlock, working, sem,
                   running, clientVars, jobVars>>
-----------------------------------------------------------------------------
(* thread_pause, the handler of SIGUSR1 in a worker *)

Deliver(w) ==
    /\ Runs(w) /\ sigpend[w] /\ wpc[w] \notin {"none", "dead"}
    /\ sigpend' = [sigpend EXCEPT ![w] = FALSE]
    /\ handler' = [handler EXCEPT ![w] = TRUE]
    /\ UNCHANGED <<initVars, workerVars, stop, queue, qlock, counters, sem,
                   running, clientVars, jobVars>>

\* The loop on stop ends.  The handler has no SA_RESTART and the result of
\* sem_wait is not looked at: a worker blocked there goes on without having
\* taken a token (EINTR), or had not blocked yet and still calls it.
HandlerReturns(w) ==
    /\ Allocated /\ handler[w] /\ ~stop
    /\ handler' = [handler EXCEPT ![w] = FALSE]
    /\ \/ wpc' = wpc
       \/ wpc[w] = "semWait" /\ Goto(w, "check")
    /\ UNCHANGED <<initVars, hand, sigpend, stop, queue, qlock, counters, sem,
                   running, clientVars, jobVars>>
-----------------------------------------------------------------------------
(* The public functions, called by a client of a running pool *)

MayCall(c, op) ==
    /\ life = "up" /\ op \in Ops /\ cpc[c] = "idle"
    /\ stop => CallsWhilePaused \/ op = "resume"

CallAdd(c) ==
    /\ MayCall(c, "add") /\ nextJob \in Jobs
    /\ ClientGoto(c, "add")
    /\ arg' = [arg EXCEPT ![c] = nextJob]
    /\ nextJob' = nextJob + 1
    /\ UNCHANGED <<initVars, workerVars, signalVars, queue, qlock, counters,
                   sem, running, waitFor, jobVars>>

\* The faulty variant links the job before the head.
Enqueued_Front(j) == <<j>> \o queue
Enqueued(j) == Append(queue, j)

\* jobqueue_push
Push(c) ==
    /\ cpc[c] = "add" /\ qlock = Nobody
    /\ queue' = Enqueued(arg[c])
    /\ ClientGoto(c, "post")
    /\ UNCHANGED <<initVars, workerVars, signalVars, qlock, counters, sem,
                   running, arg, nextJob, waitFor, jobVars>>

Post(c) ==
    /\ cpc[c] = "post"
    /\ sem' = sem + 1
    /\ ClientGoto(c, "idle")
    /\ arg' = [arg EXCEPT ![c] = 0]
    /\ UNCHANGED <<initVars, workerVars, signalVars, queue, qlock, counters,
                   running, nextJob, waitFor, jobVars>>

CallWait(c) ==
    /\ MayCall(c, "wait")
    /\ ClientGoto(c, "wait")
    /\ waitFor' = [waitFor EXCEPT ![c] = Elems(queue) \cup InHands]
    /\ UNCHANGED <<initVars, workerVars, signalVars, queue, qlock, counters,
                   sem, running, arg, nextJob, jobVars>>

\* The loop condition of thpool_wait; the faulty variant forgets the jobs in
\* execution.
MustWait_QueueOnly == queue # <<>>
MustWait == queue # <<>> \/ working # 0

\* One round of the loop of thpool_wait.  count_locker is held from the test
\* to the pthread_cond_wait that releases it, or to the return.
WaitTest(c) ==
    /\ cpc[c] = "wait" /\ clock = Nobody
    /\ IF MustWait
       THEN ClientGoto(c, "cond") /\ waitFor' = waitFor
       ELSE /\ ClientGoto(c, "idle")
            /\ waitFor' = [waitFor EXCEPT ![c] = {}]
    /\ UNCHANGED <<initVars, workerVars, signalVars, queue, qlock, counters,
                   sem, running, arg, nextJob, jobVars>>

\* pthread_cond_wait may return without a signal.
SpuriousWake(c) ==
    /\ Allocated /\ cpc[c] = "cond"
    /\ ClientGoto(c, "wait")
    /\ UNCHANGED <<initVars, workerVars, signalVars, queue, qlock, counters,
                   sem, running, arg, nextJob, waitFor, jobVars>>

CallPause(c) ==
    /\ MayCall(c, "pause")
    /\ stop' = TRUE
    /\ ClientGoto(c, "kill")
    /\ arg' = [arg EXCEPT ![c] = 1]
    /\ UNCHANGED <<initVars, workerVars, sigpend, handler, queue, qlock,
                   counters, sem, running, nextJob, waitFor, jobVars>>

\* One round of the pthread_kill loop of thpool_pause.
Kill(c) ==
    /\ cpc[c] = "kill" /\ arg[c] <= NumThreads
    /\ sigpend' = [sigpend EXCEPT ![arg[c]] = TRUE]
    /\ arg' = [arg EXCEPT ![c] = arg[c] + 1]
    /\ UNCHANGED <<initVars, workerVars, handler, stop, queue, qlock,
                   counters, sem, running, cpc, nextJob, waitFor, jobVars>>

PauseReturns(c) ==
    /\ cpc[c] = "kill" /\ arg[c] > NumThreads
    /\ ClientGoto(c, "idle")
    /\ arg' = [arg EXCEPT ![c] = 0]
    /\ UNCHANGED <<initVars, workerVars, signalVars, queue, qlock, counters,
                   sem, running, nextJob, waitFor, jobVars>>

Resume(c) ==
    /\ MayCall(c, "resume") /\ stop
    /\ stop' = FALSE
    /\ UNCHANGED <<initVars, workerVars, sigpend, handler, queue, qlock,
                   counters, sem, running, clientVars, jobVars>>

\* thpool_destroy is the last call: no other client is inside the pool.
CallDestroy(c) ==
    /\ MayCall(c, "destroy") /\ \A d \in Clients : cpc[d] = "idle"
    /\ running' = FALSE
    /\ life' = "closing"
    /\ ClientGoto(c, "destroy")
    /\ UNCHANGED <<created, workerVars, signalVars, queue, qlock, counters,
                   sem, arg, nextJob, waitFor, jobVars>>

\* The condition that ends the polling; the faulty variant does not wait for
\* idle workers to leave.
AllExited_Idle == working = 0
AllExited == alive = 0

\* One round of the polling loop: thread_alive is read without the mutex.
DestroyPoll(c) ==
    /\ cpc[c] = "destroy" /\ ~AllExited /\ sem < MaxSem
    /\ sem' = sem + 1
    /\ UNCHANGED <<initVars, workerVars, signalVars, queue, qlock, counters,
                   running, clientVars, jobVars>>

\* jobqueue_clear frees every queued job.
Cleared == dropped \cup Elems(queue)

\* The rest of thpool_destroy: jobqueue_destroy, then the mutex, condition,
\* semaphore, thread array and pool are released.
DestroyFree(c) ==
    /\ cpc[c] = "destroy" /\ AllExited /\ qlock = Nobody
    /\ dropped' = Cleared
    /\ queue' = <<>>
    /\ life' = "freed"
    /\ ClientGoto(c, "idle")
    /\ UNCHANGED <<created, workerVars, signalVars, qlock, counters, sem,
                   running, arg, nextJob, waitFor, done>>
-----------------------------------------------------------------------------
Starting == \/ InitAllocFails \/ CreateThread \/ InitFails \/ InitQueue
            \/ InitSpin \/ InitReturns

Worker(w) ==
    \/ InstallHandler(w) \/ CountAlive(w) \/ UnlockCount(w) \/ LoopTest(w)
    \/ SemWait(w) \/ CheckRunning(w) \/ PutBack(w) \/ CountWorking(w)
    \/ Pop(w) \/ PopUnlock(w) \/ RunJob(w) \/ CountIdle(w) \/ CountExit(w)
    \/ Deliver(w) \/ HandlerReturns(w)

\* What a client that is inside a call does to finish it.
InCall(c) ==
    \/ Push(c) \/ Post(c) \/ WaitTest(c) \/ Kill(c) \/ PauseReturns(c)
    \/ DestroyPoll(c) \/ DestroyFree(c)

Client(c) ==
    \/ InCall(c) \/ SpuriousWake(c)
    \/ CallAdd(c) \/ CallWait(c) \/ CallPause(c) \/ Resume(c)
    \/ CallDestroy(c)

\* The pool's memory is released: nothing of it moves any more.
Stopped == ~Allocated /\ UNCHANGED vars

Next ==
    \/ Starting
    \/ \E w \in Workers : Worker(w)
    \/ \E c \in Clients : Client(c)
    \/ Stopped

Spec == Init /\ [][Next]_vars

(* Fairness: every thread that can take a step takes one, the handler is   *)
(* delivered and the jobs' functions return.  Nothing obliges a client to  *)
(* make a call.                                                            *)
FairSpec ==
    /\ Spec
    /\ WF_vars(CreateThread) /\ WF_vars(InitQueue) /\ WF_vars(InitReturns)
    /\ \A w \in Workers : WF_vars(Worker(w))
    /\ \A c \in Clients : WF_vars(InCall(c))
-----------------------------------------------------------------------------
(* Properties *)

TypeOK ==
    /\ life \in Lives
    /\ created \in 0..NumThreads
    /\ wpc \in [Workers -> WorkerPoints]
    /\ hand \in [Workers -> Jobs \cup {NoJob}]
    /\ sigpend \in [Workers -> BOOLEAN]
    /\ handler \in [Workers -> BOOLEAN]
    /\ queue \in Seq(Jobs)
    /\ qlock \in Workers \cup {Nobody}
    /\ clock \in Workers \cup {Nobody}
    /\ sem \in Nat /\ alive \in Nat /\ working \in Nat
    /\ running \in BOOLEAN /\ stop \in BOOLEAN
    /\ cpc \in [Clients -> ClientPoints]
    /\ arg \in [Clients -> Nat]
    /\ nextJob \in 1..(MaxJobs + 1)
    /\ done \subseteq Jobs /\ dropped \subseteq Jobs
    /\ waitFor \in [Clients -> SUBSET Jobs]

\* thread_alive and thread_working, which thpool_init, thpool_wait and
\* thpool_destroy rely on, count exactly the workers between the increment
\* and the decrement, whatever the interleaving of workers and signals.
CountersExact ==
    /\ alive = Cardinality(WorkersAt(AlivePoints))
    /\ working = Cardinality(WorkersAt(WorkingPoints))

\* No queued job is stranded: there are never more queued jobs than tokens
\* in has_job, workers on their way to pop or to return a token, and clients
\* about to post.  Workers woken by EINTR without a token keep it true.
NoStrandedJob ==
    Len(queue) <= sem + Cardinality(WorkersAt(TokenPoints))
                      + Cardinality(ClientsAt("post"))

\* A job handed to thpool_add_job is in one place: about to be pushed, in
\* the queue once, in the hands of one worker, executed or dropped.  So it
\* is executed at most once and never lost.
JobInOnePlace ==
    /\ \A i, k \in DOMAIN queue : queue[i] = queue[k] => i = k
    /\ \A v, w \in Workers : hand[v] = hand[w] /\ hand[v] # NoJob => v = w
    /\ \A j \in 1..(nextJob - 1) :
        /\ j \in Adding \cup Elems(queue) \cup InHands \cup done \cup dropped
        /\ j \in Adding => j \notin Elems(queue) \cup InHands \cup done
        /\ j \in Elems(queue) => j \notin InHands \cup done
        /\ j \in InHands => j \notin done
        /\ j \in dropped => j \notin Adding \cup Elems(queue) \cup InHands \cup done

\* thpool_init returns a pool only when every thread is counted, has its
\* signal handler and is inside the loop of thread_do.
FullyStaffed ==
    life = "up" => \A w \in Workers : wpc[w] \in AlivePoints

\* When thpool_destroy releases the pool no worker executes a job or will
\* touch the queue, the semaphore or the counters: all a worker may still
\* do is the unlock after --thread_alive.
FreedAfterWork ==
    life = "freed" =>
        /\ \A w \in Workers : wpc[w] \in {"exitHeld", "dead"}
        /\ InHands = {} /\ working = 0

\* thpool_wait returns only when every job that was queued or running at
\* the call has finished.
WaitReturnsDone ==
    [][\A c \in Clients :
         cpc[c] = "wait" /\ cpc'[c] = "idle" => waitFor[c] \subseteq done]_vars

\* The pool implements the abstract job pool: FIFO start, at most once, wait
\* and destroy as documented.
Phase == CASE life \in {"init", "spin"} -> "starting"
           [] life = "up" -> "open"
           [] life = "closing" -> "closing"
           [] OTHER -> "closed"
Waiting == [c \in Clients |->
              IF cpc[c] \in {"wait", "cond"} THEN {waitFor[c]} ELSE {}]
Promise == INSTANCE JobPool WITH
    phase <- Phase, pending <- queue, active <- InHands, finished <- done,
    discarded <- dropped, waiting <- Waiting
ImplementsJobPool == Promise!Spec

\* Every job that was added is executed, or dropped by thpool_destroy.
EveryJobEnds ==
    \A j \in Jobs : j \in Elems(queue) \cup InHands ~> j \in done \cup dropped

\* Every call returns: thpool_add_job, thpool_wait, thpool_pause and
\* thpool_destroy.
CallsReturn == \A c \in Clients : cpc[c] # "idle" ~> cpc[c] = "idle"

\* thpool_init returns.
InitEnds == life = "init" ~> life \in {"up", "failed"}

\* thpool.h on thpool_destroy: all threads are killed before the resources
\* are released.
DestroyedAfterThreads ==
    life = "freed" => \A w \in Workers : wpc[w] = "dead"
=============================================================================

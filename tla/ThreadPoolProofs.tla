-------------------------- MODULE ThreadPoolProofs --------------------------
(***************************************************************************)
(* Theorems about ThreadPool, for any number of workers, jobs and clients  *)
(* and any failure of thpool_init.                                         *)
(***************************************************************************)
EXTENDS ThreadPool, FiniteSetTheorems, TLAPS

\* A worker holds a mutex exactly at the points between lock and unlock.
LockInv ==
    \A w \in Workers : /\ clock = w <=> wpc[w] \in CountHeld
                       /\ qlock = w <=> wpc[w] = "popHeld"

\* A worker holds a job only from the pop to the end of the execution.
HandInv ==
    \A w \in Workers : /\ hand[w] # NoJob => wpc[w] \in {"popHeld", "run"}
                       /\ wpc[w] = "run" => hand[w] # NoJob

\* A client pushes the job it was called with.
ArgInv == \A c \in Clients : cpc[c] = "add" => arg[c] \in Jobs

\* Workers leave only when running is cleared, which thpool_destroy does
\* after thpool_init has returned, and only after they have been counted;
\* the pool is freed after they have all been counted out.
PhaseInv ==
    /\ running <=> life \notin {"closing", "freed"}
    /\ \A w \in Workers :
        /\ wpc[w] = "none" <=> w > created
        /\ wpc[w] \in {"exitLock", "exitHeld"} => ~running
        /\ wpc[w] = "dead" => life # "up"
        /\ life \in {"up", "closing", "freed"} =>
             wpc[w] \notin {"none", "start", "aliveLock"}
        /\ life = "freed" => wpc[w] \in {"exitHeld", "dead"}

\* Clients are inside calls only while the pool exists and has been handed
\* out; a client in thpool_destroy is alone.
DestroyInv ==
    /\ life \in {"init", "spin"} => queue = <<>>
    /\ \A c \in Clients :
        /\ cpc[c] \notin {"wait", "cond"} => waitFor[c] = {}
        /\ cpc[c] # "idle" => life \in {"up", "closing"}
        /\ cpc[c] = "destroy" => life = "closing"
        /\ life = "closing" => cpc[c] \in {"idle", "destroy"}
        /\ \A d \in Clients : cpc[c] = "destroy" /\ cpc[d] # "idle" => c = d

\* Only jobs that were submitted are anywhere, and no two clients add the
\* same one.
PlaceInv ==
    /\ Adding \cup Elems(queue) \cup InHands \cup done \cup dropped
         \subseteq 1..(nextJob - 1)
    /\ \A c, d \in ClientsAt("add") : arg[c] = arg[d] => c = d

\* The jobs a client waits for are still queued, in a worker's hands or done.
WaitInv ==
    \A c \in Clients : waitFor[c] \subseteq Elems(queue) \cup InHands \cup done

\* The inductive invariant.
IInv == /\ TypeOK /\ LockInv /\ HandInv /\ ArgInv /\ PhaseInv
        /\ DestroyInv
        /\ CountersExact /\ NoStrandedJob
        /\ JobInOnePlace /\ PlaceInv /\ WaitInv
-----------------------------------------------------------------------------
(* Counting *)

\* Two subsets of a finite set that agree except on x have cardinalities that
\* differ by at most one, as the membership of x says.
LEMMA CountMove ==
    ASSUME NEW S, IsFiniteSet(S), NEW A \in SUBSET S, NEW B \in SUBSET S,
           NEW x \in S, A \ {x} = B \ {x}
    PROVE  /\ Cardinality(A) \in Nat /\ Cardinality(B) \in Nat
           /\ (x \in A <=> x \in B) => Cardinality(B) = Cardinality(A)
           /\ x \notin A /\ x \in B => Cardinality(B) = Cardinality(A) + 1
           /\ x \in A /\ x \notin B => Cardinality(B) = Cardinality(A) - 1
<1>1. IsFiniteSet(A) /\ IsFiniteSet(B)
  BY FS_Subset
<1>2. Cardinality(A) \in Nat /\ Cardinality(B) \in Nat
  BY <1>1, FS_CardinalityType
<1>3. CASE x \in A <=> x \in B
  <2>1. A = B
    BY <1>3
  <2> QED
    BY <1>2, <1>3, <2>1
<1>4. CASE x \notin A /\ x \in B
  <2>1. B = A \cup {x} /\ x \notin A
    BY <1>4
  <2>2. Cardinality(B) = Cardinality(A) + 1
    BY <1>1, <2>1, FS_AddElement
  <2> QED
    BY <1>2, <1>4, <2>2
<1>5. CASE x \in A /\ x \notin B
  <2>1. B = A \ {x} /\ x \in A
    BY <1>5
  <2>2. Cardinality(B) = Cardinality(A) - 1
    BY <1>1, <2>1, FS_RemoveElement
  <2> QED
    BY <1>2, <1>5, <2>2
<1> QED
  BY <1>3, <1>4, <1>5

\* There are finitely many workers, NumThreads of them.
LEMMA WorkersFinite == IsFiniteSet(Workers) /\ Cardinality(Workers) = NumThreads
  BY ThreadsAssumption, FS_Interval DEF Workers

\* The number of workers anywhere is a natural number.
LEMMA WorkersAtNat == ASSUME NEW P PROVE Cardinality(WorkersAt(P)) \in Nat
  BY WorkersFinite, FS_Subset, FS_CardinalityType DEF WorkersAt

\* The number of clients anywhere is a natural number.
LEMMA ClientsAtNat == ASSUME NEW q PROVE Cardinality(ClientsAt(q)) \in Nat
  BY ClientsAssumption, FS_Subset, FS_CardinalityType DEF ClientsAt

\* How a step of worker w to point p changes the number of workers in P.
LEMMA WorkerMove ==
    ASSUME TypeOK, NEW w \in Workers, NEW p, NEW P,
           wpc' = [wpc EXCEPT ![w] = p]
    PROVE  Cardinality(WorkersAt(P))' = Cardinality(WorkersAt(P))
               + (IF p \in P THEN 1 ELSE 0) - (IF wpc[w] \in P THEN 1 ELSE 0)
<1>1. wpc'[w] = p /\ \A y \in Workers \ {w} : wpc'[y] = wpc[y]
  BY DEF TypeOK
<1>2. /\ WorkersAt(P) \in SUBSET Workers /\ WorkersAt(P)' \in SUBSET Workers
      /\ WorkersAt(P) \ {w} = WorkersAt(P)' \ {w}
      /\ w \in WorkersAt(P) <=> wpc[w] \in P
      /\ w \in WorkersAt(P)' <=> p \in P
  BY <1>1 DEF WorkersAt
<1> QED
  BY <1>2, WorkersFinite, CountMove

\* How a step of client c to point p changes the number of clients at q.
LEMMA ClientMove ==
    ASSUME TypeOK, NEW c \in Clients, NEW p, NEW q,
           cpc' = [cpc EXCEPT ![c] = p]
    PROVE  Cardinality(ClientsAt(q))' = Cardinality(ClientsAt(q))
               + (IF p = q THEN 1 ELSE 0) - (IF cpc[c] = q THEN 1 ELSE 0)
<1>1. cpc'[c] = p /\ \A y \in Clients \ {c} : cpc'[y] = cpc[y]
  BY DEF TypeOK
<1>2. /\ ClientsAt(q) \in SUBSET Clients /\ ClientsAt(q)' \in SUBSET Clients
      /\ ClientsAt(q) \ {c} = ClientsAt(q)' \ {c}
      /\ c \in ClientsAt(q) <=> cpc[c] = q
      /\ c \in ClientsAt(q)' <=> p = q
  BY <1>1 DEF ClientsAt
<1> QED
  BY <1>2, ClientsAssumption, CountMove

\* Which control points count as alive, working and holding a token.
LEMMA Points ==
    /\ \A p \in WorkerPoints : p \in AlivePoints <=>
         p \notin {"none", "start", "aliveLock", "exitHeld", "dead"}
    /\ \A p \in WorkerPoints : p \in WorkingPoints <=>
         p \in {"busyHeld", "popLock", "popHeld", "run", "idleLock"}
    /\ \A p \in WorkerPoints : p \in TokenPoints <=>
         p \in {"check", "busyLock", "busyHeld", "popLock", "putBack"}
  BY DEF AlivePoints, WorkingPoints, TokenPoints

\* What a step of worker w to point p does to the three counts.
LEMMA Moved ==
    ASSUME TypeOK, NEW w \in Workers, NEW p \in WorkerPoints, Goto(w, p)
    PROVE  LET inA(q) == q \notin {"none", "start", "aliveLock", "exitHeld",
                                   "dead"}
               inW(q) == q \in {"busyHeld", "popLock", "popHeld", "run",
                                "idleLock"}
               inT(q) == q \in {"check", "busyLock", "busyHeld", "popLock",
                                "putBack"}
               A == Cardinality(WorkersAt(AlivePoints))
               W == Cardinality(WorkersAt(WorkingPoints))
               T == Cardinality(WorkersAt(TokenPoints))
           IN /\ A' = A + (IF inA(p) THEN 1 ELSE 0)
                        - (IF inA(wpc[w]) THEN 1 ELSE 0)
              /\ W' = W + (IF inW(p) THEN 1 ELSE 0)
                        - (IF inW(wpc[w]) THEN 1 ELSE 0)
              /\ T' = T + (IF inT(p) THEN 1 ELSE 0)
                        - (IF inT(wpc[w]) THEN 1 ELSE 0)
<1>1. wpc' = [wpc EXCEPT ![w] = p] /\ wpc[w] \in WorkerPoints
  BY DEF TypeOK, Goto
<1>2. Cardinality(WorkersAt(AlivePoints))' = Cardinality(WorkersAt(AlivePoints))
        + (IF p \in AlivePoints THEN 1 ELSE 0)
        - (IF wpc[w] \in AlivePoints THEN 1 ELSE 0)
  BY <1>1, WorkerMove
<1>3. Cardinality(WorkersAt(WorkingPoints))' = Cardinality(WorkersAt(WorkingPoints))
        + (IF p \in WorkingPoints THEN 1 ELSE 0)
        - (IF wpc[w] \in WorkingPoints THEN 1 ELSE 0)
  BY <1>1, WorkerMove
<1>4. Cardinality(WorkersAt(TokenPoints))' = Cardinality(WorkersAt(TokenPoints))
        + (IF p \in TokenPoints THEN 1 ELSE 0)
        - (IF wpc[w] \in TokenPoints THEN 1 ELSE 0)
  BY <1>1, WorkerMove
<1> QED
  BY <1>1, <1>2, <1>3, <1>4, Points

\* Steps that move no worker, or no client, leave the counts alone.
LEMMA Unmoved ==
    /\ wpc' = wpc => \A P : WorkersAt(P)' = WorkersAt(P)
    /\ cpc' = cpc => \A q : ClientsAt(q)' = ClientsAt(q)
  BY DEF WorkersAt, ClientsAt

\* A set with a worker in it does not count zero.
LEMMA WorkersAtSome ==
    ASSUME NEW P PROVE Cardinality(WorkersAt(P)) = 0 <=> WorkersAt(P) = {}
<1>1. IsFiniteSet(WorkersAt(P))
  BY WorkersFinite, FS_Subset DEF WorkersAt
<1> QED
  BY <1>1, FS_EmptySet

\* thread_alive reaches the number of threads when all of them are counted.
LEMMA AllAlive ==
    ASSUME CountersExact, alive >= NumThreads
    PROVE  \A w \in Workers : wpc[w] \in AlivePoints
<1>1. WorkersAt(AlivePoints) \in SUBSET Workers
  BY DEF WorkersAt
<1>2. Cardinality(WorkersAt(AlivePoints)) <= Cardinality(Workers)
  BY <1>1, WorkersFinite, FS_Subset
<1>3. Cardinality(WorkersAt(AlivePoints)) = Cardinality(Workers)
  BY <1>2, WorkersFinite, WorkersAtNat, ThreadsAssumption DEF CountersExact
<1>4. WorkersAt(AlivePoints) = Workers
  BY <1>1, <1>3, WorkersFinite, FS_Subset
<1> QED
  BY <1>4 DEF WorkersAt

\* thread_alive is zero when none is counted.
LEMMA NoneAlive ==
    ASSUME CountersExact, alive = 0
    PROVE  \A w \in Workers : wpc[w] \notin AlivePoints
  BY WorkersAtSome DEF CountersExact, WorkersAt

-----------------------------------------------------------------------------
(* Queues and hands *)

\* What jobqueue_pop removes and what jobqueue_push adds.
LEMMA PopRange ==
    ASSUME NEW S, NEW q \in Seq(S), q # <<>>
    PROVE  /\ Elems(q) = {Head(q)} \cup Elems(Tail(q))
           /\ (\A i, k \in DOMAIN q : q[i] = q[k] => i = k) =>
                /\ Head(q) \notin Elems(Tail(q))
                /\ \A i, k \in DOMAIN Tail(q) : Tail(q)[i] = Tail(q)[k] => i = k
<1>1. /\ Len(q) \in Nat /\ Len(q) > 0 /\ DOMAIN q = 1..Len(q)
      /\ DOMAIN Tail(q) = 1..(Len(q) - 1)
      /\ Head(q) = q[1]
      /\ \A i \in 1..(Len(q) - 1) : Tail(q)[i] = q[i + 1]
  OBVIOUS
<1>2. \A i \in DOMAIN q : i = 1 \/ i - 1 \in DOMAIN Tail(q)
  BY <1>1
<1>3. Elems(q) \subseteq {Head(q)} \cup Elems(Tail(q))
  <2> SUFFICES ASSUME NEW i \in DOMAIN q, i # 1 PROVE q[i] \in Elems(Tail(q))
    BY <1>1 DEF Elems
  <2>1. i - 1 \in DOMAIN Tail(q) /\ Tail(q)[i - 1] = q[i]
    BY <1>1, <1>2
  <2> QED
    BY <2>1 DEF Elems
<1>4. {Head(q)} \cup Elems(Tail(q)) \subseteq Elems(q)
  <2>1. \A i \in DOMAIN Tail(q) : i + 1 \in DOMAIN q /\ Tail(q)[i] = q[i + 1]
    BY <1>1
  <2> QED
    BY <1>1, <2>1 DEF Elems
<1>5. ASSUME \A i, k \in DOMAIN q : q[i] = q[k] => i = k
      PROVE  /\ Head(q) \notin Elems(Tail(q))
             /\ \A i, k \in DOMAIN Tail(q) : Tail(q)[i] = Tail(q)[k] => i = k
  <2>1. \A i \in DOMAIN Tail(q) : i \in Nat /\ i + 1 \in DOMAIN q
                                   /\ i + 1 # 1 /\ Tail(q)[i] = q[i + 1]
    BY <1>1
  <2>2. Head(q) \notin Elems(Tail(q))
    BY <1>1, <1>5, <2>1 DEF Elems
  <2>3. ASSUME NEW i \in DOMAIN Tail(q), NEW k \in DOMAIN Tail(q),
               Tail(q)[i] = Tail(q)[k]
        PROVE  i = k
    <3>1. i + 1 = k + 1
      BY <1>5, <2>1, <2>3
    <3> QED
      BY <2>1, <3>1
  <2> QED
    BY <2>2, <2>3
<1> QED
  BY <1>3, <1>4, <1>5

\* The same for jobqueue_push.
LEMMA PushRange ==
    ASSUME NEW S, NEW q \in Seq(S), NEW j \in S
    PROVE  /\ Elems(Append(q, j)) = Elems(q) \cup {j}
           /\ /\ \A i, k \in DOMAIN q : q[i] = q[k] => i = k
              /\ j \notin Elems(q)
              => \A i, k \in DOMAIN Append(q, j) :
                   Append(q, j)[i] = Append(q, j)[k] => i = k
<1> DEFINE r == Append(q, j)
           n == Len(q) + 1
<1>1. /\ Len(q) \in Nat /\ DOMAIN q = 1..Len(q) /\ DOMAIN r = 1..n
      /\ r[n] = j /\ \A i \in 1..Len(q) : r[i] = q[i]
  OBVIOUS
<1> HIDE DEF r
<1>2. DOMAIN r = DOMAIN q \cup {n} /\ n \notin DOMAIN q
  BY <1>1
<1>3. Elems(r) = Elems(q) \cup {j}
  BY <1>1, <1>2 DEF Elems
<1>4. ASSUME \A i, k \in DOMAIN q : q[i] = q[k] => i = k, j \notin Elems(q)
      PROVE  \A i, k \in DOMAIN r : r[i] = r[k] => i = k
  BY <1>1, <1>2, <1>4 DEF Elems
<1> QED
  BY <1>3, <1>4 DEF r

\* Nothing is in an empty queue.
LEMMA EmptyRange == Elems(<<>>) = {}
  BY DEF Elems

\* What is in the workers' hands after a worker takes or returns a job.
LEMMA HandTaken ==
    ASSUME TypeOK, NEW w \in Workers, NEW j \in Jobs, hand[w] = NoJob,
           hand' = [hand EXCEPT ![w] = j]
    PROVE  InHands' = InHands \cup {j}
<1>1. j # NoJob
  BY DEF Jobs, NoJob
<1> QED
  BY <1>1 DEF TypeOK, InHands

\* The job of a worker that has executed it is in nobody else's hands.
LEMMA HandEmptied ==
    ASSUME TypeOK, JobInOnePlace, NEW w \in Workers, hand[w] # NoJob,
           hand' = [hand EXCEPT ![w] = NoJob]
    PROVE  InHands' = InHands \ {hand[w]}
  BY DEF TypeOK, InHands, JobInOnePlace

\* A step that leaves the queue, the hands and the outcome of jobs alone and
\* moves no client into or out of thpool_add_job keeps every job's place.
LEMMA SamePlaces ==
    ASSUME JobInOnePlace, PlaceInv, queue' = queue, hand' = hand,
           done' = done, dropped' = dropped, nextJob' = nextJob,
           ClientsAt("add")' = ClientsAt("add"),
           \A c \in ClientsAt("add") : arg'[c] = arg[c]
    PROVE  JobInOnePlace' /\ PlaceInv'
<1>1. /\ Adding' = Adding /\ InHands' = InHands
      /\ Elems(queue)' = Elems(queue)
  BY DEF Adding, InHands, Elems
<1> QED
  BY <1>1 DEF JobInOnePlace, PlaceInv

\* NoStrandedJob in terms of the workers that hold a token and the clients
\* about to post one.
TokenHolders == Cardinality(WorkersAt(TokenPoints))
Posters == Cardinality(ClientsAt("post"))
Balance == Len(queue) <= sem + TokenHolders + Posters

\* How a step of a worker changes the number of token holders.
LEMMA HoldersMove ==
    ASSUME TypeOK, NEW w \in Workers, NEW p \in WorkerPoints, Goto(w, p)
    PROVE  TokenHolders' = TokenHolders
             + (IF p \in TokenPoints THEN 1 ELSE 0)
             - (IF wpc[w] \in TokenPoints THEN 1 ELSE 0)
  BY WorkerMove DEF TokenHolders, Goto

\* Without a step of a worker that number stays.
LEMMA HoldersKept == wpc' = wpc => TokenHolders' = TokenHolders
  BY Unmoved DEF TokenHolders

\* How a step of a client changes the number of clients about to post.
LEMMA PostersMove ==
    ASSUME TypeOK, NEW c \in Clients, NEW p \in ClientPoints, ClientGoto(c, p)
    PROVE  Posters' = Posters + (IF p = "post" THEN 1 ELSE 0)
                              - (IF cpc[c] = "post" THEN 1 ELSE 0)
  BY ClientMove DEF Posters, ClientGoto

\* Without a step of a client that number stays.
LEMMA PostersKept == cpc' = cpc => Posters' = Posters
  BY Unmoved DEF Posters

\* Both numbers are natural numbers.
LEMMA BalanceTypes == TokenHolders \in Nat /\ Posters \in Nat
  BY WorkersAtNat, ClientsAtNat DEF TokenHolders, Posters


\* Each step keeps the two counters equal to what they count.
LEMMA CountersStep ==
    TypeOK /\ PhaseInv /\ CountersExact /\ [Next]_vars => CountersExact'
<1> SUFFICES ASSUME TypeOK, PhaseInv, CountersExact, [Next]_vars
      PROVE CountersExact'
  OBVIOUS
<1> USE WorkersAtNat, Unmoved DEF CountersExact, WorkerPoints, CountHeld,
   initVars, workerVars, signalVars, counters, clientVars, jobVars
<1>1. CASE InitAllocFails
  BY <1>1 DEF InitAllocFails
<1>2. CASE CreateThread
  <2>1. created + 1 \in Workers /\ wpc[created + 1] = "none"
    BY <1>2, ThreadsAssumption DEF CreateThread, PhaseInv, TypeOK, Workers
  <2>2. Goto(created + 1, "start")
    BY <1>2 DEF CreateThread, Goto
  <2> QED
    BY <1>2, <2>1, <2>2, Moved DEF CreateThread
<1>3. CASE InitFails
  BY <1>3 DEF InitFails
<1>4. CASE InitQueue
  BY <1>4 DEF InitQueue
<1>5. CASE InitSpin
  BY <1>5 DEF InitSpin, vars
<1>6. CASE InitReturns
  BY <1>6 DEF InitReturns
<1>7. ASSUME NEW w \in Workers, InstallHandler(w) PROVE CountersExact'
  BY <1>7, Moved DEF InstallHandler
<1>8. ASSUME NEW w \in Workers, CountAlive(w) PROVE CountersExact'
  BY <1>8, Moved DEF CountAlive
<1>9. ASSUME NEW w \in Workers, UnlockCount(w) PROVE CountersExact'
  BY <1>9, Moved DEF UnlockCount, AfterUnlock
<1>10. ASSUME NEW w \in Workers, LoopTest(w) PROVE CountersExact'
  BY <1>10, Moved DEF LoopTest
<1>11. ASSUME NEW w \in Workers, SemWait(w) PROVE CountersExact'
  BY <1>11, Moved DEF SemWait
<1>12. ASSUME NEW w \in Workers, CheckRunning(w) PROVE CountersExact'
  BY <1>12, Moved DEF CheckRunning, AfterCheck
<1>13. ASSUME NEW w \in Workers, PutBack(w) PROVE CountersExact'
  BY <1>13, Moved DEF PutBack
<1>14. ASSUME NEW w \in Workers, CountWorking(w) PROVE CountersExact'
  BY <1>14, Moved DEF CountWorking
<1>15. ASSUME NEW w \in Workers, Pop(w) PROVE CountersExact'
  BY <1>15, Moved DEF Pop
<1>16. ASSUME NEW w \in Workers, PopUnlock(w) PROVE CountersExact'
  BY <1>16, Moved DEF PopUnlock
<1>17. ASSUME NEW w \in Workers, RunJob(w) PROVE CountersExact'
  BY <1>17, Moved DEF RunJob
<1>18. ASSUME NEW w \in Workers, CountIdle(w) PROVE CountersExact'
  BY <1>18, Moved DEF CountIdle
<1>19. ASSUME NEW w \in Workers, CountExit(w) PROVE CountersExact'
  BY <1>19, Moved DEF CountExit
<1>20. ASSUME NEW w \in Workers, Deliver(w) PROVE CountersExact'
  BY <1>20 DEF Deliver
<1>21. ASSUME NEW w \in Workers, HandlerReturns(w) PROVE CountersExact'
  BY <1>21, Moved DEF HandlerReturns
<1>22. ASSUME NEW c \in Clients, Push(c) PROVE CountersExact'
  BY <1>22 DEF Push
<1>23. ASSUME NEW c \in Clients, Post(c) PROVE CountersExact'
  BY <1>23 DEF Post
<1>24. ASSUME NEW c \in Clients, WaitTest(c) PROVE CountersExact'
  BY <1>24 DEF WaitTest
<1>25. ASSUME NEW c \in Clients, Kill(c) PROVE CountersExact'
  BY <1>25 DEF Kill
<1>26. ASSUME NEW c \in Clients, PauseReturns(c) PROVE CountersExact'
  BY <1>26 DEF PauseReturns
<1>27. ASSUME NEW c \in Clients, DestroyPoll(c) PROVE CountersExact'
  BY <1>27 DEF DestroyPoll
<1>28. ASSUME NEW c \in Clients, DestroyFree(c) PROVE CountersExact'
  BY <1>28 DEF DestroyFree
<1>29. ASSUME NEW c \in Clients, SpuriousWake(c) PROVE CountersExact'
  BY <1>29 DEF SpuriousWake
<1>30. ASSUME NEW c \in Clients, CallAdd(c) PROVE CountersExact'
  BY <1>30 DEF CallAdd
<1>31. ASSUME NEW c \in Clients, CallWait(c) PROVE CountersExact'
  BY <1>31 DEF CallWait
<1>32. ASSUME NEW c \in Clients, CallPause(c) PROVE CountersExact'
  BY <1>32 DEF CallPause
<1>33. ASSUME NEW c \in Clients, Resume(c) PROVE CountersExact'
  BY <1>33 DEF Resume
<1>34. ASSUME NEW c \in Clients, CallDestroy(c) PROVE CountersExact'
  BY <1>34 DEF CallDestroy
<1>35. CASE UNCHANGED vars
  BY <1>35 DEF vars, initVars, workerVars, signalVars, counters, clientVars,
     jobVars
<1> QED
  BY <1>1, <1>2, <1>3, <1>4, <1>5, <1>6, <1>7, <1>8, <1>9, <1>10, <1>11,
  <1>12, <1>13, <1>14, <1>15, <1>16, <1>17, <1>18, <1>19, <1>20, <1>21,
  <1>22, <1>23, <1>24, <1>25, <1>26, <1>27, <1>28, <1>29, <1>30, <1>31,
  <1>32, <1>33, <1>34, <1>35 DEF Next, Starting, Worker, Client, InCall,
  Stopped

\* Each step keeps the types.  The counters stay natural numbers because they
\* count the worker that decrements them; what is pushed or run is a job.
LEMMA TypeStep ==
    TypeOK /\ HandInv /\ ArgInv /\ CountersExact /\ [Next]_vars => TypeOK'
<1> SUFFICES ASSUME TypeOK, HandInv, ArgInv, CountersExact, [Next]_vars
      PROVE TypeOK'
  OBVIOUS
<1> USE ThreadsAssumption, BoundsAssumption DEF TypeOK, Lives, WorkerPoints,
   CountHeld, ClientPoints, Nobody, NoJob, Goto, ClientGoto, Runs, initVars,
   workerVars, signalVars, counters, clientVars, jobVars
<1>1. CASE InitAllocFails
  BY <1>1 DEF InitAllocFails
<1>2. CASE CreateThread
  BY <1>2 DEF CreateThread, Workers
<1>3. CASE InitFails
  BY <1>3 DEF InitFails
<1>4. CASE InitQueue
  BY <1>4 DEF InitQueue
<1>5. CASE InitSpin
  BY <1>5 DEF InitSpin, vars
<1>6. CASE InitReturns
  BY <1>6 DEF InitReturns
<1>7. ASSUME NEW w \in Workers, InstallHandler(w) PROVE TypeOK'
  BY <1>7 DEF InstallHandler
<1>8. ASSUME NEW w \in Workers, CountAlive(w) PROVE TypeOK'
  BY <1>8 DEF CountAlive
<1>9. ASSUME NEW w \in Workers, UnlockCount(w) PROVE TypeOK'
  BY <1>9 DEF UnlockCount, AfterUnlock
<1>10. ASSUME NEW w \in Workers, LoopTest(w) PROVE TypeOK'
  BY <1>10 DEF LoopTest
<1>11. ASSUME NEW w \in Workers, SemWait(w) PROVE TypeOK'
  BY <1>11 DEF SemWait, HasToken
<1>12. ASSUME NEW w \in Workers, CheckRunning(w) PROVE TypeOK'
  BY <1>12 DEF CheckRunning, AfterCheck
<1>13. ASSUME NEW w \in Workers, PutBack(w) PROVE TypeOK'
  BY <1>13 DEF PutBack
<1>14. ASSUME NEW w \in Workers, CountWorking(w) PROVE TypeOK'
  BY <1>14 DEF CountWorking
<1>15. ASSUME NEW w \in Workers, Pop(w) PROVE TypeOK'
  <2>1. CASE queue = <<>>
    BY <1>15, <2>1 DEF Pop
  <2>2. CASE queue # <<>>
    <3>1. Head(queue) \in Jobs /\ Dequeued \in Seq(Jobs)
      BY <2>2 DEF Dequeued
    <3> QED
      BY <1>15, <2>2, <3>1 DEF Pop
  <2> QED
    BY <2>1, <2>2
<1>16. ASSUME NEW w \in Workers, PopUnlock(w) PROVE TypeOK'
  BY <1>16 DEF PopUnlock
<1>17. ASSUME NEW w \in Workers, RunJob(w) PROVE TypeOK'
  BY <1>17 DEF RunJob, HandInv
<1>18. ASSUME NEW w \in Workers, CountIdle(w) PROVE TypeOK'
  <2>1. w \in WorkersAt(WorkingPoints)
    BY <1>18 DEF CountIdle, WorkersAt, WorkingPoints
  <2>2. working \in Nat /\ working # 0
    BY <2>1, WorkersAtNat, WorkersAtSome DEF CountersExact
  <2>3. cpc' \in [Clients -> ClientPoints]
    BY <1>18 DEF CountIdle, SignalAllIdle, ClientsAt
  <2> QED
    BY <1>18, <2>2, <2>3 DEF CountIdle
<1>19. ASSUME NEW w \in Workers, CountExit(w) PROVE TypeOK'
  <2>1. w \in WorkersAt(AlivePoints)
    BY <1>19 DEF CountExit, WorkersAt, AlivePoints
  <2>2. alive \in Nat /\ alive # 0
    BY <2>1, WorkersAtNat, WorkersAtSome DEF CountersExact
  <2> QED
    BY <1>19, <2>2 DEF CountExit, SignalAllIdle, ClientsAt
<1>20. ASSUME NEW w \in Workers, Deliver(w) PROVE TypeOK'
  BY <1>20 DEF Deliver
<1>21. ASSUME NEW w \in Workers, HandlerReturns(w) PROVE TypeOK'
  BY <1>21 DEF HandlerReturns
<1>22. ASSUME NEW c \in Clients, Push(c) PROVE TypeOK'
  BY <1>22 DEF Push, Enqueued, ArgInv
<1>23. ASSUME NEW c \in Clients, Post(c) PROVE TypeOK'
  BY <1>23 DEF Post
<1>24. ASSUME NEW c \in Clients, WaitTest(c) PROVE TypeOK'
  BY <1>24 DEF WaitTest
<1>25. ASSUME NEW c \in Clients, Kill(c) PROVE TypeOK'
  <2>1. sigpend' \in [Workers -> BOOLEAN]
    BY <1>25 DEF Kill
  <2>2. arg' \in [Clients -> Nat]
    BY <1>25 DEF Kill
  <2> QED
    BY <1>25, <2>1, <2>2 DEF Kill
<1>26. ASSUME NEW c \in Clients, PauseReturns(c) PROVE TypeOK'
  BY <1>26 DEF PauseReturns
<1>27. ASSUME NEW c \in Clients, DestroyPoll(c) PROVE TypeOK'
  BY <1>27 DEF DestroyPoll
<1>28. ASSUME NEW c \in Clients, DestroyFree(c) PROVE TypeOK'
  BY <1>28 DEF DestroyFree, Cleared, Elems
<1>29. ASSUME NEW c \in Clients, SpuriousWake(c) PROVE TypeOK'
  BY <1>29 DEF SpuriousWake
<1>30. ASSUME NEW c \in Clients, CallAdd(c) PROVE TypeOK'
  BY <1>30 DEF CallAdd, MayCall, Jobs
<1>31. ASSUME NEW c \in Clients, CallWait(c) PROVE TypeOK'
  BY <1>31 DEF CallWait, Elems, InHands, Jobs
<1>32. ASSUME NEW c \in Clients, CallPause(c) PROVE TypeOK'
  BY <1>32 DEF CallPause
<1>33. ASSUME NEW c \in Clients, Resume(c) PROVE TypeOK'
  BY <1>33 DEF Resume
<1>34. ASSUME NEW c \in Clients, CallDestroy(c) PROVE TypeOK'
  BY <1>34 DEF CallDestroy
<1>35. CASE UNCHANGED vars
  BY <1>35 DEF vars, initVars, workerVars, signalVars, counters, clientVars,
     jobVars
<1> QED
  BY <1>1, <1>2, <1>3, <1>4, <1>5, <1>6, <1>7, <1>8, <1>9, <1>10, <1>11,
  <1>12, <1>13, <1>14, <1>15, <1>16, <1>17, <1>18, <1>19, <1>20, <1>21,
  <1>22, <1>23, <1>24, <1>25, <1>26, <1>27, <1>28, <1>29, <1>30, <1>31,
  <1>32, <1>33, <1>34, <1>35 DEF Next, Starting, Worker, Client, InCall,
  Stopped

\* Each step keeps the mutexes held exactly by the workers between lock and
\* unlock.
LEMMA LockStep == TypeOK /\ PhaseInv /\ LockInv /\ [Next]_vars => LockInv'
<1> SUFFICES ASSUME TypeOK, PhaseInv, LockInv, [Next]_vars PROVE LockInv'
  OBVIOUS
<1> USE ThreadsAssumption DEF TypeOK, LockInv, WorkerPoints, CountHeld, Nobody,
   Workers, Goto, ClientGoto, Runs, initVars, workerVars, signalVars, counters,
   clientVars, jobVars
<1>1. CASE InitAllocFails
  BY <1>1 DEF InitAllocFails
<1>2. CASE CreateThread
  BY <1>2 DEF CreateThread, PhaseInv
<1>3. CASE InitFails
  BY <1>3 DEF InitFails
<1>4. CASE InitQueue
  BY <1>4 DEF InitQueue
<1>5. CASE InitSpin
  BY <1>5 DEF InitSpin, vars
<1>6. CASE InitReturns
  BY <1>6 DEF InitReturns
<1>7. ASSUME NEW w \in Workers, InstallHandler(w) PROVE LockInv'
  BY <1>7 DEF InstallHandler
<1>8. ASSUME NEW w \in Workers, CountAlive(w) PROVE LockInv'
  BY <1>8 DEF CountAlive
<1>9. ASSUME NEW w \in Workers, UnlockCount(w) PROVE LockInv'
  BY <1>9 DEF UnlockCount, AfterUnlock
<1>10. ASSUME NEW w \in Workers, LoopTest(w) PROVE LockInv'
  BY <1>10 DEF LoopTest
<1>11. ASSUME NEW w \in Workers, SemWait(w) PROVE LockInv'
  BY <1>11 DEF SemWait
<1>12. ASSUME NEW w \in Workers, CheckRunning(w) PROVE LockInv'
  BY <1>12 DEF CheckRunning, AfterCheck
<1>13. ASSUME NEW w \in Workers, PutBack(w) PROVE LockInv'
  BY <1>13 DEF PutBack
<1>14. ASSUME NEW w \in Workers, CountWorking(w) PROVE LockInv'
  BY <1>14 DEF CountWorking
<1>15. ASSUME NEW w \in Workers, Pop(w) PROVE LockInv'
  <2>1. /\ qlock = Nobody /\ qlock' = w /\ clock' = clock
        /\ wpc[w] = "popLock" /\ wpc' = [wpc EXCEPT ![w] = "popHeld"]
    BY <1>15 DEF Pop
  <2> QED
    BY <2>1
<1>16. ASSUME NEW w \in Workers, PopUnlock(w) PROVE LockInv'
  BY <1>16 DEF PopUnlock
<1>17. ASSUME NEW w \in Workers, RunJob(w) PROVE LockInv'
  BY <1>17 DEF RunJob
<1>18. ASSUME NEW w \in Workers, CountIdle(w) PROVE LockInv'
  BY <1>18 DEF CountIdle, SignalAllIdle, ClientsAt
<1>19. ASSUME NEW w \in Workers, CountExit(w) PROVE LockInv'
  BY <1>19 DEF CountExit
<1>20. ASSUME NEW w \in Workers, Deliver(w) PROVE LockInv'
  BY <1>20 DEF Deliver
<1>21. ASSUME NEW w \in Workers, HandlerReturns(w) PROVE LockInv'
  BY <1>21 DEF HandlerReturns
<1>22. ASSUME NEW c \in Clients, Push(c) PROVE LockInv'
  BY <1>22 DEF Push
<1>23. ASSUME NEW c \in Clients, Post(c) PROVE LockInv'
  BY <1>23 DEF Post
<1>24. ASSUME NEW c \in Clients, WaitTest(c) PROVE LockInv'
  BY <1>24 DEF WaitTest
<1>25. ASSUME NEW c \in Clients, Kill(c) PROVE LockInv'
  BY <1>25 DEF Kill
<1>26. ASSUME NEW c \in Clients, PauseReturns(c) PROVE LockInv'
  BY <1>26 DEF PauseReturns
<1>27. ASSUME NEW c \in Clients, DestroyPoll(c) PROVE LockInv'
  BY <1>27 DEF DestroyPoll
<1>28. ASSUME NEW c \in Clients, DestroyFree(c) PROVE LockInv'
  BY <1>28 DEF DestroyFree
<1>29. ASSUME NEW c \in Clients, SpuriousWake(c) PROVE LockInv'
  BY <1>29 DEF SpuriousWake
<1>30. ASSUME NEW c \in Clients, CallAdd(c) PROVE LockInv'
  BY <1>30 DEF CallAdd
<1>31. ASSUME NEW c \in Clients, CallWait(c) PROVE LockInv'
  BY <1>31 DEF CallWait
<1>32. ASSUME NEW c \in Clients, CallPause(c) PROVE LockInv'
  BY <1>32 DEF CallPause
<1>33. ASSUME NEW c \in Clients, Resume(c) PROVE LockInv'
  BY <1>33 DEF Resume
<1>34. ASSUME NEW c \in Clients, CallDestroy(c) PROVE LockInv'
  BY <1>34 DEF CallDestroy
<1>35. CASE UNCHANGED vars
  BY <1>35 DEF vars, initVars, workerVars, signalVars, counters, clientVars,
     jobVars
<1> QED
  BY <1>1, <1>2, <1>3, <1>4, <1>5, <1>6, <1>7, <1>8, <1>9, <1>10, <1>11,
  <1>12, <1>13, <1>14, <1>15, <1>16, <1>17, <1>18, <1>19, <1>20, <1>21,
  <1>22, <1>23, <1>24, <1>25, <1>26, <1>27, <1>28, <1>29, <1>30, <1>31,
  <1>32, <1>33, <1>34, <1>35 DEF Next, Starting, Worker, Client, InCall,
  Stopped

\* Each step keeps jobs in the hands of workers that popped them only.
LEMMA HandStep == TypeOK /\ PhaseInv /\ HandInv /\ [Next]_vars => HandInv'
<1> SUFFICES ASSUME TypeOK, PhaseInv, HandInv, [Next]_vars PROVE HandInv'
  OBVIOUS
<1> USE ThreadsAssumption, BoundsAssumption DEF TypeOK, HandInv, WorkerPoints,
   CountHeld, NoJob, Jobs, Workers, Goto, ClientGoto, Runs, initVars,
   workerVars, signalVars, counters, clientVars, jobVars
<1>1. CASE InitAllocFails
  BY <1>1 DEF InitAllocFails
<1>2. CASE CreateThread
  BY <1>2 DEF CreateThread, PhaseInv
<1>3. CASE InitFails
  BY <1>3 DEF InitFails
<1>4. CASE InitQueue
  BY <1>4 DEF InitQueue
<1>5. CASE InitSpin
  BY <1>5 DEF InitSpin, vars
<1>6. CASE InitReturns
  BY <1>6 DEF InitReturns
<1>7. ASSUME NEW w \in Workers, InstallHandler(w) PROVE HandInv'
  BY <1>7 DEF InstallHandler
<1>8. ASSUME NEW w \in Workers, CountAlive(w) PROVE HandInv'
  BY <1>8 DEF CountAlive
<1>9. ASSUME NEW w \in Workers, UnlockCount(w) PROVE HandInv'
  BY <1>9 DEF UnlockCount, AfterUnlock
<1>10. ASSUME NEW w \in Workers, LoopTest(w) PROVE HandInv'
  BY <1>10 DEF LoopTest
<1>11. ASSUME NEW w \in Workers, SemWait(w) PROVE HandInv'
  BY <1>11 DEF SemWait
<1>12. ASSUME NEW w \in Workers, CheckRunning(w) PROVE HandInv'
  BY <1>12 DEF CheckRunning, AfterCheck
<1>13. ASSUME NEW w \in Workers, PutBack(w) PROVE HandInv'
  BY <1>13 DEF PutBack
<1>14. ASSUME NEW w \in Workers, CountWorking(w) PROVE HandInv'
  BY <1>14 DEF CountWorking
<1>15. ASSUME NEW w \in Workers, Pop(w) PROVE HandInv'
  <2>1. CASE queue = <<>>
    BY <1>15, <2>1 DEF Pop
  <2>2. CASE queue # <<>>
    <3>1. Head(queue) \in Jobs
      BY <2>2
    <3> QED
      BY <1>15, <2>2, <3>1 DEF Pop
  <2> QED
    BY <2>1, <2>2
<1>16. ASSUME NEW w \in Workers, PopUnlock(w) PROVE HandInv'
  BY <1>16 DEF PopUnlock
<1>17. ASSUME NEW w \in Workers, RunJob(w) PROVE HandInv'
  BY <1>17 DEF RunJob
<1>18. ASSUME NEW w \in Workers, CountIdle(w) PROVE HandInv'
  BY <1>18 DEF CountIdle, SignalAllIdle, ClientsAt
<1>19. ASSUME NEW w \in Workers, CountExit(w) PROVE HandInv'
  BY <1>19 DEF CountExit
<1>20. ASSUME NEW w \in Workers, Deliver(w) PROVE HandInv'
  BY <1>20 DEF Deliver
<1>21. ASSUME NEW w \in Workers, HandlerReturns(w) PROVE HandInv'
  BY <1>21 DEF HandlerReturns
<1>22. ASSUME NEW c \in Clients, Push(c) PROVE HandInv'
  BY <1>22 DEF Push
<1>23. ASSUME NEW c \in Clients, Post(c) PROVE HandInv'
  BY <1>23 DEF Post
<1>24. ASSUME NEW c \in Clients, WaitTest(c) PROVE HandInv'
  BY <1>24 DEF WaitTest
<1>25. ASSUME NEW c \in Clients, Kill(c) PROVE HandInv'
  BY <1>25 DEF Kill
<1>26. ASSUME NEW c \in Clients, PauseReturns(c) PROVE HandInv'
  BY <1>26 DEF PauseReturns
<1>27. ASSUME NEW c \in Clients, DestroyPoll(c) PROVE HandInv'
  BY <1>27 DEF DestroyPoll
<1>28. ASSUME NEW c \in Clients, DestroyFree(c) PROVE HandInv'
  BY <1>28 DEF DestroyFree
<1>29. ASSUME NEW c \in Clients, SpuriousWake(c) PROVE HandInv'
  BY <1>29 DEF SpuriousWake
<1>30. ASSUME NEW c \in Clients, CallAdd(c) PROVE HandInv'
  BY <1>30 DEF CallAdd
<1>31. ASSUME NEW c \in Clients, CallWait(c) PROVE HandInv'
  BY <1>31 DEF CallWait
<1>32. ASSUME NEW c \in Clients, CallPause(c) PROVE HandInv'
  BY <1>32 DEF CallPause
<1>33. ASSUME NEW c \in Clients, Resume(c) PROVE HandInv'
  BY <1>33 DEF Resume
<1>34. ASSUME NEW c \in Clients, CallDestroy(c) PROVE HandInv'
  BY <1>34 DEF CallDestroy
<1>35. CASE UNCHANGED vars
  BY <1>35 DEF vars, initVars, workerVars, signalVars, counters, clientVars,
     jobVars
<1> QED
  BY <1>1, <1>2, <1>3, <1>4, <1>5, <1>6, <1>7, <1>8, <1>9, <1>10, <1>11,
  <1>12, <1>13, <1>14, <1>15, <1>16, <1>17, <1>18, <1>19, <1>20, <1>21,
  <1>22, <1>23, <1>24, <1>25, <1>26, <1>27, <1>28, <1>29, <1>30, <1>31,
  <1>32, <1>33, <1>34, <1>35 DEF Next, Starting, Worker, Client, InCall,
  Stopped

\* Each step keeps the argument of a pending thpool_add_job a job.
LEMMA ArgStep == TypeOK /\ ArgInv /\ [Next]_vars => ArgInv'
<1> SUFFICES ASSUME TypeOK, ArgInv, [Next]_vars PROVE ArgInv'
  OBVIOUS
<1> USE BoundsAssumption DEF TypeOK, ArgInv, ClientPoints, ClientGoto,
   initVars, workerVars, signalVars, counters, clientVars, jobVars
<1>1. CASE InitAllocFails
  BY <1>1 DEF InitAllocFails
<1>2. CASE CreateThread
  BY <1>2 DEF CreateThread
<1>3. CASE InitFails
  BY <1>3 DEF InitFails
<1>4. CASE InitQueue
  BY <1>4 DEF InitQueue
<1>5. CASE InitSpin
  BY <1>5 DEF InitSpin, vars
<1>6. CASE InitReturns
  BY <1>6 DEF InitReturns
<1>7. ASSUME NEW w \in Workers, InstallHandler(w) PROVE ArgInv'
  BY <1>7 DEF InstallHandler
<1>8. ASSUME NEW w \in Workers, CountAlive(w) PROVE ArgInv'
  BY <1>8 DEF CountAlive
<1>9. ASSUME NEW w \in Workers, UnlockCount(w) PROVE ArgInv'
  BY <1>9 DEF UnlockCount
<1>10. ASSUME NEW w \in Workers, LoopTest(w) PROVE ArgInv'
  BY <1>10 DEF LoopTest
<1>11. ASSUME NEW w \in Workers, SemWait(w) PROVE ArgInv'
  BY <1>11 DEF SemWait
<1>12. ASSUME NEW w \in Workers, CheckRunning(w) PROVE ArgInv'
  BY <1>12 DEF CheckRunning
<1>13. ASSUME NEW w \in Workers, PutBack(w) PROVE ArgInv'
  BY <1>13 DEF PutBack
<1>14. ASSUME NEW w \in Workers, CountWorking(w) PROVE ArgInv'
  BY <1>14 DEF CountWorking
<1>15. ASSUME NEW w \in Workers, Pop(w) PROVE ArgInv'
  BY <1>15 DEF Pop
<1>16. ASSUME NEW w \in Workers, PopUnlock(w) PROVE ArgInv'
  BY <1>16 DEF PopUnlock
<1>17. ASSUME NEW w \in Workers, RunJob(w) PROVE ArgInv'
  BY <1>17 DEF RunJob
<1>18. ASSUME NEW w \in Workers, CountIdle(w) PROVE ArgInv'
  BY <1>18 DEF CountIdle, SignalAllIdle, ClientsAt
<1>19. ASSUME NEW w \in Workers, CountExit(w) PROVE ArgInv'
  BY <1>19 DEF CountExit
<1>20. ASSUME NEW w \in Workers, Deliver(w) PROVE ArgInv'
  BY <1>20 DEF Deliver
<1>21. ASSUME NEW w \in Workers, HandlerReturns(w) PROVE ArgInv'
  BY <1>21 DEF HandlerReturns
<1>22. ASSUME NEW c \in Clients, Push(c) PROVE ArgInv'
  BY <1>22 DEF Push
<1>23. ASSUME NEW c \in Clients, Post(c) PROVE ArgInv'
  BY <1>23 DEF Post
<1>24. ASSUME NEW c \in Clients, WaitTest(c) PROVE ArgInv'
  BY <1>24 DEF WaitTest
<1>25. ASSUME NEW c \in Clients, Kill(c) PROVE ArgInv'
  BY <1>25 DEF Kill
<1>26. ASSUME NEW c \in Clients, PauseReturns(c) PROVE ArgInv'
  BY <1>26 DEF PauseReturns
<1>27. ASSUME NEW c \in Clients, DestroyPoll(c) PROVE ArgInv'
  BY <1>27 DEF DestroyPoll
<1>28. ASSUME NEW c \in Clients, DestroyFree(c) PROVE ArgInv'
  BY <1>28 DEF DestroyFree
<1>29. ASSUME NEW c \in Clients, SpuriousWake(c) PROVE ArgInv'
  BY <1>29 DEF SpuriousWake
<1>30. ASSUME NEW c \in Clients, CallAdd(c) PROVE ArgInv'
  BY <1>30 DEF CallAdd, MayCall, Jobs
<1>31. ASSUME NEW c \in Clients, CallWait(c) PROVE ArgInv'
  BY <1>31 DEF CallWait
<1>32. ASSUME NEW c \in Clients, CallPause(c) PROVE ArgInv'
  BY <1>32 DEF CallPause
<1>33. ASSUME NEW c \in Clients, Resume(c) PROVE ArgInv'
  BY <1>33 DEF Resume
<1>34. ASSUME NEW c \in Clients, CallDestroy(c) PROVE ArgInv'
  BY <1>34 DEF CallDestroy
<1>35. CASE UNCHANGED vars
  BY <1>35 DEF vars, initVars, workerVars, signalVars, counters, clientVars,
     jobVars
<1> QED
  BY <1>1, <1>2, <1>3, <1>4, <1>5, <1>6, <1>7, <1>8, <1>9, <1>10, <1>11,
  <1>12, <1>13, <1>14, <1>15, <1>16, <1>17, <1>18, <1>19, <1>20, <1>21,
  <1>22, <1>23, <1>24, <1>25, <1>26, <1>27, <1>28, <1>29, <1>30, <1>31,
  <1>32, <1>33, <1>34, <1>35 DEF Next, Starting, Worker, Client, InCall,
  Stopped

\* Each step keeps thpool_destroy the only call on a closing pool.
LEMMA DestroyStep == TypeOK /\ DestroyInv /\ [Next]_vars => DestroyInv'
<1> SUFFICES ASSUME TypeOK, DestroyInv, [Next]_vars PROVE DestroyInv'
  OBVIOUS
<1> USE  DEF TypeOK, DestroyInv, Allocated, ClientPoints, Lives, Runs,
   ClientGoto, initVars, workerVars, signalVars, counters, clientVars, jobVars
<1>1. CASE InitAllocFails
  BY <1>1 DEF InitAllocFails
<1>2. CASE CreateThread
  BY <1>2 DEF CreateThread
<1>3. CASE InitFails
  BY <1>3 DEF InitFails
<1>4. CASE InitQueue
  BY <1>4 DEF InitQueue
<1>5. CASE InitSpin
  BY <1>5 DEF InitSpin, vars
<1>6. CASE InitReturns
  BY <1>6 DEF InitReturns
<1>7. ASSUME NEW w \in Workers, InstallHandler(w) PROVE DestroyInv'
  BY <1>7 DEF InstallHandler
<1>8. ASSUME NEW w \in Workers, CountAlive(w) PROVE DestroyInv'
  BY <1>8 DEF CountAlive
<1>9. ASSUME NEW w \in Workers, UnlockCount(w) PROVE DestroyInv'
  BY <1>9 DEF UnlockCount
<1>10. ASSUME NEW w \in Workers, LoopTest(w) PROVE DestroyInv'
  BY <1>10 DEF LoopTest
<1>11. ASSUME NEW w \in Workers, SemWait(w) PROVE DestroyInv'
  BY <1>11 DEF SemWait
<1>12. ASSUME NEW w \in Workers, CheckRunning(w) PROVE DestroyInv'
  BY <1>12 DEF CheckRunning
<1>13. ASSUME NEW w \in Workers, PutBack(w) PROVE DestroyInv'
  BY <1>13 DEF PutBack
<1>14. ASSUME NEW w \in Workers, CountWorking(w) PROVE DestroyInv'
  BY <1>14 DEF CountWorking
<1>15. ASSUME NEW w \in Workers, Pop(w) PROVE DestroyInv'
  BY <1>15 DEF Pop
<1>16. ASSUME NEW w \in Workers, PopUnlock(w) PROVE DestroyInv'
  BY <1>16 DEF PopUnlock
<1>17. ASSUME NEW w \in Workers, RunJob(w) PROVE DestroyInv'
  BY <1>17 DEF RunJob
<1>18. ASSUME NEW w \in Workers, CountIdle(w) PROVE DestroyInv'
  BY <1>18 DEF CountIdle, SignalAllIdle, ClientsAt
<1>19. ASSUME NEW w \in Workers, CountExit(w) PROVE DestroyInv'
  BY <1>19 DEF CountExit
<1>20. ASSUME NEW w \in Workers, Deliver(w) PROVE DestroyInv'
  BY <1>20 DEF Deliver
<1>21. ASSUME NEW w \in Workers, HandlerReturns(w) PROVE DestroyInv'
  BY <1>21 DEF HandlerReturns
<1>22. ASSUME NEW c \in Clients, Push(c) PROVE DestroyInv'
  BY <1>22 DEF Push
<1>23. ASSUME NEW c \in Clients, Post(c) PROVE DestroyInv'
  BY <1>23 DEF Post
<1>24. ASSUME NEW c \in Clients, WaitTest(c) PROVE DestroyInv'
  BY <1>24 DEF WaitTest
<1>25. ASSUME NEW c \in Clients, Kill(c) PROVE DestroyInv'
  BY <1>25 DEF Kill
<1>26. ASSUME NEW c \in Clients, PauseReturns(c) PROVE DestroyInv'
  BY <1>26 DEF PauseReturns
<1>27. ASSUME NEW c \in Clients, DestroyPoll(c) PROVE DestroyInv'
  BY <1>27 DEF DestroyPoll
<1>28. ASSUME NEW c \in Clients, DestroyFree(c) PROVE DestroyInv'
  BY <1>28 DEF DestroyFree
<1>29. ASSUME NEW c \in Clients, SpuriousWake(c) PROVE DestroyInv'
  BY <1>29 DEF SpuriousWake
<1>30. ASSUME NEW c \in Clients, CallAdd(c) PROVE DestroyInv'
  BY <1>30 DEF CallAdd, MayCall
<1>31. ASSUME NEW c \in Clients, CallWait(c) PROVE DestroyInv'
  BY <1>31 DEF CallWait, MayCall
<1>32. ASSUME NEW c \in Clients, CallPause(c) PROVE DestroyInv'
  BY <1>32 DEF CallPause, MayCall
<1>33. ASSUME NEW c \in Clients, Resume(c) PROVE DestroyInv'
  BY <1>33 DEF Resume, MayCall
<1>34. ASSUME NEW c \in Clients, CallDestroy(c) PROVE DestroyInv'
  BY <1>34 DEF CallDestroy, MayCall
<1>35. CASE UNCHANGED vars
  BY <1>35 DEF vars, initVars, workerVars, signalVars, counters, clientVars,
     jobVars
<1> QED
  BY <1>1, <1>2, <1>3, <1>4, <1>5, <1>6, <1>7, <1>8, <1>9, <1>10, <1>11,
  <1>12, <1>13, <1>14, <1>15, <1>16, <1>17, <1>18, <1>19, <1>20, <1>21,
  <1>22, <1>23, <1>24, <1>25, <1>26, <1>27, <1>28, <1>29, <1>30, <1>31,
  <1>32, <1>33, <1>34, <1>35 DEF Next, Starting, Worker, Client, InCall,
  Stopped

\* Each step keeps the phases of the pool and of its workers in step.
LEMMA PhaseStep ==
    TypeOK /\ CountersExact /\ DestroyInv /\ PhaseInv /\ [Next]_vars
    => PhaseInv'
<1> SUFFICES ASSUME TypeOK, CountersExact, DestroyInv, PhaseInv, [Next]_vars
      PROVE PhaseInv'
  OBVIOUS
<1> USE ThreadsAssumption DEF TypeOK, PhaseInv, DestroyInv, Allocated,
   WorkerPoints, CountHeld, Lives, Goto, ClientGoto, Runs, initVars,
   workerVars, signalVars, counters, clientVars, jobVars
<1>1. CASE InitAllocFails
  BY <1>1 DEF InitAllocFails
<1>2. CASE CreateThread
  BY <1>2 DEF CreateThread, Workers
<1>3. CASE InitFails
  BY <1>3 DEF InitFails
<1>4. CASE InitQueue
  BY <1>4 DEF InitQueue
<1>5. CASE InitSpin
  BY <1>5 DEF InitSpin, vars
<1>6. CASE InitReturns
  <2>1. \A w \in Workers : wpc[w] \in AlivePoints
    BY <1>6, AllAlive DEF InitReturns, AllCounted
  <2> QED
    BY <1>6, <2>1 DEF InitReturns, AlivePoints
<1>7. ASSUME NEW w \in Workers, InstallHandler(w) PROVE PhaseInv'
  BY <1>7 DEF InstallHandler
<1>8. ASSUME NEW w \in Workers, CountAlive(w) PROVE PhaseInv'
  BY <1>8 DEF CountAlive
<1>9. ASSUME NEW w \in Workers, UnlockCount(w) PROVE PhaseInv'
  BY <1>9 DEF UnlockCount, AfterUnlock
<1>10. ASSUME NEW w \in Workers, LoopTest(w) PROVE PhaseInv'
  BY <1>10 DEF LoopTest
<1>11. ASSUME NEW w \in Workers, SemWait(w) PROVE PhaseInv'
  BY <1>11 DEF SemWait
<1>12. ASSUME NEW w \in Workers, CheckRunning(w) PROVE PhaseInv'
  BY <1>12 DEF CheckRunning, AfterCheck
<1>13. ASSUME NEW w \in Workers, PutBack(w) PROVE PhaseInv'
  BY <1>13 DEF PutBack
<1>14. ASSUME NEW w \in Workers, CountWorking(w) PROVE PhaseInv'
  BY <1>14 DEF CountWorking
<1>15. ASSUME NEW w \in Workers, Pop(w) PROVE PhaseInv'
  BY <1>15 DEF Pop
<1>16. ASSUME NEW w \in Workers, PopUnlock(w) PROVE PhaseInv'
  BY <1>16 DEF PopUnlock
<1>17. ASSUME NEW w \in Workers, RunJob(w) PROVE PhaseInv'
  BY <1>17 DEF RunJob
<1>18. ASSUME NEW w \in Workers, CountIdle(w) PROVE PhaseInv'
  BY <1>18 DEF CountIdle, SignalAllIdle, ClientsAt
<1>19. ASSUME NEW w \in Workers, CountExit(w) PROVE PhaseInv'
  BY <1>19 DEF CountExit
<1>20. ASSUME NEW w \in Workers, Deliver(w) PROVE PhaseInv'
  BY <1>20 DEF Deliver
<1>21. ASSUME NEW w \in Workers, HandlerReturns(w) PROVE PhaseInv'
  BY <1>21 DEF HandlerReturns
<1>22. ASSUME NEW c \in Clients, Push(c) PROVE PhaseInv'
  BY <1>22 DEF Push
<1>23. ASSUME NEW c \in Clients, Post(c) PROVE PhaseInv'
  BY <1>23 DEF Post
<1>24. ASSUME NEW c \in Clients, WaitTest(c) PROVE PhaseInv'
  BY <1>24 DEF WaitTest
<1>25. ASSUME NEW c \in Clients, Kill(c) PROVE PhaseInv'
  BY <1>25 DEF Kill
<1>26. ASSUME NEW c \in Clients, PauseReturns(c) PROVE PhaseInv'
  BY <1>26 DEF PauseReturns
<1>27. ASSUME NEW c \in Clients, DestroyPoll(c) PROVE PhaseInv'
  BY <1>27 DEF DestroyPoll
<1>28. ASSUME NEW c \in Clients, DestroyFree(c) PROVE PhaseInv'
  <2>1. \A w \in Workers : wpc[w] \notin AlivePoints
    BY <1>28, NoneAlive DEF DestroyFree, AllExited
  <2>2. life = "closing"
    BY <1>28 DEF DestroyFree
  <2> QED
    BY <1>28, <2>1, <2>2 DEF DestroyFree, AlivePoints
<1>29. ASSUME NEW c \in Clients, SpuriousWake(c) PROVE PhaseInv'
  BY <1>29 DEF SpuriousWake
<1>30. ASSUME NEW c \in Clients, CallAdd(c) PROVE PhaseInv'
  BY <1>30 DEF CallAdd, MayCall
<1>31. ASSUME NEW c \in Clients, CallWait(c) PROVE PhaseInv'
  BY <1>31 DEF CallWait, MayCall
<1>32. ASSUME NEW c \in Clients, CallPause(c) PROVE PhaseInv'
  BY <1>32 DEF CallPause, MayCall
<1>33. ASSUME NEW c \in Clients, Resume(c) PROVE PhaseInv'
  BY <1>33 DEF Resume, MayCall
<1>34. ASSUME NEW c \in Clients, CallDestroy(c) PROVE PhaseInv'
  BY <1>34 DEF CallDestroy, MayCall
<1>35. CASE UNCHANGED vars
  BY <1>35 DEF vars, initVars, workerVars, signalVars, counters, clientVars,
     jobVars
<1> QED
  BY <1>1, <1>2, <1>3, <1>4, <1>5, <1>6, <1>7, <1>8, <1>9, <1>10, <1>11,
  <1>12, <1>13, <1>14, <1>15, <1>16, <1>17, <1>18, <1>19, <1>20, <1>21,
  <1>22, <1>23, <1>24, <1>25, <1>26, <1>27, <1>28, <1>29, <1>30, <1>31,
  <1>32, <1>33, <1>34, <1>35 DEF Next, Starting, Worker, Client, InCall,
  Stopped

\* Each step keeps a token, a worker or a client for every queued job.
LEMMA BalanceStep ==
    TypeOK /\ ArgInv /\ PhaseInv /\ Balance /\ [Next]_vars => Balance'
<1> SUFFICES ASSUME TypeOK, ArgInv, PhaseInv, Balance, [Next]_vars
      PROVE Balance'
  OBVIOUS
<1>0. sem \in Nat /\ Len(queue) \in Nat
  BY DEF TypeOK
<1> USE <1>0, BalanceTypes, HoldersKept, PostersKept DEF Balance, WorkerPoints,
   ClientPoints, CountHeld, TokenPoints, initVars, workerVars, signalVars,
   counters, clientVars, jobVars
<1>1. CASE InitAllocFails
  BY <1>1 DEF InitAllocFails
<1>2. CASE CreateThread
  <2>1. created + 1 \in Workers /\ wpc[created + 1] = "none"
    BY <1>2, ThreadsAssumption DEF CreateThread, PhaseInv, TypeOK, Workers
  <2>2. Goto(created + 1, "start")
    BY <1>2 DEF CreateThread, Goto
  <2> QED
    BY <1>2, <2>1, <2>2, HoldersMove DEF CreateThread
<1>3. CASE InitFails
  BY <1>3 DEF InitFails
<1>4. CASE InitQueue
  BY <1>4 DEF InitQueue
<1>5. CASE InitSpin
  BY <1>5 DEF InitSpin, vars
<1>6. CASE InitReturns
  BY <1>6 DEF InitReturns
<1>7. ASSUME NEW w \in Workers, InstallHandler(w) PROVE Balance'
  BY <1>7, HoldersMove DEF InstallHandler
<1>8. ASSUME NEW w \in Workers, CountAlive(w) PROVE Balance'
  BY <1>8, HoldersMove DEF CountAlive
<1>9. ASSUME NEW w \in Workers, UnlockCount(w) PROVE Balance'
  <2>1. /\ AfterUnlock[wpc[w]] \in WorkerPoints
        /\ AfterUnlock[wpc[w]] \in TokenPoints <=> wpc[w] \in TokenPoints
    BY <1>9 DEF UnlockCount, AfterUnlock
  <2> QED
    BY <1>9, <2>1, HoldersMove DEF UnlockCount
<1>10. ASSUME NEW w \in Workers, LoopTest(w) PROVE Balance'
  BY <1>10, HoldersMove DEF LoopTest
<1>11. ASSUME NEW w \in Workers, SemWait(w) PROVE Balance'
  BY <1>11, HoldersMove DEF SemWait, HasToken
<1>12. ASSUME NEW w \in Workers, CheckRunning(w) PROVE Balance'
  BY <1>12, HoldersMove DEF CheckRunning, AfterCheck
<1>13. ASSUME NEW w \in Workers, PutBack(w) PROVE Balance'
  BY <1>13, HoldersMove DEF PutBack
<1>14. ASSUME NEW w \in Workers, CountWorking(w) PROVE Balance'
  BY <1>14, HoldersMove DEF CountWorking
<1>15. ASSUME NEW w \in Workers, Pop(w) PROVE Balance'
  <2>1. TokenHolders' = TokenHolders - 1
    BY <1>15, HoldersMove DEF Pop
  <2>2. Len(queue') \in Nat /\ Len(queue') <= IF queue = <<>> THEN 0 ELSE Len(queue) - 1
    BY <1>15 DEF Pop, Dequeued, TypeOK
  <2>3. w \in WorkersAt(TokenPoints)
    BY <1>15 DEF Pop, WorkersAt
  <2>4. TokenHolders # 0
    BY <2>3, WorkersAtSome DEF TokenHolders
  <2>5. cpc' = cpc /\ sem' = sem
    BY <1>15 DEF Pop
  <2> QED
    BY <2>1, <2>2, <2>4, <2>5
<1>16. ASSUME NEW w \in Workers, PopUnlock(w) PROVE Balance'
  BY <1>16, HoldersMove DEF PopUnlock
<1>17. ASSUME NEW w \in Workers, RunJob(w) PROVE Balance'
  BY <1>17, HoldersMove DEF RunJob
<1>18. ASSUME NEW w \in Workers, CountIdle(w) PROVE Balance'
  <2>1. Posters' = Posters
    BY <1>18, PostersMove DEF CountIdle, SignalAllIdle, ClientsAt
  <2> QED
    BY <1>18, <2>1, HoldersMove DEF CountIdle
<1>19. ASSUME NEW w \in Workers, CountExit(w) PROVE Balance'
  BY <1>19, HoldersMove DEF CountExit
<1>20. ASSUME NEW w \in Workers, Deliver(w) PROVE Balance'
  BY <1>20 DEF Deliver
<1>21. ASSUME NEW w \in Workers, HandlerReturns(w) PROVE Balance'
  BY <1>21, HoldersMove DEF HandlerReturns
<1>22. ASSUME NEW c \in Clients, Push(c) PROVE Balance'
  <2>1. Len(queue') = Len(queue) + 1
    BY <1>22 DEF Push, Enqueued, ArgInv, TypeOK
  <2> QED
    BY <1>22, <2>1, PostersMove DEF Push
<1>23. ASSUME NEW c \in Clients, Post(c) PROVE Balance'
  BY <1>23, PostersMove DEF Post
<1>24. ASSUME NEW c \in Clients, WaitTest(c) PROVE Balance'
  BY <1>24, PostersMove DEF WaitTest
<1>25. ASSUME NEW c \in Clients, Kill(c) PROVE Balance'
  BY <1>25 DEF Kill
<1>26. ASSUME NEW c \in Clients, PauseReturns(c) PROVE Balance'
  BY <1>26, PostersMove DEF PauseReturns
<1>27. ASSUME NEW c \in Clients, DestroyPoll(c) PROVE Balance'
  BY <1>27 DEF DestroyPoll
<1>28. ASSUME NEW c \in Clients, DestroyFree(c) PROVE Balance'
  <2>1. Len(queue') = 0
    BY <1>28 DEF DestroyFree
  <2> QED
    BY <1>28, <2>1, PostersMove DEF DestroyFree
<1>29. ASSUME NEW c \in Clients, SpuriousWake(c) PROVE Balance'
  BY <1>29, PostersMove DEF SpuriousWake
<1>30. ASSUME NEW c \in Clients, CallAdd(c) PROVE Balance'
  BY <1>30, PostersMove DEF CallAdd, MayCall
<1>31. ASSUME NEW c \in Clients, CallWait(c) PROVE Balance'
  BY <1>31, PostersMove DEF CallWait, MayCall
<1>32. ASSUME NEW c \in Clients, CallPause(c) PROVE Balance'
  BY <1>32, PostersMove DEF CallPause, MayCall
<1>33. ASSUME NEW c \in Clients, Resume(c) PROVE Balance'
  BY <1>33 DEF Resume
<1>34. ASSUME NEW c \in Clients, CallDestroy(c) PROVE Balance'
  BY <1>34, PostersMove DEF CallDestroy, MayCall
<1>35. CASE UNCHANGED vars
  BY <1>35 DEF vars, initVars, workerVars, signalVars, counters, clientVars,
     jobVars
<1> QED
  BY <1>1, <1>2, <1>3, <1>4, <1>5, <1>6, <1>7, <1>8, <1>9, <1>10, <1>11,
  <1>12, <1>13, <1>14, <1>15, <1>16, <1>17, <1>18, <1>19, <1>20, <1>21,
  <1>22, <1>23, <1>24, <1>25, <1>26, <1>27, <1>28, <1>29, <1>30, <1>31,
  <1>32, <1>33, <1>34, <1>35 DEF Next, Starting, Worker, Client, InCall,
  Stopped

\* Each step keeps every job in one place.
LEMMA PlaceStep ==
    TypeOK /\ HandInv /\ ArgInv /\ JobInOnePlace /\ PlaceInv /\ [Next]_vars
    => (JobInOnePlace /\ PlaceInv)'
<1> SUFFICES ASSUME TypeOK, HandInv, ArgInv, JobInOnePlace, PlaceInv,
         [Next]_vars
      PROVE (JobInOnePlace /\ PlaceInv)'
  OBVIOUS
<1> USE  DEF ClientPoints, ClientsAt, ClientGoto, TypeOK, initVars, workerVars,
   signalVars, counters, clientVars, jobVars
<1>1. CASE InitAllocFails
  BY <1>1, SamePlaces DEF InitAllocFails
<1>2. CASE CreateThread
  BY <1>2, SamePlaces DEF CreateThread
<1>3. CASE InitFails
  BY <1>3, SamePlaces DEF InitFails
<1>4. CASE InitQueue
  BY <1>4, SamePlaces DEF InitQueue
<1>5. CASE InitSpin
  BY <1>5, SamePlaces DEF InitSpin, vars
<1>6. CASE InitReturns
  BY <1>6, SamePlaces DEF InitReturns
<1>7. ASSUME NEW w \in Workers, InstallHandler(w)
      PROVE (JobInOnePlace /\ PlaceInv)'
  BY <1>7, SamePlaces DEF InstallHandler
<1>8. ASSUME NEW w \in Workers, CountAlive(w)
      PROVE (JobInOnePlace /\ PlaceInv)'
  BY <1>8, SamePlaces DEF CountAlive
<1>9. ASSUME NEW w \in Workers, UnlockCount(w)
      PROVE (JobInOnePlace /\ PlaceInv)'
  BY <1>9, SamePlaces DEF UnlockCount
<1>10. ASSUME NEW w \in Workers, LoopTest(w) PROVE (JobInOnePlace /\ PlaceInv)'
  BY <1>10, SamePlaces DEF LoopTest
<1>11. ASSUME NEW w \in Workers, SemWait(w) PROVE (JobInOnePlace /\ PlaceInv)'
  BY <1>11, SamePlaces DEF SemWait
<1>12. ASSUME NEW w \in Workers, CheckRunning(w)
      PROVE (JobInOnePlace /\ PlaceInv)'
  BY <1>12, SamePlaces DEF CheckRunning
<1>13. ASSUME NEW w \in Workers, PutBack(w) PROVE (JobInOnePlace /\ PlaceInv)'
  BY <1>13, SamePlaces DEF PutBack
<1>14. ASSUME NEW w \in Workers, CountWorking(w)
      PROVE (JobInOnePlace /\ PlaceInv)'
  BY <1>14, SamePlaces DEF CountWorking
<1>15. ASSUME NEW w \in Workers, Pop(w) PROVE (JobInOnePlace /\ PlaceInv)'
  <2>1. CASE queue = <<>>
    BY <1>15, <2>1, SamePlaces DEF Pop
  <2>2. CASE queue # <<>>
    <3>1. Head(queue) \in Jobs /\ hand[w] = NoJob
      <4>1. queue \in Seq(Jobs)
        BY DEF TypeOK
      <4>2. hand[w] = NoJob
        BY <1>15 DEF Pop, HandInv
      <4> QED
        BY <2>2, <4>1, <4>2
    <3>2. InHands' = InHands \cup {Head(queue)}
      BY <1>15, <2>2, <3>1, HandTaken DEF Pop
    <3>3. /\ Elems(queue) = {Head(queue)} \cup Elems(queue')
          /\ Head(queue) \notin Elems(queue')
          /\ \A i, k \in DOMAIN queue' : queue'[i] = queue'[k] => i = k
      BY <1>15, <2>2, PopRange DEF Pop, Dequeued, JobInOnePlace, TypeOK
    <3>4. Adding' = Adding
      BY <1>15 DEF Pop, Adding
    <3>5. Head(queue) \notin InHands
      BY <3>3 DEF JobInOnePlace, PlaceInv
    <3>6. \A u, v \in Workers : hand'[u] = hand'[v] /\ hand'[u] # NoJob => u = v
      BY <1>15, <2>2, <3>1, <3>5 DEF Pop, InHands, JobInOnePlace, TypeOK
    <3>7. PlaceInv'
      BY <1>15, <3>2, <3>3, <3>4 DEF Pop, PlaceInv, Elems
    <3>8. JobInOnePlace'
      BY <1>15, <3>2, <3>3, <3>4, <3>5, <3>6 DEF Pop, JobInOnePlace, PlaceInv,
         Elems
    <3> QED
      BY <3>7, <3>8
  <2> QED
    BY <2>1, <2>2
<1>16. ASSUME NEW w \in Workers, PopUnlock(w)
      PROVE (JobInOnePlace /\ PlaceInv)'
  BY <1>16, SamePlaces DEF PopUnlock
<1>17. ASSUME NEW w \in Workers, RunJob(w) PROVE (JobInOnePlace /\ PlaceInv)'
  <2>1. hand[w] # NoJob /\ hand[w] \in InHands
    BY <1>17 DEF RunJob, HandInv, InHands
  <2>2. InHands' = InHands \ {hand[w]}
    BY <1>17, <2>1, HandEmptied DEF RunJob
  <2>3. /\ Adding' = Adding /\ queue' = queue /\ Elems(queue') = Elems(queue)
        /\ done' = done \cup {hand[w]} /\ dropped' = dropped /\ nextJob' = nextJob
    BY <1>17 DEF RunJob, Adding
  <2>4. \A u, v \in Workers : hand'[u] = hand'[v] /\ hand'[u] # NoJob => u = v
    BY <1>17 DEF RunJob, JobInOnePlace, TypeOK
  <2>5. PlaceInv'
    BY <1>17, <2>1, <2>2, <2>3 DEF RunJob, PlaceInv, Elems
  <2>6. JobInOnePlace'
    BY <2>1, <2>2, <2>3, <2>4 DEF JobInOnePlace, PlaceInv, Elems
  <2> QED
    BY <2>5, <2>6
<1>18. ASSUME NEW w \in Workers, CountIdle(w)
      PROVE (JobInOnePlace /\ PlaceInv)'
  BY <1>18, SamePlaces DEF CountIdle, SignalAllIdle
<1>19. ASSUME NEW w \in Workers, CountExit(w)
      PROVE (JobInOnePlace /\ PlaceInv)'
  BY <1>19, SamePlaces DEF CountExit
<1>20. ASSUME NEW w \in Workers, Deliver(w) PROVE (JobInOnePlace /\ PlaceInv)'
  BY <1>20, SamePlaces DEF Deliver
<1>21. ASSUME NEW w \in Workers, HandlerReturns(w)
      PROVE (JobInOnePlace /\ PlaceInv)'
  BY <1>21, SamePlaces DEF HandlerReturns
<1>22. ASSUME NEW c \in Clients, Push(c) PROVE (JobInOnePlace /\ PlaceInv)'
  <2>1. arg[c] \in Jobs /\ c \in ClientsAt("add") /\ arg[c] \in Adding
    BY <1>22 DEF Push, ArgInv, Adding, ClientsAt
  <2>2. /\ ClientsAt("add")' = ClientsAt("add") \ {c} /\ arg' = arg
        /\ hand' = hand /\ done' = done /\ dropped' = dropped
        /\ nextJob' = nextJob /\ InHands' = InHands
    BY <1>22 DEF Push, InHands, TypeOK
  <2>3. Adding' = Adding \ {arg[c]}
    BY <2>1, <2>2 DEF Adding, PlaceInv
  <2>4. /\ arg[c] \in 1..(nextJob - 1)
        /\ arg[c] \notin Elems(queue) \cup InHands \cup done \cup dropped
    BY <2>1 DEF PlaceInv, JobInOnePlace
  <2>5. /\ Elems(queue') = Elems(queue) \cup {arg[c]}
        /\ \A i, k \in DOMAIN queue' : queue'[i] = queue'[k] => i = k
    <3>1. queue' = Append(queue, arg[c]) /\ queue \in Seq(Jobs)
      BY <1>22 DEF Push, Enqueued, TypeOK
    <3>2. /\ \A i, k \in DOMAIN queue : queue[i] = queue[k] => i = k
          /\ arg[c] \notin Elems(queue)
      BY <2>4 DEF JobInOnePlace
    <3> HIDE DEF TypeOK, ClientsAt
    <3> QED
      BY <2>1, <3>1, <3>2, PushRange
  <2>6. PlaceInv'
    <3>1. 1..(nextJob' - 1) = 1..(nextJob - 1)
      BY <2>2
    <3> HIDE DEF ClientsAt
    <3> QED
      BY <2>2, <2>3, <2>4, <2>5, <3>1 DEF PlaceInv
  <2>7. JobInOnePlace'
    <3> HIDE DEF ClientsAt, TypeOK
    <3> QED
      BY <2>2, <2>3, <2>4, <2>5 DEF JobInOnePlace, PlaceInv
  <2> QED
    BY <2>6, <2>7
<1>23. ASSUME NEW c \in Clients, Post(c) PROVE (JobInOnePlace /\ PlaceInv)'
  BY <1>23, SamePlaces DEF Post
<1>24. ASSUME NEW c \in Clients, WaitTest(c) PROVE (JobInOnePlace /\ PlaceInv)'
  BY <1>24, SamePlaces DEF WaitTest
<1>25. ASSUME NEW c \in Clients, Kill(c) PROVE (JobInOnePlace /\ PlaceInv)'
  BY <1>25, SamePlaces DEF Kill
<1>26. ASSUME NEW c \in Clients, PauseReturns(c)
      PROVE (JobInOnePlace /\ PlaceInv)'
  BY <1>26, SamePlaces DEF PauseReturns
<1>27. ASSUME NEW c \in Clients, DestroyPoll(c)
      PROVE (JobInOnePlace /\ PlaceInv)'
  BY <1>27, SamePlaces DEF DestroyPoll
<1>28. ASSUME NEW c \in Clients, DestroyFree(c)
      PROVE (JobInOnePlace /\ PlaceInv)'
  <2>1. /\ hand' = hand /\ done' = done /\ nextJob' = nextJob
        /\ InHands' = InHands /\ dropped' = dropped \cup Elems(queue)
        /\ queue' = <<>> /\ ClientsAt("add")' = ClientsAt("add") /\ Adding' = Adding
    BY <1>28 DEF DestroyFree, Cleared, InHands, Adding, TypeOK
  <2>2. Elems(queue') = {} /\ DOMAIN queue' = {}
    BY <2>1, EmptyRange
  <2>3. PlaceInv'
    BY <1>28, <2>1, <2>2 DEF DestroyFree, Cleared, PlaceInv, Elems
  <2>4. JobInOnePlace'
    BY <2>1, <2>2 DEF JobInOnePlace, PlaceInv, Elems
  <2> QED
    BY <2>3, <2>4
<1>29. ASSUME NEW c \in Clients, SpuriousWake(c)
      PROVE (JobInOnePlace /\ PlaceInv)'
  BY <1>29, SamePlaces DEF SpuriousWake
<1>30. ASSUME NEW c \in Clients, CallAdd(c) PROVE (JobInOnePlace /\ PlaceInv)'
  <2>1. nextJob \in Nat /\ nextJob \notin 1..(nextJob - 1)
    BY DEF TypeOK
  <2>2. /\ ClientsAt("add")' = ClientsAt("add") \cup {c} /\ c \notin ClientsAt("add")
        /\ arg'[c] = nextJob /\ \A d \in ClientsAt("add") : arg'[d] = arg[d]
    BY <1>30 DEF CallAdd, MayCall, TypeOK
  <2>3. Adding' = Adding \cup {nextJob}
    <3> DEFINE A == ClientsAt("add")
             B == ClientsAt("add")'
    <3>1. Adding = {arg[d] : d \in A} /\ Adding' = {arg'[d] : d \in B}
      BY DEF Adding
    <3>2. B = A \cup {c} /\ arg'[c] = nextJob /\ \A d \in A : arg'[d] = arg[d]
      BY <2>2
    <3> HIDE DEF A, B
    <3> QED
      BY <3>1, <3>2
  <2>4. /\ InHands' = InHands /\ hand' = hand /\ queue' = queue /\ done' = done
        /\ dropped' = dropped /\ nextJob' = nextJob + 1 /\ Elems(queue') = Elems(queue)
    BY <1>30 DEF CallAdd, InHands
  <2>5. 1..(nextJob' - 1) = 1..(nextJob - 1) \cup {nextJob}
    BY <2>1, <2>4 DEF TypeOK
  <2>6. \A d, e \in ClientsAt("add")' : arg'[d] = arg'[e] => d = e
    BY <2>1, <2>2 DEF PlaceInv, Adding
  <2>7. PlaceInv'
    BY <2>3, <2>4, <2>5, <2>6 DEF PlaceInv, Elems
  <2>8. JobInOnePlace'
    BY <2>1, <2>3, <2>4, <2>5 DEF JobInOnePlace, PlaceInv, Elems
  <2> QED
    BY <2>7, <2>8
<1>31. ASSUME NEW c \in Clients, CallWait(c) PROVE (JobInOnePlace /\ PlaceInv)'
  BY <1>31, SamePlaces DEF CallWait, MayCall
<1>32. ASSUME NEW c \in Clients, CallPause(c)
      PROVE (JobInOnePlace /\ PlaceInv)'
  BY <1>32, SamePlaces DEF CallPause, MayCall
<1>33. ASSUME NEW c \in Clients, Resume(c) PROVE (JobInOnePlace /\ PlaceInv)'
  BY <1>33, SamePlaces DEF Resume, MayCall
<1>34. ASSUME NEW c \in Clients, CallDestroy(c)
      PROVE (JobInOnePlace /\ PlaceInv)'
  BY <1>34, SamePlaces DEF CallDestroy, MayCall
<1>35. CASE UNCHANGED vars
  BY <1>35, SamePlaces DEF vars, initVars, workerVars, signalVars, counters,
     clientVars, jobVars
<1> QED
  BY <1>1, <1>2, <1>3, <1>4, <1>5, <1>6, <1>7, <1>8, <1>9, <1>10, <1>11,
  <1>12, <1>13, <1>14, <1>15, <1>16, <1>17, <1>18, <1>19, <1>20, <1>21,
  <1>22, <1>23, <1>24, <1>25, <1>26, <1>27, <1>28, <1>29, <1>30, <1>31,
  <1>32, <1>33, <1>34, <1>35 DEF Next, Starting, Worker, Client, InCall,
  Stopped

\* Each step keeps what a client waits for in the pool or done.
LEMMA WaitStep ==
    TypeOK /\ HandInv /\ ArgInv /\ DestroyInv /\ JobInOnePlace /\ WaitInv /\ [Next]_vars
    => WaitInv'
<1> SUFFICES ASSUME TypeOK, HandInv, ArgInv, DestroyInv, JobInOnePlace,
         WaitInv, [Next]_vars
      PROVE WaitInv'
  OBVIOUS
<1> USE  DEF WaitInv, InHands, Elems, initVars, workerVars, signalVars,
   counters, clientVars, jobVars
<1>1. CASE InitAllocFails
  BY <1>1 DEF InitAllocFails
<1>2. CASE CreateThread
  BY <1>2 DEF CreateThread
<1>3. CASE InitFails
  BY <1>3 DEF InitFails
<1>4. CASE InitQueue
  BY <1>4 DEF InitQueue
<1>5. CASE InitSpin
  BY <1>5 DEF InitSpin, vars
<1>6. CASE InitReturns
  BY <1>6 DEF InitReturns
<1>7. ASSUME NEW w \in Workers, InstallHandler(w) PROVE WaitInv'
  BY <1>7 DEF InstallHandler
<1>8. ASSUME NEW w \in Workers, CountAlive(w) PROVE WaitInv'
  BY <1>8 DEF CountAlive
<1>9. ASSUME NEW w \in Workers, UnlockCount(w) PROVE WaitInv'
  BY <1>9 DEF UnlockCount
<1>10. ASSUME NEW w \in Workers, LoopTest(w) PROVE WaitInv'
  BY <1>10 DEF LoopTest
<1>11. ASSUME NEW w \in Workers, SemWait(w) PROVE WaitInv'
  BY <1>11 DEF SemWait
<1>12. ASSUME NEW w \in Workers, CheckRunning(w) PROVE WaitInv'
  BY <1>12 DEF CheckRunning
<1>13. ASSUME NEW w \in Workers, PutBack(w) PROVE WaitInv'
  BY <1>13 DEF PutBack
<1>14. ASSUME NEW w \in Workers, CountWorking(w) PROVE WaitInv'
  BY <1>14 DEF CountWorking
<1>15. ASSUME NEW w \in Workers, Pop(w) PROVE WaitInv'
  <2>1. CASE queue = <<>>
    BY <1>15, <2>1 DEF Pop
  <2>2. CASE queue # <<>>
    <3> HIDE DEF InHands, Elems
    <3>1. Head(queue) \in Jobs /\ hand[w] = NoJob
      <4>1. queue \in Seq(Jobs)
        BY DEF TypeOK
      <4>2. hand[w] = NoJob
        BY <1>15 DEF Pop, HandInv
      <4> QED
        BY <2>2, <4>1, <4>2
    <3>2. InHands' = InHands \cup {Head(queue)}
      BY <1>15, <2>2, <3>1, HandTaken DEF Pop
    <3>3. Elems(queue) = {Head(queue)} \cup Elems(queue')
      BY <1>15, <2>2, PopRange DEF Pop, Dequeued, TypeOK
    <3> QED
      BY <1>15, <3>2, <3>3 DEF Pop
  <2> QED
    BY <2>1, <2>2
<1>16. ASSUME NEW w \in Workers, PopUnlock(w) PROVE WaitInv'
  BY <1>16 DEF PopUnlock
<1>17. ASSUME NEW w \in Workers, RunJob(w) PROVE WaitInv'
  <2>1. hand[w] # NoJob
    BY <1>17 DEF RunJob, HandInv
  <2>2. InHands' = InHands \ {hand[w]}
    BY <1>17, <2>1, HandEmptied DEF RunJob
  <2> HIDE DEF InHands
  <2> QED
    BY <1>17, <2>2 DEF RunJob
<1>18. ASSUME NEW w \in Workers, CountIdle(w) PROVE WaitInv'
  BY <1>18 DEF CountIdle
<1>19. ASSUME NEW w \in Workers, CountExit(w) PROVE WaitInv'
  BY <1>19 DEF CountExit
<1>20. ASSUME NEW w \in Workers, Deliver(w) PROVE WaitInv'
  BY <1>20 DEF Deliver
<1>21. ASSUME NEW w \in Workers, HandlerReturns(w) PROVE WaitInv'
  BY <1>21 DEF HandlerReturns
<1>22. ASSUME NEW c \in Clients, Push(c) PROVE WaitInv'
  <2>1. queue \in Seq(Jobs) /\ arg[c] \in Jobs
    BY <1>22 DEF Push, ArgInv, TypeOK
  <2>2. Elems(queue') = Elems(queue) \cup {arg[c]}
    BY <1>22, <2>1, PushRange DEF Push, Enqueued
  <2> HIDE DEF Elems
  <2> QED
    BY <1>22, <2>2 DEF Push
<1>23. ASSUME NEW c \in Clients, Post(c) PROVE WaitInv'
  BY <1>23 DEF Post
<1>24. ASSUME NEW c \in Clients, WaitTest(c) PROVE WaitInv'
  <2>1. \A d \in Clients : waitFor'[d] \subseteq waitFor[d]
    BY <1>24 DEF WaitTest, TypeOK
  <2>2. queue' = queue /\ hand' = hand /\ done' = done
    BY <1>24 DEF WaitTest
  <2> QED
    BY <2>1, <2>2
<1>25. ASSUME NEW c \in Clients, Kill(c) PROVE WaitInv'
  BY <1>25 DEF Kill
<1>26. ASSUME NEW c \in Clients, PauseReturns(c) PROVE WaitInv'
  BY <1>26 DEF PauseReturns
<1>27. ASSUME NEW c \in Clients, DestroyPoll(c) PROVE WaitInv'
  BY <1>27 DEF DestroyPoll
<1>28. ASSUME NEW c \in Clients, DestroyFree(c) PROVE WaitInv'
  <2>1. \A d \in Clients : waitFor[d] = {}
    BY <1>28 DEF DestroyFree, DestroyInv
  <2> QED
    BY <1>28, <2>1 DEF DestroyFree
<1>29. ASSUME NEW c \in Clients, SpuriousWake(c) PROVE WaitInv'
  BY <1>29 DEF SpuriousWake
<1>30. ASSUME NEW c \in Clients, CallAdd(c) PROVE WaitInv'
  BY <1>30 DEF CallAdd
<1>31. ASSUME NEW c \in Clients, CallWait(c) PROVE WaitInv'
  BY <1>31 DEF CallWait, TypeOK
<1>32. ASSUME NEW c \in Clients, CallPause(c) PROVE WaitInv'
  BY <1>32 DEF CallPause
<1>33. ASSUME NEW c \in Clients, Resume(c) PROVE WaitInv'
  BY <1>33 DEF Resume
<1>34. ASSUME NEW c \in Clients, CallDestroy(c) PROVE WaitInv'
  BY <1>34 DEF CallDestroy
<1>35. CASE UNCHANGED vars
  BY <1>35 DEF vars, initVars, workerVars, signalVars, counters, clientVars,
     jobVars
<1> QED
  BY <1>1, <1>2, <1>3, <1>4, <1>5, <1>6, <1>7, <1>8, <1>9, <1>10, <1>11,
  <1>12, <1>13, <1>14, <1>15, <1>16, <1>17, <1>18, <1>19, <1>20, <1>21,
  <1>22, <1>23, <1>24, <1>25, <1>26, <1>27, <1>28, <1>29, <1>30, <1>31,
  <1>32, <1>33, <1>34, <1>35 DEF Next, Starting, Worker, Client, InCall,
  Stopped

-----------------------------------------------------------------------------
(* The inductive invariant and what follows from it *)

\* The pool starts in a state that satisfies the invariant.
LEMMA InitInv == Init => IInv
<1> SUFFICES ASSUME Init PROVE IInv
  OBVIOUS
<1>1. TypeOK
  <2>1. created \in 0..NumThreads /\ nextJob \in 1..(MaxJobs + 1)
    BY ThreadsAssumption, BoundsAssumption DEF Init
  <2>2. /\ hand \in [Workers -> Jobs \cup {NoJob}]
        /\ waitFor \in [Clients -> SUBSET Jobs]
        /\ queue \in Seq(Jobs)
    BY DEF Init
  <2>3. /\ wpc \in [Workers -> WorkerPoints]
        /\ cpc \in [Clients -> ClientPoints]
    BY DEF Init, WorkerPoints, ClientPoints
  <2> QED
    BY <2>1, <2>2, <2>3 DEF Init, TypeOK, Lives, Nobody
<1>2. LockInv /\ HandInv /\ ArgInv
  BY DEF Init, LockInv, HandInv, ArgInv, CountHeld, Nobody, Workers
<1>3. PhaseInv /\ DestroyInv
  BY ThreadsAssumption DEF Init, PhaseInv, DestroyInv, Workers
<1>4. CountersExact
  <2>1. WorkersAt(AlivePoints) = {} /\ WorkersAt(WorkingPoints) = {}
    BY DEF Init, WorkersAt, AlivePoints, WorkingPoints
  <2> QED
    BY <2>1, WorkersAtSome DEF Init, CountersExact
<1>5. NoStrandedJob
  BY WorkersAtNat, ClientsAtNat DEF Init, NoStrandedJob
<1>6. Elems(queue) = {} /\ InHands = {} /\ Adding = {} /\ ClientsAt("add") = {}
  BY EmptyRange DEF Init, InHands, Adding, ClientsAt
<1>7. JobInOnePlace /\ PlaceInv /\ WaitInv
  BY <1>6 DEF Init, JobInOnePlace, PlaceInv, WaitInv
<1> QED
  BY <1>1, <1>2, <1>3, <1>4, <1>5, <1>7 DEF IInv

\* The two forms of the token balance.
LEMMA BalanceIsNoStranded == Balance <=> NoStrandedJob
  BY DEF Balance, NoStrandedJob, TokenHolders, Posters

\* Every step keeps the invariant: the lemmas above, together.
LEMMA StepInv == IInv /\ [Next]_vars => IInv'
<1> SUFFICES ASSUME IInv, [Next]_vars PROVE IInv'
  OBVIOUS
<1>1. TypeOK' /\ LockInv' /\ HandInv' /\ ArgInv'
  BY TypeStep, LockStep, HandStep, ArgStep DEF IInv
<1>2. PhaseInv' /\ DestroyInv' /\ CountersExact'
  BY PhaseStep, DestroyStep, CountersStep DEF IInv
<1>3. NoStrandedJob'
  <2>1. Balance'
    BY BalanceIsNoStranded, BalanceStep DEF IInv
  <2> QED
    BY <2>1 DEF Balance, NoStrandedJob, TokenHolders, Posters
<1>4. JobInOnePlace' /\ PlaceInv' /\ WaitInv'
  BY PlaceStep, WaitStep DEF IInv
<1> QED
  BY <1>1, <1>2, <1>3, <1>4 DEF IInv

\* The conjunction of the parts above is an invariant of the pool.
THEOREM Invariance == Spec => []IInv
  BY InitInv, StepInv, PTL DEF Spec

\* Every variable keeps its type: in particular no counter of the pool is
\* ever negative.
THEOREM TypeCorrect == Spec => []TypeOK
<1>1. IInv => TypeOK
  BY DEF IInv
<1> QED
  BY Invariance, <1>1, PTL

\* thread_alive and thread_working are exact for any number of threads.
THEOREM CountersCorrect == Spec => []CountersExact
<1>1. IInv => CountersExact
  BY DEF IInv
<1> QED
  BY Invariance, <1>1, PTL

\* No queued job is ever without a token, a worker or a client that answers
\* for it, however workers, clients and pause signals interleave.
THEOREM NoJobStranded == Spec => []NoStrandedJob
<1>1. IInv => NoStrandedJob
  BY DEF IInv
<1> QED
  BY Invariance, <1>1, PTL

\* Every submitted job is in exactly one place: executed at most once, never
\* lost.
THEOREM JobsInOnePlace == Spec => []JobInOnePlace
<1>1. IInv => JobInOnePlace
  BY DEF IInv
<1> QED
  BY Invariance, <1>1, PTL

\* thpool_init hands out a pool whose threads are all inside their loop.
THEOREM PoolFullyStaffed == Spec => []FullyStaffed
<1>1. IInv => FullyStaffed
  BY DEF IInv, PhaseInv, FullyStaffed, TypeOK, WorkerPoints, CountHeld,
         AlivePoints
<1> QED
  BY Invariance, <1>1, PTL

\* In a freed pool no worker executes a job or will touch the queue.
THEOREM PoolFreedAfterWork == Spec => []FreedAfterWork
<1>1. IInv => FreedAfterWork
  <2> SUFFICES ASSUME IInv, life = "freed" PROVE FreedAfterWork
    BY DEF FreedAfterWork
  <2>1. \A w \in Workers : wpc[w] \in {"exitHeld", "dead"}
    BY DEF IInv, PhaseInv
  <2>2. InHands = {}
    BY <2>1 DEF IInv, HandInv, InHands
  <2>3. WorkersAt(WorkingPoints) = {}
    BY <2>1 DEF WorkersAt, WorkingPoints
  <2>4. working = 0
    BY <2>3, WorkersAtSome DEF IInv, CountersExact
  <2> QED
    BY <2>1, <2>2, <2>4 DEF FreedAfterWork
<1> QED
  BY Invariance, <1>1, PTL

\* When thpool_wait sees an empty queue and no working thread, what the
\* client waits for is done: a worker is counted before it pops.
LEMMA DrainedIsDone ==
    ASSUME IInv, NEW c \in Clients, ~MustWait
    PROVE  waitFor[c] \subseteq done
<1>1. queue = <<>> /\ WorkersAt(WorkingPoints) = {}
  BY WorkersAtSome DEF MustWait, IInv, CountersExact
<1>2. InHands = {}
  BY <1>1 DEF IInv, HandInv, InHands, WorkersAt, WorkingPoints
<1> QED
  BY <1>1, <1>2, EmptyRange DEF IInv, WaitInv

\* What WaitReturnsDone says of one step.
WaitReturnOK ==
    \A c \in Clients :
        cpc[c] = "wait" /\ cpc'[c] = "idle" => waitFor[c] \subseteq done

\* A client leaves thpool_wait only through a test that found it drained.
LEMMA WaitReturnStep == TypeOK /\ IInv /\ [Next]_vars => WaitReturnOK
<1> SUFFICES ASSUME TypeOK, IInv, [Next]_vars PROVE WaitReturnOK
  OBVIOUS
<1> USE  DEF TypeOK, WaitReturnOK, ClientPoints, ClientGoto, initVars,
   workerVars, signalVars, counters, clientVars, jobVars
<1>1. CASE InitAllocFails
  BY <1>1 DEF InitAllocFails
<1>2. CASE CreateThread
  BY <1>2 DEF CreateThread
<1>3. CASE InitFails
  BY <1>3 DEF InitFails
<1>4. CASE InitQueue
  BY <1>4 DEF InitQueue
<1>5. CASE InitSpin
  BY <1>5 DEF InitSpin, vars
<1>6. CASE InitReturns
  BY <1>6 DEF InitReturns
<1>7. ASSUME NEW w \in Workers, InstallHandler(w) PROVE WaitReturnOK
  BY <1>7 DEF InstallHandler
<1>8. ASSUME NEW w \in Workers, CountAlive(w) PROVE WaitReturnOK
  BY <1>8 DEF CountAlive
<1>9. ASSUME NEW w \in Workers, UnlockCount(w) PROVE WaitReturnOK
  BY <1>9 DEF UnlockCount
<1>10. ASSUME NEW w \in Workers, LoopTest(w) PROVE WaitReturnOK
  BY <1>10 DEF LoopTest
<1>11. ASSUME NEW w \in Workers, SemWait(w) PROVE WaitReturnOK
  BY <1>11 DEF SemWait
<1>12. ASSUME NEW w \in Workers, CheckRunning(w) PROVE WaitReturnOK
  BY <1>12 DEF CheckRunning
<1>13. ASSUME NEW w \in Workers, PutBack(w) PROVE WaitReturnOK
  BY <1>13 DEF PutBack
<1>14. ASSUME NEW w \in Workers, CountWorking(w) PROVE WaitReturnOK
  BY <1>14 DEF CountWorking
<1>15. ASSUME NEW w \in Workers, Pop(w) PROVE WaitReturnOK
  BY <1>15 DEF Pop
<1>16. ASSUME NEW w \in Workers, PopUnlock(w) PROVE WaitReturnOK
  BY <1>16 DEF PopUnlock
<1>17. ASSUME NEW w \in Workers, RunJob(w) PROVE WaitReturnOK
  BY <1>17 DEF RunJob
<1>18. ASSUME NEW w \in Workers, CountIdle(w) PROVE WaitReturnOK
  BY <1>18 DEF CountIdle, SignalAllIdle, ClientsAt
<1>19. ASSUME NEW w \in Workers, CountExit(w) PROVE WaitReturnOK
  BY <1>19 DEF CountExit
<1>20. ASSUME NEW w \in Workers, Deliver(w) PROVE WaitReturnOK
  BY <1>20 DEF Deliver
<1>21. ASSUME NEW w \in Workers, HandlerReturns(w) PROVE WaitReturnOK
  BY <1>21 DEF HandlerReturns
<1>22. ASSUME NEW c \in Clients, Push(c) PROVE WaitReturnOK
  BY <1>22 DEF Push
<1>23. ASSUME NEW c \in Clients, Post(c) PROVE WaitReturnOK
  BY <1>23 DEF Post
<1>24. ASSUME NEW c \in Clients, WaitTest(c) PROVE WaitReturnOK
  <2>1. CASE MustWait
    BY <1>24, <2>1 DEF WaitTest
  <2>2. CASE ~MustWait
    BY <1>24, <2>2, DrainedIsDone DEF WaitTest
  <2> QED
    BY <2>1, <2>2
<1>25. ASSUME NEW c \in Clients, Kill(c) PROVE WaitReturnOK
  BY <1>25 DEF Kill
<1>26. ASSUME NEW c \in Clients, PauseReturns(c) PROVE WaitReturnOK
  BY <1>26 DEF PauseReturns
<1>27. ASSUME NEW c \in Clients, DestroyPoll(c) PROVE WaitReturnOK
  BY <1>27 DEF DestroyPoll
<1>28. ASSUME NEW c \in Clients, DestroyFree(c) PROVE WaitReturnOK
  BY <1>28 DEF DestroyFree
<1>29. ASSUME NEW c \in Clients, SpuriousWake(c) PROVE WaitReturnOK
  BY <1>29 DEF SpuriousWake
<1>30. ASSUME NEW c \in Clients, CallAdd(c) PROVE WaitReturnOK
  BY <1>30 DEF CallAdd, MayCall
<1>31. ASSUME NEW c \in Clients, CallWait(c) PROVE WaitReturnOK
  BY <1>31 DEF CallWait, MayCall
<1>32. ASSUME NEW c \in Clients, CallPause(c) PROVE WaitReturnOK
  BY <1>32 DEF CallPause, MayCall
<1>33. ASSUME NEW c \in Clients, Resume(c) PROVE WaitReturnOK
  BY <1>33 DEF Resume, MayCall
<1>34. ASSUME NEW c \in Clients, CallDestroy(c) PROVE WaitReturnOK
  BY <1>34 DEF CallDestroy, MayCall
<1>35. CASE UNCHANGED vars
  BY <1>35 DEF vars, initVars, workerVars, signalVars, counters, clientVars,
     jobVars
<1> QED
  BY <1>1, <1>2, <1>3, <1>4, <1>5, <1>6, <1>7, <1>8, <1>9, <1>10, <1>11,
  <1>12, <1>13, <1>14, <1>15, <1>16, <1>17, <1>18, <1>19, <1>20, <1>21,
  <1>22, <1>23, <1>24, <1>25, <1>26, <1>27, <1>28, <1>29, <1>30, <1>31,
  <1>32, <1>33, <1>34, <1>35 DEF Next, Starting, Worker, Client, InCall,
  Stopped

\* thpool_wait returns only when the jobs that were queued or running at the
\* call have finished, for any number of clients and workers.
THEOREM WaitCorrect == Spec => WaitReturnsDone
<1>1. TypeOK /\ IInv /\ [Next]_vars => [WaitReturnOK]_vars
  BY WaitReturnStep
<1>2. IInv => TypeOK
  BY DEF IInv
<1> QED
  BY <1>1, <1>2, Invariance, PTL DEF Spec, WaitReturnsDone, WaitReturnOK

\* Each step of the pool is a step of the abstract job pool or leaves it alone.
LEMMA RefinementStep ==
    TypeOK /\ IInv /\ [Next]_vars => [Promise!Next]_(Promise!vars)
<1> SUFFICES ASSUME TypeOK, IInv, [Next]_vars
      PROVE [Promise!Next]_(Promise!vars)
  OBVIOUS
<1> USE  DEF initVars, workerVars, signalVars, counters, clientVars, jobVars
<1>1. CASE InitAllocFails
  <2>1. Phase = "starting" /\ Phase' \in {"open", "closed"}
    BY <1>1 DEF InitAllocFails, Phase
  <2>2. /\ queue' = queue /\ InHands' = InHands /\ done' = done
        /\ dropped' = dropped /\ Waiting' = Waiting
    BY <1>1 DEF InitAllocFails, InHands, Waiting
  <2> QED
    BY <2>1, <2>2 DEF Promise!Next, Promise!Open
<1>2. CASE CreateThread
  <2>1. /\ Phase' = Phase /\ queue' = queue /\ InHands' = InHands
        /\ done' = done /\ dropped' = dropped /\ Waiting' = Waiting
    BY <1>2 DEF CreateThread, Phase, InHands, Waiting, TypeOK
  <2> QED
    BY <2>1 DEF Promise!vars
<1>3. CASE InitFails
  <2>1. Phase = "starting" /\ Phase' \in {"open", "closed"}
    BY <1>3 DEF InitFails, Phase
  <2>2. /\ queue' = queue /\ InHands' = InHands /\ done' = done
        /\ dropped' = dropped /\ Waiting' = Waiting
    BY <1>3 DEF InitFails, InHands, Waiting
  <2> QED
    BY <2>1, <2>2 DEF Promise!Next, Promise!Open
<1>4. CASE InitQueue
  <2>1. /\ Phase' = Phase /\ queue' = queue /\ InHands' = InHands
        /\ done' = done /\ dropped' = dropped /\ Waiting' = Waiting
    BY <1>4 DEF InitQueue, Phase, InHands, Waiting, TypeOK
  <2> QED
    BY <2>1 DEF Promise!vars
<1>5. CASE InitSpin
  <2>1. /\ Phase' = Phase /\ queue' = queue /\ InHands' = InHands
        /\ done' = done /\ dropped' = dropped /\ Waiting' = Waiting
    BY <1>5 DEF InitSpin, Phase, InHands, Waiting, TypeOK, vars
  <2> QED
    BY <2>1 DEF Promise!vars
<1>6. CASE InitReturns
  <2>1. Phase = "starting" /\ Phase' \in {"open", "closed"}
    BY <1>6 DEF InitReturns, Phase
  <2>2. /\ queue' = queue /\ InHands' = InHands /\ done' = done
        /\ dropped' = dropped /\ Waiting' = Waiting
    BY <1>6 DEF InitReturns, InHands, Waiting
  <2> QED
    BY <2>1, <2>2 DEF Promise!Next, Promise!Open
<1>7. ASSUME NEW w \in Workers, InstallHandler(w)
      PROVE [Promise!Next]_(Promise!vars)
  <2>1. /\ Phase' = Phase /\ queue' = queue /\ InHands' = InHands
        /\ done' = done /\ dropped' = dropped /\ Waiting' = Waiting
    BY <1>7 DEF InstallHandler, Phase, InHands, Waiting, TypeOK
  <2> QED
    BY <2>1 DEF Promise!vars
<1>8. ASSUME NEW w \in Workers, CountAlive(w)
      PROVE [Promise!Next]_(Promise!vars)
  <2>1. /\ Phase' = Phase /\ queue' = queue /\ InHands' = InHands
        /\ done' = done /\ dropped' = dropped /\ Waiting' = Waiting
    BY <1>8 DEF CountAlive, Phase, InHands, Waiting, TypeOK
  <2> QED
    BY <2>1 DEF Promise!vars
<1>9. ASSUME NEW w \in Workers, UnlockCount(w)
      PROVE [Promise!Next]_(Promise!vars)
  <2>1. /\ Phase' = Phase /\ queue' = queue /\ InHands' = InHands
        /\ done' = done /\ dropped' = dropped /\ Waiting' = Waiting
    BY <1>9 DEF UnlockCount, Phase, InHands, Waiting, TypeOK
  <2> QED
    BY <2>1 DEF Promise!vars
<1>10. ASSUME NEW w \in Workers, LoopTest(w)
      PROVE [Promise!Next]_(Promise!vars)
  <2>1. /\ Phase' = Phase /\ queue' = queue /\ InHands' = InHands
        /\ done' = done /\ dropped' = dropped /\ Waiting' = Waiting
    BY <1>10 DEF LoopTest, Phase, InHands, Waiting, TypeOK
  <2> QED
    BY <2>1 DEF Promise!vars
<1>11. ASSUME NEW w \in Workers, SemWait(w) PROVE [Promise!Next]_(Promise!vars)
  <2>1. /\ Phase' = Phase /\ queue' = queue /\ InHands' = InHands
        /\ done' = done /\ dropped' = dropped /\ Waiting' = Waiting
    BY <1>11 DEF SemWait, Phase, InHands, Waiting, TypeOK
  <2> QED
    BY <2>1 DEF Promise!vars
<1>12. ASSUME NEW w \in Workers, CheckRunning(w)
      PROVE [Promise!Next]_(Promise!vars)
  <2>1. /\ Phase' = Phase /\ queue' = queue /\ InHands' = InHands
        /\ done' = done /\ dropped' = dropped /\ Waiting' = Waiting
    BY <1>12 DEF CheckRunning, Phase, InHands, Waiting, TypeOK
  <2> QED
    BY <2>1 DEF Promise!vars
<1>13. ASSUME NEW w \in Workers, PutBack(w) PROVE [Promise!Next]_(Promise!vars)
  <2>1. /\ Phase' = Phase /\ queue' = queue /\ InHands' = InHands
        /\ done' = done /\ dropped' = dropped /\ Waiting' = Waiting
    BY <1>13 DEF PutBack, Phase, InHands, Waiting, TypeOK
  <2> QED
    BY <2>1 DEF Promise!vars
<1>14. ASSUME NEW w \in Workers, CountWorking(w)
      PROVE [Promise!Next]_(Promise!vars)
  <2>1. /\ Phase' = Phase /\ queue' = queue /\ InHands' = InHands
        /\ done' = done /\ dropped' = dropped /\ Waiting' = Waiting
    BY <1>14 DEF CountWorking, Phase, InHands, Waiting, TypeOK
  <2> QED
    BY <2>1 DEF Promise!vars
<1>15. ASSUME NEW w \in Workers, Pop(w) PROVE [Promise!Next]_(Promise!vars)
  <2>1. CASE queue = <<>>
    <3>1. /\ Phase' = Phase /\ queue' = queue /\ InHands' = InHands
          /\ done' = done /\ dropped' = dropped /\ Waiting' = Waiting
      BY <1>15, <2>1 DEF Pop, Phase, InHands, Waiting
    <3> QED
      BY <3>1 DEF Promise!vars
  <2>2. CASE queue # <<>>
    <3>1. Phase \in {"open", "closing"}
      BY <1>15, <2>2 DEF Pop, Runs, Allocated, Phase, IInv, DestroyInv, TypeOK,
         Lives
    <3>2. HandInv /\ queue \in Seq(Jobs)
      BY DEF IInv, TypeOK
    <3>5. Head(queue) \in Jobs
      BY <2>2, <3>2
    <3>6. hand[w] = NoJob
      BY <1>15, <3>2 DEF Pop, HandInv
    <3>3. InHands' = InHands \cup {Head(queue)}
      BY <1>15, <2>2, <3>5, <3>6, HandTaken DEF Pop
    <3>4. /\ Phase' = Phase /\ queue' = Tail(queue) /\ done' = done
          /\ dropped' = dropped /\ Waiting' = Waiting
      BY <1>15, <2>2 DEF Pop, Dequeued, Phase, Waiting
    <3> QED
      BY <2>2, <3>1, <3>3, <3>4 DEF Promise!Next, Promise!Start
  <2> QED
    BY <2>1, <2>2
<1>16. ASSUME NEW w \in Workers, PopUnlock(w)
      PROVE [Promise!Next]_(Promise!vars)
  <2>1. /\ Phase' = Phase /\ queue' = queue /\ InHands' = InHands
        /\ done' = done /\ dropped' = dropped /\ Waiting' = Waiting
    BY <1>16 DEF PopUnlock, Phase, InHands, Waiting, TypeOK
  <2> QED
    BY <2>1 DEF Promise!vars
<1>17. ASSUME NEW w \in Workers, RunJob(w) PROVE [Promise!Next]_(Promise!vars)
  <2>1. hand[w] # NoJob /\ hand[w] \in Jobs /\ hand[w] \in InHands
    BY <1>17 DEF RunJob, IInv, HandInv, InHands, TypeOK
  <2>2. InHands' = InHands \ {hand[w]}
    BY <1>17, <2>1, HandEmptied DEF RunJob, IInv
  <2>3. /\ Phase' = Phase /\ queue' = queue /\ done' = done \cup {hand[w]}
        /\ dropped' = dropped /\ Waiting' = Waiting
    BY <1>17 DEF RunJob, Phase, Waiting
  <2> QED
    BY <2>1, <2>2, <2>3 DEF Promise!Next, Promise!Finish
<1>18. ASSUME NEW w \in Workers, CountIdle(w)
      PROVE [Promise!Next]_(Promise!vars)
  <2>1. /\ Phase' = Phase /\ queue' = queue /\ InHands' = InHands
        /\ done' = done /\ dropped' = dropped /\ Waiting' = Waiting
    BY <1>18 DEF CountIdle, Phase, InHands, Waiting, TypeOK, SignalAllIdle,
       ClientsAt, ClientGoto, ClientPoints
  <2> QED
    BY <2>1 DEF Promise!vars
<1>19. ASSUME NEW w \in Workers, CountExit(w)
      PROVE [Promise!Next]_(Promise!vars)
  <2>1. /\ Phase' = Phase /\ queue' = queue /\ InHands' = InHands
        /\ done' = done /\ dropped' = dropped /\ Waiting' = Waiting
    BY <1>19 DEF CountExit, Phase, InHands, Waiting, TypeOK
  <2> QED
    BY <2>1 DEF Promise!vars
<1>20. ASSUME NEW w \in Workers, Deliver(w) PROVE [Promise!Next]_(Promise!vars)
  <2>1. /\ Phase' = Phase /\ queue' = queue /\ InHands' = InHands
        /\ done' = done /\ dropped' = dropped /\ Waiting' = Waiting
    BY <1>20 DEF Deliver, Phase, InHands, Waiting, TypeOK
  <2> QED
    BY <2>1 DEF Promise!vars
<1>21. ASSUME NEW w \in Workers, HandlerReturns(w)
      PROVE [Promise!Next]_(Promise!vars)
  <2>1. /\ Phase' = Phase /\ queue' = queue /\ InHands' = InHands
        /\ done' = done /\ dropped' = dropped /\ Waiting' = Waiting
    BY <1>21 DEF HandlerReturns, Phase, InHands, Waiting, TypeOK
  <2> QED
    BY <2>1 DEF Promise!vars
<1>22. ASSUME NEW c \in Clients, Push(c) PROVE [Promise!Next]_(Promise!vars)
  <2>1. Phase = "open" /\ arg[c] \in Jobs /\ arg[c] \in Adding
    BY <1>22 DEF Push, Phase, IInv, DestroyInv, ArgInv, Adding, ClientsAt
  <2>2. arg[c] \notin Elems(queue) \cup InHands \cup done \cup dropped
    BY <2>1 DEF IInv, JobInOnePlace, PlaceInv
  <2>3. arg[c] \notin Promise!Known
    BY <2>2 DEF Promise!Known, Promise!PendingSet, Elems
  <2>4. /\ Phase' = Phase /\ queue' = Append(queue, arg[c]) /\ InHands' = InHands
        /\ done' = done /\ dropped' = dropped /\ Waiting' = Waiting
    BY <1>22 DEF Push, Enqueued, Phase, InHands, Waiting, TypeOK, ClientGoto
  <2> QED
    BY <2>1, <2>3, <2>4 DEF Promise!Next, Promise!Add
<1>23. ASSUME NEW c \in Clients, Post(c) PROVE [Promise!Next]_(Promise!vars)
  <2>1. /\ Phase' = Phase /\ queue' = queue /\ InHands' = InHands
        /\ done' = done /\ dropped' = dropped /\ Waiting' = Waiting
    BY <1>23 DEF Post, Phase, InHands, Waiting, TypeOK, ClientGoto
  <2> QED
    BY <2>1 DEF Promise!vars
<1>24. ASSUME NEW c \in Clients, WaitTest(c)
      PROVE [Promise!Next]_(Promise!vars)
  <2>1. /\ Phase' = Phase /\ queue' = queue /\ InHands' = InHands
        /\ done' = done /\ dropped' = dropped
    BY <1>24 DEF WaitTest, Phase, InHands
  <2>2. CASE MustWait
    <3>1. Waiting' = Waiting
      BY <1>24, <2>2 DEF WaitTest, Waiting, TypeOK, ClientGoto
    <3> QED
      BY <2>1, <3>1 DEF Promise!vars
  <2>3. CASE ~MustWait
    <3>1. \E S \in Waiting[c] : S \subseteq done
      BY <1>24, <2>3, DrainedIsDone DEF WaitTest, Waiting
    <3>2. Waiting' = [Waiting EXCEPT ![c] = {}]
      BY <1>24, <2>3 DEF WaitTest, Waiting, TypeOK, ClientGoto
    <3> QED
      BY <2>1, <3>1, <3>2 DEF Promise!Next, Promise!WaitReturns
  <2> QED
    BY <2>2, <2>3
<1>25. ASSUME NEW c \in Clients, Kill(c) PROVE [Promise!Next]_(Promise!vars)
  <2>1. /\ Phase' = Phase /\ queue' = queue /\ InHands' = InHands
        /\ done' = done /\ dropped' = dropped /\ Waiting' = Waiting
    BY <1>25 DEF Kill, Phase, InHands, Waiting, TypeOK
  <2> QED
    BY <2>1 DEF Promise!vars
<1>26. ASSUME NEW c \in Clients, PauseReturns(c)
      PROVE [Promise!Next]_(Promise!vars)
  <2>1. /\ Phase' = Phase /\ queue' = queue /\ InHands' = InHands
        /\ done' = done /\ dropped' = dropped /\ Waiting' = Waiting
    BY <1>26 DEF PauseReturns, Phase, InHands, Waiting, TypeOK, ClientGoto
  <2> QED
    BY <2>1 DEF Promise!vars
<1>27. ASSUME NEW c \in Clients, DestroyPoll(c)
      PROVE [Promise!Next]_(Promise!vars)
  <2>1. /\ Phase' = Phase /\ queue' = queue /\ InHands' = InHands
        /\ done' = done /\ dropped' = dropped /\ Waiting' = Waiting
    BY <1>27 DEF DestroyPoll, Phase, InHands, Waiting, TypeOK
  <2> QED
    BY <2>1 DEF Promise!vars
<1>28. ASSUME NEW c \in Clients, DestroyFree(c)
      PROVE [Promise!Next]_(Promise!vars)
  <2>1. Phase = "closing" /\ Phase' = "closed"
    BY <1>28 DEF DestroyFree, IInv, DestroyInv, Phase
  <2>2. \A w \in Workers : wpc[w] \notin AlivePoints
    BY <1>28, NoneAlive DEF DestroyFree, AllExited, IInv
  <2>3. InHands = {}
    BY <2>2 DEF IInv, HandInv, InHands, AlivePoints, WorkerPoints
  <2>4. Elems(queue) = Promise!PendingSet
    BY DEF Elems, Promise!PendingSet
  <2>5. /\ queue' = <<>> /\ InHands' = InHands /\ done' = done
        /\ dropped' = dropped \cup Elems(queue) /\ Waiting' = Waiting
    BY <1>28 DEF DestroyFree, Cleared, InHands, Waiting, TypeOK, ClientGoto
  <2> QED
    BY <2>1, <2>3, <2>4, <2>5 DEF Promise!Next, Promise!Closed
<1>29. ASSUME NEW c \in Clients, SpuriousWake(c)
      PROVE [Promise!Next]_(Promise!vars)
  <2>1. /\ Phase' = Phase /\ queue' = queue /\ InHands' = InHands
        /\ done' = done /\ dropped' = dropped /\ Waiting' = Waiting
    BY <1>29 DEF SpuriousWake, Phase, InHands, Waiting, TypeOK, ClientGoto
  <2> QED
    BY <2>1 DEF Promise!vars
<1>30. ASSUME NEW c \in Clients, CallAdd(c) PROVE [Promise!Next]_(Promise!vars)
  <2>1. /\ Phase' = Phase /\ queue' = queue /\ InHands' = InHands
        /\ done' = done /\ dropped' = dropped /\ Waiting' = Waiting
    BY <1>30 DEF CallAdd, Phase, InHands, Waiting, TypeOK, ClientGoto, MayCall
  <2> QED
    BY <2>1 DEF Promise!vars
<1>31. ASSUME NEW c \in Clients, CallWait(c)
      PROVE [Promise!Next]_(Promise!vars)
  <2>1. Phase = "open" /\ Waiting[c] = {}
    BY <1>31 DEF CallWait, MayCall, Phase, Waiting
  <2>2. Waiting' = [Waiting EXCEPT ![c] = {Elems(queue) \cup InHands}]
    BY <1>31 DEF CallWait, Waiting, TypeOK, ClientGoto
  <2>3. Elems(queue) = Promise!PendingSet
    BY DEF Elems, Promise!PendingSet
  <2>4. /\ Phase' = Phase /\ queue' = queue /\ InHands' = InHands
        /\ done' = done /\ dropped' = dropped
    BY <1>31 DEF CallWait, Phase, InHands
  <2> QED
    BY <2>1, <2>2, <2>3, <2>4 DEF Promise!Next, Promise!Wait
<1>32. ASSUME NEW c \in Clients, CallPause(c)
      PROVE [Promise!Next]_(Promise!vars)
  <2>1. /\ Phase' = Phase /\ queue' = queue /\ InHands' = InHands
        /\ done' = done /\ dropped' = dropped /\ Waiting' = Waiting
    BY <1>32 DEF CallPause, Phase, InHands, Waiting, TypeOK, ClientGoto,
       MayCall
  <2> QED
    BY <2>1 DEF Promise!vars
<1>33. ASSUME NEW c \in Clients, Resume(c) PROVE [Promise!Next]_(Promise!vars)
  <2>1. /\ Phase' = Phase /\ queue' = queue /\ InHands' = InHands
        /\ done' = done /\ dropped' = dropped /\ Waiting' = Waiting
    BY <1>33 DEF Resume, Phase, InHands, Waiting, TypeOK
  <2> QED
    BY <2>1 DEF Promise!vars
<1>34. ASSUME NEW c \in Clients, CallDestroy(c)
      PROVE [Promise!Next]_(Promise!vars)
  <2>1. Phase = "open" /\ Phase' = "closing"
    BY <1>34 DEF CallDestroy, MayCall, Phase
  <2>2. \A d \in Clients : Waiting[d] = {}
    BY <1>34 DEF CallDestroy, Waiting
  <2>3. /\ queue' = queue /\ InHands' = InHands /\ done' = done
        /\ dropped' = dropped /\ Waiting' = Waiting
    BY <1>34 DEF CallDestroy, MayCall, InHands, Waiting, TypeOK, ClientGoto
  <2> QED
    BY <2>1, <2>2, <2>3 DEF Promise!Next, Promise!Close
<1>35. CASE UNCHANGED vars
  BY <1>35 DEF vars, Promise!vars, Phase, InHands, Waiting
<1> QED
  BY <1>1, <1>2, <1>3, <1>4, <1>5, <1>6, <1>7, <1>8, <1>9, <1>10, <1>11,
  <1>12, <1>13, <1>14, <1>15, <1>16, <1>17, <1>18, <1>19, <1>20, <1>21,
  <1>22, <1>23, <1>24, <1>25, <1>26, <1>27, <1>28, <1>29, <1>30, <1>31,
  <1>32, <1>33, <1>34, <1>35 DEF Next, Starting, Worker, Client, InCall,
  Stopped

\* The thread pool implements the abstract job pool: jobs start in the order
\* they were added and at most once, thpool_wait and thpool_destroy keep what
\* thpool.h says of them.
THEOREM Refinement == Spec => ImplementsJobPool
<1>1. Init => Promise!Init
  <2> SUFFICES ASSUME Init PROVE Promise!Init
    OBVIOUS
  <2>1. Phase = "starting" /\ InHands = {}
    BY DEF Init, Phase, InHands
  <2>2. Waiting = [c \in Clients |-> {}]
    BY DEF Init, Waiting
  <2> QED
    BY <2>1, <2>2 DEF Init, Promise!Init
<1>2. TypeOK /\ IInv /\ [Next]_vars => [Promise!Next]_(Promise!vars)
  BY RefinementStep
<1>3. IInv => TypeOK
  BY DEF IInv
<1> QED
  BY <1>1, <1>2, <1>3, Invariance, PTL DEF Spec, ImplementsJobPool,
     Promise!Spec
=============================================================================

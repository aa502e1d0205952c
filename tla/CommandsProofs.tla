--------------------------- MODULE CommandsProofs ---------------------------
(***************************************************************************)
(* Theorems about Commands: the programs that wait for children, threads   *)
(* and clients, cp, pwd, chown and od, for any number of those, any        *)
(* options, inputs of any length, buffers of any size and any tree.        *)
(***************************************************************************)
EXTENDS Commands, FiniteSetTheorems, SequenceTheorems, WellFoundedInduction, TLAPS

\* Children and what the parent counts.  No child ends before it is there,
\* only the handler reaps, and what is left to it to reap is numLiveChildren.
NumKids == IF prog = "fork_sig_sync" THEN 1 ELSE Len(argv)
ChildStates == {"none", "run", "zombie", "reaped"}
WaitersInv ==
    /\ NumKids \in Nat
    /\ fs \in [child : [1..NumKids -> ChildStates], pending : BOOLEAN]
    /\ pc \in {"main", "fork", "wait", "handler", "exit"}
    /\ pc \in {"wait", "handler"} => InState("none") = {}
    /\ prog = "multi_SIGCHLD" /\ pc \notin {"main", "exit"} =>
         /\ g \in [numLiveChildren : Int, sigCnt : Nat]
         /\ g.numLiveChildren = Cardinality(1..NumKids \ InState("reaped"))
    /\ pc \in {"main", "fork"} => InState("reaped") = {}
    /\ prog = "fork_sig_sync" /\ fs.pending => fs.child[1] = "zombie"
    /\ prog \in {"pipe_sync", "fork_sig_sync"} => InState("reaped") = {}
    /\ pc = "exit" /\ ok =>
         /\ InState("none") \cup InState("run") = {}
         /\ prog = "multi_SIGCHLD" => InState("zombie") = {}

\* Threads and what they and the main thread count.  A thread is terminated
\* from its critical section on until it is joined.
ThreadStates == {"none", "run", "counted", "ended", "joined"}
Those(s) == {t \in Threads : g.state[t] = s}
JoinRecord ==
    [numUnjoined : Int, numLive : Int, locked : BOOLEAN,
     state : [Threads -> {"TS_ALIVE", "TS_TERMINATED", "TS_JOINED"}]]
JoinStates ==
    \A t \in Threads : /\ g.state[t] = "TS_JOINED" <=> fs.thread[t] = "joined"
                       /\ g.state[t] = "TS_ALIVE" <=> fs.thread[t] \in {"none", "run"}
JoinCounts ==
    /\ g \in JoinRecord /\ JoinStates
    /\ g.numUnjoined = Cardinality(Those("TS_TERMINATED"))
    /\ pc = "create" => Those("TS_JOINED") = {}
    /\ pc # "create" => g.numLive = Cardinality(Threads \ Those("TS_JOINED"))
JoinInv ==
    /\ Len(argv) \in Nat
    /\ fs \in [thread : [1..Len(argv) -> ThreadStates]]
    /\ pc \in {"main", "create", "lock", "look", "asleep", "woken", "join", "exit"}
    /\ pc = "main" => \A t \in Threads : fs.thread[t] = "none"
    /\ pc = "create" => v.idx \in Nat /\ \A t \in Threads : t >= v.idx => fs.thread[t] = "none"
    /\ pc # "main" /\ (pc = "exit" => ok) => JoinCounts
    /\ pc = "exit" /\ ok => Those("TS_JOINED") = Threads

\* The server's number is behind every range that it gave out.
AskerStates == {"start", "knock", "send", "open", "read", "answered"} \cup Gone
SeqNumInv ==
    /\ fs \in [st : [Askers -> AskerStates], len : [Askers -> Nat],
               num : [Askers -> Nat \cup {-1}], fifo : Seq(Askers)]
    /\ pc \in {"main", "listen", "read", "open", "write"}
    /\ pc # "main" => g \in [seqNum : Nat]
    /\ pc \in {"open", "write"} => v.req \in Askers
    /\ \A c \in Askers : fs.num[c] >= 0 => pc # "main" /\ fs.num[c] + fs.len[c] <= g.seqNum
    /\ \A c, d \in {e \in Askers : fs.num[e] >= 0} :
         c # d => fs.num[c] + fs.len[c] <= fs.num[d] \/ fs.num[d] + fs.len[d] <= fs.num[c]

\* What cp has copied is the front of the destination.
Bytes == ToSet(fs.src.data) \cup ToSet(fs.old.data)
Input == [kind : {"file", "dir", "missing"}, data : Seq(Bytes)]
CpInv ==
    /\ fs \in [src : Input, dst : Input, old : Input, yes : BOOLEAN, room : Int]
    /\ pc \in {"main", "cp_open", "cp_copy", "exit"}
    /\ pc \in {"main", "cp_open"} => fs.dst = fs.old /\ off = 0
    /\ pc = "cp_copy" =>
         /\ fs.old.kind = "missing" \/ fs.yes
         /\ off \in 0..Len(fs.src.data) /\ off <= Len(fs.dst.data)
         /\ Len(fs.dst.data) <= Len(fs.old.data) \/ Len(fs.dst.data) <= Len(fs.src.data)
         /\ \A j \in 1..off : fs.dst.data[j] = fs.src.data[j]
    /\ CpExact

\* The names found so far lead from the directory that pwd is at to the one
\* that it started in.
Distinct == fs.ino = fs.dino /\ \A m, n \in DOMAIN fs.ino : fs.ino[m] = fs.ino[n] => m = n
PwdInv ==
    LET dirs == DOMAIN fs.parent IN
    /\ fs.parent \in [dirs -> dirs] /\ fs.cwd \in dirs /\ DOMAIN fs.ino = dirs
    /\ pc \in {"main", "do_pwd", "exit"}
    /\ pc # "exit" => out = <<>>
    /\ pc = "do_pwd" /\ Distinct =>
         /\ v.at \in dirs /\ v.this = fs.ino[v.at] /\ v.names \in Seq(dirs)
         /\ fs.parent[fs.cwd] # fs.cwd
         /\ v.names = <<>> => v.at = fs.cwd
         /\ v.names # <<>> => fs.parent[v.names[1]] = v.at /\ v.names[Len(v.names)] = fs.cwd
         /\ \A j \in 2..Len(v.names) : fs.parent[v.names[j]] = v.names[j - 1]
    /\ PwdExact

\* The inductive invariant.
IInv ==
    /\ prog \in Waiters => WaitersInv
    /\ prog = "thread_multijoin" => JoinInv
    /\ prog = "fifo_seqnum" => SeqNumInv
    /\ prog = "cp" => CpInv
    /\ prog = "pwd" => PwdInv
-----------------------------------------------------------------------------
(* A behaviour runs one program *)

\* No step of a program that the invariant says nothing of changes to
\* another one.
LEMMA StepHead == ASSUME HeadNext PROVE prog = "head" /\ prog' = prog
BY DEF HeadNext, HeadMain, HeadFile, HeadLines, ElideTailLines, ElideTailScan, ElideTailBytes,
       HeadCopy, CopyFd, CopyDone, Return, Exit, Goto

\* Nor of tail.
LEMMA StepTail == ASSUME TailNext PROVE prog = "tail" /\ prog' = prog
BY DEF TailNext, TailMain, TailFile, TailCopy, TailLines, TailScan, TailBytes, ElideHeadBytes,
       ElideHeadLines, ElideHeadScan, CopyLast, CopyFd, CopyDone, Return, Exit, Goto

\* Nor of cat.
LEMMA StepCat == ASSUME CatNext PROVE prog = "cat" /\ prog' = prog
BY DEF CatNext, CatMain, CatFile, CatRead, CatNewline, CatLine, Return, Exit, Goto

\* Nor of od.
LEMMA StepOd == ASSUME OdNext PROVE prog = "od" /\ prog' = prog
BY DEF OdNext, OdMain, OdFile, OdRead, Return, Exit, Goto

\* Nor of chmod.
LEMMA StepChmod == ASSUME ChmodNext PROVE prog = "chmod" /\ prog' = prog
BY DEF ChmodNext, ChmodMain, ChmodFile, ChmodDirEnd, ChmodEnd, Exit, Goto

\* Nor of chown.
LEMMA StepChown == ASSUME ChownNext PROVE prog = "chown" /\ prog' = prog
BY DEF ChownNext, ChownMain, ChownFile, ChownEnd, Exit, Goto

\* Of these the invariant says nothing.
LEMMA OtherPrograms ==
    ASSUME prog \in {"head", "tail", "cat", "od", "chmod", "chown"}, prog' = prog
    PROVE  IInv'
BY DEF IInv, Waiters

-----------------------------------------------------------------------------
(* Parents that wait for children *)

\* What is left of a finite number of children.
LEMMA KidsLeft ==
    ASSUME NEW n \in Nat, NEW S
    PROVE  /\ IsFiniteSet(1..n \ S) /\ Cardinality(1..n \ S) \in Nat
           /\ Cardinality(1..n \ {}) = n
           /\ Cardinality(1..n \ S) = 0 => 1..n \subseteq S
           /\ \A c \in 1..n \ S : Cardinality(1..n \ (S \cup {c})) = Cardinality(1..n \ S) - 1
<1>1. IsFiniteSet(1..n) /\ Cardinality(1..n) = n
  BY FS_Interval
<1>2. IsFiniteSet(1..n \ S) /\ Cardinality(1..n \ S) \in Nat
  BY <1>1, FS_Subset, FS_CardinalityType
<1>3. Cardinality(1..n \ S) = 0 => 1..n \subseteq S
  BY <1>2, FS_EmptySet
<1>4. ASSUME NEW c \in 1..n \ S
      PROVE  Cardinality(1..n \ (S \cup {c})) = Cardinality(1..n \ S) - 1
  <2>1. 1..n \ (S \cup {c}) = (1..n \ S) \ {c}
    OBVIOUS
  <2>2. Cardinality((1..n \ S) \ {c}) = Cardinality(1..n \ S) - 1
    BY <1>2, FS_RemoveElement
  <2> QED BY <2>1, <2>2
<1>5. 1..n \ {} = 1..n
  OBVIOUS
<1> QED BY <1>1, <1>2, <1>3, <1>4, <1>5

\* Exit with a failure, before anything is promised.
LEMMA WaitersFail ==
    ASSUME WaitersInv, prog \in Waiters, pc \in {"main", "fork"}, Exit(FALSE)
    PROVE  WaitersInv'
BY DEF WaitersInv, Exit, InState, NumKids

\* main up to its loop.
LEMMA StepWaiterMain ==
    ASSUME WaitersInv, WaiterMain PROVE WaitersInv' /\ prog' = prog
<1>1. CASE Exit(FALSE)
  BY <1>1, WaitersFail DEF WaiterMain, Exit
<1>2. CASE g' = [numLiveChildren |-> Len(argv), sigCnt |-> 0] /\ Goto("fork", None)
  <2>1. UNCHANGED <<prog, argv, fs>> /\ pc' = "fork" /\ pc = "main" /\ NumKids' = NumKids
    BY <1>2 DEF Goto, WaiterMain, NumKids
  <2>2. InState("reaped") = {} /\ InState("reaped")' = {} /\ InState("zombie")' = InState("zombie")
    BY <2>1 DEF WaitersInv, InState
  <2>3. prog = "multi_SIGCHLD" =>
          /\ g' \in [numLiveChildren : Int, sigCnt : Nat]
          /\ g'.numLiveChildren = Cardinality(1..NumKids \ {})
    <3> SUFFICES ASSUME prog = "multi_SIGCHLD"
                 PROVE  /\ g' \in [numLiveChildren : Int, sigCnt : Nat]
                        /\ g'.numLiveChildren = Cardinality(1..NumKids \ {})
      OBVIOUS
    <3>1. NumKids = Len(argv) /\ NumKids \in Nat
      BY DEF WaitersInv, NumKids
    <3>2. Cardinality(1..NumKids \ {}) = NumKids
      BY <3>1, KidsLeft
    <3> QED BY <1>2, <3>1, <3>2
  <2> QED BY <2>1, <2>2, <2>3 DEF WaitersInv
<1> QED BY <1>1, <1>2 DEF WaiterMain

\* fork fails, makes a child, or has made all of them.
LEMMA StepFork ==
    ASSUME WaitersInv, Fork PROVE WaitersInv' /\ prog' = prog
<1>1. CASE Exit(FALSE)
  BY <1>1, WaitersFail DEF Fork, Exit
<1>2. CASE /\ InState("none") # {} /\ fs' = [fs EXCEPT !.child[Min(InState("none"))] = "run"]
           /\ UNCHANGED <<prog, argv, g, fi, off, out, ok, pc, v>>
  <2> DEFINE k == Min(InState("none"))
  <2>1. fs' = [fs EXCEPT !.child[k] = "run"]
    BY <1>2
  <2> HIDE DEF k
  <2>2. /\ fs' \in [child : [1..NumKids -> ChildStates], pending : BOOLEAN]
        /\ fs'.pending = fs.pending /\ NumKids' = NumKids
        /\ \A c \in 1..NumKids : fs'.child[c] = IF c = k THEN "run" ELSE fs.child[c]
    <3>1. fs'.child = [fs.child EXCEPT ![k] = "run"] /\ fs' = [fs EXCEPT !.child = fs'.child]
      BY <2>1 DEF WaitersInv
    <3>2. fs'.child \in [1..NumKids -> ChildStates]
      BY <3>1 DEF WaitersInv, ChildStates
    <3>3. NumKids' = NumKids
      BY <1>2 DEF NumKids
    <3> QED BY <3>1, <3>2, <3>3 DEF WaitersInv
  <2>3. InState("reaped")' = {} /\ pc = "fork" /\ pc' = "fork" /\ InState("reaped") = {}
    BY <1>2, <2>2 DEF WaitersInv, InState, Fork
  <2>4. ~(prog = "fork_sig_sync" /\ fs.pending)
    <3>1. prog = "fork_sig_sync" /\ fs.pending => InState("none") = {}
      BY DEF WaitersInv, InState, NumKids
    <3> QED BY <1>2, <3>1
  <2> QED BY <1>2, <2>2, <2>3, <2>4 DEF WaitersInv
<1>3. CASE InState("none") = {} /\ Goto("wait", None) /\ UNCHANGED <<g, out, off>>
  BY <1>3 DEF WaitersInv, Goto, InState, NumKids, Fork
<1> QED BY <1>1, <1>2, <1>3 DEF Fork

\* A child ends.
LEMMA StepChildEnds ==
    ASSUME WaitersInv, NEW c \in DOMAIN fs.child, ChildEnds(c) PROVE WaitersInv' /\ prog' = prog
<1>1. /\ fs' = [fs EXCEPT !.child[c] = "zombie", !.pending = prog # "pipe_sync"]
      /\ UNCHANGED <<prog, argv, g, ok, pc>> /\ fs.child[c] = "run" /\ pc \notin Ended
  BY DEF ChildEnds
<1>2. /\ fs' \in [child : [1..NumKids -> ChildStates], pending : BOOLEAN]
      /\ NumKids' = NumKids /\ c \in 1..NumKids
      /\ \A d \in 1..NumKids : fs'.child[d] = IF d = c THEN "zombie" ELSE fs.child[d]
  BY <1>1 DEF WaitersInv, ChildStates, NumKids
<1>3. InState("reaped")' = InState("reaped") /\ InState("none")' = InState("none")
  BY <1>1, <1>2 DEF WaitersInv, InState
<1>4. prog = "fork_sig_sync" => fs'.child[1] = "zombie"
  BY <1>2 DEF NumKids
<1> QED BY <1>1, <1>2, <1>3, <1>4 DEF WaitersInv, Ended

\* The end of the pipe, and the only child's signal, tell that all have ended.
LEMMA StepWaitEnds ==
    ASSUME WaitersInv, ReadPipe \/ SuspendOnce PROVE WaitersInv' /\ prog' = prog
<1>1. Exit(TRUE) /\ pc = "wait" /\ prog \in {"pipe_sync", "fork_sig_sync"} /\ prog' = prog
  BY DEF ReadPipe, SuspendOnce, Exit
<1>2. InState("none") = {} /\ InState("run") = {}
  <2>1. InState("none") = {}
    BY <1>1 DEF WaitersInv
  <2>2. CASE ReadPipe
    BY <2>1, <2>2 DEF ReadPipe
  <2>3. CASE SuspendOnce
    <3>1. NumKids = 1 /\ fs.child[1] = "zombie" /\ DOMAIN fs.child = 1..NumKids
      BY <2>3 DEF SuspendOnce, WaitersInv, NumKids
    <3> QED BY <2>1, <3>1 DEF InState
  <2> QED BY <2>2, <2>3
<1> QED BY <1>1, <1>2 DEF WaitersInv, Exit, InState, NumKids

\* sigsuspend, until no children are left.
LEMMA StepSuspend ==
    ASSUME WaitersInv, Suspend PROVE WaitersInv' /\ prog' = prog
<1>1. CASE g.numLiveChildren = 0 /\ Exit(TRUE)
  <2>1. prog = "multi_SIGCHLD" /\ pc = "wait" /\ UNCHANGED <<prog, argv, fs>> /\ pc' = "exit"
    BY <1>1 DEF Suspend, Exit
  <2>2. 1..NumKids \subseteq InState("reaped") /\ NumKids' = NumKids
    BY <1>1, <2>1, KidsLeft DEF WaitersInv, NumKids
  <2>3. InState("none") = {} /\ InState("run") = {} /\ InState("zombie") = {}
    BY <2>2 DEF WaitersInv, InState
  <2>4. \A s : InState(s)' = InState(s)
    BY <2>1 DEF InState
  <2> QED BY <2>1, <2>2, <2>3, <2>4 DEF WaitersInv
<1>2. CASE /\ g.numLiveChildren > 0 /\ fs.pending
           /\ fs' = [fs EXCEPT !.pending = FALSE] /\ pc' = "handler"
           /\ UNCHANGED <<prog, argv, g, fi, off, out, ok, v>>
  BY <1>2 DEF WaitersInv, InState, NumKids, Suspend
<1> QED BY <1>1, <1>2 DEF Suspend

\* The handler reaps, and every child it reaps was counted.
LEMMA StepSigchldHandler ==
    ASSUME WaitersInv, SigchldHandler PROVE WaitersInv' /\ prog' = prog
<1>1. prog = "multi_SIGCHLD" /\ pc = "handler"
  BY DEF SigchldHandler
<1>2. /\ g \in [numLiveChildren : Int, sigCnt : Nat]
      /\ g.numLiveChildren = Cardinality(1..NumKids \ InState("reaped"))
  BY <1>1 DEF WaitersInv
<1>3. CASE g' = [g EXCEPT !.sigCnt = @ + 1] /\ Goto("wait", None)
  <2>1. /\ g' \in [numLiveChildren : Int, sigCnt : Nat]
        /\ g'.numLiveChildren = g.numLiveChildren
    BY <1>2, <1>3
  <2> QED BY <1>1, <1>2, <1>3, <2>1 DEF WaitersInv, Goto, InState, NumKids
<1>4. ASSUME NEW c \in InState("zombie"), fs' = [fs EXCEPT !.child[c] = "reaped"],
             g' = [g EXCEPT !.numLiveChildren = @ - 1], UNCHANGED <<prog, argv, pc, ok>>
      PROVE  WaitersInv' /\ prog' = prog
  <2>1. /\ fs' \in [child : [1..NumKids -> ChildStates], pending : BOOLEAN]
        /\ fs'.pending = fs.pending /\ NumKids' = NumKids
        /\ c \in 1..NumKids /\ fs.child[c] = "zombie"
        /\ \A d \in 1..NumKids : fs'.child[d] = IF d = c THEN "reaped" ELSE fs.child[d]
    BY <1>4 DEF WaitersInv, ChildStates, NumKids, InState
  <2>2. InState("reaped")' = InState("reaped") \cup {c} /\ c \notin InState("reaped")
    BY <2>1 DEF WaitersInv, InState
  <2>3. InState("none")' = {}
    BY <1>1, <2>1 DEF WaitersInv, InState
  <2>4. /\ g' \in [numLiveChildren : Int, sigCnt : Nat]
        /\ g'.numLiveChildren = g.numLiveChildren - 1
    BY <1>2, <1>4
  <2>5. g'.numLiveChildren = Cardinality(1..NumKids \ InState("reaped")')
    <3>1. NumKids \in Nat /\ c \in 1..NumKids \ InState("reaped")
      BY <2>1, <2>2 DEF WaitersInv
    <3>2. Cardinality(1..NumKids \ (InState("reaped") \cup {c}))
            = Cardinality(1..NumKids \ InState("reaped")) - 1
      BY <3>1, KidsLeft
    <3> QED BY <1>2, <2>2, <2>4, <3>2
  <2> QED BY <1>1, <1>4, <2>1, <2>3, <2>4, <2>5 DEF WaitersInv
<1> QED BY <1>3, <1>4 DEF SigchldHandler

\* Every step of a parent and its children.
LEMMA StepWaiters ==
    ASSUME IInv, ChildSyncNext PROVE IInv'
<1>1. prog \in Waiters
  BY DEF ChildSyncNext, WaiterMain, Fork, ReadPipe, SuspendOnce, Suspend, SigchldHandler, Waiters
<1>2. WaitersInv
  BY <1>1 DEF IInv
<1>3. WaitersInv' /\ prog' = prog
  BY <1>2, StepWaiterMain, StepFork, StepChildEnds, StepWaitEnds, StepSuspend, StepSigchldHandler
  DEF ChildSyncNext
<1> QED BY <1>1, <1>3 DEF IInv, Waiters

-----------------------------------------------------------------------------
(* The main thread that joins the others in the order in which they end *)

\* What is put into a set of threads, or taken out of it, is counted.
LEMMA ThreadsCounted ==
    ASSUME Len(argv) \in Nat, fs \in [thread : [1..Len(argv) -> ThreadStates]],
           NEW S \in SUBSET Threads
    PROVE  /\ Threads = 1..Len(argv) /\ Cardinality(S) \in Nat
           /\ Cardinality(S) = 0 <=> S = {}
           /\ \A t \in Threads \ S : Cardinality(S \cup {t}) = Cardinality(S) + 1
           /\ \A t \in S : Cardinality(S \ {t}) = Cardinality(S) - 1
<1>1. Threads = 1..Len(argv)
  BY DEF Threads
<1>2. IsFiniteSet(S)
  <2>1. IsFiniteSet(Threads)
    BY <1>1, FS_Interval
  <2> QED BY <2>1, FS_Subset
<1>3. Cardinality(S) \in Nat /\ (Cardinality(S) = 0 <=> S = {})
  BY <1>2, FS_CardinalityType, FS_EmptySet
<1>4. \A t \in Threads \ S : Cardinality(S \cup {t}) = Cardinality(S) + 1
  BY <1>2, FS_AddElement
<1>5. \A t \in S : Cardinality(S \ {t}) = Cardinality(S) - 1
  BY <1>2, FS_RemoveElement
<1> QED BY <1>1, <1>3, <1>4, <1>5

\* Steps of the main thread that change no count and no thread.
LEMMA JoinUnchanged ==
    ASSUME JoinInv, prog' = prog, UNCHANGED <<argv, fs>>, pc \notin {"main", "create", "exit"},
           pc' \in {"lock", "look", "asleep", "woken", "join"},
           g' \in JoinRecord,
           g'.numUnjoined = g.numUnjoined, g'.numLive = g.numLive, g'.state = g.state
    PROVE  JoinInv'
<1>1. Threads' = Threads /\ \A s : Those(s)' = Those(s)
  BY DEF Threads, Those
<1>2. JoinCounts'
  BY <1>1 DEF JoinInv, JoinCounts, JoinRecord, JoinStates
<1> QED BY <1>1, <1>2 DEF JoinInv

\* main, up to the first thread.
LEMMA StepJoinMain ==
    ASSUME JoinInv, JoinMain PROVE JoinInv' /\ prog' = prog
<1>1. CASE Exit(FALSE)
  BY <1>1 DEF JoinInv, JoinMain, Exit, Threads
<1>2. CASE /\ g' = [numUnjoined |-> 0, numLive |-> 0, locked |-> FALSE,
                    state |-> [t \in Threads |-> "TS_ALIVE"]]
           /\ Goto("create", [idx |-> 1])
  <2>1. UNCHANGED <<prog, argv, fs>> /\ pc' = "create" /\ pc = "main" /\ v'.idx = 1
        /\ Threads' = Threads
    BY <1>2 DEF Goto, JoinMain, Threads
  <2>2. Those("TS_TERMINATED")' = {} /\ Those("TS_JOINED")' = {}
    BY <1>2, <2>1 DEF Those
  <2>3. JoinCounts'
    <3>1. g' \in JoinRecord' /\ g'.numUnjoined = 0
      BY <1>2, <2>1 DEF JoinRecord
    <3>2. JoinStates'
      BY <1>2, <2>1 DEF JoinInv, JoinStates
    <3>3. Cardinality({}) = 0
      BY FS_EmptySet
    <3> QED BY <2>1, <2>2, <3>1, <3>2, <3>3 DEF JoinCounts
  <2> QED BY <2>1, <2>3 DEF JoinInv
<1> QED BY <1>1, <1>2 DEF JoinMain

\* A thread is created, or cannot be, or all of them are there.
LEMMA StepCreateThread ==
    ASSUME JoinInv, CreateThread PROVE JoinInv' /\ prog' = prog
<1>1. pc = "create" /\ JoinCounts /\ v.idx \in Nat
  BY DEF JoinInv, CreateThread
<1>2. CASE Exit(FALSE)
  BY <1>1, <1>2 DEF JoinInv, Exit, Threads
<1>3. CASE /\ v.idx \in Threads /\ fs' = [fs EXCEPT !.thread[v.idx] = "run"]
           /\ v' = [idx |-> v.idx + 1] /\ UNCHANGED <<prog, argv, g, fi, off, out, ok, pc>>
  <2>1. /\ fs' \in [thread : [1..Len(argv) -> ThreadStates]] /\ Threads' = Threads
        /\ fs.thread[v.idx] = "none"
        /\ \A t \in Threads : fs'.thread[t] = IF t = v.idx THEN "run" ELSE fs.thread[t]
    BY <1>1, <1>3 DEF JoinInv, ThreadStates, Threads
  <2>2. \A s : Those(s)' = Those(s)
    BY <1>3, <2>1 DEF Those
  <2>3. JoinCounts'
    <3>1. g' \in JoinRecord' /\ g' = g /\ pc' = pc
      BY <1>1, <1>3, <2>1 DEF JoinCounts, JoinRecord
    <3>2. JoinStates'
      BY <1>1, <2>1, <3>1 DEF JoinCounts, JoinStates
    <3> QED BY <1>1, <2>1, <2>2, <3>1, <3>2 DEF JoinCounts
  <2>4. v'.idx = v.idx + 1 /\ Threads \subseteq Nat
    BY <1>3 DEF Threads, JoinInv
  <2>5. v'.idx \in Nat /\ \A t \in Threads' : t >= v'.idx => fs'.thread[t] = "none"
    <3>1. \A t \in Threads : t >= v.idx + 1 => t >= v.idx /\ t # v.idx
      BY <1>1, <2>4
    <3>2. \A t \in Threads : t >= v.idx => fs.thread[t] = "none"
      BY <1>1 DEF JoinInv
    <3> QED BY <1>1, <2>1, <2>4, <3>1, <3>2
  <2> QED BY <1>1, <1>3, <2>1, <2>3, <2>5 DEF JoinInv
<1>4. CASE g' = [g EXCEPT !.numLive = Cardinality(Threads)] /\ Goto("lock", None)
  <2>1. UNCHANGED <<prog, argv, fs>> /\ pc' = "lock" /\ Threads' = Threads
    BY <1>4 DEF Goto, Threads
  <2>2. Cardinality(Threads) \in Nat
    BY ThreadsCounted DEF JoinInv
  <2>3. /\ g' \in JoinRecord
        /\ g'.numUnjoined = g.numUnjoined /\ g'.numLive = Cardinality(Threads) /\ g'.state = g.state
    BY <1>1, <1>4, <2>2 DEF JoinCounts, JoinRecord, JoinStates
  <2>4. (\A s : Those(s)' = Those(s)) /\ Threads \ Those("TS_JOINED") = Threads
    BY <1>1, <2>1, <2>3 DEF Those, JoinCounts
  <2>5. JoinCounts'
    BY <1>1, <2>1, <2>3, <2>4 DEF JoinCounts, JoinRecord, JoinStates
  <2> QED BY <2>1, <2>5 DEF JoinInv
<1> QED BY <1>2, <1>3, <1>4 DEF CreateThread

\* A thread leaves its critical section.
LEMMA StepTerminate ==
    ASSUME JoinInv, NEW t \in Threads, Terminate(t) PROVE JoinInv' /\ prog' = prog
<1>1. /\ fs.thread[t] = "run" /\ fs' = [fs EXCEPT !.thread[t] = "counted"]
      /\ g' = [g EXCEPT !.numUnjoined = @ + 1, !.state[t] = "TS_TERMINATED"]
      /\ UNCHANGED <<prog, argv, ok, pc, v>> /\ pc \notin {"main", "exit"}
  BY DEF Terminate, Running, Ended, JoinInv
<1>2. JoinCounts
  BY <1>1 DEF JoinInv
<1>3. /\ fs' \in [thread : [1..Len(argv) -> ThreadStates]] /\ Threads' = Threads
      /\ \A d \in Threads : fs'.thread[d] = IF d = t THEN "counted" ELSE fs.thread[d]
  BY <1>1 DEF JoinInv, ThreadStates, Threads
<1>4. /\ g' \in JoinRecord
      /\ g'.numUnjoined = g.numUnjoined + 1 /\ g'.numLive = g.numLive
      /\ \A d \in Threads : g'.state[d] = IF d = t THEN "TS_TERMINATED" ELSE g.state[d]
  <2>1. g' = [numUnjoined |-> g.numUnjoined + 1, numLive |-> g.numLive, locked |-> g.locked,
              state |-> [g.state EXCEPT ![t] = "TS_TERMINATED"]]
    BY <1>1, <1>2 DEF JoinCounts, JoinRecord
  <2> QED BY <1>2, <2>1 DEF JoinCounts, JoinRecord
<1>5. g.state[t] = "TS_ALIVE"
  BY <1>1, <1>2 DEF JoinCounts, JoinRecord, JoinStates
<1>6. /\ Those("TS_JOINED")' = Those("TS_JOINED") /\ t \notin Those("TS_TERMINATED")
      /\ Those("TS_TERMINATED")' = Those("TS_TERMINATED") \cup {t}
  BY <1>3, <1>4, <1>5 DEF Those
<1>7. Cardinality(Those("TS_TERMINATED") \cup {t}) = Cardinality(Those("TS_TERMINATED")) + 1
  <2>1. Those("TS_TERMINATED") \in SUBSET Threads
    BY DEF Those
  <2> QED BY <1>6, <2>1, ThreadsCounted DEF JoinInv
<1>8. JoinCounts'
  <2>1. g' \in JoinRecord'
    BY <1>3, <1>4 DEF JoinRecord
  <2>2. JoinStates'
    BY <1>2, <1>3, <1>4, <1>5 DEF JoinCounts, JoinStates
  <2> QED BY <1>1, <1>2, <1>3, <1>4, <1>6, <1>7, <2>1, <2>2 DEF JoinCounts
<1> QED BY <1>1, <1>3, <1>8 DEF JoinInv

\* A thread signals that it has ended.
LEMMA StepSignalDeath ==
    ASSUME JoinInv, NEW t \in Threads, SignalDeath(t) PROVE JoinInv' /\ prog' = prog
<1>1. /\ fs.thread[t] = "counted" /\ fs' = [fs EXCEPT !.thread[t] = "ended"]
      /\ UNCHANGED <<prog, argv, g, ok, v>> /\ pc \notin {"main", "exit"}
      /\ pc' \in {pc, "woken"} /\ (pc = "create" <=> pc' = "create") /\ pc' # "exit"
  BY DEF SignalDeath, Running, Ended, JoinInv
<1>2. JoinCounts
  BY <1>1 DEF JoinInv
<1>3. /\ fs' \in [thread : [1..Len(argv) -> ThreadStates]] /\ Threads' = Threads
      /\ \A d \in Threads : fs'.thread[d] = IF d = t THEN "ended" ELSE fs.thread[d]
  BY <1>1 DEF JoinInv, ThreadStates, Threads
<1>4. \A s : Those(s)' = Those(s)
  BY <1>1, <1>3 DEF Those
<1>5. JoinCounts'
  <2>1. g' \in JoinRecord' /\ g' = g
    BY <1>1, <1>2, <1>3 DEF JoinCounts, JoinRecord
  <2>2. JoinStates'
    BY <1>1, <1>2, <1>3, <2>1 DEF JoinCounts, JoinStates
  <2> QED BY <1>1, <1>2, <1>3, <1>4, <2>1, <2>2 DEF JoinCounts
<1> QED BY <1>1, <1>3, <1>5 DEF JoinInv

\* The main thread ends when it counts no living threads.
LEMMA StepLockToJoin ==
    ASSUME JoinInv, LockToJoin PROVE JoinInv' /\ prog' = prog
<1>1. pc \in {"lock", "woken"} /\ JoinCounts
  BY DEF JoinInv, LockToJoin
<1>2. CASE g.numLive = 0 /\ Exit(TRUE)
  <2>1. UNCHANGED <<prog, argv, fs, g>> /\ pc' = "exit" /\ Threads' = Threads
    BY <1>2 DEF Exit, Threads
  <2>2. \A s : Those(s)' = Those(s)
    BY <2>1 DEF Those
  <2>3. Threads \ Those("TS_JOINED") = {}
    <3>1. Cardinality(Threads \ Those("TS_JOINED")) = 0
      BY <1>1, <1>2 DEF JoinCounts, JoinRecord, JoinStates
    <3> QED BY <3>1, ThreadsCounted DEF JoinInv
  <2>4. JoinCounts'
    BY <1>1, <2>1, <2>2 DEF JoinCounts, JoinRecord, JoinStates
  <2>5. Those("TS_JOINED")' = Threads'
    BY <2>1, <2>2, <2>3 DEF Those
  <2> QED BY <2>1, <2>4, <2>5 DEF JoinInv
<1>3. CASE g' = [g EXCEPT !.locked = TRUE] /\ Goto("look", None)
  <2>1. /\ g' \in JoinRecord
        /\ g'.numUnjoined = g.numUnjoined /\ g'.numLive = g.numLive /\ g'.state = g.state
    BY <1>1, <1>3 DEF JoinCounts, JoinRecord, JoinStates
  <2>2. UNCHANGED <<prog, argv, fs>> /\ pc' = "look"
    BY <1>3 DEF Goto
  <2> QED BY <1>1, <2>1, <2>2, JoinUnchanged
<1> QED BY <1>2, <1>3 DEF LockToJoin

\* It sleeps or looks for those that have ended.
LEMMA StepLookForDead ==
    ASSUME JoinInv, LookForDead PROVE JoinInv' /\ prog' = prog
<1>1. pc = "look" /\ JoinCounts
  BY DEF JoinInv, LookForDead
<1>2. UNCHANGED <<prog, argv, fs>> /\ pc' \in {"asleep", "join"}
      /\ g' \in {g, [g EXCEPT !.locked = FALSE]}
  BY DEF LookForDead, Goto
<1>3. /\ g' \in JoinRecord
      /\ g'.numUnjoined = g.numUnjoined /\ g'.numLive = g.numLive /\ g'.state = g.state
  BY <1>1, <1>2 DEF JoinCounts, JoinRecord, JoinStates
<1> QED BY <1>1, <1>2, <1>3, JoinUnchanged

\* It joins those that are terminated, and counts them off.
LEMMA StepJoinThread ==
    ASSUME JoinInv, JoinThread PROVE JoinInv' /\ prog' = prog
<1>1. pc = "join" /\ JoinCounts
  BY DEF JoinInv, JoinThread
<1>2. CASE UNCHANGED <<prog, argv, fs, g, pc>>
  BY <1>1, <1>2, JoinUnchanged DEF JoinCounts, JoinRecord, JoinStates
<1>3. CASE g' = [g EXCEPT !.locked = FALSE] /\ Goto("lock", None)
  <2>1. /\ g' \in JoinRecord
        /\ g'.numUnjoined = g.numUnjoined /\ g'.numLive = g.numLive /\ g'.state = g.state
    BY <1>1, <1>3 DEF JoinCounts, JoinRecord, JoinStates
  <2>2. UNCHANGED <<prog, argv, fs>> /\ pc' = "lock"
    BY <1>3 DEF Goto
  <2> QED BY <1>1, <2>1, <2>2, JoinUnchanged
<1>4. CASE /\ v.idx \in Threads /\ g.state[v.idx] = "TS_TERMINATED" /\ fs.thread[v.idx] = "ended"
           /\ fs' = [fs EXCEPT !.thread[v.idx] = "joined"]
           /\ g' = [g EXCEPT !.state[v.idx] = "TS_JOINED", !.numLive = @ - 1, !.numUnjoined = @ - 1]
           /\ UNCHANGED <<prog, argv, fi, off, out, ok, pc>>
  <2> DEFINE t == v.idx
  <2>1. t \in Threads /\ g.state[t] = "TS_TERMINATED"
    BY <1>4
  <2>2. /\ fs' \in [thread : [1..Len(argv) -> ThreadStates]] /\ Threads' = Threads
        /\ \A d \in Threads : fs'.thread[d] = IF d = t THEN "joined" ELSE fs.thread[d]
    BY <1>4 DEF JoinInv, ThreadStates, Threads
  <2>3. /\ g' \in JoinRecord
        /\ g'.numUnjoined = g.numUnjoined - 1 /\ g'.numLive = g.numLive - 1
        /\ \A d \in Threads : g'.state[d] = IF d = t THEN "TS_JOINED" ELSE g.state[d]
    <3>1. g' = [numUnjoined |-> g.numUnjoined - 1, numLive |-> g.numLive - 1, locked |-> g.locked,
                state |-> [g.state EXCEPT ![t] = "TS_JOINED"]]
      BY <1>1, <1>4 DEF JoinCounts, JoinRecord
    <3> QED BY <1>1, <2>1, <3>1 DEF JoinCounts, JoinRecord
  <2> HIDE DEF t
  <2>4. /\ Those("TS_JOINED")' = Those("TS_JOINED") \cup {t}
        /\ Those("TS_TERMINATED")' = Those("TS_TERMINATED") \ {t}
        /\ t \in Those("TS_TERMINATED") /\ t \in Threads \ Those("TS_JOINED")
    BY <2>1, <2>2, <2>3 DEF Those
  <2>5. Cardinality(Those("TS_TERMINATED") \ {t}) = Cardinality(Those("TS_TERMINATED")) - 1
    <3>1. Those("TS_TERMINATED") \in SUBSET Threads
      BY DEF Those
    <3> QED BY <2>4, <3>1, ThreadsCounted DEF JoinInv
  <2>6. Cardinality((Threads \ Those("TS_JOINED")) \ {t})
          = Cardinality(Threads \ Those("TS_JOINED")) - 1
    BY <2>4, ThreadsCounted DEF JoinInv
  <2>7. (Threads \ Those("TS_JOINED"))' = (Threads \ Those("TS_JOINED")) \ {t}
    BY <2>2, <2>4
  <2>8. JoinCounts'
    <3>1. g' \in JoinRecord'
      BY <2>2, <2>3 DEF JoinRecord
    <3>2. JoinStates'
      BY <1>1, <2>2, <2>3 DEF JoinCounts, JoinStates
    <3> QED BY <1>1, <1>4, <2>2, <2>3, <2>4, <2>5, <2>6, <2>7, <3>1, <3>2 DEF JoinCounts
  <2> QED BY <1>1, <1>4, <2>2, <2>8 DEF JoinInv
<1> QED BY <1>2, <1>3, <1>4 DEF JoinThread

\* Every step of the main thread and the others.
LEMMA StepMultiJoin ==
    ASSUME IInv, MultiJoinNext PROVE IInv'
<1>1. prog = "thread_multijoin"
  BY DEF MultiJoinNext, JoinMain, CreateThread, LockToJoin, LookForDead, JoinThread, Running
<1>2. JoinInv
  BY <1>1 DEF IInv
<1>3. JoinInv' /\ prog' = prog
  BY <1>2, StepJoinMain, StepCreateThread, StepTerminate, StepSignalDeath, StepLockToJoin,
     StepLookForDead, StepJoinThread DEF MultiJoinNext
<1> QED BY <1>1, <1>3 DEF IInv, Waiters

-----------------------------------------------------------------------------
(* The sequence number server *)

\* The server starts, and its first client lets it open the FIFO.
LEMMA StepServerStarts ==
    ASSUME SeqNumInv, ServerMain \/ ServerListen PROVE SeqNumInv' /\ prog' = prog
<1>1. CASE ServerMain
  <2>1. g' = [seqNum |-> 0] /\ UNCHANGED <<prog, fs>> /\ pc' = "listen" /\ pc = "main"
    BY <1>1 DEF ServerMain, Goto
  <2> QED BY <2>1 DEF SeqNumInv, Askers
<1>2. CASE ServerListen
  <2> DEFINE s == [c \in Askers |-> IF fs.st[c] = "knock" THEN "send" ELSE fs.st[c]]
  <2>1. fs' = [fs EXCEPT !.st = s] /\ UNCHANGED <<prog, g>> /\ pc = "listen" /\ pc' = "read"
    BY <1>2 DEF ServerListen
  <2>2. s \in [Askers -> AskerStates]
    BY DEF SeqNumInv, AskerStates
  <2> HIDE DEF s
  <2>3. fs' \in [st : [Askers -> AskerStates], len : [Askers -> Nat],
                 num : [Askers -> Nat \cup {-1}], fifo : Seq(Askers)]
        /\ fs'.num = fs.num /\ fs'.len = fs.len /\ Askers' = Askers
    BY <2>1, <2>2 DEF SeqNumInv, Askers
  <2> QED BY <2>1, <2>3 DEF SeqNumInv
<1> QED BY <1>1, <1>2

\* A request is read, and its client's FIFO opened.
LEMMA StepServerReads ==
    ASSUME SeqNumInv, ServerRead \/ ServerOpen PROVE SeqNumInv' /\ prog' = prog
<1>1. CASE ServerRead
  <2>1. /\ fs.fifo # <<>> /\ v' = [req |-> Head(fs.fifo)] /\ fs' = [fs EXCEPT !.fifo = Tail(@)]
        /\ UNCHANGED <<prog, g>> /\ pc = "read" /\ pc' = "open"
    BY <1>1 DEF ServerRead
  <2>2. Head(fs.fifo) \in Askers /\ Tail(fs.fifo) \in Seq(Askers)
    BY <2>1, HeadTailProperties DEF SeqNumInv
  <2>3. fs' \in [st : [Askers -> AskerStates], len : [Askers -> Nat],
                 num : [Askers -> Nat \cup {-1}], fifo : Seq(Askers)]
        /\ fs'.num = fs.num /\ fs'.len = fs.len /\ Askers' = Askers
    BY <2>1, <2>2 DEF SeqNumInv, Askers
  <2> QED BY <2>1, <2>2, <2>3 DEF SeqNumInv
<1>2. CASE ServerOpen
  <2>1. /\ fs' = [fs EXCEPT !.st[v.req] = "read"]
        /\ UNCHANGED <<prog, g, v>> /\ pc = "open" /\ pc' = "write"
    BY <1>2 DEF ServerOpen
  <2>2. fs' \in [st : [Askers -> AskerStates], len : [Askers -> Nat],
                 num : [Askers -> Nat \cup {-1}], fifo : Seq(Askers)]
        /\ fs'.num = fs.num /\ fs'.len = fs.len /\ Askers' = Askers
    BY <2>1 DEF SeqNumInv, Askers, AskerStates
  <2> QED BY <2>1, <2>2 DEF SeqNumInv
<1> QED BY <1>1, <1>2

\* The range that is given out starts behind all others, and ends where the
\* next one will start, whether its client still lives or not.
LEMMA StepServerWrite ==
    ASSUME SeqNumInv, ServerWrite PROVE SeqNumInv' /\ prog' = prog
<1> DEFINE r == v.req
           live == fs.st[r] = "read"
<1>1. /\ UNCHANGED prog /\ pc = "write" /\ pc' = "read" /\ r \in Askers /\ g.seqNum \in Nat
      /\ fs' = [fs EXCEPT !.st[r] = IF live THEN "answered" ELSE @,
                          !.num[r] = IF live THEN g.seqNum ELSE @]
      /\ g' = [seqNum |-> g.seqNum + fs.len[r]]
  BY DEF ServerWrite, Advance, SeqNumInv
<1>2. /\ fs' \in [st : [Askers -> AskerStates], len : [Askers -> Nat],
                  num : [Askers -> Nat \cup {-1}], fifo : Seq(Askers)]
      /\ fs'.len = fs.len /\ Askers' = Askers
      /\ \A c \in Askers : fs'.num[c] = IF c = r /\ live THEN g.seqNum ELSE fs.num[c]
  <2>1. fs' = [st |-> [fs.st EXCEPT ![r] = IF live THEN "answered" ELSE @], len |-> fs.len,
               num |-> [fs.num EXCEPT ![r] = IF live THEN g.seqNum ELSE @], fifo |-> fs.fifo]
    BY <1>1 DEF SeqNumInv
  <2> HIDE DEF live, r
  <2>2. fs.st \in [Askers -> AskerStates] /\ fs.num \in [Askers -> Nat \cup {-1}]
    BY DEF SeqNumInv
  <2>3. fs'.st \in [Askers -> AskerStates]
    BY <1>1, <2>1, <2>2 DEF AskerStates
  <2>4. /\ fs'.num \in [Askers -> Nat \cup {-1}]
        /\ \A c \in Askers : fs'.num[c] = IF c = r /\ live THEN g.seqNum ELSE fs.num[c]
    BY <1>1, <2>1, <2>2
  <2>5. fs'.len = fs.len /\ fs'.fifo = fs.fifo
    BY <2>1
  <2>6. fs.len \in [Askers -> Nat] /\ fs.fifo \in Seq(Askers)
    BY DEF SeqNumInv
  <2> QED BY <2>1, <2>3, <2>4, <2>5, <2>6 DEF Askers
<1> HIDE DEF live, r
<1>3. \A c \in Askers : fs.len[c] \in Nat /\ fs.num[c] \in Int
  BY DEF SeqNumInv
<1>4. g' \in [seqNum : Nat] /\ g'.seqNum = g.seqNum + fs.len[r]
  BY <1>1, <1>3
<1>5. \A c \in Askers : fs'.num[c] >= 0 => fs'.num[c] + fs.len[c] <= g'.seqNum
  BY <1>1, <1>2, <1>3, <1>4 DEF SeqNumInv
<1>6. \A c \in Askers : fs.num[c] >= 0 => fs.num[c] + fs.len[c] <= g.seqNum
  BY DEF SeqNumInv
<1>7. \A c, d \in Askers : c # d /\ fs'.num[c] >= 0 /\ fs'.num[d] >= 0 =>
        fs'.num[c] + fs.len[c] <= fs'.num[d] \/ fs'.num[d] + fs.len[d] <= fs'.num[c]
  <2> TAKE c, d \in Askers
  <2> HAVE c # d /\ fs'.num[c] >= 0 /\ fs'.num[d] >= 0
  <2>1. CASE live /\ c = r
    <3>1. fs'.num[c] = g.seqNum /\ fs'.num[d] = fs.num[d]
      BY <1>2, <2>1
    <3>2. fs.num[d] + fs.len[d] <= g.seqNum
      BY <1>6, <3>1
    <3> QED BY <3>1, <3>2
  <2>2. CASE live /\ d = r
    <3>1. fs'.num[d] = g.seqNum /\ fs'.num[c] = fs.num[c]
      BY <1>2, <2>2
    <3>2. fs.num[c] + fs.len[c] <= g.seqNum
      BY <1>6, <3>1
    <3> QED BY <3>1, <3>2
  <2>3. CASE ~(live /\ (c = r \/ d = r))
    <3>1. fs'.num[c] = fs.num[c] /\ fs'.num[d] = fs.num[d]
      BY <1>2, <2>3
    <3> QED BY <3>1 DEF SeqNumInv
  <2> QED BY <2>1, <2>2, <2>3
<1> QED BY <1>1, <1>2, <1>4, <1>5, <1>7 DEF SeqNumInv

\* A client goes on, or is killed.
LEMMA StepAsker ==
    ASSUME SeqNumInv, NEW c \in Askers, Ask(c) \/ Killed(c) PROVE SeqNumInv' /\ prog' = prog
<1>1. UNCHANGED <<prog, g, pc, v>>
  BY DEF Ask, Killed
<1>2. CASE Ask(c)
  <2>1. PICK s \in Steps(c) :
          fs' = [fs EXCEPT !.st[c] = s, !.fifo = IF s = "open" THEN Append(@, c) ELSE @]
    BY <1>2 DEF Ask
  <2>2. s \in AskerStates
    BY DEF Steps, AskerStates, Gone
  <2>3. Append(fs.fifo, c) \in Seq(Askers)
    BY AppendProperties DEF SeqNumInv
  <2>4. fs' \in [st : [Askers -> AskerStates], len : [Askers -> Nat],
                 num : [Askers -> Nat \cup {-1}], fifo : Seq(Askers)]
        /\ fs'.num = fs.num /\ fs'.len = fs.len /\ Askers' = Askers
    BY <2>1, <2>2, <2>3 DEF SeqNumInv, Askers
  <2> QED BY <1>1, <2>4 DEF SeqNumInv
<1>3. CASE Killed(c)
  <2>1. fs' = [fs EXCEPT !.st[c] = "dead"]
    BY <1>3 DEF Killed
  <2>2. fs' \in [st : [Askers -> AskerStates], len : [Askers -> Nat],
                 num : [Askers -> Nat \cup {-1}], fifo : Seq(Askers)]
        /\ fs'.num = fs.num /\ fs'.len = fs.len /\ Askers' = Askers
    BY <2>1 DEF SeqNumInv, Askers, AskerStates, Gone
  <2> QED BY <1>1, <2>2 DEF SeqNumInv
<1> QED BY <1>2, <1>3

\* Every step of the server and its clients.
LEMMA StepSeqNum ==
    ASSUME IInv, SeqNumNext PROVE IInv'
<1>1. prog = "fifo_seqnum"
  BY DEF SeqNumNext, ServerMain, ServerListen, ServerRead, ServerOpen, ServerWrite, Serving
<1>2. SeqNumInv
  BY <1>1 DEF IInv
<1>3. SeqNumInv' /\ prog' = prog
  BY <1>2, StepServerStarts, StepServerReads, StepServerWrite, StepAsker DEF SeqNumNext
<1> QED BY <1>1, <1>3 DEF IInv, Waiters

-----------------------------------------------------------------------------
(* cp *)

\* The smaller and the greater of two.
LEMMA OfTwo ==
    ASSUME NEW m \in Int, NEW n \in Int
    PROVE  /\ Min({m, n}) = IF m <= n THEN m ELSE n
           /\ Max({m, n}) = IF m >= n THEN m ELSE n
<1>1. \E x \in {m, n} : \A y \in {m, n} : x =< y
  OBVIOUS
<1>2. \E x \in {m, n} : \A y \in {m, n} : x >= y
  OBVIOUS
<1>3. Min({m, n}) \in {m, n} /\ \A y \in {m, n} : Min({m, n}) =< y
  BY <1>1 DEF Min
<1>4. Max({m, n}) \in {m, n} /\ \A y \in {m, n} : Max({m, n}) >= y
  BY <1>2 DEF Max
<1> QED BY <1>3, <1>4

\* A part of a sequence that lies within it.
LEMMA PartOf ==
    ASSUME NEW S, NEW d \in Seq(S), NEW m \in Nat \ {0}, NEW n \in Nat, n <= Len(d)
    PROVE  /\ SubSeq(d, m, n) \in Seq(S)
           /\ Len(SubSeq(d, m, n)) = IF m <= n THEN n - m + 1 ELSE 0
           /\ \A i \in 1..(n - m + 1) : SubSeq(d, m, n)[i] = d[m + i - 1]
<1>1. \A i \in m..n : d[i] \in S
  BY ElementOfSeq, LenProperties
<1> QED BY <1>1, SubSeqProperties

\* Bytes written within data or at its end replace those that were there, and
\* make it longer if they reach beyond its end.
LEMMA OverwriteIs ==
    ASSUME NEW S, NEW d \in Seq(S), NEW b \in Seq(S), NEW at \in Nat, at <= Len(d)
    PROVE  /\ Overwrite(d, at, b) \in Seq(S)
           /\ Len(Overwrite(d, at, b))
                = IF at + Len(b) <= Len(d) THEN Len(d) ELSE at + Len(b)
           /\ \A j \in 1..at : Overwrite(d, at, b)[j] = d[j]
           /\ \A j \in 1..Len(b) : Overwrite(d, at, b)[at + j] = b[j]
<1> DEFINE front == SubSeq(d, 1, at)
           rest == SubSeq(d, at + Len(b) + 1, Len(d))
           longer == front \o b
           all == longer \o rest
<1>1. Len(d) \in Nat /\ Len(b) \in Nat
  BY LenProperties
<1>2. front \in Seq(S) /\ Len(front) = at /\ \A i \in 1..at : front[i] = d[i]
  BY <1>1, PartOf
<1>3. rest \in Seq(S) /\ Len(rest) = IF at + Len(b) <= Len(d) THEN Len(d) - at - Len(b) ELSE 0
  BY <1>1, PartOf
<1>4. Overwrite(d, at, b) = all
  BY DEF Overwrite
<1> HIDE DEF front, rest
<1>5. /\ longer \in Seq(S) /\ Len(longer) = at + Len(b)
      /\ \A i \in 1..(at + Len(b)) : longer[i] = IF i <= at THEN front[i] ELSE b[i - at]
  BY <1>2, ConcatProperties
<1> HIDE DEF longer
<1>6. /\ all \in Seq(S)
      /\ Len(all) = at + Len(b) + Len(rest)
      /\ \A i \in 1..(at + Len(b) + Len(rest)) :
           all[i] = IF i <= at + Len(b) THEN longer[i] ELSE rest[i - (at + Len(b))]
  <2>1. /\ all \in Seq(S)
        /\ Len(all) = Len(longer) + Len(rest)
        /\ \A i \in 1..(Len(longer) + Len(rest)) :
             all[i] = IF i <= Len(longer) THEN longer[i] ELSE rest[i - Len(longer)]
    BY <1>3, <1>5, ConcatProperties
  <2> QED BY <1>5, <2>1
<1> HIDE DEF all
<1>7. Len(all) = IF at + Len(b) <= Len(d) THEN Len(d) ELSE at + Len(b)
  <2> DEFINE now == Len(all)
             old == Len(d)
             more == Len(b)
             tail == Len(rest)
  <2>1. tail = IF at + more <= old THEN old - at - more ELSE 0
    BY <1>3
  <2>2. now = at + more + tail
    BY <1>6
  <2>3. old \in Nat /\ more \in Nat
    BY <1>1
  <2> HIDE DEF now, old, more, tail
  <2>4. now = IF at + more <= old THEN old ELSE at + more
    BY <2>1, <2>2, <2>3
  <2> QED BY <2>4 DEF now, old, more
<1>8. \A j \in 1..at : all[j] = d[j]
  <2> TAKE j \in 1..at
  <2>1. all[j] = longer[j]
    <3>1. Len(rest) \in Nat
      BY <1>3, LenProperties
    <3>2. j \in 1..(at + Len(b) + Len(rest)) /\ j <= at + Len(b)
      BY <1>1, <3>1
    <3> QED BY <1>6, <3>2
  <2>2. longer[j] = front[j]
    BY <1>1, <1>5
  <2> QED BY <1>2, <2>1, <2>2
<1>9. \A j \in 1..Len(b) : all[at + j] = b[j]
  <2> TAKE j \in 1..Len(b)
  <2>1. all[at + j] = longer[at + j]
    <3>1. Len(rest) \in Nat
      BY <1>3, LenProperties
    <3>2. at + j \in 1..(at + Len(b) + Len(rest)) /\ at + j <= at + Len(b)
      BY <1>1, <3>1
    <3> QED BY <1>6, <3>2
  <2>2. longer[at + j] = b[(at + j) - at] /\ (at + j) - at = j
    BY <1>1, <1>5
  <2> QED BY <2>1, <2>2
<1> QED BY <1>4, <1>6, <1>7, <1>8, <1>9

\* cp leaves without having copied anything.
LEMMA CpFail ==
    ASSUME CpInv, prog = "cp", Exit(FALSE)
    PROVE  CpInv' /\ prog' = prog
BY DEF CpInv, CpExact, Input, Bytes, Exit

\* The arguments are looked at.
LEMMA StepCpMain ==
    ASSUME CpInv, CpMain PROVE CpInv' /\ prog' = prog
<1>1. CASE Exit(FALSE)
  BY <1>1, CpFail DEF CpMain
<1>2. CASE Goto("cp_open", None) /\ UNCHANGED <<out, off, g>>
  BY <1>2 DEF CpMain, Goto, CpInv, CpExact, Input, Bytes
<1> QED BY <1>1, <1>2 DEF CpMain

\* The destination is made, or opened as it is.
LEMMA StepCpOpen ==
    ASSUME CpInv, CpOpen PROVE CpInv' /\ prog' = prog
<1>1. CASE Exit(FALSE)
  BY <1>1, CpFail DEF CpOpen
<1>2. CASE /\ fs.dst.kind = "file" /\ pc' = IF fs.yes THEN "cp_copy" ELSE "exit"
           /\ UNCHANGED <<prog, argv, fs, g, fi, off, out, ok, v>>
  <2>1. fs.dst = fs.old /\ off = 0 /\ Len(fs.src.data) \in Nat /\ Len(fs.old.data) \in Nat
    BY LenProperties DEF CpOpen, CpInv, Input
  <2> QED BY <1>2, <2>1 DEF CpInv, CpExact, Input, Bytes
<1>3. CASE /\ fs.dst.kind = "missing"
           /\ fs' = [fs EXCEPT !.dst = [kind |-> "file", data |-> <<>>]]
           /\ pc' = "cp_copy" /\ UNCHANGED <<prog, argv, g, fi, off, out, ok, v>>
  <2>1. fs.dst = fs.old /\ off = 0 /\ Len(fs.src.data) \in Nat
    BY LenProperties DEF CpOpen, CpInv, Input
  <2>2. fs' = [src |-> fs.src, dst |-> [kind |-> "file", data |-> <<>>],
               old |-> fs.old, yes |-> fs.yes, room |-> fs.room]
    BY <1>3 DEF CpInv
  <2>3. <<>> \in Seq(Bytes) /\ Len(<<>>) = 0
    BY EmptySeq
  <2>4. fs'.dst \in Input
    BY <2>2, <2>3 DEF Input
  <2>5. Bytes' = Bytes
    BY <2>2 DEF Bytes
  <2>6. fs' \in [src : Input, dst : Input, old : Input, yes : BOOLEAN, room : Int]
    BY <2>2, <2>4 DEF CpInv
  <2> QED BY <1>3, <2>1, <2>2, <2>3, <2>5, <2>6 DEF CpInv, CpExact, Input
<1> QED BY <1>1, <1>2, <1>3 DEF CpOpen

\* A buffer is copied; or all is, and the destination is the source if it was
\* not longer.
LEMMA StepCpCopy ==
    ASSUME CpInv, CpCopy PROVE CpInv' /\ prog' = prog
<1> DEFINE src == fs.src.data
           dst == fs.dst.data
           b == SubSeq(src, off + 1, Min({off + BufSize, Len(src)}))
           fits == Min({Len(b), Max({0, fs.room - off})})
<1>1. /\ src \in Seq(Bytes) /\ dst \in Seq(Bytes) /\ pc = "cp_copy" /\ prog = "cp"
      /\ Len(src) \in Nat /\ Len(dst) \in Nat /\ Len(fs.old.data) \in Nat
      /\ off \in 0..Len(src) /\ off <= Len(dst) /\ \A j \in 1..off : dst[j] = src[j]
      /\ Len(dst) <= Len(fs.old.data) \/ Len(dst) <= Len(src)
      /\ fs.old.kind = "missing" \/ fs.yes
      /\ fs.room \in Int
  BY LenProperties DEF CpCopy, CpInv, Input
<1>2. /\ b \in Seq(Bytes)
      /\ Len(b) = IF off + BufSize <= Len(src) THEN BufSize ELSE Len(src) - off
      /\ \A j \in 1..Len(b) : b[j] = src[off + j]
  <2> DEFINE to == Min({off + BufSize, Len(src)})
  <2>1. to = IF off + BufSize <= Len(src) THEN off + BufSize ELSE Len(src)
    <3>1. off + BufSize \in Int /\ Len(src) \in Int
      BY <1>1, BufAssumption
    <3> HIDE DEF src
    <3> QED BY <3>1, OfTwo
  <2>2. b = SubSeq(src, off + 1, to)
    OBVIOUS
  <2> HIDE DEF to, b, src
  <2>3. to \in Nat /\ to <= Len(src) /\ off + 1 \in Nat \ {0} /\ off <= to
    BY <1>1, <2>1, BufAssumption
  <2>4. /\ SubSeq(src, off + 1, to) \in Seq(Bytes)
        /\ Len(SubSeq(src, off + 1, to)) = IF off + 1 <= to THEN to - (off + 1) + 1 ELSE 0
        /\ \A i \in 1..(to - (off + 1) + 1) :
             SubSeq(src, off + 1, to)[i] = src[(off + 1) + i - 1]
    BY <1>1, <2>3, PartOf
  <2>5. Len(b) = to - off
    BY <1>1, <2>2, <2>3, <2>4
  <2>6. ASSUME NEW j \in 1..Len(b) PROVE b[j] = src[off + j]
    <3>1. j \in 1..(to - (off + 1) + 1) /\ (off + 1) + j - 1 = off + j
      BY <1>1, <2>3, <2>5
    <3> QED BY <2>2, <2>4, <3>1
  <2>7. Len(b) = IF off + BufSize <= Len(src) THEN BufSize ELSE Len(src) - off
    BY <1>1, <2>1, <2>5, BufAssumption
  <2>8. b \in Seq(Bytes)
    BY <2>2, <2>4
  <2> QED BY <2>6, <2>7, <2>8
<1> HIDE DEF b
<1>3. Len(b) \in Nat /\ off + Len(b) <= Len(src) /\ (b = <<>> => off = Len(src))
  <2>1. b = <<>> => Len(b) = 0
    BY <1>2, EmptySeq
  <2> HIDE DEF src, dst
  <2> QED BY <1>1, <1>2, <2>1, BufAssumption
<1>4. fits \in 0..Len(b)
  <2> DEFINE left == fs.room - off
             room == Max({0, left})
  <2>1. left \in Int
    BY <1>1
  <2>2. room = IF 0 >= left THEN 0 ELSE left
    <3> DEFINE zero == 0
    <3> HIDE DEF left, zero
    <3>1. zero \in Int
      BY DEF zero
    <3>2. Max({zero, left}) = IF zero >= left THEN zero ELSE left
      BY <2>1, <3>1, OfTwo
    <3> QED BY <3>2 DEF zero
  <2>3. room \in Nat
    BY <2>1, <2>2
  <2> HIDE DEF room
  <2>4. Min({Len(b), room}) = IF Len(b) <= room THEN Len(b) ELSE room
    BY <1>3, <2>3, OfTwo
  <2>5. Min({Len(b), room}) \in 0..Len(b)
    BY <1>3, <2>3, <2>4
  <2> QED BY <2>5 DEF room
<1> HIDE DEF fits
<1>5. CASE Exit(TRUE) /\ (fs.src.kind = "dir" \/ b = <<>>)
  <2>1. UNCHANGED <<prog, fs, off>> /\ pc' = "exit"
    BY <1>5 DEF Exit
  <2>2. fs.src.kind = "file" /\ Len(fs.old.data) <= Len(src) => dst = src
    <3> SUFFICES ASSUME fs.src.kind = "file", Len(fs.old.data) <= Len(src)
                 PROVE  dst = src
      OBVIOUS
    <3>1. b = <<>>
      BY <1>5
    <3> HIDE DEF src, dst
    <3>2. off = Len(src) /\ Len(dst) = Len(src)
      BY <1>1, <1>3, <3>1
    <3> QED BY <1>1, <3>2, SeqEqual
  <2>3. CpExact'
    BY <1>1, <2>1, <2>2 DEF CpExact
  <2>4. Bytes' = Bytes /\ Input' = Input
    BY <2>1 DEF Bytes, Input
  <2> QED BY <2>1, <2>3, <2>4 DEF CpInv
<1>6. CASE /\ fs' = [fs EXCEPT !.dst.data = Overwrite(@, off, SubSeq(b, 1, fits))]
           /\ off' = off + fits /\ UNCHANGED prog
           /\ IF fits < Len(b) THEN pc' = "exit" /\ ok' = FALSE ELSE UNCHANGED <<pc, ok>>
  <2> DEFINE w == SubSeq(b, 1, fits)
             new == Overwrite(dst, off, w)
  <2>1. w \in Seq(Bytes) /\ Len(w) = fits /\ \A j \in 1..fits : w[j] = src[off + j]
    <3>1. /\ w \in Seq(Bytes) /\ Len(w) = fits
          /\ \A j \in 1..fits : w[j] = b[j]
      BY <1>2, <1>3, <1>4, PartOf
    <3> HIDE DEF w
    <3> QED BY <1>2, <1>3, <1>4, <3>1
  <2>2. fs' = [src |-> fs.src, dst |-> [kind |-> fs.dst.kind, data |-> new],
               old |-> fs.old, yes |-> fs.yes, room |-> fs.room]
    BY <1>6 DEF CpInv, Input
  <2> HIDE DEF w
  <2>3. /\ new \in Seq(Bytes)
        /\ Len(new) = IF off + fits <= Len(dst) THEN Len(dst) ELSE off + fits
        /\ \A j \in 1..off : new[j] = dst[j]
        /\ \A j \in 1..fits : new[off + j] = w[j]
    <3>1. off \in Nat /\ off <= Len(dst) /\ dst \in Seq(Bytes)
      BY <1>1
    <3> HIDE DEF dst
    <3> QED BY <2>1, <3>1, OverwriteIs
  <2> HIDE DEF new
  <2>4. [kind |-> fs.dst.kind, data |-> new] \in Input
    BY <2>3 DEF CpInv, Input
  <2>5. Bytes' = Bytes
    BY <2>2 DEF Bytes
  <2>6. Input' = Input
    BY <2>5 DEF Input
  <2>7. fs' \in [src : Input, dst : Input, old : Input, yes : BOOLEAN, room : Int]
    BY <2>2, <2>4 DEF CpInv
  <2>8. CASE fits < Len(b)
    <3>1. CpExact'
      BY <1>6, <2>8 DEF CpExact
    <3> QED BY <1>1, <1>6, <2>6, <2>7, <2>8, <3>1 DEF CpInv
  <2>9. CASE ~(fits < Len(b))
    <3> HIDE DEF src, dst
    <3>1. /\ off' \in 0..Len(src) /\ off' <= Len(new)
          /\ Len(new) <= Len(fs.old.data) \/ Len(new) <= Len(src)
      BY <1>1, <1>3, <1>4, <1>6, <2>3, <2>9
    <3>2. \A j \in 1..off' : new[j] = src[j]
      <4> TAKE j \in 1..off'
      <4>1. CASE j <= off
        BY <1>1, <2>3, <4>1
      <4>2. CASE ~(j <= off)
        <5>1. off \in Nat /\ fits \in Nat /\ j \in Nat /\ j <= off + fits
          BY <1>1, <1>3, <1>4, <1>6
        <5>2. j - off \in 1..fits /\ off + (j - off) = j
          BY <4>2, <5>1
        <5>3. new[off + (j - off)] = w[j - off] /\ w[j - off] = src[off + (j - off)]
          BY <2>1, <2>3, <5>2
        <5> QED BY <5>2, <5>3
      <4> QED BY <4>1, <4>2
    <3> USE DEF src, dst
    <3>3. fs'.src.data = src /\ fs'.dst.data = new /\ fs'.old = fs.old /\ fs'.yes = fs.yes
      BY <2>2
    <3>4. pc' = "cp_copy"
      BY <1>1, <1>6, <2>9
    <3>5. CpExact'
      BY <3>4 DEF CpExact
    <3>6. fs'.old.kind = "missing" \/ fs'.yes
      BY <1>1, <3>3
    <3>7. /\ off' \in 0..Len(fs'.src.data) /\ off' <= Len(fs'.dst.data)
          /\ Len(fs'.dst.data) <= Len(fs'.old.data) \/ Len(fs'.dst.data) <= Len(fs'.src.data)
          /\ \A j \in 1..off' : fs'.dst.data[j] = fs'.src.data[j]
      BY <3>1, <3>2, <3>3
    <3>8. fs' \in [src : Input', dst : Input', old : Input', yes : BOOLEAN, room : Int]
      BY <2>6, <2>7
    <3> HIDE DEF src, dst
    <3> QED BY <1>6, <3>4, <3>5, <3>6, <3>7, <3>8 DEF CpInv
  <2> QED BY <2>8, <2>9
<1> QED BY <1>5, <1>6 DEF CpCopy, b, fits

\* Every step of cp.
LEMMA StepCp ==
    ASSUME IInv, CpNext PROVE IInv'
<1>1. prog = "cp"
  BY DEF CpNext, CpMain, CpOpen, CpCopy
<1>2. CpInv
  BY <1>1 DEF IInv
<1>3. CpInv' /\ prog' = prog
  BY <1>2, StepCpMain, StepCpOpen, StepCpCopy DEF CpNext
<1> QED BY <1>1, <1>3 DEF IInv, Waiters

-----------------------------------------------------------------------------
(* pwd *)

\* The path of names has a slash and a name for each of them.
LEMMA PathIs ==
    ASSUME NEW S, NEW names \in Seq(S)
    PROVE  /\ Path(names) \in Seq(S \cup {"/"}) /\ Len(Path(names)) = 2 * Len(names)
           /\ \A i \in 1..Len(names) : /\ Path(names)[2 * i - 1] = "/"
                                       /\ Path(names)[2 * i] = names[i]
<1> DEFINE n == Len(names)
<1>1. n \in Nat /\ \A i \in 1..n : names[i] \in S
  BY LenProperties, ElementOfSeq
<1>2. Path(names) = [i \in 1..(2 * n) |-> IF i % 2 = 1 THEN "/" ELSE names[i \div 2]]
  BY DEF Path
<1> HIDE DEF n
<1>3. \A i \in 1..(2 * n) : i % 2 # 1 => i \div 2 \in 1..n
  BY <1>1
<1>4. Path(names) \in [1..(2 * n) -> S \cup {"/"}] /\ 2 * n \in Nat
  BY <1>1, <1>2, <1>3
<1>5. Path(names) \in Seq(S \cup {"/"})
  BY <1>4, SeqDef
<1>6. Len(Path(names)) = 2 * n
  <2>1. DOMAIN Path(names) = 1..Len(Path(names)) /\ Len(Path(names)) \in Nat
    BY <1>5, LenProperties
  <2>2. DOMAIN Path(names) = 1..(2 * n)
    BY <1>4
  <2> HIDE DEF Path
  <2> QED BY <1>4, <2>1, <2>2
<1>7. ASSUME NEW i \in 1..n PROVE Path(names)[2 * i - 1] = "/" /\ Path(names)[2 * i] = names[i]
  <2>1. /\ 2 * i - 1 \in 1..(2 * n) /\ (2 * i - 1) % 2 = 1
        /\ 2 * i \in 1..(2 * n) /\ (2 * i) % 2 = 0 /\ (2 * i) \div 2 = i
    BY <1>1
  <2> QED BY <1>2, <2>1
<1> QED BY <1>5, <1>6, <1>7 DEF n

\* pwd is at the root already, or begins to climb.
LEMMA StepPwdMain ==
    ASSUME PwdInv, PwdMain PROVE PwdInv' /\ prog' = prog
<1> DEFINE dirs == DOMAIN fs.parent
<1>1. /\ fs.parent \in [dirs -> dirs] /\ fs.cwd \in dirs /\ DOMAIN fs.ino = dirs /\ pc = "main"
      /\ out = <<>>
  BY DEF PwdMain, PwdInv
<1>2. CASE Exit(FALSE)
  BY <1>1, <1>2 DEF Exit, PwdInv, PwdExact
<1>3. CASE /\ fs.ino[fs.cwd] = fs.ino[fs.parent[fs.cwd]] /\ out' = <<"/">> /\ pc' = "exit"
           /\ UNCHANGED <<prog, argv, fs, g, fi, off, ok, v>>
  <2>1. Distinct => fs.parent[fs.cwd] = fs.cwd
    BY <1>1, <1>3 DEF Distinct
  <2>2. PwdExact'
    BY <1>3, <2>1 DEF PwdExact, Distinct
  <2> QED BY <1>1, <1>3, <2>2 DEF PwdInv
<1>4. CASE /\ fs.ino[fs.cwd] # fs.ino[fs.parent[fs.cwd]]
           /\ Goto("do_pwd", [this |-> fs.ino[fs.cwd], at |-> fs.cwd, names |-> <<>>])
           /\ UNCHANGED <<g, out, off>>
  <2>1. /\ UNCHANGED <<prog, fs, out>> /\ pc' = "do_pwd"
        /\ v' = [this |-> fs.ino[fs.cwd], at |-> fs.cwd, names |-> <<>>]
    BY <1>4 DEF Goto
  <2>2. <<>> \in Seq(dirs) /\ Len(<<>>) = 0
    BY EmptySeq
  <2>3. fs.parent[fs.cwd] # fs.cwd
    BY <1>4
  <2>4. PwdExact'
    BY <2>1 DEF PwdExact
  <2> QED BY <1>1, <2>1, <2>2, <2>3, <2>4 DEF PwdInv
<1> QED BY <1>2, <1>3, <1>4 DEF PwdMain

\* What a level changes: pwd goes to the parent, with a name if there is one.
LEMMA DoPwdIs ==
    ASSUME DoPwd
    PROVE  /\ prog = "pwd" /\ pc = "do_pwd" /\ fs.ino[fs.parent[v.at]] # v.this
           /\ UNCHANGED <<prog, fs, out, pc>>
           /\ \A n : Entries(fs.parent[v.at], v.this) = {n} =>
                v' = [this |-> fs.ino[fs.parent[v.at]], at |-> fs.parent[v.at],
                      names |-> <<n>> \o v.names]
<1> DEFINE found == Entries(fs.parent[v.at], v.this)
           entries == IF found = {} THEN {""} ELSE found
<1>1. ASSUME found # {} PROVE entries = found
  <2> HIDE DEF found
  <2> QED BY Zenon, <1>1
<1>2. PICK name \in entries :
        v' = [this |-> fs.ino[fs.parent[v.at]], at |-> fs.parent[v.at],
              names |-> <<name>> \o v.names]
  BY Zenon DEF DoPwd
<1>3. /\ prog = "pwd" /\ pc = "do_pwd" /\ fs.ino[fs.parent[v.at]] # v.this
      /\ UNCHANGED <<prog, fs, out, pc>>
  BY Zenon DEF DoPwd
<1> HIDE DEF found, entries
<1>4. \A n : found = {n} => name = n
  BY <1>1
<1>5. \A n : found = {n} =>
        v' = [this |-> fs.ino[fs.parent[v.at]], at |-> fs.parent[v.at], names |-> <<n>> \o v.names]
  BY <1>2, <1>4
<1> QED BY <1>3, <1>5 DEF found

\* One level up: where inode numbers differ, the entry that is found is that
\* of the directory pwd comes from.
LEMMA StepDoPwd ==
    ASSUME PwdInv, DoPwd PROVE PwdInv' /\ prog' = prog
<1> DEFINE dirs == DOMAIN fs.parent
           up == fs.parent[v.at]
<1>1. /\ fs.parent \in [dirs -> dirs] /\ fs.cwd \in dirs /\ DOMAIN fs.ino = dirs
      /\ pc = "do_pwd" /\ out = <<>>
      /\ UNCHANGED <<prog, fs, out, pc>>
  BY DoPwdIs DEF PwdInv
<1>2. PwdExact' /\ Distinct' = Distinct
  BY <1>1 DEF PwdExact, Distinct
<1>3. ASSUME Distinct
      PROVE  /\ v'.at \in dirs /\ v'.this = fs.ino[v'.at] /\ v'.names \in Seq(dirs)
             /\ fs.parent[fs.cwd] # fs.cwd
             /\ v'.names # <<>>
             /\ fs.parent[v'.names[1]] = v'.at /\ v'.names[Len(v'.names)] = fs.cwd
             /\ \A j \in 2..Len(v'.names) : fs.parent[v'.names[j]] = v'.names[j - 1]
  <2>1. /\ v.at \in dirs /\ v.this = fs.ino[v.at] /\ v.names \in Seq(dirs)
        /\ fs.parent[fs.cwd] # fs.cwd
        /\ v.names = <<>> => v.at = fs.cwd
        /\ v.names # <<>> => fs.parent[v.names[1]] = v.at /\ v.names[Len(v.names)] = fs.cwd
        /\ \A j \in 2..Len(v.names) : fs.parent[v.names[j]] = v.names[j - 1]
    BY <1>1, <1>3 DEF PwdInv
  <2>2. fs.ino[up] # v.this /\ up \in dirs
    BY <1>1, <2>1, DoPwdIs
  <2>3. Entries(up, v.this) = {v.at}
    <3>1. v.at \in Entries(up, v.this)
      BY <1>3, <2>1, <2>2 DEF Entries, Distinct
    <3>2. \A n \in Entries(up, v.this) : n = v.at
      BY <1>1, <1>3, <2>1 DEF Entries, Distinct
    <3> QED BY <3>1, <3>2
  <2>4. v' = [this |-> fs.ino[up], at |-> up, names |-> <<v.at>> \o v.names]
    BY <2>3, DoPwdIs
  <2>5. Len(v.names) \in Nat
    BY <2>1, LenProperties
  <2> DEFINE at == v.at
             one == <<at>>
             more == v.names
             names == one \o more
  <2> HIDE DEF one, more
  <2>6. names \in Seq(dirs) /\ Len(names) = 1 + Len(more)
        /\ \A i \in 1..(1 + Len(more)) : names[i] = IF i <= 1 THEN one[i] ELSE more[i - 1]
    <3>1. one \in Seq(dirs) /\ Len(one) = 1 /\ more \in Seq(dirs)
      <4>1. at \in dirs /\ more \in Seq(dirs)
        BY <2>1 DEF more
      <4> HIDE DEF at, dirs
      <4>2. one \in Seq(dirs) /\ Len(one) = 1
        BY <4>1 DEF one
      <4> QED BY <4>1, <4>2
    <3>2. /\ names \in Seq(dirs) /\ Len(names) = Len(one) + Len(more)
          /\ \A i \in 1..(Len(one) + Len(more)) :
               names[i] = IF i <= Len(one) THEN one[i] ELSE more[i - Len(one)]
      BY <3>1, ConcatProperties
    <3> QED BY <3>1, <3>2
  <2> HIDE DEF names
  <2>7. names[1] = at /\ \A i \in 1..Len(more) : names[i + 1] = more[i]
    <3>1. one[1] = at /\ Len(more) \in Nat
      BY <2>5 DEF one, more
    <3>2. names[1] = at
      BY <2>6, <3>1
    <3>3. ASSUME NEW i \in 1..Len(more) PROVE names[i + 1] = more[i]
      <4>1. i + 1 \in 1..(1 + Len(more)) /\ ~(i + 1 <= 1) /\ (i + 1) - 1 = i
        BY <3>1
      <4>2. names[i + 1] = more[(i + 1) - 1]
        BY <2>6, <4>1
      <4> QED BY <4>1, <4>2
    <3> QED BY <3>2, <3>3
  <2>8. v'.names = names /\ v'.at = up /\ v'.this = fs.ino[up]
    BY <2>4 DEF names, one, more
  <2>9. names # <<>>
    BY <2>5, <2>6, EmptySeq DEF more
  <2>10. names[Len(names)] = fs.cwd
    <3>1. CASE more = <<>>
      <4>1. Len(names) = 1 /\ at = fs.cwd
        BY <2>1, <2>6, <3>1, EmptySeq DEF more
      <4> QED BY <2>7, <4>1
    <3>2. CASE more # <<>>
      <4>1. Len(more) \in 1..Len(more) /\ Len(names) = Len(more) + 1
        BY <2>1, <2>5, <2>6, <3>2, EmptySeq DEF more
      <4>2. more[Len(more)] = fs.cwd
        BY <2>1, <3>2 DEF more
      <4> QED BY <2>7, <4>1, <4>2
    <3> QED BY <3>1, <3>2
  <2>11. ASSUME NEW j \in 2..Len(names) PROVE fs.parent[names[j]] = names[j - 1]
    <3>1. /\ Len(more) \in Nat /\ j - 1 \in 1..Len(more) /\ (j - 1) + 1 = j
          /\ j # 2 => j - 2 \in 1..Len(more) /\ (j - 2) + 1 = j - 1 /\ (j - 1) - 1 = j - 2
          /\ j # 2 => j - 1 \in 2..Len(more)
          /\ j = 2 => j - 1 = 1
      BY <2>5, <2>6 DEF more
    <3>2. names[j] = more[j - 1]
      BY <2>7, <3>1
    <3>3. CASE j = 2
      <4>1. more # <<>>
        BY <3>1, EmptySeq
      <4>2. fs.parent[more[1]] = at
        BY <2>1, <4>1 DEF more
      <4> QED BY <2>7, <3>1, <3>2, <3>3, <4>2
    <3>4. CASE j # 2
      <4>1. names[j - 1] = more[j - 2]
        BY <2>7, <3>1, <3>4
      <4>2. fs.parent[more[j - 1]] = more[(j - 1) - 1]
        BY <2>1, <3>1, <3>4 DEF more
      <4> QED BY <3>1, <3>2, <3>4, <4>1, <4>2
    <3> QED BY <3>3, <3>4
  <2>12. fs.parent[names[1]] = up
    BY <2>7
  <2> QED BY <2>1, <2>2, <2>6, <2>8, <2>9, <2>10, <2>11, <2>12
<1> HIDE DEF up
<1> QED BY <1>1, <1>2, <1>3 DEF PwdInv

\* The root is reached, and the names are printed.
LEMMA StepPwdPrint ==
    ASSUME PwdInv, PwdPrint PROVE PwdInv' /\ prog' = prog
<1> DEFINE dirs == DOMAIN fs.parent
           n == Len(v.names)
           path == Path(v.names)
<1>1. /\ fs.parent \in [dirs -> dirs] /\ fs.cwd \in dirs /\ DOMAIN fs.ino = dirs
      /\ pc = "do_pwd" /\ out = <<>> /\ pc' = "exit" /\ UNCHANGED <<prog, fs, ok>>
      /\ out' = <<>> \o path /\ fs.ino[fs.parent[v.at]] = v.this
  BY DEF PwdPrint, PwdInv
<1>2. ASSUME Distinct
      PROVE  /\ fs.parent[fs.cwd] # fs.cwd
             /\ out' # <<>> /\ Len(out') % 2 = 0 /\ Last(out') = fs.cwd
             /\ \A i \in 1..(Len(out') \div 2) :
                  /\ out'[2 * i - 1] = "/"
                  /\ IF i = 1 THEN fs.parent[fs.parent[out'[2 * i]]] = fs.parent[out'[2 * i]]
                     ELSE fs.parent[out'[2 * i]] = out'[2 * i - 2]
  <2>1. /\ v.at \in dirs /\ v.this = fs.ino[v.at] /\ v.names \in Seq(dirs)
        /\ fs.parent[fs.cwd] # fs.cwd
        /\ v.names = <<>> => v.at = fs.cwd
        /\ v.names # <<>> => fs.parent[v.names[1]] = v.at /\ v.names[n] = fs.cwd
        /\ \A j \in 2..n : fs.parent[v.names[j]] = v.names[j - 1]
    BY <1>1, <1>2 DEF PwdInv
  <2>2. fs.parent[v.at] = v.at
    BY <1>1, <1>2, <2>1 DEF Distinct
  <2>3. v.names # <<>> /\ n \in Nat \ {0}
    BY <2>1, <2>2, EmptySeq
  <2>4. /\ path \in Seq(dirs \cup {"/"}) /\ Len(path) = 2 * n
        /\ \A i \in 1..n : path[2 * i - 1] = "/" /\ path[2 * i] = v.names[i]
    BY <2>1, PathIs
  <2> HIDE DEF path, dirs
  <2>5. out' = path
    BY <1>1, <2>4, ConcatEmptySeq
  <2>6. out' # <<>> /\ Len(out') % 2 = 0 /\ Len(out') \div 2 = n
    <3>1. Len(out') = 2 * n
      BY <2>4, <2>5
    <3>2. out' = <<>> => Len(out') = 0
      BY EmptySeq
    <3> HIDE DEF n
    <3> QED BY <2>3, <3>1, <3>2
  <2>7. Last(out') = fs.cwd
    <3>1. out'[Len(out')] = path[2 * n] /\ n \in 1..n
      BY <2>3, <2>4, <2>5
    <3>2. path[2 * n] = v.names[n]
      BY <2>4, <3>1
    <3> QED BY <2>1, <2>3, <3>1, <3>2 DEF Last
  <2>8. ASSUME NEW i \in 1..n
        PROVE  /\ path[2 * i - 1] = "/"
               /\ IF i = 1 THEN fs.parent[fs.parent[path[2 * i]]] = fs.parent[path[2 * i]]
                  ELSE fs.parent[path[2 * i]] = path[2 * i - 2]
    <3>1. path[2 * i - 1] = "/" /\ path[2 * i] = v.names[i]
      BY <2>4
    <3>2. CASE i = 1
      BY <2>1, <2>2, <2>3, <3>1, <3>2
    <3>3. CASE i # 1
      <4>1. i \in 2..n /\ i - 1 \in 1..n /\ 2 * (i - 1) = 2 * i - 2
        BY <2>3, <3>3
      <4>2. path[2 * (i - 1)] = v.names[i - 1]
        BY <2>4, <4>1
      <4>3. fs.parent[v.names[i]] = v.names[i - 1]
        BY <2>1, <4>1
      <4> QED BY <3>1, <3>3, <4>1, <4>2, <4>3
    <3> QED BY <3>2, <3>3
  <2> QED BY <2>1, <2>5, <2>6, <2>7, <2>8
<1>3. PwdExact'
  <2>1. PwdExact' <=> (prog = "pwd" /\ ok /\ Distinct =>
          IF fs.parent[fs.cwd] = fs.cwd THEN out' = <<"/">>
          ELSE /\ out' # <<>> /\ Len(out') % 2 = 0 /\ Last(out') = fs.cwd
               /\ \A i \in 1..(Len(out') \div 2) :
                    LET above == fs.parent[out'[2 * i]] IN
                    /\ out'[2 * i - 1] = "/"
                    /\ IF i = 1 THEN fs.parent[above] = above ELSE above = out'[2 * i - 2])
    BY <1>1 DEF PwdExact, Distinct
  <2> HIDE DEF path, dirs, n
  <2> QED BY <1>2, <2>1
<1> QED BY <1>1, <1>3 DEF PwdInv

\* Every step of pwd.
LEMMA StepPwd ==
    ASSUME IInv, PwdNext PROVE IInv'
<1>1. prog = "pwd"
  BY DoPwdIs DEF PwdNext, PwdMain, PwdPrint
<1>2. PwdInv
  BY <1>1 DEF IInv
<1>3. PwdInv' /\ prog' = prog
  BY <1>2, StepPwdMain, StepDoPwd, StepPwdPrint DEF PwdNext
<1> QED BY <1>1, <1>3 DEF IInv, Waiters

-----------------------------------------------------------------------------
(* All programs *)

\* Parents start without children.
LEMMA InitWaiters ==
    ASSUME NEW c, prog = c.prog, argv = c.argv, fs = c.fs, pc = "main", prog \in Waiters,
           LET kids == IF c.prog = "fork_sig_sync" THEN 1 ELSE Len(c.argv) IN
             kids \in Nat /\ c.fs = [child |-> [k \in 1..kids |-> "none"], pending |-> FALSE]
    PROVE  WaitersInv
<1>1. NumKids \in Nat /\ fs = [child |-> [k \in 1..NumKids |-> "none"], pending |-> FALSE]
  BY DEF NumKids
<1> HIDE DEF NumKids
<1>2. fs \in [child : [1..NumKids -> ChildStates], pending : BOOLEAN]
  BY <1>1 DEF ChildStates
<1>3. InState("reaped") = {}
  BY <1>1 DEF InState
<1> QED BY <1>1, <1>2, <1>3 DEF WaitersInv

\* The threads of thread_multijoin are not created yet.
LEMMA InitJoin ==
    ASSUME NEW c, argv = c.argv, fs = c.fs, pc = "main",
           Len(c.argv) \in Nat, c.fs = [thread |-> [t \in 1..Len(c.argv) |-> "none"]]
    PROVE  JoinInv
<1>1. fs \in [thread : [1..Len(argv) -> ThreadStates]]
  BY DEF ThreadStates
<1>2. \A t \in Threads : fs.thread[t] = "none"
  BY DEF Threads
<1> QED BY <1>1, <1>2 DEF JoinInv

\* No number is given out yet.
LEMMA InitSeqNum ==
    ASSUME NEW c, fs = c.fs, pc = "main",
           LET askers == DOMAIN c.fs.len IN
             /\ c.fs.len \in [askers -> Nat]
             /\ c.fs = [st |-> [a \in askers |-> "start"], len |-> c.fs.len,
                        num |-> [a \in askers |-> -1], fifo |-> <<>>]
    PROVE  SeqNumInv
<1>1. /\ fs.len \in [Askers -> Nat]
      /\ fs = [st |-> [a \in Askers |-> "start"], len |-> fs.len,
               num |-> [a \in Askers |-> -1], fifo |-> <<>>]
  BY DEF Askers
<1>2. <<>> \in Seq(Askers)
  BY EmptySeq
<1>3. /\ [a \in Askers |-> "start"] \in [Askers -> AskerStates]
      /\ [a \in Askers |-> -1] \in [Askers -> Nat \cup {-1}]
  BY DEF AskerStates
<1>4. fs \in [st : [Askers -> AskerStates], len : [Askers -> Nat],
              num : [Askers -> Nat \cup {-1}], fifo : Seq(Askers)]
  <2> DEFINE st == [a \in Askers |-> "start"]
             len == fs.len
             num == [a \in Askers |-> -1]
  <2>1. fs = [st |-> st, len |-> len, num |-> num, fifo |-> <<>>]
    BY <1>1
  <2>2. /\ st \in [Askers -> AskerStates] /\ len \in [Askers -> Nat]
        /\ num \in [Askers -> Nat \cup {-1}]
    BY <1>1, <1>3
  <2> HIDE DEF st, len, num
  <2> QED BY <1>2, <2>1, <2>2
<1>5. \A a \in Askers : fs.num[a] = -1
  BY <1>1
<1> QED BY <1>4, <1>5 DEF SeqNumInv

\* The invariant holds initially.
LEMMA InitIInv == ASSUME Init PROVE IInv
<1>1. PICK i \in DOMAIN Cases : \E c \in Cases[i] :
        /\ prog = c.prog /\ argv = c.argv /\ fs = c.fs
        /\ pc = "main" /\ g = None /\ v = None
        /\ fi = 1 /\ off = 0 /\ out = <<>> /\ ok = TRUE
  BY DEF Init
<1>2. PICK c \in Cases[i] :
        prog = c.prog /\ argv = c.argv /\ fs = c.fs /\ pc = "main" /\ off = 0 /\ out = <<>>
  BY <1>1
<1>3. prog \in Waiters => WaitersInv
  BY <1>2, CasesAssumption, InitWaiters
<1>4. prog = "thread_multijoin" => JoinInv
  BY <1>2, CasesAssumption, InitJoin
<1>5. prog = "fifo_seqnum" => SeqNumInv
  BY <1>2, CasesAssumption, InitSeqNum
<1>6. prog = "cp" => CpInv
  <2> HAVE prog = "cp"
  <2>1. fs \in [src : Input, dst : Input, old : Input, yes : BOOLEAN, room : Int] /\ fs.dst = fs.old
    BY <1>2, CasesAssumption DEF Input, Bytes
  <2> QED BY <1>2, <2>1 DEF CpInv, CpExact
<1>7. prog = "pwd" => PwdInv
  <2> HAVE prog = "pwd"
  <2>1. /\ fs.parent \in [DOMAIN fs.parent -> DOMAIN fs.parent] /\ fs.cwd \in DOMAIN fs.parent
        /\ DOMAIN fs.ino = DOMAIN fs.parent
    BY <1>2, CasesAssumption
  <2> QED BY <1>2, <2>1 DEF PwdInv, PwdExact
<1> QED BY <1>3, <1>4, <1>5, <1>6, <1>7 DEF IInv

\* No step breaks it.
LEMMA NextIInv == ASSUME IInv, [Next]_vars PROVE IInv'
<1>1. CASE UNCHANGED vars
  <2>1. (WaitersInv => WaitersInv') /\ (JoinInv => JoinInv')
    BY <1>1 DEF vars, WaitersInv, NumKids, InState, JoinInv, JoinCounts, JoinRecord, JoinStates,
                Those, Threads
  <2>2. (SeqNumInv => SeqNumInv') /\ (CpInv => CpInv') /\ (PwdInv => PwdInv')
    BY <1>1 DEF vars, SeqNumInv, Askers, CpInv, CpExact, Input, Bytes, PwdInv, PwdExact, Distinct
  <2> QED BY <1>1, <2>1, <2>2 DEF IInv, vars
<1>2. CASE HeadNext \/ TailNext \/ CatNext \/ OdNext \/ ChmodNext \/ ChownNext
  BY <1>2, StepHead, StepTail, StepCat, StepOd, StepChmod, StepChown, OtherPrograms
<1>3. CASE CpNext \/ PwdNext \/ ChildSyncNext \/ MultiJoinNext \/ SeqNumNext
  BY <1>3, StepCp, StepPwd, StepWaiters, StepMultiJoin, StepSeqNum
<1> QED BY <1>1, <1>2, <1>3 DEF Next, Exited

\* What the parents, thread_multijoin, the sequence number server, cp and pwd
\* keep as they run, however the others they run with do.
THEOREM CommandsInvariant == Spec => []IInv
<1>1. Init => IInv
  BY InitIInv
<1>2. IInv /\ [Next]_vars => IInv'
  BY NextIInv
<1> QED BY <1>1, <1>2, PTL DEF Spec

\* The counts of children, threads and numbers are exact: for any number of
\* children, threads and clients nobody goes on too early, no thread is joined
\* twice and no number is given out twice.
THEOREM WaitersAccounted == Spec => []Accounted
<1>1. ASSUME IInv PROVE Accounted
  <2>1. ASSUME prog \in Waiters, pc = "exit", ok
        PROVE  /\ InState("none") \cup InState("run") = {}
               /\ prog = "multi_SIGCHLD" => InState("zombie") = {}
    BY <1>1, <2>1 DEF IInv, WaitersInv
  <2>2. ASSUME prog = "thread_multijoin", pc \notin {"main", "create"}, ok
        PROVE  /\ g.numUnjoined = Cardinality(Those("TS_TERMINATED"))
               /\ g.numLive = Cardinality(Threads \ Those("TS_JOINED"))
               /\ Those("TS_JOINED") = {t \in Threads : fs.thread[t] = "joined"}
               /\ pc = "exit" => Those("TS_JOINED") = Threads
    <3>1. JoinInv /\ JoinCounts
      BY <1>1, <2>2 DEF IInv, JoinInv
    <3>2. Those("TS_JOINED") = {t \in Threads : fs.thread[t] = "joined"}
      BY <3>1 DEF JoinCounts, JoinStates, Those
    <3> QED BY <2>2, <3>1, <3>2 DEF JoinInv, JoinCounts
  <2>3. ASSUME prog = "fifo_seqnum"
        PROVE  \A c, d \in {e \in Askers : fs.num[e] >= 0} :
                 c # d => fs.num[c] + fs.len[c] <= fs.num[d] \/ fs.num[d] + fs.len[d] <= fs.num[c]
    BY <1>1, <2>3 DEF IInv, SeqNumInv
  <2> QED BY <2>1, <2>2, <2>3 DEF Accounted, Those
<1> QED BY <1>1, CommandsInvariant, PTL

\* cp leaves the destination with the contents of the source, for files and
\* buffers of any size.
THEOREM CpCopies == Spec => []CpExact
<1>1. IInv => CpExact
  BY DEF IInv, CpInv, CpExact
<1> QED BY <1>1, CommandsInvariant, PTL

\* pwd prints the way from the root to the current directory, at any depth.
THEOREM PwdPrintsPath == Spec => []PwdExact
<1>1. IInv => PwdExact
  BY DEF IInv, PwdInv, PwdExact
<1> QED BY <1>1, CommandsInvariant, PTL
-----------------------------------------------------------------------------
(* The steps of each program *)

\* A step is one of the program that was started.
Step(names, A) == A => prog \in names /\ prog' = prog
LEMMA OwnSteps ==
    /\ Step({"cp"}, CpNext) /\ Step({"pwd"}, PwdNext) /\ Step(Waiters, ChildSyncNext)
    /\ Step({"thread_multijoin"}, MultiJoinNext) /\ Step({"fifo_seqnum"}, SeqNumNext)
    /\ Step({"head"}, HeadNext) /\ Step({"tail"}, TailNext) /\ Step({"cat"}, CatNext)
    /\ Step({"od"}, OdNext) /\ Step({"chmod"}, ChmodNext) /\ Step({"chown"}, ChownNext)
<1>1. Step({"cp"}, CpNext)
  BY DEF Step, CpNext, CpMain, CpOpen, CpCopy, Exit, Goto
<1>2. Step({"pwd"}, PwdNext)
  BY DoPwdIs DEF Step, PwdNext, PwdMain, PwdPrint, Exit, Goto
<1>3. Step(Waiters, ChildSyncNext)
  BY DEF Step, ChildSyncNext, WaiterMain, Fork, ReadPipe, SuspendOnce, Suspend, SigchldHandler,
         ChildEnds, Waiters, Exit, Goto
<1>4. Step({"thread_multijoin"}, MultiJoinNext)
  BY DEF Step, MultiJoinNext, JoinMain, CreateThread, LockToJoin, LookForDead, JoinThread, Running,
         Terminate, SignalDeath, Exit, Goto
<1>5. Step({"fifo_seqnum"}, SeqNumNext)
  BY DEF Step, SeqNumNext, ServerMain, ServerListen, ServerRead, ServerOpen, ServerWrite, Serving,
         Ask, Killed, Goto
<1> QED BY <1>1, <1>2, <1>3, <1>4, <1>5, StepHead, StepTail, StepCat, StepOd, StepChmod, StepChown
        DEF Step
-----------------------------------------------------------------------------
(* Recursion over numbers and sequences *)

\* A set of naturals has a least element.
LEMMA Least ==
    ASSUME NEW S, S \subseteq Nat, S # {}
    PROVE  \E x \in S : \A y \in S : x <= y
<1> DEFINE R == OpToRel(<, Nat)
<1>1. \E x \in S : \A y \in S : ~(<<y, x>> \in R)
  <2>1. IsWellFoundedOn(R, Nat)
    BY NatLessThanWellFounded
  <2> HIDE DEF R
  <2> QED BY <2>1, WFMin
<1>2. ASSUME NEW x \in Nat, NEW y \in Nat, y < x PROVE <<y, x>> \in R
  BY <1>2 DEF OpToRel
<1> HIDE DEF R
<1>3. PICK x \in S : \A y \in S : ~(<<y, x>> \in R)
  BY <1>1
<1>4. \A y \in S : ~(y < x)
  BY <1>2, <1>3
<1> QED BY <1>4

\* What holds of 0 and, if of k, of k + 1 too, holds up to n.
LEMMA UpTo ==
    ASSUME NEW n \in Nat, NEW S, 0 \in S, \A k \in 0..(n - 1) : k \in S => k + 1 \in S
    PROVE  \A k \in 0..n : k \in S
<1> DEFINE bad == {k \in 0..n : k \notin S}
<1>1. CASE bad = {}
  BY <1>1
<1>2. CASE bad # {}
  <2>1. PICK k \in bad : \A y \in bad : k <= y
    <3>1. bad \subseteq Nat
      OBVIOUS
    <3> HIDE DEF bad
    <3> QED BY <1>2, <3>1, Least
  <2>2. k \in 0..n /\ k \notin S /\ k # 0
    BY <2>1
  <2>3. k - 1 \in 0..(n - 1) /\ k - 1 \notin bad
    BY <2>1, <2>2
  <2>4. k - 1 \in S
    BY <2>3
  <2>5. (k - 1) + 1 \in S
    BY <2>3, <2>4
  <2> QED BY <2>2, <2>5
<1> QED BY <1>1, <1>2

\* The largest of the first k numbers, and those before it.
LEMMA MaxOfFirst ==
    ASSUME NEW k \in Nat \ {0}
    PROVE  Max(1..k) = k /\ (1..k) \ {k} = 1..(k - 1)
<1>1. \E x \in 1..k : \A y \in 1..k : x >= y
  OBVIOUS
<1>2. Max(1..k) \in 1..k /\ \A y \in 1..k : Max(1..k) >= y
  BY <1>1 DEF Max
<1> QED BY <1>2

\* A finite set of numbers that is not empty has a largest one.
LEMMA MaxIs ==
    ASSUME NEW n \in Nat, NEW S, S \subseteq 1..n, S # {}
    PROVE  Max(S) \in S /\ \A y \in S : y <= Max(S)
<1> DEFINE above == {n - x : x \in S}
<1>1. above \subseteq Nat /\ above # {}
  <2>1. \A x \in S : x \in 1..n
    OBVIOUS
  <2>2. \A x \in S : n - x \in Nat
    BY <2>1
  <2> QED BY <2>2
<1>2. PICK z \in above : \A y \in above : z <= y
  <2> HIDE DEF above
  <2> QED BY <1>1, Least
<1>3. PICK x \in S : z = n - x
  BY <1>2
<1>4. \A y \in S : x >= y
  <2> TAKE y \in S
  <2>1. n - y \in above
    OBVIOUS
  <2>2. n - x <= n - y /\ x \in 1..n /\ y \in 1..n
    BY <1>2, <1>3, <2>1
  <2> QED BY <2>2
<1>5. Max(S) \in S /\ \A y \in S : Max(S) >= y
  BY <1>3, <1>4 DEF Max
<1> QED BY <1>5

\* A function on sets of numbers that takes the largest one last, where it can.
Folding(f, T, b, n, step) ==
    /\ f[{}] = b
    /\ \A d \in SUBSET (1..n) : d # {} /\ f[d \ {Max(d)}] \in T =>
         f[d] = step[<<f[d \ {Max(d)}], Max(d)>>]

\* There is one.
LEMMA FoldExists ==
    ASSUME NEW T, NEW b \in T, NEW n \in Nat, NEW step \in [T \X (1..n) -> T]
    PROVE  \E f \in [SUBSET (1..n) -> T] : Folding(f, T, b, n, step)
<1> DEFINE Ok(m) == \E f \in [SUBSET (1..m) -> T] :
             \A d \in SUBSET (1..m) : f[d] = IF d = {} THEN b ELSE step[<<f[d \ {Max(d)}], Max(d)>>]
           good == {m \in 0..n : Ok(m)}
<1>1. 0 \in good
  <2> DEFINE f == [d \in SUBSET (1..0) |-> b]
  <2>1. f \in [SUBSET (1..0) -> T] /\ \A d \in SUBSET (1..0) : d = {} /\ f[d] = b
    OBVIOUS
  <2> HIDE DEF f
  <2>2. Ok(0)
    BY <2>1
  <2> HIDE DEF Ok
  <2> QED BY <2>2
<1>2. ASSUME NEW m \in 0..(n - 1), m \in good PROVE m + 1 \in good
  <2>1. PICK f \in [SUBSET (1..m) -> T] :
          \A d \in SUBSET (1..m) : f[d] = IF d = {} THEN b ELSE step[<<f[d \ {Max(d)}], Max(d)>>]
    BY <1>2
  <2> DEFINE l == m + 1
             longer == [d \in SUBSET (1..l) |-> IF l \in d THEN step[<<f[d \ {l}], l>>] ELSE f[d]]
  <2>2. \A d \in SUBSET (1..l) : l \notin d => d \in SUBSET (1..m)
    OBVIOUS
  <2>3. \A d \in SUBSET (1..l) : d \ {l} \in SUBSET (1..m)
    OBVIOUS
  <2>4. \A d \in SUBSET (1..m) : f[d] \in T
    OBVIOUS
  <2>5. l \in 1..n
    OBVIOUS
  <2> HIDE DEF l
  <2>6. longer \in [SUBSET (1..l) -> T]
    <3> SUFFICES ASSUME NEW d \in SUBSET (1..l)
                 PROVE  (IF l \in d THEN step[<<f[d \ {l}], l>>] ELSE f[d]) \in T
      OBVIOUS
    <3>1. f[d \ {l}] \in T
      BY <2>3, <2>4
    <3>2. step[<<f[d \ {l}], l>>] \in T
      BY <2>5, <3>1
    <3> QED BY <2>2, <2>4, <3>2
  <2>7. \A d \in SUBSET (1..l) :
          longer[d] = IF d = {} THEN b ELSE step[<<longer[d \ {Max(d)}], Max(d)>>]
    <3> TAKE d \in SUBSET (1..l)
    <3>1. CASE l \in d
      <4>1. Max(d) = l
        <5>1. l \in Nat
          BY DEF l
        <5>2. Max(d) \in d /\ \A y \in d : y <= Max(d)
          BY <3>1, <5>1, MaxIs
        <5>3. Max(d) \in 1..l /\ l <= Max(d)
          BY <3>1, <5>2
        <5> QED BY <5>1, <5>3
      <4>2. longer[d] = step[<<f[d \ {l}], l>>] /\ longer[d \ {l}] = f[d \ {l}]
        BY <3>1
      <4> HIDE DEF longer
      <4> QED BY <3>1, <4>1, <4>2
    <3>2. CASE l \notin d
      <4>1. d \in SUBSET (1..m) /\ longer[d] = f[d] /\ longer[d \ {Max(d)}] = f[d \ {Max(d)}]
        BY <2>2, <3>2
      <4> HIDE DEF longer
      <4> QED BY <2>1, <4>1
    <3> QED BY <3>1, <3>2
  <2> HIDE DEF longer
  <2>8. Ok(l)
    BY <2>6, <2>7
  <2> HIDE DEF Ok
  <2>9. l \in 0..n
    BY DEF l
  <2>10. l \in good
    BY <2>8, <2>9
  <2> QED BY <2>10 DEF l
<1> HIDE DEF good
<1>3. \A m \in 0..n : m \in good
  BY <1>1, <1>2, UpTo
<1>4. n \in good
  BY <1>3
<1>5. Ok(n)
  BY <1>4 DEF good
<1> QED BY <1>5 DEF Folding

\* The values after each of the numbers.
OneByOne(h, f, T, b, n, step) ==
    /\ h \in [0..n -> T] /\ h[0] = b /\ h[n] = f[1..n]
    /\ \A k \in 1..n : h[k] = step[<<h[k - 1], k>>]

\* And any such function goes through the numbers one by one.
LEMMA FoldSteps ==
    ASSUME NEW T, NEW b \in T, NEW n \in Nat, NEW step \in [T \X (1..n) -> T], NEW f,
           Folding(f, T, b, n, step)
    PROVE  \E h : OneByOne(h, f, T, b, n, step)
<1> DEFINE good == {k \in Nat : f[1..k] \in T}
<1>0. 1..0 = {}
  OBVIOUS
<1>1. 0 \in good
  BY <1>0 DEF Folding
<1>2. ASSUME NEW k \in 1..n, f[1..(k - 1)] \in T
      PROVE  f[1..k] = step[<<f[1..(k - 1)], k>>] /\ f[1..k] \in T
  <2>1. Max(1..k) = k /\ (1..k) \ {k} = 1..(k - 1)
    BY MaxOfFirst
  <2>2. 1..k \in SUBSET (1..n) /\ 1..k # {}
    OBVIOUS
  <2>3. f[1..k] = step[<<f[1..(k - 1)], k>>]
    BY <1>2, <2>1, <2>2 DEF Folding
  <2> QED BY <1>2, <2>3
<1>3. ASSUME NEW k \in 0..(n - 1), k \in good PROVE k + 1 \in good
  <2>1. k + 1 \in 1..n /\ (k + 1) - 1 = k
    OBVIOUS
  <2>2. f[1..((k + 1) - 1)] \in T
    BY <1>3, <2>1
  <2>3. f[1..(k + 1)] \in T
    BY <1>2, <2>1, <2>2
  <2> QED BY <2>3
<1> HIDE DEF good
<1>4. \A k \in 0..n : k \in good
  BY <1>1, <1>3, UpTo
<1>5. \A k \in 0..n : f[1..k] \in T
  BY <1>4 DEF good
<1>6. \A k \in 1..n : f[1..k] = step[<<f[1..(k - 1)], k>>]
  BY <1>2, <1>5
<1> DEFINE h == [k \in 0..n |-> f[1..k]]
<1>7. h \in [0..n -> T] /\ h[n] = f[1..n] /\ h[0] = b
  <2>1. 0 \in 0..n /\ n \in 0..n
    OBVIOUS
  <2> QED BY <1>0, <1>5, <2>1 DEF Folding
<1>8. \A k \in 1..n : h[k] = step[<<h[k - 1], k>>]
  <2> TAKE k \in 1..n
  <2>1. k \in 0..n /\ k - 1 \in 0..n
    OBVIOUS
  <2>2. h[k] = f[1..k] /\ h[k - 1] = f[1..(k - 1)]
    BY <2>1
  <2> QED BY <1>6, <2>2
<1> HIDE DEF h
<1> QED BY <1>7, <1>8 DEF OneByOne
-----------------------------------------------------------------------------
(* Sequences and the sets of their elements *)

\* Elements of a concatenation.
LEMMA ToSetConcat ==
    ASSUME NEW S, NEW s \in Seq(S), NEW t \in Seq(S)
    PROVE  s \o t \in Seq(S) /\ ToSet(s \o t) = ToSet(s) \cup ToSet(t)
<1>1. /\ s \o t \in Seq(S) /\ Len(s) \in Nat /\ Len(t) \in Nat
      /\ DOMAIN s = 1..Len(s) /\ DOMAIN t = 1..Len(t) /\ DOMAIN (s \o t) = 1..(Len(s) + Len(t))
      /\ \A i \in 1..Len(s) + Len(t) :
           (s \o t)[i] = IF i <= Len(s) THEN s[i] ELSE t[i - Len(s)]
  BY ConcatProperties, LenProperties
<1>2. ASSUME NEW i \in 1..Len(s) PROVE s[i] \in ToSet(s \o t)
  <2>1. i \in 1..(Len(s) + Len(t)) /\ (s \o t)[i] = s[i]
    BY <1>1
  <2> QED BY <1>1, <2>1 DEF ToSet
<1>3. ASSUME NEW i \in 1..Len(t) PROVE t[i] \in ToSet(s \o t)
  <2>1. Len(s) + i \in 1..(Len(s) + Len(t)) /\ ~(Len(s) + i <= Len(s)) /\ (Len(s) + i) - Len(s) = i
    BY <1>1
  <2>2. (s \o t)[Len(s) + i] = t[i]
    BY <1>1, <2>1
  <2> QED BY <1>1, <2>1, <2>2 DEF ToSet
<1>4. ASSUME NEW i \in 1..(Len(s) + Len(t)) PROVE (s \o t)[i] \in ToSet(s) \cup ToSet(t)
  <2>1. CASE i <= Len(s)
    BY <1>1, <2>1 DEF ToSet
  <2>2. CASE ~(i <= Len(s))
    <3>1. i - Len(s) \in 1..Len(t)
      BY <1>1, <2>2
    <3> QED BY <1>1, <2>2, <3>1 DEF ToSet
  <2> QED BY <2>1, <2>2
<1>5. ToSet(s) \cup ToSet(t) \subseteq ToSet(s \o t)
  BY <1>1, <1>2, <1>3 DEF ToSet
<1>6. ToSet(s \o t) \subseteq ToSet(s) \cup ToSet(t)
  BY <1>1, <1>4 DEF ToSet
<1> QED BY <1>1, <1>5, <1>6

\* The first element of a sequence and the others.
LEMMA ToSetHeadTail ==
    ASSUME NEW S, NEW s \in Seq(S), s # <<>>
    PROVE  /\ Head(s) \in S /\ Tail(s) \in Seq(S)
           /\ ToSet(s) = {Head(s)} \cup ToSet(Tail(s))
<1>1. /\ Head(s) \in S /\ Tail(s) \in Seq(S) /\ Len(s) \in Nat /\ Len(Tail(s)) = Len(s) - 1
      /\ Head(s) = s[1] /\ Len(s) > 0
      /\ \A i \in 1..Len(Tail(s)) : Tail(s)[i] = s[i + 1]
      /\ DOMAIN s = 1..Len(s) /\ DOMAIN Tail(s) = 1..Len(Tail(s))
  BY HeadTailProperties, LenProperties, EmptySeq
<1>2. ASSUME NEW i \in 1..Len(s) PROVE s[i] \in {Head(s)} \cup ToSet(Tail(s))
  <2>1. CASE i = 1
    BY <1>1, <2>1
  <2>2. CASE i # 1
    <3>1. i - 1 \in 1..Len(Tail(s)) /\ (i - 1) + 1 = i
      BY <1>1, <2>2
    <3> QED BY <1>1, <3>1 DEF ToSet
  <2> QED BY <2>1, <2>2
<1>3. ASSUME NEW i \in 1..Len(Tail(s)) PROVE Tail(s)[i] \in ToSet(s)
  <2>1. i + 1 \in 1..Len(s)
    BY <1>1
  <2> QED BY <1>1, <2>1 DEF ToSet
<1>4. Head(s) \in ToSet(s)
  BY <1>1 DEF ToSet
<1> QED BY <1>1, <1>2, <1>3, <1>4 DEF ToSet

\* The elements of a sequence are what it is a sequence of.
LEMMA ToSetType ==
    ASSUME NEW S, NEW s \in Seq(S)
    PROVE  ToSet(s) \subseteq S /\ s \in Seq(ToSet(s)) /\ DOMAIN s = 1..Len(s) /\ Len(s) \in Nat
<1>1. DOMAIN s = 1..Len(s) /\ Len(s) \in Nat /\ s = [i \in 1..Len(s) |-> s[i]]
  BY LenProperties
<1>2. \A i \in 1..Len(s) : s[i] \in S /\ s[i] \in ToSet(s)
  BY <1>1, ElementOfSeq DEF ToSet
<1>3. s \in Seq(ToSet(s))
  BY <1>1, <1>2, IsASeq
<1> QED BY <1>1, <1>2, <1>3 DEF ToSet

\* No elements.
LEMMA ToSetEmpty == ToSet(<<>>) = {}
BY DEF ToSet

\* The sequences of all elements of a set.
LEMMA SeqsOfSet ==
    ASSUME NEW S, IsFiniteSet(S), NEW s \in SetToSeqs(S)
    PROVE  /\ s \in Seq(S) /\ ToSet(s) = S /\ Len(s) = Cardinality(S)
           /\ \A i, j \in 1..Len(s) : i # j => s[i] # s[j]
<1> DEFINE n == Cardinality(S)
<1>1. n \in Nat /\ s \in [1..n -> S] /\ \A i, j \in 1..n : i # j => s[i] # s[j]
  BY FS_CardinalityType DEF SetToSeqs
<1> HIDE DEF n
<1>2. s \in Seq(S) /\ Len(s) = n /\ DOMAIN s = 1..n
  BY <1>1, SeqDef, LenProperties
<1>3. s \in Injection(1..n, ToSet(s)) /\ s \in Surjection(1..n, ToSet(s))
  <2>1. s \in [1..n -> ToSet(s)]
    BY <1>1, <1>2 DEF ToSet
  <2>2. \A t \in ToSet(s) : \E i \in 1..n : s[i] = t
    BY <1>2 DEF ToSet
  <2> QED BY <1>1, <2>1, <2>2 DEF Injection, Surjection, IsInjective
<1>4. ToSet(s) \subseteq S
  BY <1>1, <1>2 DEF ToSet
<1>5. IsFiniteSet(ToSet(s)) /\ IsFiniteSet(1..n) /\ Cardinality(1..n) = n
  BY <1>1, <1>4, FS_Subset, FS_Interval
<1>6. Cardinality(ToSet(s)) = n
  <2>1. ExistsBijection(1..n, ToSet(s))
    BY <1>3 DEF Bijection, ExistsBijection
  <2> QED BY <1>5, <2>1, FS_Bijection
<1>7. ToSet(s) = S
  BY <1>4, <1>6, FS_Subset DEF n
<1> QED BY <1>1, <1>2, <1>7 DEF n
-----------------------------------------------------------------------------
(* chown: the options *)

ChownUsual ==
    /\ Given({"help", "version"}) = {}
    /\ Has("reference") => Given({"preserve-root", "no-preserve-root"}) = {}
ChownUsers == {Keep} \cup {argv[i].name.user : i \in DOMAIN argv}
ChownGroups == {Keep} \cup {argv[i].name.group : i \in DOMAIN argv}
ChownOptions ==
    [from : [uid : ChownUsers, gid : ChownGroups], R : BOOLEAN,
     rfile : {""} \cup {argv[i].file : i \in DOMAIN argv},
     end : {"", "undefined", "failure", "success"}]

\* An option leaves a state of the option loop.
LEMMA ChownOptionType ==
    ASSUME NEW s \in ChownOptions, NEW i \in DOMAIN argv
    PROVE  ChownOption(s, argv[i]) \in ChownOptions
<1> DEFINE a == argv[i]
<1>1. a.name.user \in ChownUsers /\ a.name.group \in ChownGroups
      /\ a.file \in {""} \cup {argv[k].file : k \in DOMAIN argv}
  BY DEF ChownUsers, ChownGroups
<1>2. NameIds(a.name, s.from) \in [uid : ChownUsers, gid : ChownGroups]
  BY <1>1 DEF NameIds, ChownOptions
<1> HIDE DEF a
<1> QED BY <1>1, <1>2 DEF ChownOption, ChownOptions, a

\* The option loop, option by option.
LEMMA ChownLoop ==
    ASSUME argv \in Seq(ToSet(argv))
    PROVE  \E h : /\ h[0] = ChownDefaults
                  /\ \A k \in 0..Len(argv) : h[k] \in ChownOptions
                  /\ \A k \in 1..Len(argv) : h[k] = ChownOption(h[k - 1], argv[k])
                  /\ FoldLeft(ChownOption, ChownDefaults, argv) = h[Len(argv)]
<1> DEFINE n == Len(argv)
           Pass(d, f) == ChownOption(f[d \ {Max(d)}], argv[Max(d)])
           Is(f) == f = [d \in SUBSET (1..n) |-> IF d = {} THEN ChownDefaults ELSE Pass(d, f)]
           step == [x \in ChownOptions \X (1..n) |-> ChownOption(x[1], argv[x[2]])]
           fold == CHOOSE f : Is(f)
<1>1. n \in Nat /\ DOMAIN argv = 1..n
  BY LenProperties
<1>2. ChownDefaults \in ChownOptions
  BY DEF ChownDefaults, ChownOptions, ChownUsers, ChownGroups, Anyone
<1>3. step \in [ChownOptions \X (1..n) -> ChownOptions]
  BY <1>1, ChownOptionType
<1>4. \A x \in ChownOptions, k \in 1..n : step[<<x, k>>] = ChownOption(x, argv[k])
  OBVIOUS
<1>5. FoldLeft(ChownOption, ChownDefaults, argv) = fold[1..n]
  BY <1>1 DEF FoldLeft, MapThenFoldSet
<1> HIDE DEF n, step
<1>6. \A d \in SUBSET (1..n) : d # {} => Max(d) \in 1..n
  BY <1>1, MaxIs
<1>7. Is(fold)
  <2>1. PICK f \in [SUBSET (1..n) -> ChownOptions] :
          Folding(f, ChownOptions, ChownDefaults, n, step)
    BY <1>1, <1>2, <1>3, FoldExists
  <2>2. \A d \in SUBSET (1..n) : f[d] = IF d = {} THEN ChownDefaults ELSE Pass(d, f)
    BY <1>4, <1>6, <2>1 DEF Folding
  <2>3. Is(f)
    BY <2>2
  <2> QED BY <2>3
<1> HIDE DEF fold
<1>8. Folding(fold, ChownOptions, ChownDefaults, n, step)
  <2>1. fold[{}] = ChownDefaults
    BY <1>7
  <2>2. \A d \in SUBSET (1..n) : d # {} /\ fold[d \ {Max(d)}] \in ChownOptions =>
          fold[d] = step[<<fold[d \ {Max(d)}], Max(d)>>]
    BY <1>4, <1>6, <1>7
  <2> QED BY <2>1, <2>2 DEF Folding
<1>9. PICK h : OneByOne(h, fold, ChownOptions, ChownDefaults, n, step)
  BY <1>1, <1>2, <1>3, <1>8, FoldSteps
<1>10. \A k \in 0..n : h[k] \in ChownOptions
  BY <1>9 DEF OneByOne
<1>11. \A k \in 1..n : h[k] = ChownOption(h[k - 1], argv[k])
  <2> TAKE k \in 1..n
  <2>1. k - 1 \in 0..n
    BY <1>1
  <2> QED BY <1>4, <1>9, <1>10, <2>1 DEF OneByOne
<1> QED BY <1>5, <1>9, <1>10, <1>11 DEF n, OneByOne

\* What the --from options up to the k-th ask for: what a later one leaves
\* out is that of an earlier one.
FromAfter(x, k) ==
    /\ \A i \in 1..k : argv[i].o = "from" => ValidName(argv[i].name)
    /\ (\A i \in 1..k : ~FromUser(i)) => x.from.uid = Keep
    /\ (\A i \in 1..k : ~FromGroup(i)) => x.from.gid = Keep
    /\ \A i \in 1..k : FromUser(i) /\ (\A j \in (i + 1)..k : ~FromUser(j))
           => x.from.uid = argv[i].name.user
    /\ \A i \in 1..k : FromGroup(i) /\ (\A j \in (i + 1)..k : ~FromGroup(j))
           => x.from.gid = argv[i].name.group

\* What the option loop has found after k options.
ChownAfter(x, k) ==
    /\ x.end # "success"
    /\ x.end = "" =>
         /\ x.R = (\E i \in 1..k : argv[i].o = "R")
         /\ (\A i \in 1..k : argv[i].o # "reference") => x.rfile = ""
         /\ \A i \in 1..k : argv[i].o = "reference"
                /\ (\A j \in (i + 1)..k : argv[j].o # "reference") => x.rfile = argv[i].file
         /\ FromAfter(x, k)

\* A place, places up to the k-th one, and the last place that is in a set.
LEMMA APlace ==
    ASSUME NEW n \in Nat, NEW k \in 1..n
    PROVE  k \in Nat /\ k > 0 /\ \A j \in (k + 1)..n : j \in 1..n
  OBVIOUS

LEMMA OneMorePlace ==
    ASSUME NEW k \in Nat, k > 0
    PROVE  /\ 1..k = (1..(k - 1)) \cup {k} /\ k \notin 1..(k - 1)
           /\ \A i \in 1..(k - 1) : (i + 1)..k = ((i + 1)..(k - 1)) \cup {k}
  OBVIOUS

LEMMA LastPlace ==
    ASSUME NEW n \in Nat, NEW S, S \subseteq 1..n, S # {}
    PROVE  \E i \in S : /\ \A j \in (i + 1)..n : j \notin S
                        /\ \A j \in S : (\A m \in 1..n : m > j => m \notin S) <=> j = i
<1> DEFINE i == Max(S)
<1>1. i \in S /\ \A j \in S : j <= i
  BY MaxIs
<1> HIDE DEF i
<1>2. i \in 1..n
  BY <1>1
<1>3. \A j \in (i + 1)..n : j \notin S
  BY <1>1, <1>2
<1>4. \A j \in S : j # i => i > j
  BY <1>1, <1>2
<1>5. \A m \in 1..n : m > i => m \notin S
  BY <1>1, <1>2
<1> QED BY <1>1, <1>2, <1>3, <1>4, <1>5

\* Another --from, and an option that is none.
LEMMA FromAfterStep ==
    ASSUME Len(argv) \in Nat, NEW k \in 1..Len(argv), NEW x, NEW y, FromAfter(x, k - 1),
           \/ argv[k].o # "from" /\ y.from = x.from
           \/ /\ argv[k].o = "from" /\ ValidName(argv[k].name)
              /\ y.from.uid = (IF argv[k].name.user = "" THEN x.from.uid ELSE argv[k].name.user)
              /\ y.from.gid = (IF argv[k].name.group = "" THEN x.from.gid ELSE argv[k].name.group)
    PROVE  FromAfter(y, k)
<1>0. k \in Nat /\ k > 0
  BY APlace
<1>1. 1..k = (1..(k - 1)) \cup {k} /\ k \notin 1..(k - 1)
  BY <1>0, OneMorePlace
<1>2. \A i \in 1..(k - 1) : (i + 1)..k = ((i + 1)..(k - 1)) \cup {k}
  BY <1>0, OneMorePlace
<1>3. \A i \in 1..k : argv[i].o = "from" => ValidName(argv[i].name)
  BY <1>1 DEF FromAfter
<1>4. \/ ~FromUser(k) /\ y.from.uid = x.from.uid
      \/ FromUser(k) /\ y.from.uid = argv[k].name.user
  BY DEF FromUser
<1>5. \/ ~FromGroup(k) /\ y.from.gid = x.from.gid
      \/ FromGroup(k) /\ y.from.gid = argv[k].name.group
  BY DEF FromGroup
<1>6. /\ (\A i \in 1..k : ~FromUser(i)) => y.from.uid = Keep
      /\ \A i \in 1..k : FromUser(i) /\ (\A j \in (i + 1)..k : ~FromUser(j))
            => y.from.uid = argv[i].name.user
  BY <1>1, <1>2, <1>4 DEF FromAfter
<1>7. /\ (\A i \in 1..k : ~FromGroup(i)) => y.from.gid = Keep
      /\ \A i \in 1..k : FromGroup(i) /\ (\A j \in (i + 1)..k : ~FromGroup(j))
            => y.from.gid = argv[i].name.group
  BY <1>1, <1>2, <1>5 DEF FromAfter
<1> QED BY <1>3, <1>6, <1>7 DEF FromAfter

\* One more option.
LEMMA ChownAfterStep ==
    ASSUME ChownUsual, DOMAIN argv = 1..Len(argv), Len(argv) \in Nat,
           NEW k \in 1..Len(argv), NEW x \in ChownOptions, ChownAfter(x, k - 1)
    PROVE  ChownAfter(ChownOption(x, argv[k]), k)
<1> DEFINE a == argv[k]
           y == ChownOption(x, a)
<1> SUFFICES ChownAfter(y, k)
  OBVIOUS
<1>0. k \in Nat /\ k \in DOMAIN argv /\ 1..k = (1..(k - 1)) \cup {k} /\ k \notin 1..(k - 1)
      /\ \A i \in 1..k : i \in DOMAIN argv
  OBVIOUS
<1>9. \A i \in 1..(k - 1) : (i + 1)..k = ((i + 1)..(k - 1)) \cup {k}
  OBVIOUS
<1>1. CASE x.end # ""
  BY <1>1 DEF ChownAfter, ChownOption
<1>2. CASE x.end = ""
  <2>0. FromAfter(x, k - 1)
    BY <1>2 DEF ChownAfter
  <2>1. a.o \notin {"help", "version"}
    BY <1>0 DEF ChownUsual, Given
  <2>2. CASE a.o = "R"
    <3>1. y = [x EXCEPT !.R = TRUE]
      BY <1>2, <2>2 DEF ChownOption
    <3>2. y.R = TRUE /\ y.end = "" /\ y.rfile = x.rfile /\ y.from = x.from
      BY <1>2, <3>1 DEF ChownOptions
    <3> HIDE DEF y
    <3>3. FromAfter(y, k)
      BY <2>0, <2>2, <3>2, FromAfterStep
    <3> QED BY <1>0, <1>9, <1>2, <2>2, <3>2, <3>3 DEF ChownAfter
  <2>3. CASE a.o = "dereference"
    <3>1. y.end = "undefined"
      BY <1>2, <2>3 DEF ChownOption, ChownOptions
    <3> HIDE DEF y
    <3> QED BY <3>1 DEF ChownAfter
  <2>4. CASE a.o = "from"
    <3>3. CASE ValidName(a.name)
      <4>1. y = [x EXCEPT !.from = NameIds(a.name, x.from)]
        BY <1>2, <2>4, <3>3 DEF ChownOption
      <4>2. y.from = NameIds(a.name, x.from) /\ y.end = "" /\ y.rfile = x.rfile /\ y.R = x.R
        BY <1>2, <4>1 DEF ChownOptions
      <4> HIDE DEF y
      <4>3. /\ y.from.uid = (IF a.name.user = "" THEN x.from.uid ELSE a.name.user)
            /\ y.from.gid = (IF a.name.group = "" THEN x.from.gid ELSE a.name.group)
        <5>1. \A w, ids : /\ NameIds(w, ids).uid = (IF w.user = "" THEN ids.uid ELSE w.user)
                          /\ NameIds(w, ids).gid = (IF w.group = "" THEN ids.gid ELSE w.group)
          BY DEF NameIds
        <5> QED BY <4>2, <5>1
      <4>4. FromAfter(y, k)
        BY <2>0, <2>4, <3>3, <4>3, FromAfterStep
      <4> QED BY <1>0, <1>9, <1>2, <2>4, <4>2, <4>4 DEF ChownAfter
    <3>4. CASE ~ValidName(a.name)
      <4>1. y.end = "failure"
        BY <1>2, <2>4, <3>4 DEF ChownOption, ChownOptions
      <4> HIDE DEF y
      <4> QED BY <4>1 DEF ChownAfter
    <3> QED BY <3>3, <3>4
  <2>5. CASE a.o \in {"preserve-root", "no-preserve-root"}
    <3>1. \A i \in 1..k : argv[i].o # "reference"
      BY <1>0, <2>5 DEF ChownUsual, Given, Has
    <3>2. y = [x EXCEPT !.rfile = ""]
      BY <1>2, <2>5 DEF ChownOption
    <3>3. y.from = x.from /\ y.end = "" /\ y.rfile = "" /\ y.R = x.R
      BY <1>2, <3>2 DEF ChownOptions
    <3> HIDE DEF y
    <3>4. FromAfter(y, k)
      BY <2>0, <2>5, <3>3, FromAfterStep
    <3> QED BY <1>0, <1>9, <1>2, <2>5, <3>1, <3>3, <3>4 DEF ChownAfter
  <2>6. CASE a.o = "reference"
    <3>1. y = [x EXCEPT !.rfile = a.file]
      BY <1>2, <2>6 DEF ChownOption
    <3>2. y.from = x.from /\ y.end = "" /\ y.rfile = a.file /\ y.R = x.R
      BY <1>2, <3>1 DEF ChownOptions
    <3>3. \A i \in 1..(k - 1) : k \in (i + 1)..k
      OBVIOUS
    <3> HIDE DEF y
    <3>4. FromAfter(y, k)
      BY <2>0, <2>6, <3>2, FromAfterStep
    <3> QED BY <1>0, <1>9, <1>2, <2>6, <3>2, <3>3, <3>4 DEF ChownAfter
  <2>7. CASE a.o \notin {"R", "dereference", "from", "preserve-root", "no-preserve-root", "reference"}
    <3>1. y = x
      BY <1>2, <2>1, <2>7 DEF ChownOption
    <3> HIDE DEF y
    <3>2. FromAfter(y, k)
      BY <2>0, <2>7, <3>1, FromAfterStep
    <3> QED BY <1>0, <1>9, <1>2, <2>7, <3>1, <3>2 DEF ChownAfter
  <2> QED BY <2>2, <2>3, <2>4, <2>5, <2>6, <2>7
<1> QED BY <1>1, <1>2

\* The last of the options that have one of the letters.
LEMMA LastGivenIs ==
    ASSUME NEW letters, DOMAIN argv = 1..Len(argv), Len(argv) \in Nat, Given(letters) # {}
    PROVE  \E i \in 1..Len(argv) : /\ LastGiven(letters) = argv[i] /\ argv[i].o \in letters
                                   /\ \A j \in (i + 1)..Len(argv) : argv[j].o \notin letters
<1> DEFINE i == Max(Given(letters))
<1>1. Given(letters) \subseteq 1..Len(argv)
  BY DEF Given
<1>2. i \in Given(letters) /\ \A j \in Given(letters) : j <= i
  BY <1>1, MaxIs
<1>3. LastGiven(letters) = argv[i]
  BY DEF LastGiven
<1> HIDE DEF i
<1>4. i \in 1..Len(argv) /\ argv[i].o \in letters
  BY <1>2 DEF Given
<1>5. ASSUME NEW j \in (i + 1)..Len(argv), argv[j].o \in letters PROVE FALSE
  <2>1. j \in Given(letters)
    BY <1>4, <1>5 DEF Given
  <2> QED BY <1>2, <1>4, <2>1
<1> QED BY <1>3, <1>4, <1>5

\* What it finds altogether.
LEMMA ChownParsed ==
    ASSUME argv \in Seq(ToSet(argv))
    PROVE  LET s == FoldLeft(ChownOption, ChownDefaults, argv) IN
           /\ s \in ChownOptions
           /\ ChownUsual => s.end # "success"
           /\ ChownUsual /\ s.end = "" =>
                /\ s.R = Has("R") /\ s.rfile = Ref
                /\ FromAfter(s, Len(argv))
<1> DEFINE s == FoldLeft(ChownOption, ChownDefaults, argv)
           n == Len(argv)
<1>1. n \in Nat /\ DOMAIN argv = 1..n
  BY LenProperties
<1>2. PICK h : /\ h[0] = ChownDefaults
               /\ \A k \in 0..Len(argv) : h[k] \in ChownOptions
               /\ \A k \in 1..Len(argv) : h[k] = ChownOption(h[k - 1], argv[k])
               /\ FoldLeft(ChownOption, ChownDefaults, argv) = h[Len(argv)]
  BY ChownLoop
<1>3. s = h[n] /\ n \in 0..n /\ s \in ChownOptions
  BY <1>1, <1>2
<1> HIDE DEF s
<1> SUFFICES ASSUME ChownUsual
             PROVE  /\ s.end # "success"
                    /\ s.end = "" =>
                         /\ s.R = Has("R") /\ s.rfile = Ref
                         /\ FromAfter(s, n)
  BY <1>3 DEF s
<1> DEFINE good == {k \in Nat : ChownAfter(h[k], k)}
<1>4. 0 \in good
  <2>1. 1..0 = {}
    OBVIOUS
  <2>2. ChownDefaults.end = "" /\ ChownDefaults.R = FALSE /\ ChownDefaults.rfile = ""
        /\ ChownDefaults.from = Anyone /\ h[0] = ChownDefaults
    BY <1>2 DEF ChownDefaults
  <2>3. ChownDefaults.from.uid = Keep /\ ChownDefaults.from.gid = Keep
    <3>1. Anyone.uid = Keep /\ Anyone.gid = Keep
      BY DEF Anyone
    <3> QED BY <2>2, <3>1
  <2>4. ChownAfter(ChownDefaults, 0)
    BY <2>1, <2>2, <2>3 DEF ChownAfter, FromAfter
  <2> QED BY <2>2, <2>4
<1>5. ASSUME NEW k \in 0..(n - 1), k \in good PROVE k + 1 \in good
  <2>1. k + 1 \in 1..n /\ (k + 1) - 1 = k /\ k \in 0..n
    BY <1>1
  <2>2. ChownAfter(h[(k + 1) - 1], (k + 1) - 1) /\ h[(k + 1) - 1] \in ChownOptions
    BY <1>2, <1>5, <2>1
  <2>3. h[k + 1] = ChownOption(h[(k + 1) - 1], argv[k + 1])
    BY <1>2, <2>1
  <2>4. ChownAfter(h[k + 1], k + 1)
    BY <1>1, <2>1, <2>2, <2>3, ChownAfterStep
  <2> QED BY <2>4
<1> HIDE DEF good
<1>6. \A k \in 0..n : k \in good
  BY <1>1, <1>4, <1>5, UpTo
<1>7. ChownAfter(s, n)
  BY <1>3, <1>6 DEF good
<1>8. s.end # "success"
  BY <1>7 DEF ChownAfter
<1> SUFFICES ASSUME s.end = ""
             PROVE  /\ s.R = Has("R") /\ s.rfile = Ref
                    /\ FromAfter(s, n)
  BY <1>8
<1>9. s.R = Has("R")
  BY <1>1, <1>7 DEF ChownAfter, Has, Given
<1>10. s.rfile = Ref
  <2>1. CASE Given({"reference"}) = {}
    <3>1. Ref = ""
      BY <2>1 DEF Ref, Has
    <3>2. \A i \in 1..n : argv[i].o # "reference"
      BY <1>1, <2>1 DEF Given
    <3> QED BY <1>7, <3>1, <3>2 DEF ChownAfter
  <2>2. CASE Given({"reference"}) # {}
    <3>1. PICK i \in 1..n : /\ LastGiven({"reference"}) = argv[i] /\ argv[i].o \in {"reference"}
                            /\ \A j \in (i + 1)..n : argv[j].o \notin {"reference"}
      BY <1>1, <2>2, LastGivenIs
    <3>2. Ref = argv[i].file
      BY <2>2, <3>1 DEF Ref, Has
    <3> QED BY <1>7, <3>1, <3>2 DEF ChownAfter
  <2> QED BY <2>1, <2>2
<1>11. FromAfter(s, n)
  BY <1>7 DEF ChownAfter
<1> QED BY <1>9, <1>10, <1>11
-----------------------------------------------------------------------------
(* chown: the files *)

Files == DOMAIN fs.old
OwnerIds == [uid : STRING \cup {Keep}, gid : STRING \cup {Keep}]
Owners == [uid : STRING \ {Keep}, gid : STRING \ {Keep}]
ChownTypes ==
    /\ IsFiniteSet(Files) /\ DOMAIN fs.kids \subseteq Files
    /\ argv \in Seq(ToSet(argv))
    /\ fs \in [kids : [DOMAIN fs.kids -> SUBSET Files], owner : [Files -> Owners],
               old : [Files -> Owners], users : SUBSET (STRING \ {Keep}),
               groups : SUBSET (STRING \ {Keep}), denied : SUBSET Files,
               closed : SUBSET Files, ops : Seq(ToSet(fs.ops)), name : {fs.name}]

\* The set has the operands and, if asked, all that is below its members.
GoneTo(S) == Named \subseteq S /\ (Has("R") => Below(S) \subseteq S)

\* What the options mean for the files.
ChownAsked ==
    /\ g.R = Has("R")
    /\ \A n \in Files : /\ Matches(fs.old[n], g.from) <=> AskedFor(n)
                        /\ Changed(fs.old[n], g.ids) = WantedOwner(n)

\* The files in seen are done, and what is left leads to all the others.
NewOwner(n) ==
    IF Matches(fs.old[n], g.from) THEN Changed(fs.old[n], g.ids) ELSE fs.old[n]
ChownWalk(seen) ==
    /\ fs.owner = [n \in Files |-> IF n \in seen THEN NewOwner(n) ELSE fs.old[n]]
    /\ Named \subseteq seen \cup ToSet(v.todo)
    /\ g.R => \A d \in seen \cap DOMAIN fs.kids :
                 Matches(fs.old[d], g.from) => fs.kids[d] \subseteq seen \cup ToSet(v.todo)
    /\ \A S \in SUBSET Files : GoneTo(S) => seen \cup ToSet(v.todo) \subseteq S

ChownInv ==
    prog = "chown" =>
        /\ ChownTypes
        /\ pc \in {"main", "chown"} \cup Ended
        /\ pc = "main" => fs.owner = fs.old
        /\ pc = "chown" => /\ v.todo \in Seq(Files \cup ToSet(fs.ops))
                           /\ g.ids \in OwnerIds /\ g.R \in BOOLEAN
        /\ pc = "chown" /\ ok /\ ChownUsual =>
             ChownAsked /\ \E seen \in SUBSET Files : ChownWalk(seen)
        /\ ChownExact


\* Only owners change, and what the options and operands mean does not.
LEMMA OwnersOnly ==
    ASSUME ChownTypes, argv' = argv, NEW o \in [Files -> Owners], fs' = [fs EXCEPT !.owner = o]
    PROVE  /\ ChownTypes' /\ fs'.owner = o /\ Files' = Files
           /\ fs'.old = fs.old /\ fs'.kids = fs.kids /\ fs'.ops = fs.ops /\ fs'.name = fs.name
<1>1. /\ fs'.owner = o /\ fs'.old = fs.old /\ fs'.kids = fs.kids /\ fs'.ops = fs.ops
      /\ fs'.users = fs.users /\ fs'.groups = fs.groups /\ fs'.denied = fs.denied
      /\ fs'.closed = fs.closed /\ fs'.name = fs.name
  BY DEF ChownTypes
<1>2. fs' \in [kids : [DOMAIN fs.kids -> SUBSET Files], owner : [Files -> Owners],
               old : [Files -> Owners], users : SUBSET (STRING \ {Keep}),
               groups : SUBSET (STRING \ {Keep}), denied : SUBSET Files,
               closed : SUBSET Files, ops : Seq(ToSet(fs.ops)), name : {fs.name}]
  BY DEF ChownTypes
<1>3. Files' = Files
  BY <1>1 DEF Files
<1> QED BY <1>1, <1>2, <1>3 DEF ChownTypes

LEMMA ChownMeaning ==
    ASSUME argv' = argv, fs'.old = fs.old, fs'.kids = fs.kids, fs'.ops = fs.ops, fs'.name = fs.name
    PROVE  /\ Files' = Files /\ Named' = Named /\ Reached' = Reached /\ Ref' = Ref
           /\ ChownUsual' <=> ChownUsual
           /\ Has("R")' = Has("R")
           /\ \A n : /\ (AskedFor(n))' <=> AskedFor(n)
                     /\ (WantedOwner(n))' = WantedOwner(n)
           /\ \A S : (GoneTo(S))' <=> GoneTo(S)
<1>1. Files' = Files
  BY DEF Files
<1>2. Ref' = Ref /\ Has("R")' = Has("R") /\ (ChownUsual' <=> ChownUsual)
  BY DEF Ref, Has, Given, LastGiven, ChownUsual
<1>3. Named' = Named
  BY <1>2 DEF Named
<1>4. \A S : (Below(S))' = Below(S)
  BY DEF Below
<1>5. \A S : (GoneTo(S))' <=> GoneTo(S)
  BY <1>2, <1>3, <1>4 DEF GoneTo
<1>6. Reached' = Reached
  BY <1>2, <1>3, <1>4 DEF Reached
<1>7. \A n : (AskedFor(n))' <=> AskedFor(n)
  BY DEF AskedFor, FromUser, FromGroup
<1>8. \A n : (WantedOwner(n))' = WantedOwner(n)
  BY <1>2 DEF WantedOwner
<1> QED BY <1>1, <1>2, <1>3, <1>5, <1>6, <1>7, <1>8

\* The end of a call that failed, or of one that only gives advice.
LEMMA ChownStops ==
    ASSUME ChownInv, prog = "chown", prog' = prog, argv' = argv, fs' = fs,
           pc' \in Ended, ~ok' \/ pc' # "exit" \/ ~ChownUsual
    PROVE  ChownInv'
<1>1. ChownTypes'
  BY DEF ChownInv, ChownTypes, Files
<1>2. ChownUsual' <=> ChownUsual
  BY ChownMeaning
<1>3. ChownExact'
  BY <1>2 DEF ChownExact, ChownUsual
<1> QED BY <1>1, <1>3 DEF ChownInv, Ended

\* What the options and the first operand ask for.
LEMMA ChownAsks ==
    ASSUME ChownTypes, ChownUsual, fs.owner = fs.old, NEW s,
           s = FoldLeft(ChownOption, ChownDefaults, argv), s.end = "",
           Ref # "" => Ref \in DOMAIN fs.owner,
           Ref = "" => ValidName(fs.name),
           NEW h, h = [from |-> s.from, R |-> s.R,
                       ids |-> IF Ref # "" THEN fs.owner[Ref] ELSE NameIds(fs.name, Anyone)]
    PROVE  h.R = Has("R") /\ \A n \in Files : /\ Matches(fs.old[n], h.from) <=> AskedFor(n)
                                              /\ Changed(fs.old[n], h.ids) = WantedOwner(n)
<1>1. s.R = Has("R") /\ FromAfter(s, Len(argv)) /\ Len(argv) \in Nat /\ DOMAIN argv = 1..Len(argv)
  BY ChownParsed, LenProperties DEF ChownTypes
<1>2. h.R = s.R /\ h.from = s.from
      /\ h.ids = IF Ref # "" THEN fs.owner[Ref] ELSE NameIds(fs.name, Anyone)
  OBVIOUS
<1>3. Keep \notin fs.users /\ Keep \notin fs.groups /\ fs.old \in [Files -> Owners]
  BY DEF ChownTypes
<1>4. ASSUME NEW name, ValidName(name)
      PROVE  name.user # Keep /\ name.group # Keep
  BY <1>3, <1>4 DEF ValidName, Keep
<1>5. ASSUME NEW n \in Files PROVE Matches(fs.old[n], h.from) <=> AskedFor(n)
  <2> DEFINE users == {i \in DOMAIN argv : FromUser(i)}
             groups == {i \in DOMAIN argv : FromGroup(i)}
  <2>1. h.from.uid \in {Keep, fs.old[n].uid} <=>
          \A i \in DOMAIN argv : FromUser(i) /\ (\A j \in DOMAIN argv : j > i => ~FromUser(j))
             => argv[i].name.user = fs.old[n].uid
    <3>1. CASE users = {}
      BY <1>1, <1>2, <3>1 DEF FromAfter
    <3>2. CASE users # {}
      <4>1. PICK i \in users :
              /\ \A j \in (i + 1)..Len(argv) : j \notin users
              /\ \A j \in users : (\A m \in 1..Len(argv) : m > j => m \notin users) <=> j = i
        BY <1>1, <3>2, LastPlace
      <4>2. i \in 1..Len(argv) /\ FromUser(i) /\ \A j \in (i + 1)..Len(argv) : j \in 1..Len(argv)
        <5>1. i \in 1..Len(argv) /\ FromUser(i)
          BY <1>1, <4>1
        <5> QED BY <1>1, <5>1, APlace
      <4>3. \A j \in (i + 1)..Len(argv) : ~FromUser(j)
        BY <1>1, <4>1, <4>2
      <4>4. h.from.uid = argv[i].name.user /\ argv[i].name.user # Keep
        BY <1>1, <1>2, <1>4, <4>2, <4>3 DEF FromAfter, FromUser
      <4>5. \A j \in DOMAIN argv :
              FromUser(j) /\ (\A m \in DOMAIN argv : m > j => ~FromUser(m)) <=> j = i
        BY <1>1, <4>1, <4>2
      <4>6. i \in DOMAIN argv
        BY <1>1, <4>2
      <4> HIDE DEF users
      <4> QED BY <4>4, <4>5, <4>6
    <3> QED BY <3>1, <3>2
  <2>2. h.from.gid \in {Keep, fs.old[n].gid} <=>
          \A i \in DOMAIN argv : FromGroup(i) /\ (\A j \in DOMAIN argv : j > i => ~FromGroup(j))
             => argv[i].name.group = fs.old[n].gid
    <3>1. CASE groups = {}
      BY <1>1, <1>2, <3>1 DEF FromAfter
    <3>2. CASE groups # {}
      <4>1. PICK i \in groups :
              /\ \A j \in (i + 1)..Len(argv) : j \notin groups
              /\ \A j \in groups : (\A m \in 1..Len(argv) : m > j => m \notin groups) <=> j = i
        BY <1>1, <3>2, LastPlace
      <4>2. i \in 1..Len(argv) /\ FromGroup(i) /\ \A j \in (i + 1)..Len(argv) : j \in 1..Len(argv)
        <5>1. i \in 1..Len(argv) /\ FromGroup(i)
          BY <1>1, <4>1
        <5> QED BY <1>1, <5>1, APlace
      <4>3. \A j \in (i + 1)..Len(argv) : ~FromGroup(j)
        BY <1>1, <4>1, <4>2
      <4>4. h.from.gid = argv[i].name.group /\ argv[i].name.group # Keep
        BY <1>1, <1>2, <1>4, <4>2, <4>3 DEF FromAfter, FromGroup
      <4>5. \A j \in DOMAIN argv :
              FromGroup(j) /\ (\A m \in DOMAIN argv : m > j => ~FromGroup(m)) <=> j = i
        BY <1>1, <4>1, <4>2
      <4>6. i \in DOMAIN argv
        BY <1>1, <4>2
      <4> HIDE DEF groups
      <4> QED BY <4>4, <4>5, <4>6
    <3> QED BY <3>1, <3>2
  <2> QED BY <2>1, <2>2 DEF Matches, AskedFor
<1>6. ASSUME NEW n \in Files PROVE Changed(fs.old[n], h.ids) = WantedOwner(n)
  <2>1. fs.old[n] \in Owners
    BY <1>3
  <2>2. CASE Ref # ""
    <3>1. h.ids = fs.old[Ref] /\ Ref \in Files
      BY <1>2, <2>2 DEF ChownTypes
    <3>2. h.ids \in Owners
      BY <1>3, <3>1
    <3> QED BY <2>2, <3>1, <3>2 DEF Changed, WantedOwner, Owners
  <2>3. CASE Ref = ""
    <3>1. h.ids.uid = (IF fs.name.user = "" THEN Keep ELSE fs.name.user)
          /\ h.ids.gid = (IF fs.name.group = "" THEN Keep ELSE fs.name.group)
      BY <1>2, <2>3 DEF NameIds, Anyone
    <3>2. fs.name.user # Keep /\ fs.name.group # Keep
      BY <1>4, <2>3
    <3> QED BY <2>3, <3>1, <3>2 DEF Changed, WantedOwner
  <2> QED BY <2>2, <2>3
<1> QED BY <1>1, <1>2, <1>5, <1>6


\* The options are read, and the walk starts at the operands.
LEMMA StepChownMain == ASSUME ChownInv, ChownMain PROVE ChownInv'
<1> DEFINE s == FoldLeft(ChownOption, ChownDefaults, argv)
           ref == s.rfile # ""
           todo == IF ref THEN fs.ops ELSE Tail(fs.ops)
           h == [from |-> s.from, R |-> s.R,
                 ids |-> IF ref THEN fs.owner[s.rfile] ELSE NameIds(fs.name, Anyone)]
<1>1. prog = "chown" /\ pc = "main" /\ prog' = prog /\ argv' = argv /\ fs' = fs
  BY DEF ChownMain, Exit, Goto
<1>2. ChownTypes /\ fs.owner = fs.old
  BY <1>1 DEF ChownInv
<1>3. s \in ChownOptions /\ (ChownUsual => s.end # "success")
      /\ (ChownUsual /\ s.end = "" => s.rfile = Ref)
  BY <1>2, ChownParsed DEF ChownTypes
<1>4. \/ s.end = "undefined" /\ pc' = "undefined"
      \/ s.end = "success" /\ pc' = "exit"
      \/ pc' = "exit" /\ ok' = FALSE
      \/ /\ s.end = "" /\ Len(fs.ops) >= IF ref THEN 1 ELSE 2
         /\ IF ref THEN s.rfile \in DOMAIN fs.owner ELSE ValidName(fs.name)
         /\ g' = h /\ v' = [todo |-> todo] /\ pc' = "chown"
  BY DEF ChownMain, Exit, Goto
<1>5. CASE s.end = "undefined" /\ pc' = "undefined"
  BY <1>1, <1>5, ChownStops DEF Ended
<1>6. CASE s.end = "success" /\ pc' = "exit"
  BY <1>1, <1>3, <1>6, ChownStops DEF Ended
<1>7. CASE pc' = "exit" /\ ok' = FALSE
  BY <1>1, <1>7, ChownStops DEF Ended
<1>8. CASE /\ s.end = "" /\ Len(fs.ops) >= IF ref THEN 1 ELSE 2
           /\ IF ref THEN s.rfile \in DOMAIN fs.owner ELSE ValidName(fs.name)
           /\ g' = h /\ v' = [todo |-> todo] /\ pc' = "chown"
  <2>1. fs.ops \in Seq(ToSet(fs.ops)) /\ fs.owner \in [Files -> Owners]
    BY <1>2 DEF ChownTypes
  <2>2. fs.ops # <<>> /\ Len(fs.ops) \in Nat
    <3>1. Len(fs.ops) \in Nat /\ Len(<<>>) = 0
      BY <2>1, LenProperties
    <3>2. Len(fs.ops) >= 1
      <4>1. CASE ref
        BY <1>8, <4>1
      <4>2. CASE ~ref
        <5>1. Len(fs.ops) >= 2
          BY <1>8, <4>2
        <5> QED BY <3>1, <5>1
      <4> QED BY <4>1, <4>2
    <3> QED BY <3>1, <3>2
  <2>3. todo \in Seq(ToSet(fs.ops))
    BY <2>1, <2>2, HeadTailProperties
  <2>4. todo \in Seq(Files \cup ToSet(fs.ops))
    BY <2>3, SeqMonotonic
  <2>5. h.ids \in OwnerIds /\ h.R \in BOOLEAN
    <3>1. s.R \in BOOLEAN
      BY <1>3 DEF ChownOptions
    <3>2. CASE ref
      BY <1>8, <2>1, <3>1, <3>2 DEF Owners, OwnerIds
    <3>3. CASE ~ref
      <4>1. ValidName(fs.name) /\ fs.users \subseteq STRING /\ fs.groups \subseteq STRING
        BY <1>2, <1>8, <3>3 DEF ChownTypes
      <4>2. NameIds(fs.name, Anyone) \in OwnerIds
        <5>1. fs.name.user = "" \/ fs.name.user \in STRING
          BY <4>1 DEF ValidName
        <5>2. fs.name.group = "" \/ fs.name.group \in STRING
          BY <4>1 DEF ValidName
        <5>3. Anyone.uid = Keep /\ Anyone.gid = Keep
          BY DEF Anyone
        <5> QED BY <5>1, <5>2, <5>3 DEF NameIds, OwnerIds
      <4> QED BY <3>1, <3>3, <4>2
    <3> QED BY <3>2, <3>3
  <2>6. ChownTypes'
    BY <1>1, <1>2 DEF ChownTypes, Files
  <2>7. ASSUME ChownUsual PROVE ChownAsked' /\ (ChownWalk({}))'
    <3>1. Ref = s.rfile
      BY <1>3, <1>8, <2>7
    <3>2. g'.R = Has("R") /\ \A n \in Files : /\ Matches(fs.old[n], g'.from) <=> AskedFor(n)
                                              /\ Changed(fs.old[n], g'.ids) = WantedOwner(n)
      <4> HIDE DEF s
      <4> QED BY <1>2, <1>8, <2>7, <3>1, ChownAsks DEF s
    <3>3. ChownAsked'
      BY <1>1, <3>2, ChownMeaning DEF ChownAsked, Files
    <3>4. Named = ToSet(todo)
      <4>1. Tail(fs.ops) = SubSeq(fs.ops, 2, Len(fs.ops))
        BY <2>1, <2>2, TailIsSubSeq
      <4> QED BY <3>1, <4>1 DEF Named
    <3>5. fs.owner = [n \in Files |-> fs.old[n]]
      BY <1>2, <2>1
    <3>6. v'.todo = todo
      BY <1>8
    <3> HIDE DEF todo
    <3>7. \A S : (GoneTo(S))' => ToSet(todo) \subseteq S
      BY <1>1, <3>4, ChownMeaning DEF GoneTo
    <3>8. Named' = Named
      BY <1>1, ChownMeaning
    <3> QED BY <1>1, <3>3, <3>4, <3>5, <3>6, <3>7, <3>8 DEF ChownWalk, Files
  <2>8. ChownUsual' <=> ChownUsual
    BY <1>1, ChownMeaning
  <2>9. v'.todo = todo /\ g'.ids = h.ids /\ g'.R = h.R
    BY <1>8
  <2> HIDE DEF todo, h
  <2>10. v'.todo \in Seq(Files' \cup ToSet(fs'.ops)) /\ g'.ids \in OwnerIds
         /\ g'.R \in BOOLEAN
    BY <1>1, <2>4, <2>5, <2>9 DEF Files
  <2> QED BY <1>8, <2>6, <2>7, <2>8, <2>10 DEF ChownInv, ChownExact
<1> QED BY <1>4, <1>5, <1>6, <1>7, <1>8


\* What is put in front of the rest when a file n is done that --from asks for
\* or not (e), and the invariant after it.
Pushed(n, e) == IF g.R /\ n \in DOMAIN fs.kids /\ e THEN fs.kids[n] ELSE {}
LEMMA ChownWalks ==
    ASSUME ChownInv, prog = "chown", pc = "chown", v.todo # <<>>, Head(v.todo) \in Files,
           prog' = prog, argv' = argv, g' = g, pc' = pc,
           NEW o \in [Files -> Owners], fs' = [fs EXCEPT !.owner = o],
           NEW entries \in Seq(Files), v' = [todo |-> entries \o Tail(v.todo)],
           NEW e, e = Matches(fs.owner[Head(v.todo)], g.from),
           ok' => /\ ok
                  /\ o = [fs.owner EXCEPT ![Head(v.todo)] = IF e THEN Changed(@, g.ids) ELSE @]
                  /\ ToSet(entries) = Pushed(Head(v.todo), e)
    PROVE  ChownInv'
<1> DEFINE n == Head(v.todo)
           rest == Tail(v.todo)
<1>1. /\ ChownTypes' /\ fs'.owner = o /\ Files' = Files
      /\ fs'.old = fs.old /\ fs'.kids = fs.kids /\ fs'.ops = fs.ops /\ fs'.name = fs.name
  BY OwnersOnly DEF ChownInv
<1>2. /\ v.todo \in Seq(Files \cup ToSet(fs.ops)) /\ g.ids \in OwnerIds /\ g.R \in BOOLEAN
  BY DEF ChownInv
<1>3. rest \in Seq(Files \cup ToSet(fs.ops)) /\ ToSet(v.todo) = {n} \cup ToSet(rest)
  BY <1>2, ToSetHeadTail
<1>4. v'.todo \in Seq(Files \cup ToSet(fs.ops)) /\ ToSet(v'.todo) = ToSet(entries) \cup ToSet(rest)
  <2>1. entries \in Seq(Files \cup ToSet(fs.ops))
    BY SeqMonotonic
  <2> HIDE DEF rest
  <2>2. entries \o rest \in Seq(Files \cup ToSet(fs.ops))
        /\ ToSet(entries \o rest) = ToSet(entries) \cup ToSet(rest)
    BY <1>3, <2>1, ToSetConcat
  <2>3. v'.todo = entries \o rest
    BY DEF rest
  <2> QED BY <2>2, <2>3
<1>5. /\ Named' = Named /\ Reached' = Reached /\ (ChownUsual' <=> ChownUsual) /\ Has("R")' = Has("R")
      /\ \A m : (AskedFor(m))' <=> AskedFor(m)
      /\ \A m : (WantedOwner(m))' = WantedOwner(m)
      /\ \A S : (GoneTo(S))' <=> GoneTo(S)
  BY <1>1, ChownMeaning
<1>6. ASSUME ok', ChownUsual PROVE ChownAsked' /\ \E seen \in SUBSET Files : (ChownWalk(seen))'
  <2>1. ok /\ ToSet(entries) = Pushed(n, e)
        /\ o = [fs.owner EXCEPT ![n] = IF e THEN Changed(@, g.ids) ELSE @]
    BY <1>6
  <2>2. ChownAsked
    BY <1>6, <2>1 DEF ChownInv
  <2>3. PICK seen \in SUBSET Files : ChownWalk(seen)
    BY <1>6, <2>1 DEF ChownInv
  <2>4. ChownAsked'
    BY <1>1, <1>5, <2>2 DEF ChownAsked, Files
  <2>0. PICK now : now = seen \cup {n}
    OBVIOUS
  <2> DEFINE Is(m) == IF m \in now THEN NewOwner(m) ELSE fs.old[m]
  <2>5. now \in SUBSET Files /\ n \in Files
    BY <2>0
  <2>6. fs.owner = [m \in Files |-> IF m \in seen THEN NewOwner(m) ELSE fs.old[m]]
    BY <2>3 DEF ChownWalk
  <2>7. o[n] = NewOwner(n)
    <3>1. fs.owner[n] = IF n \in seen THEN NewOwner(n) ELSE fs.old[n]
      BY <2>5, <2>6
    <3>2. o[n] = IF e THEN Changed(fs.owner[n], g.ids) ELSE fs.owner[n]
      BY <2>1, <2>5
    <3>3. e = Matches(fs.owner[n], g.from)
      OBVIOUS
    <3>4. CASE n \notin seen
      BY <3>1, <3>2, <3>3, <3>4 DEF NewOwner
    <3>5. CASE n \in seen /\ ~Matches(fs.old[n], g.from)
      BY <3>1, <3>2, <3>3, <3>5 DEF NewOwner
    <3>6. CASE n \in seen /\ Matches(fs.old[n], g.from)
      <4>1. fs.owner[n] = Changed(fs.old[n], g.ids) /\ NewOwner(n) = Changed(fs.old[n], g.ids)
        BY <3>1, <3>6 DEF NewOwner
      <4>2. Changed(Changed(fs.old[n], g.ids), g.ids) = Changed(fs.old[n], g.ids)
        BY DEF Changed
      <4> QED BY <3>2, <4>1, <4>2
    <3> QED BY <3>4, <3>5, <3>6
  <2>8. o = [m \in Files |-> Is(m)]
    <3>1. \A m \in Files : m # n => o[m] = fs.owner[m]
      BY <2>1
    <3>2. \A m \in Files : o[m] = Is(m)
      BY <2>0, <2>6, <2>7, <3>1
    <3> HIDE DEF Is
    <3> QED BY <3>2
  <2>9. Named \subseteq now \cup ToSet(v'.todo)
    BY <1>3, <1>4, <2>0, <2>3 DEF ChownWalk
  <2>10. ASSUME g.R, NEW d \in now \cap DOMAIN fs.kids, Matches(fs.old[d], g.from)
         PROVE  fs.kids[d] \subseteq now \cup ToSet(v'.todo)
    <3>1. CASE d \in seen
      <4>1. fs.kids[d] \subseteq seen \cup ToSet(v.todo)
        BY <2>3, <2>10, <3>1 DEF ChownWalk
      <4> QED BY <1>3, <1>4, <2>0, <4>1
    <3>2. CASE d \notin seen
      <4>1. d = n /\ fs.owner[n] = fs.old[n]
        BY <2>0, <2>5, <2>6, <3>2
      <4>2. ToSet(entries) = fs.kids[d]
        BY <2>1, <2>10, <4>1 DEF Pushed
      <4> QED BY <1>4, <4>2
    <3> QED BY <3>1, <3>2
  <2>11. ASSUME NEW S \in SUBSET Files, GoneTo(S) PROVE now \cup ToSet(v'.todo) \subseteq S
    <3>1. seen \cup ToSet(v.todo) \subseteq S
      BY <2>3, <2>11 DEF ChownWalk
    <3>2. ToSet(entries) \subseteq S
      <4>1. CASE ToSet(entries) = {}
        BY <4>1
      <4>2. CASE g.R /\ n \in DOMAIN fs.kids /\ ToSet(entries) = fs.kids[n]
        <5>1. Below(S) \subseteq S
          BY <2>2, <2>11, <4>2 DEF GoneTo, ChownAsked
        <5>2. fs.kids[n] \subseteq Below(S)
          BY <1>3, <3>1, <4>2 DEF Below
        <5> QED BY <4>2, <5>1, <5>2
      <4> QED BY <2>1, <4>1, <4>2 DEF Pushed
    <3> QED BY <1>3, <1>4, <2>0, <3>1, <3>2
  <2>12. \A m : (NewOwner(m))' = NewOwner(m)
    BY <1>1 DEF NewOwner
  <2>13. (ChownWalk(now))'
    <3>1. fs'.owner = [m \in Files' |-> IF m \in now THEN (NewOwner(m))' ELSE fs'.old[m]]
      BY <1>1, <2>8, <2>12
    <3>2. Named' \subseteq now \cup ToSet(v'.todo)
      BY <1>5, <2>9
    <3>3. g'.R => \A d \in now \cap DOMAIN fs'.kids :
             Matches(fs'.old[d], g'.from) => fs'.kids[d] \subseteq now \cup ToSet(v'.todo)
      BY <1>1, <2>10
    <3>4. \A S \in SUBSET Files' : (GoneTo(S))' => now \cup ToSet(v'.todo) \subseteq S
      BY <1>1, <1>5, <2>11
    <3> QED BY <3>1, <3>2, <3>3, <3>4 DEF ChownWalk
  <2> QED BY <2>4, <2>5, <2>13
<1>7. v'.todo \in Seq(Files' \cup ToSet(fs'.ops)) /\ g'.ids \in OwnerIds /\ g'.R \in BOOLEAN
  BY <1>1, <1>2, <1>4
<1> QED BY <1>1, <1>5, <1>6, <1>7 DEF ChownInv, ChownExact


LEMMA StepChownFile == ASSUME ChownInv, ChownFile PROVE ChownInv'
<1> DEFINE n == Head(v.todo)
           below == IF g.R /\ n \in DOMAIN fs.kids \ fs.closed
                    THEN SetToSeqs(fs.kids[n]) ELSE {<<>>}
           After(entries, r) ==
             /\ v' = [todo |-> entries \o Tail(v.todo)] /\ ok' = (ok /\ r)
             /\ UNCHANGED <<prog, argv, g, fi, off, out, pc>>
<1>1. prog = "chown" /\ pc = "chown" /\ v.todo # <<>>
  BY DEF ChownFile
<1>2. ChownTypes /\ g.ids \in OwnerIds /\ fs.owner \in [Files -> Owners]
  BY <1>1 DEF ChownInv, ChownTypes
<1>3. CASE n \notin DOMAIN fs.owner /\ Exit(FALSE)
  BY <1>1, <1>3, ChownStops DEF Exit, Ended
<1>4. \A o \in Owners : Changed(o, g.ids) \in Owners
  BY <1>2 DEF Changed, Owners, OwnerIds
<1>5. ASSUME n \in DOMAIN fs.owner,
             NEW entries \in Seq(Files), NEW r \in BOOLEAN, After(entries, r),
             NEW o \in [Files -> Owners], fs' = [fs EXCEPT !.owner = o],
             r => /\ o = [fs.owner EXCEPT ![n] = IF Matches(fs.owner[n], g.from)
                                                  THEN Changed(@, g.ids) ELSE @]
                  /\ ToSet(entries) = Pushed(n, Matches(fs.owner[n], g.from))
      PROVE  ChownInv'
  <2>1. prog' = prog /\ argv' = argv /\ g' = g /\ pc' = pc /\ (ok' => ok /\ r)
        /\ v' = [todo |-> entries \o Tail(v.todo)] /\ Head(v.todo) \in Files
    BY <1>2, <1>5
  <2>2. ok' => /\ ok
               /\ o = [fs.owner EXCEPT ![Head(v.todo)] = IF Matches(fs.owner[Head(v.todo)], g.from)
                                                          THEN Changed(@, g.ids) ELSE @]
               /\ ToSet(entries) = Pushed(Head(v.todo), Matches(fs.owner[Head(v.todo)], g.from))
    BY <1>5, <2>1
  <2> QED BY <1>1, <1>5, <2>1, <2>2, ChownWalks
<1>6. <<>> \in Seq(Files) /\ ToSet(<<>>) = {}
  BY ToSetEmpty
<1>7. fs = [fs EXCEPT !.owner = fs.owner]
  BY <1>2 DEF ChownTypes
<1>8. CASE n \in DOMAIN fs.owner /\ ~Matches(fs.owner[n], g.from) /\ After(<<>>, TRUE) /\ UNCHANGED fs
  <2>1. fs.owner = [fs.owner EXCEPT ![n] = IF Matches(fs.owner[n], g.from)
                                           THEN Changed(@, g.ids) ELSE @]
    BY <1>2, <1>8
  <2>2. ToSet(<<>>) = Pushed(n, Matches(fs.owner[n], g.from))
    BY <1>6, <1>8 DEF Pushed
  <2> QED BY <1>2, <1>5, <1>6, <1>7, <1>8, <2>1, <2>2
<1>9. CASE n \in DOMAIN fs.owner /\ After(<<>>, FALSE) /\ UNCHANGED fs
  BY <1>2, <1>5, <1>6, <1>7, <1>9
<1>10. CASE /\ n \in DOMAIN fs.owner /\ Matches(fs.owner[n], g.from)
            /\ fs' = [fs EXCEPT !.owner[n] = Changed(@, g.ids)]
            /\ \E s \in below : After(s, ~(g.R /\ n \in fs.closed))
  <2> DEFINE o == [fs.owner EXCEPT ![n] = Changed(@, g.ids)]
             r == ~(g.R /\ n \in fs.closed)
  <2>1. PICK s \in below : After(s, r)
    BY <1>10
  <2>2. o \in [Files -> Owners] /\ fs' = [fs EXCEPT !.owner = o]
    BY <1>2, <1>4, <1>10 DEF ChownTypes
  <2>3. o = [fs.owner EXCEPT ![n] = IF Matches(fs.owner[n], g.from) THEN Changed(@, g.ids) ELSE @]
    BY <1>10
  <2>4. s \in Seq(Files) /\ (r => ToSet(s) = Pushed(n, TRUE))
    <3>1. CASE g.R /\ n \in DOMAIN fs.kids \ fs.closed
      <4>1. s \in SetToSeqs(fs.kids[n]) /\ fs.kids[n] \subseteq Files /\ IsFiniteSet(Files)
        BY <1>2, <2>1, <3>1 DEF ChownTypes
      <4>2. s \in Seq(fs.kids[n]) /\ ToSet(s) = fs.kids[n]
        BY <4>1, FS_Subset, SeqsOfSet
      <4> QED BY <3>1, <4>1, <4>2, SeqMonotonic DEF Pushed
    <3>2. CASE ~(g.R /\ n \in DOMAIN fs.kids \ fs.closed)
      <4>1. s = <<>>
        BY <2>1, <3>2
      <4>2. r => ~(g.R /\ n \in DOMAIN fs.kids)
        BY <3>2
      <4> QED BY <1>6, <4>1, <4>2 DEF Pushed
    <3> QED BY <3>1, <3>2
  <2>5. Pushed(n, TRUE) = Pushed(n, Matches(fs.owner[n], g.from))
    BY <1>10 DEF Pushed
  <2> HIDE DEF o
  <2> QED BY <1>5, <1>10, <2>1, <2>2, <2>3, <2>4, <2>5
<1> QED BY <1>3, <1>8, <1>9, <1>10 DEF ChownFile

\* The walk is over when nothing is left.
LEMMA StepChownEnd == ASSUME ChownInv, ChownEnd PROVE ChownInv'
<1>1. prog = "chown" /\ pc = "chown" /\ v.todo = <<>> /\ prog' = prog /\ argv' = argv /\ fs' = fs
      /\ pc' = "exit" /\ ok' = (ok /\ TRUE)
  BY DEF ChownEnd, Exit
<1>2. ChownTypes'
  BY <1>1 DEF ChownInv, ChownTypes, Files
<1>3. /\ Reached' = Reached /\ (ChownUsual' <=> ChownUsual) /\ Has("R")' = Has("R")
      /\ \A m : (AskedFor(m))' <=> AskedFor(m)
      /\ \A m : (WantedOwner(m))' = WantedOwner(m)
  BY <1>1, ChownMeaning
<1>4. ASSUME ok, ChownUsual, Has("R") => \A d \in DOMAIN fs.kids \cap Reached : AskedFor(d)
      PROVE  fs.owner = [n \in Files |->
                           IF n \in Reached /\ AskedFor(n) THEN WantedOwner(n) ELSE fs.old[n]]
  <2>1. ChownAsked
    BY <1>1, <1>4 DEF ChownInv
  <2>2. PICK seen \in SUBSET Files : ChownWalk(seen)
    BY <1>1, <1>4 DEF ChownInv
  <2>3. ToSet(v.todo) = {}
    BY <1>1, ToSetEmpty
  <2>4. \A S \in SUBSET Files : GoneTo(S) => seen \subseteq S
    BY <2>2 DEF ChownWalk
  <2>5. Reached = {n \in Files : \A S \in SUBSET Files : GoneTo(S) => n \in S}
    BY DEF Reached, Files, GoneTo
  <2>6. seen \subseteq Reached
    BY <2>4, <2>5
  <2>7. GoneTo(seen)
    <3>1. Named \subseteq seen
      BY <2>2, <2>3 DEF ChownWalk
    <3>2. ASSUME Has("R"), NEW d \in seen \cap DOMAIN fs.kids PROVE fs.kids[d] \subseteq seen
      <4>1. Matches(fs.old[d], g.from) /\ g.R
        BY <1>4, <2>1, <2>6, <3>2 DEF ChownAsked
      <4> QED BY <2>2, <2>3, <3>2, <4>1 DEF ChownWalk
    <3> QED BY <3>1, <3>2 DEF GoneTo, Below
  <2>8. Reached = seen
    BY <2>5, <2>6, <2>7
  <2>9. \A n \in Files : (IF n \in seen THEN NewOwner(n) ELSE fs.old[n])
                         = IF n \in Reached /\ AskedFor(n) THEN WantedOwner(n) ELSE fs.old[n]
    BY <2>1, <2>8 DEF ChownAsked, NewOwner
  <2>10. fs.owner = [n \in Files |-> IF n \in seen THEN NewOwner(n) ELSE fs.old[n]]
    BY <2>2 DEF ChownWalk
  <2> QED BY <2>9, <2>10
<1>5. ChownExact'
  <2> SUFFICES ASSUME ok', ChownUsual',
                      Has("R")' => \A d \in DOMAIN fs'.kids \cap Reached' : (AskedFor(d))'
               PROVE  fs'.owner = [n \in DOMAIN fs'.old |->
                                     IF n \in Reached' /\ (AskedFor(n))' THEN (WantedOwner(n))'
                                     ELSE fs'.old[n]]
    BY DEF ChownExact, ChownUsual
  <2>1. ok /\ ChownUsual /\ (Has("R") => \A d \in DOMAIN fs.kids \cap Reached : AskedFor(d))
    BY <1>1, <1>3
  <2>2. fs.owner = [n \in Files |->
                      IF n \in Reached /\ AskedFor(n) THEN WantedOwner(n) ELSE fs.old[n]]
    BY <1>4, <2>1
  <2> DEFINE Goal(n) == IF n \in Reached /\ AskedFor(n) THEN WantedOwner(n) ELSE fs.old[n]
             Now(n) == IF n \in Reached' /\ (AskedFor(n))' THEN (WantedOwner(n))' ELSE fs'.old[n]
  <2>3. \A n : Now(n) = Goal(n)
    BY <1>1, <1>3
  <2>4. fs.owner = [n \in Files |-> Goal(n)]
    BY <2>2
  <2>5. SUFFICES fs'.owner = [n \in DOMAIN fs'.old |-> Now(n)]
    OBVIOUS
  <2> HIDE DEF Goal, Now
  <2>6. fs.owner = [n \in Files |-> Now(n)]
    BY <2>3, <2>4
  <2> QED BY <1>1, <2>6 DEF Files
<1> QED BY <1>1, <1>2, <1>5 DEF ChownInv, Ended

\* The steps of the other commands, and none.
LEMMA ChownKept == ASSUME ChownInv, [Next]_vars PROVE ChownInv'
<1>1. CASE UNCHANGED vars
  <2>1. prog' = prog /\ argv' = argv /\ fs' = fs /\ pc' = pc /\ ok' = ok /\ g' = g /\ v' = v
    BY <1>1 DEF vars
  <2>2. /\ Named' = Named /\ Reached' = Reached /\ (ChownUsual' <=> ChownUsual) /\ Has("R")' = Has("R")
        /\ \A m : (AskedFor(m))' <=> AskedFor(m)
        /\ \A m : (WantedOwner(m))' = WantedOwner(m)
        /\ \A S : (GoneTo(S))' <=> GoneTo(S)
    BY <2>1, ChownMeaning
  <2>3. ChownTypes => ChownTypes'
    BY <2>1 DEF ChownTypes, Files
  <2>4. ChownAsked => ChownAsked'
    BY <2>1, <2>2 DEF ChownAsked, Files
  <2>5. \A seen : ChownWalk(seen) => (ChownWalk(seen))'
    BY <2>1, <2>2 DEF ChownWalk, NewOwner, Files
  <2>6. ChownExact => ChownExact'
    <3>1. Given({"help", "version"})' = Given({"help", "version"})
          /\ Given({"from"})' = Given({"from"}) /\ Has("reference")' = Has("reference")
          /\ Given({"preserve-root", "no-preserve-root"})' = Given({"preserve-root", "no-preserve-root"})
          /\ Ref' = Ref
      BY <2>1 DEF Given, Has, Ref, LastGiven
    <3> QED BY <2>1, <2>2, <3>1 DEF ChownExact
  <2> QED BY <2>1, <2>2, <2>3, <2>4, <2>5, <2>6 DEF ChownInv, Files
<1>2. CASE ChownNext
  BY <1>2, StepChownMain, StepChownFile, StepChownEnd DEF ChownNext
<1>3. CASE HeadNext \/ TailNext \/ CatNext \/ OdNext \/ ChmodNext \/ CpNext \/ PwdNext
           \/ ChildSyncNext \/ MultiJoinNext \/ SeqNumNext
  <2>1. prog # "chown" /\ prog' = prog
    BY <1>3, OwnSteps DEF Step, Waiters
  <2> QED BY <2>1 DEF ChownInv
<1> QED BY <1>1, <1>2, <1>3 DEF Next, Exited

LEMMA InitChown == ASSUME Init PROVE ChownInv
<1>1. PICK i \in DOMAIN Cases : \E c \in Cases[i] :
        /\ prog = c.prog /\ argv = c.argv /\ fs = c.fs
        /\ pc = "main" /\ g = None /\ v = None
        /\ fi = 1 /\ off = 0 /\ out = <<>> /\ ok = TRUE
  BY DEF Init
<1>2. PICK c \in Cases[i] : prog = c.prog /\ argv = c.argv /\ fs = c.fs /\ pc = "main"
  BY <1>1
<1>3. prog = "chown" => ChownTypes /\ fs.owner = fs.old
  BY <1>2, OwnersAssumption DEF ChownTypes, Files, Owners
<1> QED BY <1>2, <1>3 DEF ChownInv, ChownExact

\* chown changes the owners of the files it has to go to that --from asks for,
\* and of no others, in trees of any shape and for any list of options but
\* those that ChownExact names: an owner that ends in a colon, -R over
\* directories that --from does not match, and a reference file beside
\* --preserve-root or its opposite.
THEOREM ChownChangesOwners == Spec => []ChownExact
<1>1. Init => ChownInv
  BY InitChown
<1>2. ChownInv /\ [Next]_vars => ChownInv'
  BY ChownKept
<1>3. ChownInv => ChownExact
  BY DEF ChownInv, ChownExact
<1> QED BY <1>1, <1>2, <1>3, PTL DEF Spec
-----------------------------------------------------------------------------
(* Sequences of sequences, flattened *)

\* The function that FlattenSeq defines by recursion.
FlattenFrom(s, n) ==
    CHOOSE f : f = [i \in 1..n |-> IF i = 1 THEN s[i] ELSE f[i - 1] \o s[i]]
LEMMA FlattenExists ==
    ASSUME NEW s, NEW n \in Nat
    PROVE  \A i \in 1..n : FlattenFrom(s, n)[i] =
             IF i = 1 THEN s[i] ELSE FlattenFrom(s, n)[i - 1] \o s[i]
<1> DEFINE Is(f, m) == f = [i \in 1..m |-> IF i = 1 THEN s[i] ELSE f[i - 1] \o s[i]]
           good == {m \in Nat : \E f : Is(f, m)}
<1>1. 0 \in good
  <2> DEFINE f == [i \in 1..0 |-> s[i]]
  <2>1. Is(f, 0)
    OBVIOUS
  <2> HIDE DEF f, Is
  <2> QED BY <2>1
<1>2. ASSUME NEW m \in 0..(n - 1), m \in good PROVE m + 1 \in good
  <2>1. PICK f : Is(f, m)
    BY <1>2
  <2> DEFINE l == m + 1
             longer == [i \in 1..l |-> IF i = 1 THEN s[i]
                                       ELSE IF i = l THEN f[m] \o s[i] ELSE f[i]]
  <2>2. m \in Nat /\ l \in Nat
    OBVIOUS
  <2>3. \A i \in 1..l : longer[i] = IF i = 1 THEN s[i] ELSE longer[i - 1] \o s[i]
    <3> TAKE i \in 1..l
    <3>1. CASE i = 1
      BY <3>1
    <3>2. CASE i # 1
      <4>1. i - 1 \in 1..m /\ i - 1 # l /\ i - 1 \in 1..l
        BY <2>2, <3>2
      <4>2. longer[i - 1] = f[i - 1]
        BY <2>1, <4>1
      <4>3. CASE i = l
        <5>1. i - 1 = m
          BY <2>2, <4>3
        <5>2. longer[i] = f[m] \o s[i]
          BY <3>2, <4>3
        <5> HIDE DEF longer
        <5> QED BY <3>2, <4>2, <5>1, <5>2
      <4>4. CASE i # l
        <5>1. i \in 1..m /\ longer[i] = f[i]
          BY <2>2, <3>2, <4>4
        <5>2. f[i] = f[i - 1] \o s[i]
          BY <2>1, <3>2, <5>1
        <5> HIDE DEF longer
        <5> QED BY <3>2, <4>2, <5>1, <5>2
      <4> QED BY <4>3, <4>4
    <3> QED BY <3>1, <3>2
  <2>4. longer = [i \in 1..l |-> longer[i]]
    OBVIOUS
  <2> HIDE DEF longer
  <2>5. Is(longer, l)
    BY <2>3, <2>4
  <2> HIDE DEF Is
  <2>6. l \in good
    BY <2>2, <2>5
  <2> QED BY <2>6
<1>3. n \in good
  <2> HIDE DEF good
  <2> QED BY <1>1, <1>2, UpTo
<1> DEFINE fold == FlattenFrom(s, n)
<1>4. Is(fold, n)
  BY <1>3 DEF FlattenFrom
<1> HIDE DEF fold
<1>5. \A i \in 1..n : fold[i] = IF i = 1 THEN s[i] ELSE fold[i - 1] \o s[i]
  BY <1>4
<1> QED BY <1>5 DEF fold

\* Sequence after sequence, from none of them to all of them.
Flattening(h, s, S) ==
    /\ h[0] = <<>> /\ h[Len(s)] = FlattenSeq(s)
    /\ \A k \in 0..Len(s) : h[k] \in Seq(S)
    /\ \A k \in 1..Len(s) : h[k] = h[k - 1] \o s[k]
LEMMA Flattens ==
    ASSUME NEW S, NEW n \in Nat, NEW s \in Seq(Seq(S)), Len(s) = n
    PROVE  \E h : Flattening(h, s, S)
<1> DEFINE f == FlattenFrom(s, n)
           h == [k \in 0..n |-> IF k = 0 THEN <<>> ELSE f[k]]
<1>1. \A i \in 1..n : f[i] = IF i = 1 THEN s[i] ELSE f[i - 1] \o s[i]
  BY FlattenExists
<1>2. FlattenSeq(s) = IF n = 0 THEN s ELSE f[n]
  BY DEF FlattenSeq, FlattenFrom
<1> HIDE DEF f
<1>3. \A k \in 1..n : s[k] \in Seq(S)
  BY ElementOfSeq
<1>4. <<>> \in Seq(S)
  BY EmptySeq
<1>5. h[0] = <<>> /\ \A k \in 1..n : h[k] = f[k]
  OBVIOUS
<1>6. n = 0 => s = <<>>
  BY EmptySeq
<1>7. h[n] = FlattenSeq(s)
  BY <1>2, <1>5, <1>6
<1> HIDE DEF h
<1>8. \A k \in 1..n : h[k] = h[k - 1] \o s[k]
  <2> TAKE k \in 1..n
  <2>1. CASE k = 1
    <3>1. h[k - 1] = <<>> /\ h[k] = s[k]
      BY <1>1, <1>5, <2>1
    <3> QED BY <1>3, <3>1, ConcatEmptySeq
  <2>2. CASE k # 1
    <3>1. k - 1 \in 1..n
      BY <2>2
    <3> QED BY <1>1, <1>5, <2>2, <3>1
  <2> QED BY <2>1, <2>2
<1> DEFINE good == {k \in Nat : h[k] \in Seq(S)}
<1>9. 0 \in good
  BY <1>4, <1>5
<1>10. ASSUME NEW k \in 0..(n - 1), k \in good PROVE k + 1 \in good
  <2>1. k + 1 \in 1..n /\ (k + 1) - 1 = k
    OBVIOUS
  <2>2. h[k + 1] = h[k] \o s[k + 1] /\ s[k + 1] \in Seq(S)
    BY <1>3, <1>8, <2>1
  <2>3. h[k + 1] \in Seq(S)
    BY <1>10, <2>2, ConcatProperties
  <2> QED BY <2>3
<1> HIDE DEF good
<1>11. \A k \in 0..n : k \in good
  BY <1>9, <1>10, UpTo
<1>12. \A k \in 0..n : h[k] \in Seq(S)
  BY <1>11 DEF good
<1> QED BY <1>5, <1>7, <1>8, <1>12 DEF Flattening
-----------------------------------------------------------------------------
(* od: the inputs *)

ByteSet == 0..(ByteVals - 1)
OdFiles == [kind : {"file", "pipe"}, data : Seq(ByteSet)]
           \cup [kind : {"dir", "missing"}, data : {<<>>}]
DataOf(F, i) == IF F[i].kind \in {"file", "pipe"} THEN F[i].data ELSE <<>>
UpToInput(F, k) == FlattenSeq([i \in 1..k |-> DataOf(F, i)])

\* An input has bytes, none if it cannot be read.
LEMMA DataType ==
    ASSUME NEW F \in Seq(OdFiles), NEW i \in 1..Len(F)
    PROVE  /\ F[i].kind \in {"file", "pipe", "dir", "missing"}
           /\ F[i].data = DataOf(F, i) /\ DataOf(F, i) \in Seq(ByteSet)
<1>1. F[i] \in OdFiles
  BY ElementOfSeq
<1>2. <<>> \in Seq(ByteSet)
  BY EmptySeq
<1> HIDE DEF ByteSet
<1> QED BY <1>1, <1>2 DEF OdFiles, DataOf

\* The inputs one after the other.
LEMMA InputsJoin ==
    ASSUME NEW F \in Seq(OdFiles)
    PROVE  /\ UpToInput(F, 0) = <<>>
           /\ \A k \in 0..Len(F) : UpToInput(F, k) \in Seq(ByteSet)
           /\ \A k \in 1..Len(F) : UpToInput(F, k) = UpToInput(F, k - 1) \o DataOf(F, k)
<1> DEFINE n == Len(F)
           s(k) == [i \in 1..k |-> DataOf(F, i)]
<1>1. n \in Nat
  BY LenProperties
<1>2. \A i \in 1..n : DataOf(F, i) \in Seq(ByteSet)
  BY DataType
<1> HIDE DEF n
<1>3. ASSUME NEW k \in 0..n
      PROVE  s(k) \in Seq(Seq(ByteSet)) /\ Len(s(k)) = k /\ \A i \in 1..k : s(k)[i] = DataOf(F, i)
  <2>1. k \in Nat /\ \A i \in 1..k : DataOf(F, i) \in Seq(ByteSet)
    BY <1>1, <1>2
  <2>2. s(k) \in [1..k -> Seq(ByteSet)]
    BY <2>1
  <2> HIDE DEF s
  <2>3. s(k) \in Seq(Seq(ByteSet)) /\ Len(s(k)) = k
    BY <2>1, <2>2, SeqDef, LenProperties
  <2> QED BY <2>3 DEF s
<1>4. \A k : FlattenSeq(s(k)) = UpToInput(F, k)
  BY DEF UpToInput
<1> HIDE DEF s
<1>5. \A k \in 0..n : k \in Nat
  BY <1>1
<1>6. \A k \in 0..n : \E h : Flattening(h, s(k), ByteSet)
  BY <1>3, <1>5, Flattens
<1>7. n \in 0..n
  BY <1>1
<1>8. PICK H : Flattening(H, s(n), ByteSet)
  BY <1>6, <1>7
<1>9. /\ H[0] = <<>> /\ \A k \in 0..n : H[k] \in Seq(ByteSet)
      /\ \A k \in 1..n : H[k] = H[k - 1] \o DataOf(F, k)
  BY <1>3, <1>7, <1>8 DEF Flattening
<1>10. ASSUME NEW k \in 0..n PROVE UpToInput(F, k) = H[k]
  <2>1. PICK h : Flattening(h, s(k), ByteSet)
    BY <1>6
  <2>2. /\ h[0] = <<>> /\ h[k] = UpToInput(F, k)
        /\ \A i \in 1..k : h[i] = h[i - 1] \o DataOf(F, i)
    BY <1>3, <1>4, <2>1 DEF Flattening
  <2> DEFINE good == {i \in Nat : h[i] = H[i]}
  <2>3. 0 \in good
    BY <1>9, <2>2
  <2>4. ASSUME NEW i \in 0..(k - 1), i \in good PROVE i + 1 \in good
    <3>1. i + 1 \in 1..k /\ i + 1 \in 1..n /\ (i + 1) - 1 = i /\ i + 1 \in Nat
      BY <1>1
    <3>2. h[i] = H[i]
      BY <2>4
    <3>3. h[i + 1] = h[i] \o DataOf(F, i + 1) /\ H[i + 1] = H[i] \o DataOf(F, i + 1)
      BY <1>9, <2>2, <3>1
    <3> QED BY <3>1, <3>2, <3>3
  <2> HIDE DEF good
  <2>5. \A i \in 0..k : i \in good
    BY <1>5, <2>3, <2>4, UpTo
  <2>6. k \in good
    BY <1>1, <2>5
  <2> QED BY <2>2, <2>6 DEF good
<1>11. \A k \in 1..n : k \in 0..n /\ k - 1 \in 0..n
  BY <1>1
<1>12. 0 \in 0..n
  BY <1>1
<1> QED BY <1>9, <1>10, <1>11, <1>12 DEF n

\* Where the bytes of an input are among all bytes.
LEMMA InputsAt ==
    ASSUME NEW F \in Seq(OdFiles)
    PROVE  LET all == UpToInput(F, Len(F)) IN
           \A k \in 0..Len(F) :
               /\ Len(UpToInput(F, k)) <= Len(all)
               /\ \A i \in 1..Len(UpToInput(F, k)) : all[i] = UpToInput(F, k)[i]
<1> DEFINE n == Len(F)
           all == UpToInput(F, n)
           Early(k) == /\ Len(UpToInput(F, k)) <= Len(all)
                       /\ \A i \in 1..Len(UpToInput(F, k)) : all[i] = UpToInput(F, k)[i]
           good == {j \in Nat : Early(n - j)}
<1>1. n \in Nat
  BY LenProperties
<1>2. \A k \in 0..n : UpToInput(F, k) \in Seq(ByteSet) /\ Len(UpToInput(F, k)) \in Nat
  BY InputsJoin, LenProperties
<1>3. \A k \in 1..n : UpToInput(F, k) = UpToInput(F, k - 1) \o DataOf(F, k)
                      /\ DataOf(F, k) \in Seq(ByteSet) /\ Len(DataOf(F, k)) \in Nat
  BY InputsJoin, DataType, LenProperties
<1> HIDE DEF n
<1>4. 0 \in good
  <2>1. n - 0 = n /\ n \in 0..n
    BY <1>1
  <2> QED BY <1>2, <2>1
<1>5. ASSUME NEW j \in 0..(n - 1), j \in good PROVE j + 1 \in good
  <2> DEFINE k == n - j
  <2>1. k \in 1..n /\ k - 1 = n - (j + 1) /\ k \in 0..n /\ k - 1 \in 0..n /\ j + 1 \in Nat
    BY <1>1
  <2>2. Early(k)
    BY <1>5
  <2> HIDE DEF k
  <2> DEFINE a == UpToInput(F, k - 1)
             b == DataOf(F, k)
             c == UpToInput(F, k)
  <2>3. c = a \o b /\ a \in Seq(ByteSet) /\ b \in Seq(ByteSet) /\ Len(a) \in Nat /\ Len(b) \in Nat
        /\ Len(all) \in Nat
    BY <1>1, <1>2, <1>3, <2>1
  <2>4. Len(c) = Len(a) + Len(b) /\ \A i \in 1..(Len(a) + Len(b)) :
           c[i] = IF i <= Len(a) THEN a[i] ELSE b[i - Len(a)]
    BY <2>3, ConcatProperties
  <2>5. Len(c) <= Len(all) /\ \A i \in 1..Len(c) : all[i] = c[i]
    BY <2>2
  <2> HIDE DEF a, b, c, all
  <2>6. Len(a) <= Len(all) /\ \A i \in 1..Len(a) : all[i] = a[i]
    BY <2>3, <2>4, <2>5
  <2>7. Early(k - 1)
    BY <2>6 DEF a
  <2> HIDE DEF Early
  <2> QED BY <2>1, <2>7
<1> HIDE DEF good
<1>6. \A j \in 0..n : j \in good
  BY <1>1, <1>4, <1>5, UpTo
<1>7. ASSUME NEW k \in 0..n PROVE Early(k)
  <2>1. n - k \in 0..n /\ n - (n - k) = k
    BY <1>1
  <2>2. n - k \in good
    BY <1>6, <2>1
  <2>3. Early(n - (n - k))
    BY <2>2 DEF good
  <2> HIDE DEF Early
  <2> QED BY <2>1, <2>3
<1> QED BY <1>7 DEF n


\* A byte of an input among all bytes.
LEMMA InputByte ==
    ASSUME NEW F \in Seq(OdFiles), NEW k \in 1..Len(F)
    PROVE  LET all == UpToInput(F, Len(F))
               base == Len(UpToInput(F, k - 1))
               data == F[k].data
           IN /\ base \in Nat /\ Len(data) \in Nat /\ Len(all) \in Nat
              /\ base + Len(data) = Len(UpToInput(F, k)) /\ base + Len(data) <= Len(all)
              /\ \A i \in 1..Len(data) : data[i] \in ByteSet /\ all[base + i] = data[i]
<1> DEFINE all == UpToInput(F, Len(F))
           a == UpToInput(F, k - 1)
           c == UpToInput(F, k)
           data == F[k].data
<1>1. Len(F) \in Nat /\ k \in 0..Len(F) /\ k - 1 \in 0..Len(F) /\ Len(F) \in 0..Len(F)
  BY LenProperties
<1>2. data \in Seq(ByteSet) /\ c = a \o data /\ a \in Seq(ByteSet) /\ all \in Seq(ByteSet)
  BY <1>1, InputsJoin, DataType
<1>3. Len(c) <= Len(all) /\ \A i \in 1..Len(c) : all[i] = c[i]
  BY <1>1, InputsAt
<1> HIDE DEF all, a, c, data
<1>4. Len(a) \in Nat /\ Len(data) \in Nat /\ Len(all) \in Nat
  BY <1>2, LenProperties
<1>5. /\ Len(c) = Len(a) + Len(data)
      /\ \A i \in 1..(Len(a) + Len(data)) : c[i] = IF i <= Len(a) THEN a[i] ELSE data[i - Len(a)]
  BY <1>2, ConcatProperties
<1>6. \A i \in 1..Len(data) : data[i] \in ByteSet /\ all[Len(a) + i] = data[i]
  <2> TAKE i \in 1..Len(data)
  <2>1. Len(a) + i \in 1..(Len(a) + Len(data)) /\ ~(Len(a) + i <= Len(a)) /\ (Len(a) + i) - Len(a) = i
    BY <1>4
  <2>2. all[Len(a) + i] = data[i]
    BY <1>3, <1>5, <2>1
  <2> QED BY <1>2, <2>2, ElementOfSeq
<1>7. Len(a) + Len(data) <= Len(all)
  BY <1>3, <1>5
<1> QED BY <1>4, <1>5, <1>6, <1>7 DEF all, a, c, data

\* Joined is all inputs.
LEMMA JoinedIs ==
    ASSUME fs \in Seq(OdFiles)
    PROVE  Joined = UpToInput(fs, Len(fs)) /\ Joined \in Seq(ByteSet)
<1>1. DOMAIN fs = 1..Len(fs) /\ Len(fs) \in Nat
  BY LenProperties
<1>2. Joined = UpToInput(fs, Len(fs))
  BY <1>1 DEF Joined, UpToInput, DataOf
<1> QED BY <1>1, <1>2, InputsJoin
-----------------------------------------------------------------------------
(* od: the options *)

OdDefaults == [skip |-> 0, N |-> FALSE, left |-> 0, width |-> 16, start |-> 0, done |-> 0, buf |-> <<>>]
OdArgs == argv \in Seq(ToSet(argv)) /\ \A k \in DOMAIN argv : argv[k].o \in {"j", "N"} => argv[k].num \in Nat
OdOptions ==
    [skip : Nat, N : BOOLEAN, left : Nat, width : {16} \cup {argv[i].num : i \in DOMAIN argv},
     start : {0}, done : {0}, buf : {<<>>}]

\* An option leaves a state of the option loop.
LEMMA OdOptionType ==
    ASSUME OdArgs, NEW s \in OdOptions, NEW i \in DOMAIN argv
    PROVE  OdOption(s, argv[i]) \in OdOptions
<1> DEFINE a == argv[i]
<1>1. a.o \in {"j", "N"} => a.num \in Nat
  BY DEF OdArgs
<1>2. a.num \in {argv[k].num : k \in DOMAIN argv}
  OBVIOUS
<1> HIDE DEF a
<1> QED BY <1>1, <1>2 DEF OdOption, OdOptions, a

\* The option loop, option by option.
LEMMA OdLoop ==
    ASSUME OdArgs
    PROVE  \E h : /\ h[0] = OdDefaults
                  /\ \A k \in 0..Len(argv) : h[k] \in OdOptions
                  /\ \A k \in 1..Len(argv) : h[k] = OdOption(h[k - 1], argv[k])
                  /\ FoldLeft(OdOption, OdDefaults, argv) = h[Len(argv)]
<1> DEFINE n == Len(argv)
           Pass(d, f) == OdOption(f[d \ {Max(d)}], argv[Max(d)])
           Is(f) == f = [d \in SUBSET (1..n) |-> IF d = {} THEN OdDefaults ELSE Pass(d, f)]
           step == [x \in OdOptions \X (1..n) |-> OdOption(x[1], argv[x[2]])]
           fold == CHOOSE f : Is(f)
<1>1. n \in Nat /\ DOMAIN argv = 1..n
  BY LenProperties DEF OdArgs
<1>2. OdDefaults \in OdOptions
  BY DEF OdDefaults, OdOptions
<1>3. step \in [OdOptions \X (1..n) -> OdOptions]
  BY <1>1, OdOptionType
<1>4. \A x \in OdOptions, k \in 1..n : step[<<x, k>>] = OdOption(x, argv[k])
  OBVIOUS
<1>5. FoldLeft(OdOption, OdDefaults, argv) = fold[1..n]
  BY <1>1 DEF FoldLeft, MapThenFoldSet
<1> HIDE DEF n, step
<1>6. \A d \in SUBSET (1..n) : d # {} => Max(d) \in 1..n
  BY <1>1, MaxIs
<1>7. Is(fold)
  <2>1. PICK f \in [SUBSET (1..n) -> OdOptions] : Folding(f, OdOptions, OdDefaults, n, step)
    BY <1>1, <1>2, <1>3, FoldExists
  <2>2. \A d \in SUBSET (1..n) : f[d] = IF d = {} THEN OdDefaults ELSE Pass(d, f)
    BY <1>4, <1>6, <2>1 DEF Folding
  <2>3. Is(f)
    BY <2>2
  <2> QED BY <2>3
<1> HIDE DEF fold
<1>8. Folding(fold, OdOptions, OdDefaults, n, step)
  <2>1. fold[{}] = OdDefaults
    BY <1>7
  <2>2. \A d \in SUBSET (1..n) : d # {} /\ fold[d \ {Max(d)}] \in OdOptions =>
          fold[d] = step[<<fold[d \ {Max(d)}], Max(d)>>]
    BY <1>4, <1>6, <1>7
  <2> QED BY <2>1, <2>2 DEF Folding
<1>9. PICK h : OneByOne(h, fold, OdOptions, OdDefaults, n, step)
  BY <1>1, <1>2, <1>3, <1>8, FoldSteps
<1>10. \A k \in 0..n : h[k] \in OdOptions
  BY <1>9 DEF OneByOne
<1>11. \A k \in 1..n : h[k] = OdOption(h[k - 1], argv[k])
  <2> TAKE k \in 1..n
  <2>1. k - 1 \in 0..n
    BY <1>1
  <2> QED BY <1>4, <1>9, <1>10, <2>1 DEF OneByOne
<1> QED BY <1>5, <1>9, <1>10, <1>11 DEF n, OneByOne


\* What the option loop has found after k options.
OdAfter(x, k) ==
    /\ x.N = (\E i \in 1..k : argv[i].o = "N")
    /\ (\A i \in 1..k : argv[i].o # "j") => x.skip = 0
    /\ \A i \in 1..k : argv[i].o = "j" /\ (\A j \in (i + 1)..k : argv[j].o # "j") => x.skip = argv[i].num
    /\ (\A i \in 1..k : argv[i].o # "N") => x.left = 0
    /\ \A i \in 1..k : argv[i].o = "N" /\ (\A j \in (i + 1)..k : argv[j].o # "N") => x.left = argv[i].num

\* One more option.
LEMMA OdAfterStep ==
    ASSUME NEW k \in 1..Len(argv), Len(argv) \in Nat, NEW x \in OdOptions, OdAfter(x, k - 1)
    PROVE  OdAfter(OdOption(x, argv[k]), k)
<1> DEFINE a == argv[k]
           y == OdOption(x, a)
<1> SUFFICES OdAfter(y, k)
  OBVIOUS
<1>1. k \in Nat /\ 1..k = (1..(k - 1)) \cup {k} /\ k \notin 1..(k - 1)
  OBVIOUS
<1>2. \A i \in 1..(k - 1) : (i + 1)..k = ((i + 1)..(k - 1)) \cup {k} /\ k \in (i + 1)..k
  OBVIOUS
<1>3. CASE a.o = "j"
  <2>1. y.skip = a.num /\ y.N = x.N /\ y.left = x.left
    BY <1>3 DEF OdOption, OdOptions
  <2> HIDE DEF y
  <2> QED BY <1>1, <1>2, <1>3, <2>1 DEF OdAfter
<1>4. CASE a.o = "N"
  <2>1. y.skip = x.skip /\ y.N = TRUE /\ y.left = a.num
    BY <1>4 DEF OdOption, OdOptions
  <2> HIDE DEF y
  <2> QED BY <1>1, <1>2, <1>4, <2>1 DEF OdAfter
<1>5. CASE a.o \notin {"j", "N"}
  <2>1. y.skip = x.skip /\ y.N = x.N /\ y.left = x.left
    BY <1>5 DEF OdOption, OdOptions
  <2> HIDE DEF y
  <2> QED BY <1>1, <1>2, <1>5, <2>1 DEF OdAfter
<1> QED BY <1>3, <1>4, <1>5

\* What it finds altogether.
LEMMA OdParsed ==
    ASSUME OdArgs
    PROVE  LET s == FoldLeft(OdOption, OdDefaults, argv) IN
           /\ s \in OdOptions
           /\ s.N = Has("N") /\ s.skip = Skipped("j", 0) /\ s.left = Skipped("N", 0)
<1> DEFINE s == FoldLeft(OdOption, OdDefaults, argv)
           n == Len(argv)
<1>1. n \in Nat /\ DOMAIN argv = 1..n
  BY LenProperties DEF OdArgs
<1>2. PICK h : /\ h[0] = OdDefaults
               /\ \A k \in 0..Len(argv) : h[k] \in OdOptions
               /\ \A k \in 1..Len(argv) : h[k] = OdOption(h[k - 1], argv[k])
               /\ FoldLeft(OdOption, OdDefaults, argv) = h[Len(argv)]
  BY OdLoop
<1>3. s = h[n] /\ n \in 0..n /\ s \in OdOptions
  BY <1>1, <1>2
<1> HIDE DEF s
<1> DEFINE good == {k \in Nat : OdAfter(h[k], k)}
<1>4. 0 \in good
  <2>1. 1..0 = {}
    OBVIOUS
  <2>2. OdAfter(OdDefaults, 0)
    BY <2>1 DEF OdAfter, OdDefaults
  <2> QED BY <1>2, <2>2
<1>5. ASSUME NEW k \in 0..(n - 1), k \in good PROVE k + 1 \in good
  <2>1. k + 1 \in 1..n /\ (k + 1) - 1 = k /\ k \in 0..n
    BY <1>1
  <2>2. OdAfter(h[(k + 1) - 1], (k + 1) - 1) /\ h[(k + 1) - 1] \in OdOptions
    BY <1>2, <1>5, <2>1
  <2>3. h[k + 1] = OdOption(h[(k + 1) - 1], argv[k + 1])
    BY <1>2, <2>1
  <2>4. OdAfter(h[k + 1], k + 1)
    BY <1>1, <2>1, <2>2, <2>3, OdAfterStep
  <2> QED BY <2>4
<1> HIDE DEF good
<1>6. \A k \in 0..n : k \in good
  BY <1>1, <1>4, <1>5, UpTo
<1>7. OdAfter(s, n)
  BY <1>3, <1>6 DEF good
<1>8. s.N = Has("N")
  BY <1>1, <1>7 DEF OdAfter, Has, Given
<1>9. s.skip = Skipped("j", 0)
  <2>1. CASE Given({"j"}) = {}
    <3>1. \A i \in 1..n : argv[i].o # "j"
      BY <1>1, <2>1 DEF Given
    <3> QED BY <1>7, <2>1, <3>1 DEF OdAfter, Skipped, Has
  <2>2. CASE Given({"j"}) # {}
    <3>1. PICK i \in 1..n : /\ LastGiven({"j"}) = argv[i] /\ argv[i].o \in {"j"}
                            /\ \A j \in (i + 1)..n : argv[j].o \notin {"j"}
      BY <1>1, <2>2, LastGivenIs
    <3> QED BY <1>7, <2>2, <3>1 DEF OdAfter, Skipped, Has
  <2> QED BY <2>1, <2>2
<1>10. s.left = Skipped("N", 0)
  <2>1. CASE Given({"N"}) = {}
    <3>1. \A i \in 1..n : argv[i].o # "N"
      BY <1>1, <2>1 DEF Given
    <3> QED BY <1>7, <2>1, <3>1 DEF OdAfter, Skipped, Has
  <2>2. CASE Given({"N"}) # {}
    <3>1. PICK i \in 1..n : /\ LastGiven({"N"}) = argv[i] /\ argv[i].o \in {"N"}
                            /\ \A j \in (i + 1)..n : argv[j].o \notin {"N"}
      BY <1>1, <2>2, LastGivenIs
    <3> QED BY <1>7, <2>2, <3>1 DEF OdAfter, Skipped, Has
  <2> QED BY <2>1, <2>2
<1> QED BY <1>3, <1>8, <1>9, <1>10 DEF s
-----------------------------------------------------------------------------
(* od: words and their bytes *)

\* Remainder and quotient.
LEMMA Remainder ==
    ASSUME NEW n \in Nat \ {0}, NEW x \in Int, NEW q \in Int, NEW r \in 0..(n - 1), x = q * n + r
    PROVE  x % n = r /\ x \div n = q
OBVIOUS


\* The octal of w shows w, if w is a value of the type that has n of them.
LEMMA OctalBack ==
    ASSUME NEW n \in Nat \ {0}, NEW m \in Nat \ {0}, IntVals = n * m, NEW w \in 0..(n - 1)
    PROVE  Octal(w, n) \in Int /\ Octal(w, n) % n = w
<1> DEFINE all == n * m
<1>1. all \in Nat /\ n <= all
  <2>1. m = (m - 1) + 1 /\ m - 1 \in Nat
    OBVIOUS
  <2>2. all = n * (m - 1) + n /\ n * (m - 1) \in Nat
    BY <2>1
  <2> HIDE DEF all
  <2> QED BY <2>2
<1>2. w = 0 * n + w /\ w % n = w
  BY Remainder
<1>3. CASE 2 * w < n
  <2>1. w \in 0..(all - 1) /\ w = 0 * all + w /\ all \in Nat \ {0}
    <3> HIDE DEF all
    <3> QED BY <1>1
  <2>2. w % all = w
    <3> HIDE DEF all
    <3> QED BY <2>1, Remainder
  <2>3. Octal(w, n) = w
    BY <1>3, <2>2 DEF Octal
  <2> QED BY <1>2, <2>3
<1>4. CASE ~(2 * w < n)
  <2> DEFINE r == all + w - n
  <2>1. r \in 0..(all - 1) /\ w - n = (-1) * all + r /\ all \in Nat \ {0} /\ w - n \in Int
    <3> HIDE DEF all
    <3> QED BY <1>1
  <2>2. (w - n) % all = r
    <3> HIDE DEF all, r
    <3> QED BY <2>1, Remainder
  <2>3. Octal(w, n) = r
    BY <1>4, <2>2 DEF Octal
  <2>4. r = (m - 1) * n + w /\ m - 1 \in Int /\ r \in Int
    OBVIOUS
  <2>5. r % n = w
    <3> HIDE DEF r
    <3> QED BY <2>4, Remainder
  <2> QED BY <2>3, <2>4, <2>5
<1> QED BY <1>3, <1>4

\* The bytes of a word that is printed can be told, and the one of an odd byte.
LEMMA DecodedBytes ==
    ASSUME NEW lo \in ByteSet, NEW hi \in ByteSet
    PROVE  LET w == Octal(lo + ByteVals * hi, WordVals) IN w \in Int /\ Decoded(w, FALSE) = <<lo, hi>>
<1> DEFINE w == lo + ByteVals * hi
<1>1. ByteVals \in Nat \ {0} /\ lo \in 0..(ByteVals - 1) /\ hi \in 0..(ByteVals - 1)
  BY OdAssumption DEF ByteSet
<1>2. WordVals \in Nat \ {0} /\ IntVals = WordVals * WordVals
  <2>1. ByteVals * ByteVals \in Nat /\ ByteVals * ByteVals # 0
    BY <1>1
  <2> QED BY <2>1 DEF WordVals, IntVals
<1>3. w \in 0..(WordVals - 1)
  <2>1. ByteVals * hi <= ByteVals * (ByteVals - 1) /\ ByteVals * hi \in Nat
    <3>1. ByteVals - 1 - hi \in Nat
      BY <1>1
    <3>2. ByteVals * (ByteVals - 1 - hi) \in Nat
      BY <1>1, <3>1
    <3>3. ByteVals * (ByteVals - 1) = ByteVals * (ByteVals - 1 - hi) + ByteVals * hi
      BY <1>1
    <3>4. ByteVals * hi \in Nat
      BY <1>1
    <3> QED BY <3>2, <3>3, <3>4
  <2>2. ByteVals * (ByteVals - 1) = ByteVals * ByteVals - ByteVals
    BY <1>1
  <2> QED BY <1>1, <2>1, <2>2 DEF WordVals
<1>4. Octal(w, WordVals) \in Int /\ Octal(w, WordVals) % WordVals = w
  <2> HIDE DEF w
  <2> QED BY <1>2, <1>3, OctalBack
<1>5. w % ByteVals = lo /\ w \div ByteVals = hi
  <2>1. w = hi * ByteVals + lo /\ w \in Int /\ hi \in Int
    BY <1>1
  <2> HIDE DEF w
  <2> QED BY <1>1, <2>1, Remainder
<1> QED BY <1>4, <1>5 DEF Decoded, Unsigned

\* The same of an odd byte.
LEMMA DecodedByte ==
    ASSUME NEW b \in ByteSet
    PROVE  Octal(b, ByteVals) \in Int /\ Decoded(Octal(b, ByteVals), TRUE) = <<b>>
<1> DEFINE m == ByteVals * WordVals
<1>1. ByteVals \in Nat \ {0} /\ b \in 0..(ByteVals - 1)
  BY OdAssumption DEF ByteSet
<1>2. m \in Nat \ {0} /\ IntVals = ByteVals * m
  <2>1. WordVals \in Nat \ {0} /\ WordVals = ByteVals * ByteVals
    <3>1. ByteVals * ByteVals \in Nat /\ ByteVals * ByteVals # 0
      BY <1>1
    <3> QED BY <3>1 DEF WordVals
  <2>2. ByteVals * WordVals \in Nat /\ ByteVals * WordVals # 0
    BY <1>1, <2>1
  <2>3. (ByteVals * ByteVals) * WordVals = ByteVals * (ByteVals * WordVals)
    BY <1>1, <2>1
  <2> QED BY <2>1, <2>2, <2>3 DEF IntVals
<1>3. Octal(b, ByteVals) \in Int /\ Octal(b, ByteVals) % ByteVals = b
  <2> HIDE DEF m
  <2> QED BY <1>1, <1>2, OctalBack
<1> QED BY <1>3 DEF Decoded, Unsigned
-----------------------------------------------------------------------------
(* od: the output *)

Elements == [word : Int] \cup [offset : Int]
IsWord(e) == "word" \in DOMAIN e

\* What an element is.
LEMMA ElementIs ==
    /\ \A w \in Int : [word |-> w] \in Elements /\ IsWord([word |-> w])
    /\ \A n \in Int : [offset |-> n] \in Elements /\ ~IsWord([offset |-> n])
BY DEF Elements, IsWord

\* One more element: the words before the others are the same.
LEMMA OneMore ==
    ASSUME NEW o \in Seq(Elements), NEW e \in Elements
    PROVE  LET t == o \o <<e>>
               l == Len(o) + 1
               n == Cardinality(WordsOf(o))
           IN /\ t \in Seq(Elements) /\ Len(o) \in Nat /\ Len(t) = l /\ t[l] = e /\ n \in Nat
              /\ \A p \in 1..Len(o) : /\ t[p] = o[p] /\ Before(t, p) = Before(o, p)
                                      /\ p \in WordsOf(t) <=> p \in WordsOf(o)
              /\ Before(t, l) = n /\ (l \in WordsOf(t) <=> IsWord(e))
              /\ Cardinality(WordsOf(t)) = IF IsWord(e) THEN n + 1 ELSE n
<1> DEFINE t == o \o <<e>>
           l == Len(o) + 1
<1>1. Len(o) \in Nat /\ DOMAIN o = 1..Len(o)
  BY LenProperties
<1>2. <<e>> \in Seq(Elements) /\ Len(<<e>>) = 1 /\ <<e>>[1] = e
  OBVIOUS
<1>3. /\ t \in Seq(Elements) /\ Len(t) = l /\ DOMAIN t = 1..l
      /\ \A p \in 1..l : t[p] = IF p <= Len(o) THEN o[p] ELSE <<e>>[p - Len(o)]
  BY <1>2, ConcatProperties, LenProperties
<1>4. t[l] = e
  <2>1. l \in 1..l /\ ~(l <= Len(o)) /\ l - Len(o) = 1
    BY <1>1
  <2> HIDE DEF l, t
  <2> QED BY <1>2, <1>3, <2>1
<1>5. \A p \in 1..Len(o) : t[p] = o[p] /\ p \in 1..l
  <2> TAKE p \in 1..Len(o)
  <2>1. p \in 1..l /\ p <= Len(o)
    BY <1>1
  <2> HIDE DEF t, l
  <2> QED BY <1>3, <2>1
<1>6. 1..l = (1..Len(o)) \cup {l} /\ l \notin 1..Len(o) /\ l \in 1..l
  BY <1>1
<1> HIDE DEF t
<1>7. WordsOf(o) \subseteq 1..Len(o)
  BY <1>1 DEF WordsOf
<1>8. l \in WordsOf(t) <=> IsWord(e)
  BY <1>3, <1>4, <1>6 DEF WordsOf, IsWord
<1>9. \A p \in 1..Len(o) : p \in WordsOf(t) <=> p \in WordsOf(o)
  BY <1>1, <1>3, <1>5 DEF WordsOf
<1>10. WordsOf(t) \subseteq 1..l
  BY <1>3 DEF WordsOf
<1> HIDE DEF l
<1>11. WordsOf(t) = IF IsWord(e) THEN WordsOf(o) \cup {l} ELSE WordsOf(o)
  <2>1. CASE IsWord(e)
    <3>1. l \in WordsOf(t)
      BY <1>8, <2>1
    <3>2. WordsOf(t) = WordsOf(o) \cup {l}
      BY <1>6, <1>7, <1>9, <1>10, <3>1
    <3> QED BY <2>1, <3>2
  <2>2. CASE ~IsWord(e)
    <3>1. l \notin WordsOf(t)
      BY <1>8, <2>2
    <3>2. WordsOf(t) = WordsOf(o)
      BY <1>6, <1>7, <1>9, <1>10, <3>1
    <3> QED BY <2>2, <3>2
  <2> QED BY <2>1, <2>2
<1>12. IsFiniteSet(WordsOf(o)) /\ l \notin WordsOf(o)
  <2>1. IsFiniteSet(1..Len(o))
    BY <1>1, FS_Interval
  <2>2. IsFiniteSet(WordsOf(o))
    BY <1>7, <2>1, FS_Subset
  <2> QED BY <1>6, <1>7, <2>2
<1>13. /\ Cardinality(WordsOf(o)) \in Nat
       /\ Cardinality(WordsOf(t)) = IF IsWord(e) THEN Cardinality(WordsOf(o)) + 1 ELSE Cardinality(WordsOf(o))
  BY <1>11, <1>12, FS_CardinalityType, FS_AddElement
<1>14. ASSUME NEW p \in 1..l PROVE WordsOf(t) \cap 1..(p - 1) = WordsOf(o) \cap 1..(p - 1)
  <2>1. 1..(p - 1) \subseteq 1..Len(o)
    BY <1>1 DEF l
  <2> QED BY <1>9, <2>1
<1>15. \A p \in 1..Len(o) : Before(t, p) = Before(o, p)
  BY <1>5, <1>14 DEF Before
<1>16. Before(t, l) = Cardinality(WordsOf(o))
  <2>1. l - 1 = Len(o)
    BY <1>1 DEF l
  <2>2. WordsOf(o) \cap 1..(l - 1) = WordsOf(o)
    BY <1>7, <2>1
  <2> QED BY <1>6, <1>14, <2>2 DEF Before
<1> QED BY <1>1, <1>3, <1>4, <1>5, <1>8, <1>9, <1>13, <1>15, <1>16 DEF t, l

\* The words of the first 2 * n bytes of d behind skip, with their offsets.
WordAt(d, at) == Octal(d[at + 1] + ByteVals * d[at + 2], WordVals)
WrittenAt(o, p, d, skip) ==
    o[p] = IF p \in WordsOf(o) THEN [word |-> WordAt(d, skip + 2 * Before(o, p))]
           ELSE [offset |-> skip + 2 * Before(o, p)]
Written(o, n, d, skip) ==
    /\ o \in Seq(Elements) /\ Cardinality(WordsOf(o)) = n
    /\ \A p \in 1..Len(o) : WrittenAt(o, p, d, skip)

\* Nothing is written first.
LEMMA WriteNothing ==
    ASSUME NEW d, NEW skip
    PROVE  Written(<<>>, 0, d, skip)
<1>1. WordsOf(<<>>) = {} /\ 1..Len(<<>>) = {} /\ <<>> \in Seq(Elements)
  BY EmptySeq DEF WordsOf
<1> QED BY <1>1, FS_EmptySet DEF Written

\* The next word or an offset is written.
LEMMA WriteOne ==
    ASSUME NEW o, NEW n \in Nat, NEW d, NEW skip \in Nat, Written(o, n, d, skip),
           NEW e \in Elements,
           e = IF IsWord(e) THEN [word |-> WordAt(d, skip + 2 * n)] ELSE [offset |-> skip + 2 * n]
    PROVE  Written(o \o <<e>>, IF IsWord(e) THEN n + 1 ELSE n, d, skip)
<1> DEFINE t == o \o <<e>>
           l == Len(o) + 1
<1>1. o \in Seq(Elements) /\ Cardinality(WordsOf(o)) = n
  BY DEF Written
<1>2. /\ t \in Seq(Elements) /\ Len(o) \in Nat /\ Len(t) = l /\ t[l] = e
      /\ \A p \in 1..Len(o) : /\ t[p] = o[p] /\ Before(t, p) = Before(o, p)
                              /\ p \in WordsOf(t) <=> p \in WordsOf(o)
      /\ Before(t, l) = n /\ (l \in WordsOf(t) <=> IsWord(e))
      /\ Cardinality(WordsOf(t)) = IF IsWord(e) THEN n + 1 ELSE n
  BY <1>1, OneMore
<1>3. 1..Len(t) = (1..Len(o)) \cup {l}
  BY <1>2
<1> HIDE DEF t, l
<1>4. \A p \in 1..Len(o) : WrittenAt(t, p, d, skip)
  BY <1>2 DEF Written, WrittenAt
<1>5. WrittenAt(t, l, d, skip)
  BY <1>2 DEF WrittenAt
<1> SUFFICES Written(t, IF IsWord(e) THEN n + 1 ELSE n, d, skip)
  BY DEF t
<1> QED BY <1>2, <1>3, <1>4, <1>5 DEF Written

\* An offset is written, or not.
LEMMA WriteOffset ==
    ASSUME NEW o, NEW n \in Nat, NEW d, NEW skip \in Nat, Written(o, n, d, skip),
           NEW t, t \in {<<>>, <<[offset |-> skip + 2 * n]>>}
    PROVE  Written(o \o t, n, d, skip)
<1>1. CASE t = <<>>
  <2>1. o \o t = o
    BY <1>1, ConcatEmptySeq DEF Written
  <2> QED BY <2>1
<1>2. CASE t = <<[offset |-> skip + 2 * n]>>
  <2> DEFINE e == [offset |-> skip + 2 * n]
  <2>1. skip + 2 * n \in Int
    OBVIOUS
  <2>2. e \in Elements /\ ~IsWord(e)
    BY <2>1, ElementIs
  <2>3. Written(o \o <<e>>, IF IsWord(e) THEN n + 1 ELSE n, d, skip)
    <3>1. e = IF IsWord(e) THEN [word |-> WordAt(d, skip + 2 * n)] ELSE [offset |-> skip + 2 * n]
      BY <2>2
    <3> HIDE DEF e
    <3> QED BY <2>2, <3>1, WriteOne
  <2> QED BY <1>2, <2>2, <2>3
<1> QED BY <1>1, <1>2

\* The next word is written.
LEMMA WriteWord ==
    ASSUME NEW o, NEW n \in Nat, NEW d, NEW skip \in Nat, Written(o, n, d, skip),
           d[skip + 2 * n + 1] \in ByteSet, d[skip + 2 * n + 2] \in ByteSet
    PROVE  /\ [word |-> WordAt(d, skip + 2 * n)] \in Elements
           /\ Written(o \o <<[word |-> WordAt(d, skip + 2 * n)]>>, n + 1, d, skip)
<1> DEFINE e == [word |-> WordAt(d, skip + 2 * n)]
<1>1. WordAt(d, skip + 2 * n) \in Int
  BY DecodedBytes DEF WordAt
<1>2. e \in Elements /\ IsWord(e)
  BY <1>1, ElementIs
<1>3. Written(o \o <<e>>, IF IsWord(e) THEN n + 1 ELSE n, d, skip)
  <2>1. e = IF IsWord(e) THEN [word |-> WordAt(d, skip + 2 * n)] ELSE [offset |-> skip + 2 * n]
    BY <1>2
  <2> HIDE DEF e
  <2> QED BY <1>2, <2>1, WriteOne
<1> QED BY <1>2, <1>3


\* Sequences may be put together in any order.
IsConcat(x, s, t) == x = s \o t
LEMMA Regroup ==
    ASSUME NEW S, NEW s \in Seq(S), NEW t \in Seq(S), NEW u \in Seq(S),
           NEW x, IsConcat(x, s, t), NEW y, IsConcat(y, t, u), NEW z, IsConcat(z, s, y)
    PROVE  IsConcat(z, x, u)
<1>1. (s \o t) \o u = s \o (t \o u)
  OBVIOUS
<1> QED BY <1>1 DEF IsConcat

\* The words of a buffer are written.
LEMMA WriteWords ==
    ASSUME NEW o, NEW n \in Nat, NEW d, NEW skip \in Nat, Written(o, n, d, skip), g.start = skip,
           NEW b \in Seq(ByteSet), \A i \in 1..Len(b) : b[i] = d[skip + 2 * n + i]
    PROVE  Written(o \o Words(b, 2 * n), n + Len(b) \div 2, d, skip)
<1> DEFINE half == Len(b) \div 2
           At(i) == 2 * n + 2 * (i - 1)
           Line(i) == IF At(i) % g.width = 0 THEN <<[offset |-> At(i) + g.start]>> ELSE <<>>
           Shown(i) == [word |-> Octal(b[2 * i - 1] + ByteVals * b[2 * i], WordVals)]
           s == [i \in 1..half |-> Line(i) \o <<Shown(i)>>]
<1>1. Len(b) \in Nat /\ half \in Nat /\ 2 * half <= Len(b)
  BY LenProperties
<1>2. ASSUME NEW i \in 1..half
      PROVE  /\ Line(i) \in {<<>>, <<[offset |-> skip + 2 * (n + (i - 1))]>>}
             /\ Shown(i) = [word |-> WordAt(d, skip + 2 * (n + (i - 1)))]
             /\ d[skip + 2 * (n + (i - 1)) + 1] \in ByteSet
             /\ d[skip + 2 * (n + (i - 1)) + 2] \in ByteSet
             /\ n + (i - 1) \in Nat
  <2> HIDE DEF half
  <2>1. /\ At(i) + g.start = skip + 2 * (n + (i - 1)) /\ n + (i - 1) \in Nat
        /\ 2 * i - 1 \in 1..Len(b) /\ 2 * i \in 1..Len(b)
        /\ skip + 2 * n + (2 * i - 1) = skip + 2 * (n + (i - 1)) + 1
        /\ skip + 2 * n + 2 * i = skip + 2 * (n + (i - 1)) + 2
    BY <1>1
  <2>2. /\ b[2 * i - 1] = d[skip + 2 * (n + (i - 1)) + 1] /\ b[2 * i - 1] \in ByteSet
        /\ b[2 * i] = d[skip + 2 * (n + (i - 1)) + 2] /\ b[2 * i] \in ByteSet
    BY <2>1, ElementOfSeq
  <2>3. Line(i) \in {<<>>, <<[offset |-> skip + 2 * (n + (i - 1))]>>}
    BY <2>1
  <2> QED BY <2>1, <2>2, <2>3 DEF WordAt
<1> HIDE DEF half, Line, Shown
<1>3. \A i \in 1..half :
        /\ Line(i) \in Seq(Elements) /\ <<Shown(i)>> \in Seq(Elements)
        /\ Line(i) \o <<Shown(i)>> \in Seq(Elements)
  <2> TAKE i \in 1..half
  <2>1. [offset |-> skip + 2 * (n + (i - 1))] \in Elements
    <3>1. skip + 2 * (n + (i - 1)) \in Int
      BY <1>2
    <3> QED BY <3>1, ElementIs
  <2>2. Line(i) \in Seq(Elements)
    <3>1. <<>> \in Seq(Elements)
      BY EmptySeq
    <3>2. Line(i) = <<>> \/ Line(i) = <<[offset |-> skip + 2 * (n + (i - 1))]>>
      BY <1>2
    <3>3. <<[offset |-> skip + 2 * (n + (i - 1))]>> \in Seq(Elements)
      BY <2>1
    <3> QED BY <3>1, <3>2, <3>3
  <2>3. Shown(i) \in Elements
    <3>1. WordAt(d, skip + 2 * (n + (i - 1))) \in Int
      BY <1>2, DecodedBytes DEF WordAt
    <3> QED BY <1>2, <3>1, ElementIs
  <2>4. <<Shown(i)>> \in Seq(Elements)
    BY <2>3
  <2> QED BY <2>2, <2>4, ConcatProperties
<1>4. s \in Seq(Seq(Elements)) /\ Len(s) = half /\ \A i \in 1..half : s[i] = Line(i) \o <<Shown(i)>>
  <2>1. s \in [1..half -> Seq(Elements)]
    BY <1>3
  <2>2. \A i \in 1..half : s[i] = Line(i) \o <<Shown(i)>>
    OBVIOUS
  <2> HIDE DEF s
  <2> QED BY <1>1, <2>1, <2>2, SeqDef, LenProperties
<1>5. Words(b, 2 * n) = FlattenSeq(s)
  BY DEF Words, s, half, Line, Shown
<1> HIDE DEF s
<1>6. PICK h : Flattening(h, s, Elements)
  BY <1>1, <1>4, Flattens
<1>7. /\ h[0] = <<>> /\ h[half] = FlattenSeq(s)
      /\ \A k \in 0..half : h[k] \in Seq(Elements)
      /\ \A k \in 1..half : h[k] = h[k - 1] \o (Line(k) \o <<Shown(k)>>)
  BY <1>4, <1>6 DEF Flattening
<1>8. o \in Seq(Elements)
  BY DEF Written
<1> DEFINE good == {k \in Nat : Written(o \o h[k], n + k, d, skip)}
<1>9. 0 \in good
  <2>1. o \o h[0] = o /\ n + 0 = n
    BY <1>7, <1>8, ConcatEmptySeq
  <2> QED BY <2>1
<1>10. ASSUME NEW k \in 0..(half - 1), k \in good PROVE k + 1 \in good
  <2> DEFINE i == k + 1
             t == o \o h[k]
             l == Line(i)
             w == <<Shown(i)>>
  <2>1. i \in 1..half /\ i - 1 = k /\ k \in 0..half /\ i \in Nat /\ n + k \in Nat /\ (n + k) + 1 = n + i
    BY <1>1
  <2>2. Written(t, n + k, d, skip)
    BY <1>10
  <2> HIDE DEF i
  <2>3. l \in {<<>>, <<[offset |-> skip + 2 * (n + k)]>>} /\ l \in Seq(Elements) /\ w \in Seq(Elements)
    BY <1>2, <1>3, <2>1
  <2>4. w = <<[word |-> WordAt(d, skip + 2 * (n + k))]>>
        /\ d[skip + 2 * (n + k) + 1] \in ByteSet /\ d[skip + 2 * (n + k) + 2] \in ByteSet
    BY <1>2, <2>1
  <2>5. h[i] = h[k] \o (l \o w) /\ h[k] \in Seq(Elements)
    BY <1>7, <2>1
  <2>6. t \in Seq(Elements)
    BY <2>2 DEF Written
  <2> DEFINE m == h[k]
             lw == l \o w
             tl == t \o l
             all == o \o h[i]
  <2> HIDE DEF l, w, t, m, lw, tl, all
  <2>7. l \in Seq(Elements) /\ w \in Seq(Elements) /\ t \in Seq(Elements) /\ m \in Seq(Elements)
        /\ o \in Seq(Elements)
    BY <1>8, <2>3, <2>5, <2>6 DEF m
  <2>8. lw \in Seq(Elements) /\ IsConcat(lw, l, w)
    BY <2>7, ConcatProperties DEF lw, IsConcat
  <2>12. IsConcat(t, o, m) /\ IsConcat(h[i], m, lw) /\ IsConcat(all, o, h[i]) /\ IsConcat(tl, t, l)
    BY <2>5 DEF t, tl, lw, all, m, IsConcat
  <2>13. IsConcat(all, t, lw)
    BY <2>7, <2>8, <2>12, Regroup
  <2>14. IsConcat(all, tl, w)
    BY <2>7, <2>8, <2>12, <2>13, Regroup
  <2>15. o \o h[i] = (t \o l) \o w
    BY <2>14 DEF IsConcat, all, tl
  <2>9. Written(t \o l, n + k, d, skip)
    BY <2>1, <2>2, <2>3, WriteOffset
  <2>10. Written((t \o l) \o w, (n + k) + 1, d, skip)
    BY <2>1, <2>4, <2>9, WriteWord
  <2>11. Written(o \o h[i], n + i, d, skip)
    BY <2>1, <2>15, <2>10
  <2> QED BY <2>1, <2>11 DEF i
<1> HIDE DEF good
<1>11. \A k \in 0..half : k \in good
  BY <1>1, <1>9, <1>10, UpTo
<1>12. half \in good
  BY <1>1, <1>11
<1>13. Written(o \o h[half], n + half, d, skip)
  BY <1>12 DEF good
<1> QED BY <1>5, <1>7, <1>13 DEF half


\* There is a word more than there are before it.
LEMMA FewerBefore ==
    ASSUME NEW o \in Seq(Elements), NEW p \in WordsOf(o)
    PROVE  Before(o, p) \in Nat /\ Before(o, p) < Cardinality(WordsOf(o))
<1> DEFINE early == WordsOf(o) \cap 1..(p - 1)
<1>1. Len(o) \in Nat /\ DOMAIN o = 1..Len(o)
  BY LenProperties
<1>2. WordsOf(o) \subseteq 1..Len(o) /\ IsFiniteSet(1..Len(o))
  BY <1>1, FS_Interval DEF WordsOf
<1>3. IsFiniteSet(WordsOf(o)) /\ Cardinality(WordsOf(o)) \in Nat
  BY <1>2, FS_Subset, FS_CardinalityType
<1>4. early \subseteq WordsOf(o) /\ p \notin early
  <2>1. p \in Nat
    BY <1>1, <1>2
  <2> QED BY <2>1
<1>5. IsFiniteSet(early) /\ Cardinality(early) <= Cardinality(WordsOf(o))
      /\ (Cardinality(early) = Cardinality(WordsOf(o)) => early = WordsOf(o))
  BY <1>3, <1>4, FS_Subset
<1>6. Cardinality(early) \in Nat
  BY <1>5, FS_CardinalityType
<1>7. early # WordsOf(o)
  BY <1>4
<1>8. Cardinality(early) < Cardinality(WordsOf(o))
  BY <1>3, <1>5, <1>6, <1>7
<1> QED BY <1>6, <1>8 DEF Before

\* What OdExact says of an element, when data is what was asked for.
Tells(o, p, data, skip) ==
    LET at == 2 * Before(o, p) IN
    IF p \in WordsOf(o)
    THEN Decoded(o[p].word, at + 1 = Len(data)) = SubSeq(data, at + 1, Min({at + 2, Len(data)}))
    ELSE o[p] = [offset |-> skip + at]

\* Two elements of a sequence.
LEMMA SubSeqOfTwo ==
    ASSUME NEW S, NEW s \in Seq(S), NEW i \in Nat \ {0}, i + 1 <= Len(s)
    PROVE  SubSeq(s, i, i + 1) = <<s[i], s[i + 1]>>
<1>1. Len(s) \in Nat
  BY LenProperties
<1> DEFINE t == SubSeq(s, i, i + 1)
           two == <<s[i], s[i + 1]>>
<1>2. \A k \in i..(i + 1) : s[k] \in S
  <2>1. \A k \in i..(i + 1) : k \in 1..Len(s)
    BY <1>1
  <2> QED BY <2>1, ElementOfSeq
<1>3. t \in Seq(S) /\ Len(t) = 2 /\ t[1] = s[i] /\ t[2] = s[i + 1]
  <2>1. /\ t \in Seq(S) /\ Len(t) = IF i <= i + 1 THEN (i + 1) - i + 1 ELSE 0
        /\ \A k \in 1..((i + 1) - i + 1) : t[k] = s[i + k - 1]
    <3>1. i \in Int /\ i + 1 \in Int
      OBVIOUS
    <3> QED BY <1>2, <3>1, SubSeqProperties
  <2> HIDE DEF t
  <2>2. /\ 1 \in 1..((i + 1) - i + 1) /\ 2 \in 1..((i + 1) - i + 1) /\ i + 1 - 1 = i
        /\ i + 2 - 1 = i + 1 /\ i <= i + 1 /\ (i + 1) - i + 1 = 2
    OBVIOUS
  <2>3. t[1] = s[i] /\ t[2] = s[i + 1]
    <3>1. t[1] = s[i + 1 - 1] /\ t[2] = s[i + 2 - 1]
      BY <2>1, <2>2
    <3> QED BY <2>2, <3>1
  <2>4. t \in Seq(S) /\ Len(t) = 2
    BY <2>1, <2>2
  <2> QED BY <2>3, <2>4
<1>4. two \in Seq(S) /\ Len(two) = 2 /\ two[1] = s[i] /\ two[2] = s[i + 1]
  BY <1>2
<1>5. \A k \in 1..2 : t[k] = two[k]
  <2> HIDE DEF t, two
  <2> QED BY <1>3, <1>4
<1> HIDE DEF t, two
<1>6. t = two
  BY <1>3, <1>4, <1>5, SeqEqual
<1> QED BY <1>6 DEF t, two

\* One element.
LEMMA SubSeqOfOne ==
    ASSUME NEW S, NEW s \in Seq(S), NEW i \in 1..Len(s)
    PROVE  SubSeq(s, i, i) = <<s[i]>>
<1> DEFINE t == SubSeq(s, i, i)
           one == <<s[i]>>
<1>1. Len(s) \in Nat /\ i \in Nat \ {0} /\ i <= Len(s) /\ i \in Nat /\ s[i] \in S
  BY LenProperties, ElementOfSeq
<1>2. /\ t \in Seq(S) /\ Len(t) = IF i <= i THEN i - i + 1 ELSE 0
      /\ \A k \in 1..(i - i + 1) : t[k] = s[i + k - 1]
  BY <1>1, PartOf
<1> HIDE DEF t
<1>3. Len(t) = 1 /\ t[1] = s[i]
  <2>1. 1 \in 1..(i - i + 1) /\ i + 1 - 1 = i /\ i - i + 1 = 1
    BY <1>1
  <2> QED BY <1>1, <1>2, <2>1
<1>4. one \in Seq(S) /\ Len(one) = 1 /\ one[1] = s[i]
  BY <1>1
<1> HIDE DEF one
<1>5. t = one
  BY <1>2, <1>3, <1>4, SeqEqual
<1> QED BY <1>5 DEF t, one

\* Every element of what is written tells the bytes it stands for.
LEMMA WrittenTells ==
    ASSUME NEW o, NEW n \in Nat, NEW d \in Seq(ByteSet), NEW skip \in Nat, Written(o, n, d, skip),
           NEW data \in Seq(ByteSet), 2 * n <= Len(data),
           \A i \in 1..Len(data) : data[i] = d[skip + i],
           NEW p \in 1..Len(o)
    PROVE  Tells(o, p, data, skip)
<1> DEFINE k == Before(o, p)
<1>1. o \in Seq(Elements) /\ Cardinality(WordsOf(o)) = n /\ WrittenAt(o, p, d, skip) /\ Len(data) \in Nat
  BY LenProperties DEF Written
<1>2. CASE p \notin WordsOf(o)
  BY <1>1, <1>2 DEF WrittenAt, Tells
<1>3. CASE p \in WordsOf(o)
  <2>1. k \in Nat /\ k < n /\ o[p] = [word |-> WordAt(d, skip + 2 * k)]
    BY <1>1, <1>3, FewerBefore DEF WrittenAt
  <2> HIDE DEF k
  <2> DEFINE a == 2 * k + 1
             size == Len(data)
  <2>2. /\ a \in 1..size /\ a + 1 \in 1..size /\ a + 1 <= size /\ a # size /\ a \in Nat /\ size \in Nat
        /\ skip + a = skip + 2 * k + 1 /\ skip + (a + 1) = skip + 2 * k + 2 /\ 2 * k + 2 = a + 1
    <3> HIDE DEF size
    <3>1. size \in Nat /\ 2 * n <= size
      BY <1>1 DEF size
    <3>2. k \in Nat /\ k + 1 <= n
      BY <2>1
    <3>3. 2 * k + 2 <= size
      BY <3>1, <3>2
    <3>4. a \in Nat /\ a = 2 * k + 1 /\ a + 1 <= size
      BY <3>2, <3>3
    <3>5. skip + a = skip + 2 * k + 1 /\ skip + (a + 1) = skip + 2 * k + 2 /\ 2 * k + 2 = a + 1
      BY <3>2, <3>4
    <3> HIDE DEF a
    <3>6. a \in 1..size /\ a + 1 \in 1..size /\ a # size
      BY <3>1, <3>2, <3>4
    <3> QED BY <3>1, <3>4, <3>5, <3>6
  <2> HIDE DEF a, size
  <2>3. data[a] = d[skip + 2 * k + 1] /\ data[a] \in ByteSet
    BY <2>2, ElementOfSeq DEF size
  <2>4. data[a + 1] = d[skip + 2 * k + 2] /\ data[a + 1] \in ByteSet
    BY <2>2, ElementOfSeq DEF size
  <2>5. Decoded(o[p].word, FALSE) = <<data[a], data[a + 1]>>
    <3> DEFINE w == WordAt(d, skip + 2 * k)
    <3>1. Decoded(w, FALSE) = <<data[a], data[a + 1]>>
      BY <2>3, <2>4, DecodedBytes DEF WordAt
    <3>2. o[p].word = w
      BY <2>1
    <3> QED BY <3>1, <3>2
  <2>6. Min({a + 1, size}) = a + 1
    <3>1. a + 1 \in Int /\ size \in Int
      BY <2>2
    <3> QED BY <2>2, <3>1, OfTwo
  <2>7. SubSeq(data, a, a + 1) = <<data[a], data[a + 1]>>
    BY <2>2, <2>3, <2>4, SubSeqOfTwo DEF size
  <2>8. (a = size) = FALSE
    BY <2>2
  <2> QED BY <1>3, <2>2, <2>5, <2>6, <2>7, <2>8 DEF Tells, k, a, size
<1> QED BY <1>2, <1>3


\* The whole output: words, an odd byte if there is one, and the last offset.
OdEnd(n, buf, line, skip) ==
    (IF buf = <<>> THEN <<>> ELSE line \o <<[word |-> Octal(buf[1], ByteVals)]>>)
    \o <<[offset |-> skip + 2 * n + Len(buf)]>>
OutputOk(t, data, skip) ==
    /\ t # <<>> /\ Cardinality(WordsOf(t)) = (Len(data) + 1) \div 2
    /\ Last(t) = [offset |-> skip + Len(data)]
    /\ \A p \in 1..(Len(t) - 1) : Tells(t, p, data, skip)
LEMMA EvenEnd ==
    ASSUME NEW o, NEW n \in Nat, NEW d \in Seq(ByteSet), NEW skip \in Nat, Written(o, n, d, skip),
           NEW data \in Seq(ByteSet), Len(data) = 2 * n, \A i \in 1..Len(data) : data[i] = d[skip + i],
           NEW line
    PROVE  OutputOk(o \o OdEnd(n, <<>>, line, skip), data, skip)
<1> DEFINE e == [offset |-> skip + 2 * n]
           t == o \o <<e>>
           l == Len(o) + 1
<1>1. OdEnd(n, <<>>, line, skip) = <<e>>
  BY DEF OdEnd
<1>2. e \in Elements /\ ~IsWord(e)
  <2>1. skip + 2 * n \in Int
    OBVIOUS
  <2> QED BY <2>1, ElementIs
<1>3. o \in Seq(Elements) /\ Cardinality(WordsOf(o)) = n
  BY DEF Written
<1> HIDE DEF e
<1>4. /\ t \in Seq(Elements) /\ Len(o) \in Nat /\ Len(t) = l /\ t[l] = e
      /\ \A p \in 1..Len(o) : /\ t[p] = o[p] /\ Before(t, p) = Before(o, p)
                              /\ p \in WordsOf(t) <=> p \in WordsOf(o)
      /\ Cardinality(WordsOf(t)) = n
  BY <1>2, <1>3, OneMore
<1> HIDE DEF t
<1>5. ASSUME NEW p \in 1..(Len(t) - 1) PROVE Tells(t, p, data, skip)
  <2>1. p \in 1..Len(o)
    BY <1>4
  <2>2. 2 * n <= Len(data)
    OBVIOUS
  <2>3. Tells(o, p, data, skip)
    BY <2>1, <2>2, WrittenTells
  <2> QED BY <1>4, <2>1, <2>3 DEF Tells
<1>6. (Len(data) + 1) \div 2 = n
  OBVIOUS
<1>7. t # <<>> /\ Last(t) = e
  BY <1>4 DEF Last
<1> QED BY <1>1, <1>4, <1>5, <1>6, <1>7 DEF OutputOk, e, t

\* The same with an odd byte.
LEMMA OddEnd ==
    ASSUME NEW o, NEW n \in Nat, NEW d \in Seq(ByteSet), NEW skip \in Nat, Written(o, n, d, skip),
           NEW data \in Seq(ByteSet), Len(data) = 2 * n + 1,
           \A i \in 1..Len(data) : data[i] = d[skip + i],
           NEW line, line \in {<<>>, <<[offset |-> skip + 2 * n]>>},
           NEW b, b = data[Len(data)]
    PROVE  OutputOk(o \o OdEnd(n, <<b>>, line, skip), data, skip)
<1> DEFINE w == [word |-> Octal(b, ByteVals)]
           e == [offset |-> skip + 2 * n + 1]
           o1 == o \o line
           o2 == o1 \o <<w>>
           t == o2 \o <<e>>
           size == 2 * n + 1
<1>0. Len(data) = size /\ size \in Nat /\ size \in 1..Len(data) /\ 2 * n + 1 = size /\ 2 * n + 2 = size + 1
      /\ (size + 1) \div 2 = n + 1 /\ 2 * n \in Nat /\ 2 * n <= Len(data) /\ 2 * n + 1 <= Len(data)
  OBVIOUS
<1>1. b \in ByteSet
  BY <1>0, ElementOfSeq
<1>2. w \in Elements /\ IsWord(w) /\ e \in Elements /\ ~IsWord(e)
  <2>1. skip + 2 * n + 1 \in Int
    OBVIOUS
  <2> QED BY <1>1, <2>1, DecodedByte, ElementIs
<1>3. OdEnd(n, <<b>>, line, skip) = (line \o <<w>>) \o <<e>>
  <2>1. <<b>> # <<>> /\ Len(<<b>>) = 1 /\ <<b>>[1] = b
    OBVIOUS
  <2> QED BY <2>1 DEF OdEnd
<1>4. Decoded(w.word, TRUE) = <<b>>
  <2>1. w.word = Octal(b, ByteVals)
    OBVIOUS
  <2> QED BY <1>1, <2>1, DecodedByte
<1>5. Written(o1, n, d, skip)
  BY WriteOffset
<1> HIDE DEF w, e, size
<1>6. o1 \in Seq(Elements) /\ Cardinality(WordsOf(o1)) = n
  BY <1>5 DEF Written
<1>7. o \o OdEnd(n, <<b>>, line, skip) = t
  <2> DEFINE a == line \o <<w>>
             r == a \o <<e>>
             ws == <<w>>
             es == <<e>>
             all == o \o r
  <2>1. o \in Seq(Elements) /\ line \in Seq(Elements) /\ ws \in Seq(Elements) /\ es \in Seq(Elements)
    <3>1. [offset |-> skip + 2 * n] \in Elements
      <4>1. skip + 2 * n \in Int
        OBVIOUS
      <4> QED BY <4>1, ElementIs
    <3>2. line = <<>> \/ line = <<[offset |-> skip + 2 * n]>>
      OBVIOUS
    <3>3. line \in Seq(Elements)
      <4>1. CASE line = <<>>
        BY <4>1, EmptySeq
      <4>2. CASE line = <<[offset |-> skip + 2 * n]>>
        <5>1. <<[offset |-> skip + 2 * n]>> \in Seq(Elements)
          BY <3>1
        <5> QED BY <4>2, <5>1
      <4> QED BY <3>2, <4>1, <4>2
    <3>4. o \in Seq(Elements)
      BY DEF Written
    <3> QED BY <1>2, <3>3, <3>4
  <2>2. IsConcat(a, line, ws) /\ IsConcat(r, a, es) /\ IsConcat(all, o, r) /\ IsConcat(o1, o, line)
        /\ IsConcat(o2, o1, ws) /\ IsConcat(t, o2, es)
    BY DEF IsConcat
  <2> HIDE DEF a, r, ws, es, all, o1, o2, t
  <2>3. a \in Seq(Elements) /\ o2 \in Seq(Elements)
    BY <1>6, <2>1, <2>2, ConcatProperties DEF IsConcat
  <2> DEFINE oa == o \o a
  <2>4. IsConcat(oa, o, a)
    BY DEF IsConcat
  <2> HIDE DEF oa
  <2>5. IsConcat(all, oa, es)
    BY <2>1, <2>2, <2>3, <2>4, Regroup
  <2>6. IsConcat(oa, o1, ws)
    BY <2>1, <2>2, <2>3, <2>4, Regroup
  <2>7. all = t
    BY <2>2, <2>5, <2>6 DEF IsConcat
  <2> QED BY <1>3, <2>7 DEF all, r, a, ws, es
<1> DEFINE l1 == Len(o1) + 1
           l2 == Len(o2) + 1
<1>8. /\ o2 \in Seq(Elements) /\ Len(o1) \in Nat /\ Len(o2) = l1 /\ o2[l1] = w
      /\ \A p \in 1..Len(o1) : /\ o2[p] = o1[p] /\ Before(o2, p) = Before(o1, p)
                               /\ p \in WordsOf(o2) <=> p \in WordsOf(o1)
      /\ Before(o2, l1) = n /\ l1 \in WordsOf(o2) /\ Cardinality(WordsOf(o2)) = n + 1
  <2> HIDE DEF o1
  <2> QED BY <1>2, <1>6, OneMore
<1> HIDE DEF o1, o2
<1>9. /\ t \in Seq(Elements) /\ Len(o2) \in Nat /\ Len(t) = l2 /\ t[l2] = e
      /\ \A p \in 1..Len(o2) : /\ t[p] = o2[p] /\ Before(t, p) = Before(o2, p)
                               /\ p \in WordsOf(t) <=> p \in WordsOf(o2)
      /\ Cardinality(WordsOf(t)) = n + 1
  BY <1>2, <1>8, OneMore
<1> HIDE DEF t
<1>10. ASSUME NEW p \in 1..Len(o1) PROVE Tells(t, p, data, skip)
  <2>1. p \in 1..Len(o2)
    BY <1>8
  <2>2. Tells(o1, p, data, skip)
    BY <1>0, <1>5, WrittenTells
  <2>3. t[p] = o1[p] /\ Before(t, p) = Before(o1, p) /\ (p \in WordsOf(t) <=> p \in WordsOf(o1))
    BY <1>8, <1>9, <2>1
  <2> QED BY <2>2, <2>3 DEF Tells
<1>11. Tells(t, l1, data, skip)
  <2>1. l1 \in 1..Len(o2)
    BY <1>8
  <2>2. t[l1] = w /\ Before(t, l1) = n /\ l1 \in WordsOf(t)
    BY <1>8, <1>9, <2>1
  <2>3. Min({size + 1, size}) = size
    <3>1. size \in Int /\ size + 1 \in Int /\ ~(size + 1 <= size)
      BY <1>0
    <3> QED BY <3>1, OfTwo
  <2>4. SubSeq(data, size, size) = <<b>>
    <3>1. data[size] = b
      BY <1>0
    <3> QED BY <1>0, <3>1, SubSeqOfOne
  <2> QED BY <1>0, <1>4, <2>2, <2>3, <2>4 DEF Tells
<1>12. ASSUME NEW p \in 1..(Len(t) - 1) PROVE Tells(t, p, data, skip)
  <2>1. p \in 1..Len(o1) \/ p = l1
    BY <1>8, <1>9
  <2> QED BY <1>10, <1>11, <2>1
<1>13. t # <<>> /\ Last(t) = e
  BY <1>8, <1>9 DEF Last
<1>14. e = [offset |-> skip + Len(data)]
  <2>1. skip + 2 * n + 1 = skip + Len(data)
    OBVIOUS
  <2> QED BY <2>1 DEF e
<1>15. Cardinality(WordsOf(t)) = (Len(data) + 1) \div 2
  BY <1>0, <1>9
<1>16. OutputOk(t, data, skip)
  BY <1>12, <1>13, <1>14, <1>15 DEF OutputOk
<1> QED BY <1>7, <1>16
-----------------------------------------------------------------------------
(* od: what has been read *)

\* What is asked for: the inputs, all their bytes, how many to pass, and how
\* many to show at most.
OdCall == [F |-> fs, d |-> Joined, skip |-> Skipped("j", 0), max |-> Skipped("N", 0), N |-> Has("N")]
OdSane(c) ==
    /\ c.F \in Seq(OdFiles) /\ c.d = UpToInput(c.F, Len(c.F))
    /\ c.skip \in Nat /\ c.max \in Nat /\ c.N \in BOOLEAN
    /\ c.skip # 0 => \A k \in 1..Len(c.F) : c.F[k].kind \notin {"pipe", "dir"}

\* At the k-th input, at bytes into it when it is open: the bytes seen are
\* those behind the ones to pass, as many of them as are in the output and in
\* the buffer, and they end where the inputs have been read to, unless no
\* more are wanted.
Seen(s) == s.done + Len(s.buf)
Passing(c, s) ==
    /\ Len(s.buf) = 1 => s.buf[1] = c.d[c.skip + Seen(s)]
    /\ Seen(s) > 0 => s.skip = 0 /\ c.skip + Seen(s) <= Len(c.d)
    /\ c.N => s.left + Seen(s) = c.max
    /\ ~c.N => s.left = 0
OdState(c, s) ==
    /\ s \in [skip : Nat, N : {c.N}, left : Nat, width : {s.width}, start : {c.skip}, done : Nat,
              buf : Seq(ByteSet)]
    /\ s.skip <= c.skip /\ Len(s.buf) <= 1
Shown(c, s, o) == \E n \in Nat : s.done = 2 * n /\ Written(o, n, c.d, c.skip)
Position(c, k, at, s) ==
    /\ k \in 1..(Len(c.F) + 1) /\ at \in Nat
    /\ (c.N /\ s.left = 0) \/ Len(UpToInput(c.F, k - 1)) + at = c.skip - s.skip + Seen(s)
Reading(c, k, at, s, o) == OdState(c, s) /\ Shown(c, s, o) /\ Passing(c, s) /\ Position(c, k, at, s)
InInput(c, k, at, s) ==
    k <= Len(c.F) /\ c.F[k].kind # "missing" /\ s.skip = 0 /\ at <= Len(c.F[k].data)

\* How much has been seen.
LEMMA SeenType ==
    ASSUME NEW c, NEW s, OdState(c, s)
    PROVE  Seen(s) \in Nat /\ Len(s.buf) \in 0..1 /\ s.done \in Nat /\ s.skip \in Nat /\ s.left \in Nat
           /\ s.buf \in Seq(ByteSet) /\ s.N = c.N /\ s.start = c.skip
<1>1. s.buf \in Seq(ByteSet) /\ s.done \in Nat /\ Len(s.buf) <= 1
      /\ s.skip \in Nat /\ s.left \in Nat /\ s.N = c.N /\ s.start = c.skip
  BY DEF OdState
<1>2. Len(s.buf) \in Nat
  BY <1>1, LenProperties
<1>3. Len(s.buf) \in 0..1
  <2> DEFINE l == Len(s.buf)
  <2>1. l \in Nat /\ l <= 1
    BY <1>1, <1>2
  <2> HIDE DEF l
  <2>2. l \in 0..1
    BY <2>1
  <2> QED BY <2>2 DEF l
<1>4. s.done + Len(s.buf) \in Nat
  BY <1>1, <1>2
<1> QED BY <1>1, <1>3, <1>4 DEF Seen

\* Where the inputs up to the k-th end.
LEMMA EndOfInput ==
    ASSUME NEW c, OdSane(c), NEW k \in 1..Len(c.F)
    PROVE  LET base == Len(UpToInput(c.F, k - 1))
               size == Len(c.F[k].data)
           IN /\ base \in Nat /\ size \in Nat /\ Len(c.d) \in Nat /\ Len(c.F) \in Nat
              /\ base + size = Len(UpToInput(c.F, (k + 1) - 1)) /\ base + size <= Len(c.d)
              /\ \A i \in 1..size : c.F[k].data[i] \in ByteSet /\ c.d[base + i] = c.F[k].data[i]
              /\ c.F[k].data \in Seq(ByteSet)
              /\ c.F[k].kind \in {"file", "pipe", "dir", "missing"}
              /\ c.F[k].kind \in {"dir", "missing"} => size = 0
<1>1. c.F \in Seq(OdFiles) /\ c.d = UpToInput(c.F, Len(c.F)) /\ Len(c.F) \in Nat
  BY LenProperties DEF OdSane
<1>2. (k + 1) - 1 = k
  BY <1>1
<1>3. c.F[k].data = DataOf(c.F, k) /\ DataOf(c.F, k) \in Seq(ByteSet)
      /\ c.F[k].kind \in {"file", "pipe", "dir", "missing"}
  BY <1>1, DataType
<1>4. c.F[k].kind \in {"dir", "missing"} => c.F[k].data = <<>>
  BY <1>3 DEF DataOf
<1>5. c.F[k].data = <<>> => Len(c.F[k].data) = 0
  OBVIOUS
<1> QED BY <1>1, <1>2, <1>3, <1>4, <1>5, InputByte

\* The next input: there is nothing more of this one.
LEMMA NextInput ==
    ASSUME NEW c, OdSane(c), NEW k \in 1..Len(c.F), NEW at, NEW s, NEW o, Reading(c, k, at, s, o),
           (c.N /\ s.left = 0) \/ at = Len(c.F[k].data)
    PROVE  Reading(c, k + 1, 0, s, o)
<1> DEFINE base == Len(UpToInput(c.F, k - 1))
           next == Len(UpToInput(c.F, (k + 1) - 1))
           size == Len(c.F[k].data)
<1>1. base \in Nat /\ size \in Nat /\ Len(c.F) \in Nat /\ base + size = next
  BY EndOfInput
<1>2. at \in Nat /\ ((c.N /\ s.left = 0) \/ base + at = c.skip - s.skip + Seen(s))
  BY DEF Reading, Position
<1> HIDE DEF base, next, size
<1>3. (c.N /\ s.left = 0) \/ at = size
  BY DEF size
<1>4. (c.N /\ s.left = 0) \/ next + 0 = c.skip - s.skip + Seen(s)
  BY <1>1, <1>2, <1>3
<1>5. k + 1 \in 1..(Len(c.F) + 1) /\ 0 \in Nat
  BY <1>1
<1> QED BY <1>4, <1>5 DEF Reading, Position, next

\* An input that is passed as a whole.
LEMMA PassInput ==
    ASSUME NEW c, OdSane(c), NEW k \in 1..Len(c.F), NEW s, NEW o, Reading(c, k, 0, s, o),
           s.skip # 0, s.skip >= Len(c.F[k].data)
    PROVE  Reading(c, k + 1, 0, [s EXCEPT !.skip = @ - Len(c.F[k].data)], o)
<1> DEFINE base == Len(UpToInput(c.F, k - 1))
           next == Len(UpToInput(c.F, (k + 1) - 1))
           size == Len(c.F[k].data)
           t == [s EXCEPT !.skip = @ - size]
<1>1. base \in Nat /\ size \in Nat /\ Len(c.F) \in Nat /\ base + size = next
  BY EndOfInput
<1>2. (c.N /\ s.left = 0) \/ base + 0 = c.skip - s.skip + Seen(s)
  BY DEF Reading, Position
<1>3. OdState(c, s) /\ Shown(c, s, o) /\ Passing(c, s) /\ c.skip \in Nat
  BY DEF Reading, OdSane
<1>4. Seen(s) \in Nat /\ s.skip \in Nat
  BY <1>3, SeenType
<1>5. s.skip >= size
  OBVIOUS
<1> HIDE DEF base, next, size
<1>6. /\ t.skip = s.skip - size /\ t.N = s.N /\ t.left = s.left /\ t.width = s.width
      /\ t.start = s.start /\ t.done = s.done /\ t.buf = s.buf
      /\ t \in [skip : Nat, N : {c.N}, left : Nat, width : {t.width}, start : {c.skip}, done : Nat,
                buf : Seq(ByteSet)]
  <2>1. s.skip - size \in Nat
    BY <1>1, <1>4, <1>5
  <2> QED BY <1>3, <2>1 DEF OdState
<1> HIDE DEF t
<1>7. Seen(t) = Seen(s)
  BY <1>6 DEF Seen
<1>8. OdState(c, t)
  <2>1. t.skip <= c.skip
    BY <1>1, <1>3, <1>4, <1>6 DEF OdState
  <2> QED BY <1>3, <1>6, <2>1 DEF OdState
<1>9. Shown(c, t, o)
  BY <1>3, <1>6 DEF Shown
<1>10. ~(Seen(s) > 0)
  BY <1>3 DEF Passing
<1>11. Passing(c, t)
  BY <1>3, <1>6, <1>7, <1>10 DEF Passing
<1>12. (c.N /\ t.left = 0) \/ next + 0 = c.skip - t.skip + Seen(t)
  BY <1>1, <1>2, <1>3, <1>4, <1>6, <1>7
<1>13. Position(c, k + 1, 0, t)
  BY <1>1, <1>12 DEF Position, next
<1> QED BY <1>8, <1>9, <1>11, <1>13 DEF Reading, t, size

\* An input is opened behind what is still to be passed.
LEMMA OpenInput ==
    ASSUME NEW c, OdSane(c), NEW k \in 1..Len(c.F), NEW s, NEW o, Reading(c, k, 0, s, o)
    PROVE  s.skip \in Nat /\ Reading(c, k, s.skip, [s EXCEPT !.skip = 0], o)
<1> DEFINE base == Len(UpToInput(c.F, k - 1))
           t == [s EXCEPT !.skip = 0]
<1>1. base \in Nat /\ Len(c.F) \in Nat
  BY EndOfInput
<1>2. (c.N /\ s.left = 0) \/ base + 0 = c.skip - s.skip + Seen(s)
  BY DEF Reading, Position
<1>3. OdState(c, s) /\ Shown(c, s, o) /\ Passing(c, s) /\ c.skip \in Nat
  BY DEF Reading, OdSane
<1>4. Seen(s) \in Nat /\ s.skip \in Nat
  BY <1>3, SeenType
<1> HIDE DEF base
<1>6. /\ t.skip = 0 /\ t.N = s.N /\ t.left = s.left /\ t.width = s.width
      /\ t.start = s.start /\ t.done = s.done /\ t.buf = s.buf
      /\ t \in [skip : Nat, N : {c.N}, left : Nat, width : {t.width}, start : {c.skip}, done : Nat,
                buf : Seq(ByteSet)]
  BY <1>3 DEF OdState
<1> HIDE DEF t
<1>7. Seen(t) = Seen(s)
  BY <1>6 DEF Seen
<1>8. OdState(c, t)
  BY <1>3, <1>6 DEF OdState
<1>9. Shown(c, t, o)
  BY <1>3, <1>6 DEF Shown
<1>10. Passing(c, t)
  BY <1>3, <1>6, <1>7 DEF Passing
<1>11. (c.N /\ t.left = 0) \/ base + s.skip = c.skip - t.skip + Seen(t)
  BY <1>1, <1>2, <1>3, <1>4, <1>6, <1>7
<1>12. Position(c, k, s.skip, t)
  BY <1>1, <1>4, <1>11 DEF Position, base
<1> QED BY <1>4, <1>8, <1>9, <1>10, <1>12 DEF Reading, t


\* The byte that is left over, if the number of bytes is odd.
LEMMA LeftOverIs ==
    ASSUME NEW b \in Seq(ByteSet)
    PROVE  LET half == Len(b) \div 2 IN
           /\ Len(b) \in Nat /\ half \in Nat
           /\ LeftOver(b) \in Seq(ByteSet) /\ Len(LeftOver(b)) <= 1
           /\ 2 * half + Len(LeftOver(b)) = Len(b)
           /\ Len(LeftOver(b)) = 1 => LeftOver(b)[1] = b[Len(b)]
<1> DEFINE l == Len(b)
           half == l \div 2
<1>1. l \in Nat
  BY LenProperties
<1>2. half \in Nat /\ l % 2 \in 0..1 /\ l = 2 * half + (l % 2)
  <2> HIDE DEF l
  <2> QED BY <1>1
<1>3. CASE l % 2 = 1
  <2>1. LeftOver(b) = <<b[l]>>
    BY <1>3 DEF LeftOver, Last
  <2>2. l \in 1..Len(b)
    <3>1. l # 0
      <4> HIDE DEF l
      <4> QED BY <1>1, <1>2, <1>3
    <3> QED BY <1>1, <3>1
  <2>3. b[l] \in ByteSet
    BY <2>2, ElementOfSeq
  <2>4. <<b[l]>> \in Seq(ByteSet) /\ Len(<<b[l]>>) = 1 /\ <<b[l]>>[1] = b[l]
    BY <2>3
  <2> HIDE DEF l, half
  <2>5. 2 * half + 1 = l
    BY <1>2, <1>3
  <2> QED BY <1>1, <1>2, <2>1, <2>4, <2>5 DEF l, half
<1>4. CASE l % 2 # 1
  <2>1. LeftOver(b) = <<>>
    BY <1>4 DEF LeftOver
  <2>2. <<>> \in Seq(ByteSet) /\ Len(<<>>) = 0
    BY EmptySeq
  <2> HIDE DEF l, half
  <2>3. 2 * half + 0 = l
    BY <1>2, <1>4
  <2> QED BY <1>1, <1>2, <2>1, <2>2, <2>3 DEF l, half
<1> QED BY <1>3, <1>4

\* n bytes can be read, and are wanted.
CanRead(c, k, at, s, n) ==
    /\ at + n <= Len(c.F[k].data) /\ ~(c.N /\ s.left = 0)
    /\ c.N => n <= s.left

\* The buffer and the state when n bytes have been read.
Filled(c, k, at, s, n) == s.buf \o SubSeq(c.F[k].data, at + 1, at + n)
AfterRead(s, b, n) ==
    [s EXCEPT !.buf = LeftOver(b), !.done = @ + 2 * (Len(b) \div 2), !.left = IF s.N THEN @ - n ELSE @]

\* n bytes are read and shown, but the last one if it is odd.
LEMMA ReadBytes ==
    ASSUME NEW c, OdSane(c), NEW k \in 1..Len(c.F), NEW at, NEW s, NEW o,
           Reading(c, k, at, s, o), InInput(c, k, at, s), g.start = c.skip,
           NEW n \in Nat, n > 0, CanRead(c, k, at, s, n),
           NEW b, b = Filled(c, k, at, s, n), NEW t, t = AfterRead(s, b, n)
    PROVE  Reading(c, k, at + n, t, o \o Words(b, s.done)) /\ InInput(c, k, at + n, t)
<1> DEFINE base == Len(UpToInput(c.F, k - 1))
           data == c.F[k].data
           size == Len(data)
           x == SubSeq(data, at + 1, at + n)
           l == Len(s.buf)
           m == Seen(s)
           w == Words(b, s.done)
           half == Len(b) \div 2
           rest == LeftOver(b)
           skip == c.skip
           done == s.done
           all == Len(c.d)
<1>1. /\ base \in Nat /\ size \in Nat /\ base + size <= all /\ all \in Nat /\ data \in Seq(ByteSet)
      /\ \A i \in 1..size : data[i] \in ByteSet /\ c.d[base + i] = data[i]
  <2>1. base \in Nat /\ size \in Nat /\ base + size <= all /\ all \in Nat
    BY EndOfInput
  <2>2. data \in Seq(ByteSet)
    BY EndOfInput
  <2>3. \A i \in 1..size : data[i] \in ByteSet /\ c.d[base + i] = data[i]
    <3> HIDE DEF x, l, m, w, half, rest, skip, done, all
    <3> QED BY EndOfInput
  <2> QED BY <2>1, <2>2, <2>3
<1>2. OdState(c, s) /\ Shown(c, s, o) /\ Passing(c, s) /\ Position(c, k, at, s) /\ c.skip \in Nat
      /\ c.N \in BOOLEAN
  BY DEF Reading, OdSane
<1>3. m \in Nat /\ l \in 0..1 /\ s.done \in Nat /\ s.left \in Nat /\ s.buf \in Seq(ByteSet)
      /\ s.N = c.N /\ m = s.done + l
  BY <1>2, SeenType DEF Seen
<1>4. at \in Nat /\ base + at = c.skip + m /\ s.skip = 0 /\ k <= Len(c.F) /\ c.F[k].kind # "missing"
  <2>1. s.skip = 0 /\ at \in Nat /\ base + at = c.skip - s.skip + m
    BY <1>2 DEF InInput, Position, CanRead
  <2> HIDE DEF base, m
  <2>2. base + at = c.skip + m
    BY <1>1, <1>2, <1>3, <2>1
  <2> QED BY <2>1, <2>2 DEF InInput
<1>5. x \in Seq(ByteSet) /\ Len(x) = n /\ \A i \in 1..n : x[i] = data[at + i]
  <2>1. at + n <= size
    BY DEF CanRead
  <2> HIDE DEF data, size
  <2> DEFINE i0 == at + 1
             j0 == at + n
  <2>0. at \in Nat
    BY <1>4
  <2>2. /\ i0 \in Nat \ {0} /\ j0 \in Nat /\ i0 <= j0 /\ j0 - i0 + 1 = n
        /\ \A i \in 1..n : i0 + i - 1 = at + i
    BY <2>0
  <2> HIDE DEF i0, j0
  <2>3. /\ x \in Seq(ByteSet) /\ Len(x) = IF i0 <= j0 THEN j0 - i0 + 1 ELSE 0
        /\ \A i \in 1..(j0 - i0 + 1) : x[i] = data[i0 + i - 1]
    <3>1. j0 <= Len(data)
      BY <2>1 DEF size, j0
    <3>2. x = SubSeq(data, i0, j0)
      BY DEF i0, j0
    <3>3. data \in Seq(ByteSet)
      BY <1>1
    <3> HIDE DEF x
    <3> QED BY <3>3, <2>2, <3>1, <3>2, PartOf
  <2> HIDE DEF x
  <2>4. \A i \in 1..n : x[i] = data[at + i]
    BY <2>2, <2>3
  <2> QED BY <2>2, <2>3, <2>4
<1>6. b = s.buf \o x /\ at + n <= size
  BY DEF Filled, CanRead
<1> HIDE DEF base, data, size, x, l, m, skip, done, all
<1>19. /\ m \in Nat /\ l \in 0..1 /\ l \in Nat /\ done \in Nat /\ skip \in Nat /\ at \in Nat /\ base \in Nat
       /\ size \in Nat /\ all \in Nat
       /\ m = done + l /\ base + at = skip + m /\ at + n <= size /\ base + size <= all
  BY <1>1, <1>2, <1>3, <1>4, <1>6 DEF skip, done
<1>7. \A i \in 1..n : x[i] = c.d[skip + m + i]
  <2> TAKE i \in 1..n
  <2>1. at + i \in 1..size /\ base + (at + i) = skip + m + i
    BY <1>19
  <2>2. c.d[base + (at + i)] = data[at + i]
    BY <1>1, <2>1
  <2> QED BY <1>5, <2>1, <2>2
<1>8. b \in Seq(ByteSet) /\ Len(b) = l + n
      /\ \A i \in 1..(l + n) : b[i] = IF i <= l THEN s.buf[i] ELSE x[i - l]
  <2>1. /\ b \in Seq(ByteSet) /\ Len(b) = Len(s.buf) + Len(x)
        /\ \A i \in 1..(Len(s.buf) + Len(x)) : b[i] = IF i <= Len(s.buf) THEN s.buf[i] ELSE x[i - Len(s.buf)]
    <3>1. s.buf \in Seq(ByteSet) /\ x \in Seq(ByteSet)
      BY <1>3, <1>5
    <3> QED BY <1>6, <3>1, ConcatProperties
  <2>2. Len(s.buf) = l /\ Len(x) = n
    BY <1>5 DEF l
  <2> QED BY <2>1, <2>2
<1>9. \A i \in 1..Len(b) : b[i] = c.d[skip + done + i]
  <2> TAKE i \in 1..Len(b)
  <2>0. i \in 1..(l + n)
    BY <1>8
  <2>1. CASE i <= l
    <3>1. l = 1 /\ i = 1 /\ m = done + 1
      BY <1>19, <2>0, <2>1
    <3>2. s.buf[1] = c.d[skip + m] /\ b[i] = s.buf[1]
      BY <1>2, <1>8, <2>0, <3>1 DEF Passing, l, m, skip
    <3>3. skip + m = skip + done + i
      BY <1>19, <3>1
    <3> QED BY <3>2, <3>3
  <2>2. CASE ~(i <= l)
    <3>1. i - l \in 1..n /\ skip + m + (i - l) = skip + done + i
      BY <1>19, <2>0, <2>2
    <3>2. b[i] = x[i - l]
      BY <1>8, <2>0, <2>2
    <3> QED BY <1>7, <3>1, <3>2
  <2> QED BY <2>1, <2>2
<1>10. /\ half \in Nat /\ rest \in Seq(ByteSet) /\ Len(rest) <= 1 /\ 2 * half + Len(rest) = l + n
       /\ Len(rest) = 1 => rest[1] = c.d[skip + done + (l + n)]
  <2>1. /\ half \in Nat /\ rest \in Seq(ByteSet) /\ Len(rest) <= 1 /\ 2 * half + Len(rest) = l + n
        /\ Len(rest) = 1 => rest[1] = b[l + n]
    BY <1>8, LeftOverIs
  <2>2. l + n \in 1..Len(b)
    BY <1>3, <1>8
  <2> QED BY <1>9, <2>1, <2>2
<1>11. Len(rest) \in Nat
  BY <1>10, LenProperties
<1> HIDE DEF half, rest
<1>12. /\ t.skip = 0 /\ t.N = c.N /\ t.width = s.width /\ t.start = s.start /\ t.buf = rest
       /\ t.done = s.done + 2 * half /\ t.left = IF c.N THEN s.left - n ELSE s.left
       /\ t \in [skip : Nat, N : {c.N}, left : Nat, width : {t.width}, start : {c.skip}, done : Nat,
                 buf : Seq(ByteSet)]
  <2> DEFINE y == s.done + 2 * half
             z == IF c.N THEN s.left - n ELSE s.left
  <2>1. y \in Nat
    BY <1>3, <1>10
  <2>3. z \in Nat
    BY <1>3 DEF CanRead
  <2>2. t = [s EXCEPT !.buf = rest, !.done = y, !.left = z]
    BY <1>2, <1>3 DEF OdState, AfterRead, half, rest
  <2> HIDE DEF y, z
  <2>4. /\ t.skip = 0 /\ t.N = c.N /\ t.width = s.width /\ t.start = s.start /\ t.buf = rest
        /\ t.done = y /\ t.left = z
        /\ t \in [skip : Nat, N : {c.N}, left : Nat, width : {t.width}, start : {c.skip}, done : Nat,
                  buf : Seq(ByteSet)]
    BY <1>2, <1>3, <1>4, <1>10, <2>1, <2>2, <2>3 DEF OdState
  <2> QED BY <2>4 DEF y, z
<1>13. Seen(t) = m + n
  <2>1. Seen(t) = (done + 2 * half) + Len(rest)
    BY <1>12 DEF Seen, done
  <2> QED BY <1>10, <1>11, <1>19, <2>1
<1>14. OdState(c, t)
  BY <1>2, <1>10, <1>12 DEF OdState
<1>15. Shown(c, t, o \o w)
  <2>1. PICK j \in Nat : s.done = 2 * j /\ Written(o, j, c.d, c.skip)
    BY <1>2 DEF Shown
  <2>2. \A i \in 1..Len(b) : b[i] = c.d[c.skip + 2 * j + i]
    BY <1>9, <2>1 DEF skip, done
  <2>3. Written(o \o Words(b, 2 * j), j + half, c.d, c.skip)
    BY <1>2, <1>8, <2>1, <2>2, WriteWords DEF half
  <2>4. j + half \in Nat /\ t.done = 2 * (j + half)
    BY <1>10, <1>12, <2>1
  <2>5. w = Words(b, 2 * j)
    BY <2>1
  <2> HIDE DEF w
  <2> QED BY <2>3, <2>4, <2>5 DEF Shown
<1>16. Passing(c, t)
  <2>1. Len(t.buf) = 1 => t.buf[1] = c.d[c.skip + Seen(t)]
    <3>1. skip + done + (l + n) = skip + (m + n)
      BY <1>19
    <3> QED BY <1>10, <1>12, <1>13, <3>1 DEF skip
  <2>2. t.skip = 0 /\ c.skip + Seen(t) <= Len(c.d)
    <3>1. skip + (m + n) <= all
      BY <1>19
    <3> QED BY <1>12, <1>13, <3>1 DEF skip, all
  <2>3. c.N => t.left + Seen(t) = c.max
    BY <1>2, <1>3, <1>12, <1>13 DEF Passing, m
  <2>4. ~c.N => t.left = 0
    BY <1>2, <1>12 DEF Passing
  <2> QED BY <2>1, <2>2, <2>3, <2>4 DEF Passing
<1>17. Position(c, k, at + n, t)
  <2>1. base + (at + n) = c.skip - t.skip + Seen(t)
    <3>1. base + at + n = skip + m + n /\ skip - 0 = skip
      BY <1>19
    <3>2. base + (at + n) = base + at + n /\ skip + (m + n) = skip + m + n
      BY <1>19
    <3> QED BY <1>12, <1>13, <3>1, <3>2 DEF skip
  <2>2. at + n \in Nat
    BY <1>4
  <2> QED BY <1>2, <2>1, <2>2 DEF Position, base
<1>18. InInput(c, k, at + n, t)
  BY <1>4, <1>6, <1>12 DEF InInput, size, data
<1> QED BY <1>14, <1>15, <1>16, <1>17, <1>18 DEF Reading


\* The bytes that are asked for are those that have been seen, at the end.
Wanted(c) ==
    LET skip == Min({c.skip, Len(c.d)})
        n == Min({IF c.N THEN c.max ELSE Len(c.d), Len(c.d) - skip})
    IN SubSeq(c.d, skip + 1, skip + n)
LEMMA WantedIs ==
    ASSUME NEW c, OdSane(c), NEW k, k > Len(c.F), NEW s, NEW o, Reading(c, k, 0, s, o), s.left = 0
    PROVE  /\ Wanted(c) \in Seq(ByteSet) /\ Len(Wanted(c)) = Seen(s)
           /\ \A i \in 1..Len(Wanted(c)) : Wanted(c)[i] = c.d[c.skip + i]
<1> DEFINE size == Len(c.d)
           skip == c.skip
           m == Seen(s)
           from == Min({skip, size})
           max == IF c.N THEN c.max ELSE size
           n == Min({max, size - from})
           pass == s.skip
<1>1. c.d \in Seq(ByteSet) /\ c.F \in Seq(OdFiles) /\ Len(c.F) \in Nat /\ skip \in Nat /\ c.max \in Nat
      /\ c.N \in BOOLEAN /\ c.d = UpToInput(c.F, Len(c.F))
  <2>1. c.F \in Seq(OdFiles) /\ c.d = UpToInput(c.F, Len(c.F))
    BY DEF OdSane
  <2>2. Len(c.F) \in Nat /\ Len(c.F) \in 0..Len(c.F)
    BY <2>1, LenProperties
  <2>3. c.d \in Seq(ByteSet)
    BY <2>1, <2>2, InputsJoin
  <2> QED BY <2>1, <2>2, <2>3 DEF OdSane
<1>2. OdState(c, s) /\ Passing(c, s) /\ Position(c, k, 0, s)
  BY DEF Reading
<1>3. m \in Nat /\ pass \in Nat /\ s.left = 0 /\ pass <= skip
  BY <1>2, SeenType DEF OdState
<1>4. k - 1 = Len(c.F)
  BY <1>1, <1>2 DEF Position
<1>5. size \in Nat
  BY <1>1, LenProperties
<1>6. /\ m > 0 => pass = 0 /\ skip + m <= size
      /\ c.N => c.max = m
      /\ ~c.N => size = skip - pass + m
  <2>1. m > 0 => pass = 0 /\ skip + m <= size
    BY <1>2 DEF Passing
  <2>2. c.N => 0 + m = c.max
    BY <1>2, <1>3 DEF Passing
  <2>3. ~c.N => size + 0 = skip - pass + m
    BY <1>1, <1>2, <1>4 DEF Position
  <2> HIDE DEF size, skip, m, pass
  <2> QED BY <1>3, <1>5, <2>1, <2>2, <2>3
<1>7. Wanted(c) = SubSeq(c.d, from + 1, from + n)
  BY DEF Wanted
<1>8. from = (IF skip <= size THEN skip ELSE size) /\ from \in Nat
  <2> HIDE DEF size, skip
  <2>1. skip \in Int /\ size \in Int
    BY <1>1, <1>5 DEF skip
  <2>2. from = IF skip <= size THEN skip ELSE size
    BY <2>1, OfTwo
  <2> HIDE DEF from
  <2> QED BY <1>1, <1>5, <2>2 DEF skip
<1> DEFINE top == c.max
<1>9. top \in Nat /\ skip \in Nat /\ max = (IF c.N THEN top ELSE size) /\ (c.N => top = m)
  BY <1>1, <1>6
<1> HIDE DEF size, skip, m, from, max, pass, top
<1>10. max \in Nat /\ size - from \in Nat
  BY <1>5, <1>8, <1>9
<1>11. n = IF max <= size - from THEN max ELSE size - from
  <2>1. max \in Int /\ size - from \in Int
    BY <1>10
  <2> QED BY <2>1, OfTwo
<1> HIDE DEF n
<1>12. n = m /\ (m > 0 => from = skip) /\ from + m <= size
  <2>1. CASE m > 0
    <3>1. skip + m <= size /\ pass = 0
      BY <1>6, <2>1
    <3>2. from = skip
      BY <1>3, <1>5, <1>8, <1>9, <3>1
    <3>3. CASE c.N
      <4>1. max = m
        BY <1>9, <3>3
      <4> QED BY <1>3, <1>5, <1>9, <1>11, <3>1, <3>2, <4>1
    <3>4. CASE ~c.N
      <4>1. max = size /\ size = skip + m
        BY <1>3, <1>5, <1>6, <1>9, <3>1, <3>4
      <4> QED BY <1>3, <1>5, <1>9, <1>11, <3>1, <3>2, <4>1
    <3> QED BY <3>3, <3>4
  <2>2. CASE ~(m > 0)
    <3>1. m = 0
      BY <1>3, <2>2
    <3>2. from <= size
      BY <1>5, <1>8, <1>9
    <3>3. CASE c.N
      <4>1. max = 0
        BY <1>9, <3>1, <3>3
      <4> QED BY <1>5, <1>8, <1>11, <3>1, <3>2, <4>1
    <3>4. CASE ~c.N
      <4>1. max = size /\ size <= skip
        BY <1>3, <1>5, <1>6, <1>9, <3>1, <3>4
      <4>2. from = size
        BY <1>5, <1>8, <1>9, <4>1
      <4> QED BY <1>5, <1>8, <1>11, <3>1, <3>2, <4>1, <4>2
    <3> QED BY <3>3, <3>4
  <2> QED BY <2>1, <2>2
<1> DEFINE a == from + 1
           z == from + n
<1>13. /\ a \in Nat \ {0} /\ z \in Nat /\ z <= size /\ z - a + 1 = m /\ (a <= z \/ m = 0)
       /\ \A i \in 1..m : a + i - 1 = skip + i
  BY <1>3, <1>5, <1>8, <1>9, <1>12
<1>14. Wanted(c) = SubSeq(c.d, a, z)
  BY <1>7
<1> HIDE DEF a, z
<1>15. z <= Len(c.d)
  BY <1>13 DEF size
<1> DEFINE x == Wanted(c)
<1>16. /\ x \in Seq(ByteSet) /\ Len(x) = IF a <= z THEN z - a + 1 ELSE 0
       /\ \A i \in 1..(z - a + 1) : x[i] = c.d[a + i - 1]
  BY <1>1, <1>13, <1>14, <1>15, PartOf
<1> HIDE DEF x
<1>17. Len(x) = m /\ \A i \in 1..Len(x) : x[i] = c.d[skip + i]
  <2>1. Len(x) = m
    BY <1>3, <1>13, <1>16
  <2> QED BY <1>13, <1>16, <2>1
<1> QED BY <1>16, <1>17 DEF x, m, skip

\* The output is what it should be when all is shown.
LEMMA ShownAll ==
    ASSUME NEW c, OdSane(c), NEW k, k > Len(c.F), NEW s, NEW o, Reading(c, k, 0, s, o), s.left = 0,
           NEW line, line \in {<<>>, <<[offset |-> s.done + s.start]>>},
           NEW odd, odd = IF s.buf = <<>> THEN <<>> ELSE line \o <<[word |-> Octal(s.buf[1], ByteVals)]>>
    PROVE  OutputOk(o \o (odd \o <<[offset |-> s.done + s.start + Len(s.buf)]>>), Wanted(c), c.skip)
<1> DEFINE data == Wanted(c)
<1>1. data \in Seq(ByteSet) /\ Len(data) = Seen(s) /\ \A i \in 1..Len(data) : data[i] = c.d[c.skip + i]
  BY WantedIs
<1> HIDE DEF data
<1>2. OdState(c, s) /\ Passing(c, s) /\ c.skip \in Nat /\ c.d \in Seq(ByteSet)
  <2>1. c.F \in Seq(OdFiles) /\ c.d = UpToInput(c.F, Len(c.F))
    BY DEF OdSane
  <2>2. Len(c.F) \in Nat /\ Len(c.F) \in 0..Len(c.F)
    BY <2>1, LenProperties
  <2>3. c.d \in Seq(ByteSet)
    BY <2>1, <2>2, InputsJoin
  <2> QED BY <2>3 DEF Reading, OdSane
<1>3. s.buf \in Seq(ByteSet) /\ Len(s.buf) \in 0..1 /\ s.start = c.skip /\ s.done \in Nat
  BY <1>2, SeenType
<1>4. PICK n \in Nat : s.done = 2 * n /\ Written(o, n, c.d, c.skip)
  BY DEF Reading, Shown
<1>5. s.done + s.start = c.skip + 2 * n
  BY <1>2, <1>3, <1>4
<1>6. line \in {<<>>, <<[offset |-> c.skip + 2 * n]>>}
  BY <1>5
<1>7. s.done + s.start + Len(s.buf) = c.skip + 2 * n + Len(s.buf)
  BY <1>2, <1>3, <1>4
<1>8. odd \o <<[offset |-> s.done + s.start + Len(s.buf)]>> = OdEnd(n, s.buf, line, c.skip)
  BY <1>7 DEF OdEnd
<1>9. CASE Len(s.buf) = 0
  <2>1. s.buf = <<>>
    BY <1>3, <1>9, EmptySeq
  <2>2. Len(data) = 2 * n
    BY <1>1, <1>4, <1>9 DEF Seen
  <2>3. OutputOk(o \o OdEnd(n, <<>>, line, c.skip), data, c.skip)
    BY <1>1, <1>2, <1>4, <2>2, EvenEnd
  <2> QED BY <1>8, <2>1, <2>3 DEF data
<1>10. CASE Len(s.buf) = 1
  <2>1. s.buf = <<s.buf[1]>>
    BY <1>3, <1>10
  <2>2. Len(data) = 2 * n + 1
    BY <1>1, <1>4, <1>10 DEF Seen
  <2>3. s.buf[1] = data[Len(data)]
    <3>1. s.buf[1] = c.d[c.skip + Seen(s)]
      BY <1>2, <1>10 DEF Passing
    <3>2. Len(data) \in 1..Len(data)
      BY <2>2
    <3> QED BY <1>1, <3>1, <3>2
  <2>4. OutputOk(o \o OdEnd(n, <<s.buf[1]>>, line, c.skip), data, c.skip)
    BY <1>1, <1>2, <1>4, <1>6, <2>2, <2>3, OddEnd
  <2> QED BY <1>8, <2>1, <2>4 DEF data
<1> QED BY <1>3, <1>9, <1>10
-----------------------------------------------------------------------------
(* od: its steps *)

OdPlain == Has("j") => \A i \in DOMAIN fs : fs[i].kind \notin {"pipe", "dir"}
OdOutput ==
    /\ pc \in {"main", "file", "od_read"} \cup Ended
    /\ pc = "main" => out = <<>> /\ fi = 1
    /\ pc \in {"file", "od_read"} => Reading(OdCall, fi, IF pc = "od_read" THEN off ELSE 0, g, out)
    /\ pc = "od_read" => InInput(OdCall, fi, off, g)
    /\ pc = "exit" => OutputOk(out, Wanted(OdCall), OdCall.skip)
OdInv == prog = "od" => OdArgs /\ fs \in Seq(OdFiles) /\ (OdPlain => OdOutput)

\* What is asked for does not change.
LEMMA OdSame ==
    ASSUME argv' = argv, fs' = fs
    PROVE  /\ OdCall' = OdCall /\ (OdArgs <=> OdArgs') /\ (OdPlain <=> OdPlain')
           /\ (fs \in Seq(OdFiles) <=> (fs \in Seq(OdFiles))')
BY DEF OdCall, OdArgs, OdPlain, Joined, Skipped, Has, LastGiven, Given

\* It is sane.
LEMMA OdCallSane ==
    ASSUME OdArgs, fs \in Seq(OdFiles), OdPlain
    PROVE  OdSane(OdCall)
<1>1. DOMAIN argv = 1..Len(argv) /\ Len(argv) \in Nat
  BY LenProperties DEF OdArgs
<1>2. ASSUME NEW letter \in {"j", "N"} PROVE Skipped(letter, 0) \in Nat
  <2>1. CASE Has(letter)
    <3>1. PICK i \in 1..Len(argv) : LastGiven({letter}) = argv[i] /\ argv[i].o \in {letter}
      <4>1. Given({letter}) # {}
        BY <2>1 DEF Has
      <4> QED BY <1>1, <4>1, LastGivenIs
    <3> QED BY <1>1, <2>1, <3>1 DEF OdArgs, Skipped
  <2>2. CASE ~Has(letter)
    BY <2>2 DEF Skipped
  <2> QED BY <2>1, <2>2
<1>3. Has("N") \in BOOLEAN
  BY DEF Has
<1>4. Joined = UpToInput(fs, Len(fs)) /\ DOMAIN fs = 1..Len(fs)
  BY JoinedIs, LenProperties
<1>5. Skipped("j", 0) # 0 => \A k \in 1..Len(fs) : fs[k].kind \notin {"pipe", "dir"}
  BY <1>4 DEF Skipped, OdPlain
<1> DEFINE c == OdCall
<1>6. /\ c.F = fs /\ c.d = Joined /\ c.skip = Skipped("j", 0) /\ c.max = Skipped("N", 0) /\ c.N = Has("N")
  BY DEF OdCall
<1>7. Skipped("j", 0) \in Nat /\ Skipped("N", 0) \in Nat
  BY <1>2
<1> HIDE DEF c
<1>8. OdSane(c)
  BY <1>3, <1>4, <1>5, <1>6, <1>7 DEF OdSane
<1> QED BY <1>8 DEF c

\* main starts to read.
LEMMA OdMainStep ==
    ASSUME prog = "od", OdInv, OdPlain, OdMain
    PROVE  OdOutput'
<1> DEFINE s == FoldLeft(OdOption, OdDefaults, argv)
           t == [s EXCEPT !.start = s.skip]
           c == OdCall
<1>1. OdArgs /\ fs \in Seq(OdFiles) /\ pc = "main" /\ out = <<>> /\ fi = 1 /\ OdSane(c)
  BY OdCallSane DEF OdInv, OdOutput, OdMain
<1>2. pc' = "file" /\ argv' = argv /\ fs' = fs /\ out' = out /\ fi' = fi /\ g' = t
  BY DEF OdMain, Goto, OdDefaults
<1>3. s \in OdOptions /\ s.N = Has("N") /\ s.skip = Skipped("j", 0) /\ s.left = Skipped("N", 0)
  BY <1>1, OdParsed
<1>4. c.F = fs /\ c.skip = Skipped("j", 0) /\ c.max = Skipped("N", 0) /\ c.N = Has("N")
  BY DEF OdCall
<1>5. ~c.N => c.max = 0
  BY <1>4 DEF Skipped
<1>6. c.skip \in Nat /\ c.max \in Nat /\ c.F \in Seq(OdFiles)
  BY <1>1 DEF OdSane
<1> HIDE DEF c, s
<1>7. /\ t.skip = c.skip /\ t.N = c.N /\ t.left = c.max /\ t.start = c.skip /\ t.done = 0 /\ t.buf = <<>>
      /\ t \in [skip : Nat, N : {c.N}, left : Nat, width : {t.width}, start : {c.skip}, done : Nat,
                buf : Seq(ByteSet)]
  <2>1. <<>> \in Seq(ByteSet)
    BY EmptySeq
  <2>2. s.done = 0 /\ s.buf = <<>> /\ DOMAIN s = {"skip", "N", "left", "width", "start", "done", "buf"}
    BY <1>3 DEF OdOptions
  <2>3. s = [skip |-> c.skip, N |-> c.N, left |-> c.max, width |-> s.width, start |-> s.start,
             done |-> 0, buf |-> <<>>]
    BY <1>3, <1>4, <2>2 DEF OdOptions
  <2>4. t = [skip |-> c.skip, N |-> c.N, left |-> c.max, width |-> s.width, start |-> c.skip,
             done |-> 0, buf |-> <<>>]
    <3>1. t = [s EXCEPT !.start = c.skip]
      BY <1>3, <1>4
    <3> HIDE DEF t
    <3> QED BY <2>3, <3>1
  <2> HIDE DEF t
  <2> QED BY <1>6, <2>1, <2>4
<1> HIDE DEF t
<1>8. Len(t.buf) = 0 /\ Seen(t) = 0
  BY <1>7, EmptySeq DEF Seen
<1>9. OdState(c, t)
  BY <1>6, <1>7, <1>8 DEF OdState
<1>10. Shown(c, t, <<>>)
  <2>1. t.done = 2 * 0 /\ Written(<<>>, 0, c.d, c.skip)
    BY <1>7, WriteNothing
  <2> QED BY <2>1 DEF Shown
<1>11. Passing(c, t)
  BY <1>5, <1>6, <1>7, <1>8 DEF Passing
<1>12. Position(c, 1, 0, t)
  <2>1. Len(c.F) \in Nat
    BY <1>6, LenProperties
  <2>2. UpToInput(c.F, 1 - 1) = <<>>
    <3>1. 1 - 1 = 0
      OBVIOUS
    <3> QED BY <1>6, <3>1, InputsJoin
  <2>3. Len(UpToInput(c.F, 1 - 1)) + 0 = c.skip - t.skip + Seen(t)
    BY <1>6, <1>7, <1>8, <2>2, EmptySeq
  <2> QED BY <2>1, <2>3 DEF Position
<1>13. Reading(c, 1, 0, t, <<>>)
  BY <1>9, <1>10, <1>11, <1>12 DEF Reading
<1>14. c = OdCall'
  BY <1>2, OdSame DEF c
<1> QED BY <1>1, <1>2, <1>13, <1>14 DEF OdOutput

\* What read returns, when some bytes are asked for.
LEMMA ReadsBytes ==
    ASSUME NEW limit \in Nat \ {0}, off \in Nat, off <= Len(In.data), Len(In.data) \in Nat,
           In.kind = "dir" => Len(In.data) = 0, NEW n \in Reads(off, limit)
    PROVE  /\ n \in Int /\ (n <= 0 => off = Len(In.data))
           /\ n > 0 => n \in Nat /\ n <= limit /\ off + n <= Len(In.data)
<1> DEFINE size == Len(In.data)
           rest == size - off
           most == Min({limit, rest})
<1>1. size \in Nat /\ rest \in Nat /\ off \in Nat /\ off + rest = size /\ (In.kind = "dir" => rest = 0)
  OBVIOUS
<1>2. most = IF limit <= rest THEN limit ELSE rest
  <2>1. limit \in Int /\ rest \in Int
    BY <1>1
  <2> HIDE DEF rest
  <2> QED BY <2>1, OfTwo
<1>3. n \in CASE In.kind = "dir" -> {-1}
              [] In.kind # "dir" /\ most <= 0 -> {0}
              [] In.kind = "pipe" /\ most > 0 -> 1..most
              [] OTHER -> {most}
  BY DEF Reads
<1> HIDE DEF size, rest, most
<1>4. CASE most <= 0
  <2>1. rest = 0
    BY <1>1, <1>2, <1>4
  <2>2. off = size
    BY <1>1, <2>1
  <2>3. n \in {-1, 0}
    <3>1. CASE In.kind = "dir"
      BY <1>3, <1>4, <3>1
    <3>2. CASE In.kind # "dir"
      <4>1. most <= 0 /\ ~(most > 0)
        BY <1>1, <1>2, <1>4
      <4> QED BY <1>3, <3>2, <4>1
    <3> QED BY <3>1, <3>2
  <2> QED BY <2>2, <2>3 DEF size
<1>5. CASE ~(most <= 0)
  <2>1. In.kind # "dir" /\ most \in Nat /\ most <= limit /\ most <= rest
    BY <1>1, <1>2, <1>5
  <2>2. n \in 1..most
    BY <1>3, <1>5, <2>1
  <2>3. n \in Nat /\ n > 0 /\ n <= limit /\ off + n <= size
    BY <1>1, <2>1, <2>2
  <2> QED BY <2>3 DEF size
<1> QED BY <1>1, <1>2, <1>4, <1>5

\* What a step of od starts from.
OdAt(c, at) ==
    /\ c = OdCall /\ c = OdCall' /\ OdSane(c) /\ c.F = fs /\ c.F \in Seq(OdFiles)
    /\ Reading(c, fi, at, g, out) /\ fi \in 1..(Len(fs) + 1) /\ Len(fs) \in Nat
LEMMA OdHere ==
    ASSUME prog = "od", OdInv, OdPlain, argv' = argv, fs' = fs, pc \in {"file", "od_read"}
    PROVE  \E c : OdAt(c, IF pc = "od_read" THEN off ELSE 0)
<1>1. OdArgs /\ fs \in Seq(OdFiles) /\ OdOutput /\ OdSane(OdCall)
  BY OdCallSane DEF OdInv
<1>2. OdCall' = OdCall /\ OdCall.F = fs
  BY OdSame DEF OdCall
<1>3. PICK c : c = OdCall
  OBVIOUS
<1>4. PICK at : at = IF pc = "od_read" THEN off ELSE 0
  OBVIOUS
<1>5. Reading(c, fi, at, g, out)
  BY <1>1, <1>3, <1>4 DEF OdOutput
<1>6. Position(c, fi, at, g)
  BY <1>5 DEF Reading
<1>7. fi \in 1..(Len(fs) + 1)
  BY <1>2, <1>3, <1>6 DEF Position
<1>8. Len(fs) \in Nat
  BY <1>1, LenProperties
<1>9. c = OdCall' /\ OdSane(c) /\ c.F = fs
  BY <1>1, <1>2, <1>3
<1>10. OdAt(c, at)
  BY <1>1, <1>3, <1>5, <1>7, <1>8, <1>9 DEF OdAt
<1> QED BY <1>4, <1>10

\* An input is passed or opened, or the last line is written.
LEMMA OdFileStep ==
    ASSUME prog = "od", OdInv, OdPlain, OdFile
    PROVE  OdOutput'
<1> DEFINE size == IF Seekable THEN FileSize ELSE -1
           line == IF g.done % g.width = 0 THEN <<[offset |-> g.done + g.start]>> ELSE <<>>
           odd == IF g.buf = <<>> THEN <<>> ELSE line \o <<[word |-> Octal(g.buf[1], ByteVals)]>>
           end == <<[offset |-> g.done + g.start + Len(g.buf)]>>
<1>1. pc = "file" /\ argv' = argv /\ fs' = fs
  BY DEF OdFile, Return, Goto
<1>2. PICK c : OdAt(c, 0)
  BY <1>1, OdHere
<1>3. /\ c = OdCall /\ c = OdCall' /\ OdSane(c) /\ c.F = fs /\ c.F \in Seq(OdFiles)
      /\ Reading(c, fi, 0, g, out) /\ fi \in 1..(Len(fs) + 1) /\ Len(fs) \in Nat
  BY <1>2 DEF OdAt
<1>4. \/ fi <= Len(fs) /\ In.kind = "missing" /\ Return(FALSE) /\ UNCHANGED <<out, g>>
      \/ /\ fi <= Len(fs) /\ In.kind # "missing" /\ g.skip # 0 /\ g.skip >= size
         /\ Return(TRUE) /\ g' = [g EXCEPT !.skip = @ - size] /\ UNCHANGED out
      \/ /\ fi <= Len(fs) /\ In.kind # "missing" /\ (g.skip = 0 \/ g.skip < size)
         /\ Goto("od_read", None) /\ off' = g.skip
         /\ g' = [g EXCEPT !.skip = 0] /\ UNCHANGED out
      \/ fi > Len(fs) /\ g.left # 0 /\ Goto("abort", None) /\ UNCHANGED <<out, g, off>>
      \/ /\ fi > Len(fs) /\ g.left = 0
         /\ pc' = "exit" /\ v' = None
         /\ out' = out \o odd \o end
         /\ UNCHANGED <<prog, argv, fs, g, fi, off, ok>>
  BY DEF OdFile
<1>5. ASSUME fi <= Len(fs)
      PROVE  /\ fi \in 1..Len(c.F) /\ c.F[fi] = In /\ Len(In.data) \in Nat
             /\ In.kind \in {"file", "pipe", "dir", "missing"}
             /\ In.kind \in {"dir", "missing"} => Len(In.data) = 0
             /\ g.skip \in Nat
             /\ g.skip # 0 => In.kind \notin {"pipe", "dir"}
  <2>1. fi \in 1..Len(c.F) /\ c.F[fi] = In
    BY <1>3, <1>5 DEF In
  <2>2. /\ In.kind \in {"file", "pipe", "dir", "missing"}
        /\ In.data = DataOf(c.F, fi) /\ DataOf(c.F, fi) \in Seq(ByteSet)
    BY <1>3, <2>1, DataType
  <2>3. Len(In.data) \in Nat
    BY <2>2, LenProperties
  <2>4. In.kind \in {"dir", "missing"} => Len(In.data) = 0
    BY <2>1, <2>2, EmptySeq DEF DataOf
  <2>5. OdState(c, g) /\ c.skip \in Nat
    BY <1>3 DEF Reading, OdSane
  <2>6. g.skip \in Nat /\ g.skip <= c.skip
    BY <2>5, SeenType DEF OdState
  <2>7. g.skip # 0 => c.skip # 0
    BY <2>5, <2>6
  <2> QED BY <1>3, <2>1, <2>2, <2>3, <2>4, <2>6, <2>7 DEF OdSane
<1>6. CASE fi <= Len(fs) /\ In.kind = "missing" /\ Return(FALSE) /\ UNCHANGED <<out, g>>
  <2>1. Reading(c, fi + 1, 0, g, out)
    BY <1>3, <1>5, <1>6, NextInput
  <2>2. pc' = "file" /\ fi' = fi + 1 /\ g' = g /\ out' = out
    BY <1>6 DEF Return
  <2> QED BY <1>3, <2>1, <2>2 DEF OdOutput, Ended
<1>7. CASE /\ fi <= Len(fs) /\ In.kind # "missing" /\ g.skip # 0 /\ g.skip >= size
           /\ Return(TRUE) /\ g' = [g EXCEPT !.skip = @ - size] /\ UNCHANGED out
  <2>1. size = Len(In.data)
    BY <1>5, <1>7 DEF Seekable, FileSize
  <2>2. g' = [g EXCEPT !.skip = @ - Len(c.F[fi].data)]
    BY <1>5, <1>7, <2>1
  <2>3. Reading(c, fi + 1, 0, g', out)
    BY <1>3, <1>5, <1>7, <2>1, <2>2, PassInput
  <2>4. pc' = "file" /\ fi' = fi + 1 /\ out' = out
    BY <1>7 DEF Return
  <2> QED BY <1>3, <2>3, <2>4 DEF OdOutput, Ended
<1>8. CASE /\ fi <= Len(fs) /\ In.kind # "missing" /\ (g.skip = 0 \/ g.skip < size)
           /\ Goto("od_read", None) /\ off' = g.skip
           /\ g' = [g EXCEPT !.skip = 0] /\ UNCHANGED out
  <2>1. g.skip \in Nat /\ Reading(c, fi, g.skip, g', out)
    BY <1>3, <1>5, <1>8, OpenInput
  <2>2. g.skip <= Len(In.data)
    <3>1. CASE g.skip = 0
      BY <1>5, <1>8, <3>1
    <3>2. CASE g.skip # 0
      BY <1>5, <1>8, <3>2 DEF Seekable, FileSize
    <3> QED BY <3>1, <3>2
  <2>3. g'.skip = 0
    <3>1. OdState(c, g)
      BY <1>3 DEF Reading
    <3> QED BY <1>8, <3>1 DEF OdState
  <2>4. InInput(c, fi, g.skip, g')
    BY <1>3, <1>5, <1>8, <2>2, <2>3 DEF InInput
  <2>5. pc' = "od_read" /\ fi' = fi /\ out' = out /\ off' = g.skip
    BY <1>8 DEF Goto
  <2> QED BY <1>3, <2>1, <2>4, <2>5 DEF OdOutput, Ended
<1>9. CASE fi > Len(fs) /\ g.left # 0 /\ Goto("abort", None) /\ UNCHANGED <<out, g, off>>
  BY <1>9 DEF OdOutput, Goto, Ended
<1>10. CASE /\ fi > Len(fs) /\ g.left = 0
            /\ pc' = "exit" /\ v' = None
            /\ out' = out \o odd \o end
            /\ UNCHANGED <<prog, argv, fs, g, fi, off, ok>>
  <2>1. line \in {<<>>, <<[offset |-> g.done + g.start]>>}
    OBVIOUS
  <2>2. OutputOk(out \o (odd \o end), Wanted(c), c.skip)
    <3>1. fi > Len(c.F)
      BY <1>3, <1>10
    <3> HIDE DEF line
    <3> QED BY <1>3, <1>10, <2>1, <3>1, ShownAll
  <2>3. out' = out \o (odd \o end)
    <3>1. out \in Seq(Elements) /\ OdState(c, g)
      BY <1>3 DEF Reading, Shown, Written
    <3>2. g.done \in Nat /\ g.start \in Nat /\ Len(g.buf) \in Nat /\ g.buf \in Seq(ByteSet)
          /\ Len(g.buf) \in 0..1
      <4>1. c.skip \in Nat
        BY <1>3 DEF OdSane
      <4> QED BY <3>1, <4>1, SeenType
    <3>3. [offset |-> g.done + g.start] \in Elements
          /\ [offset |-> g.done + g.start + Len(g.buf)] \in Elements
      <4>1. g.done + g.start \in Int /\ g.done + g.start + Len(g.buf) \in Int
        BY <3>2
      <4> QED BY <4>1, ElementIs
    <3>4. end \in Seq(Elements)
      BY <3>3
    <3>5. odd \in Seq(Elements)
      <4>1. CASE g.buf = <<>>
        BY <4>1, EmptySeq
      <4>2. CASE g.buf # <<>>
        <5>1. g.buf[1] \in ByteSet
          <6>1. Len(g.buf) = 1
            BY <3>2, <4>2, EmptySeq
          <6> QED BY <3>2, <6>1
        <5>2. [word |-> Octal(g.buf[1], ByteVals)] \in Elements
          <6>1. Octal(g.buf[1], ByteVals) \in Int
            BY <5>1, DecodedByte
          <6> QED BY <6>1, ElementIs
        <5>3. line \in Seq(Elements)
          <6>1. CASE line = <<>>
            BY <6>1, EmptySeq
          <6>2. CASE line = <<[offset |-> g.done + g.start]>>
            <7>1. <<[offset |-> g.done + g.start]>> \in Seq(Elements)
              BY <3>3
            <7> QED BY <6>2, <7>1
          <6> QED BY <2>1, <6>1, <6>2
        <5> HIDE DEF line
        <5>4. <<[word |-> Octal(g.buf[1], ByteVals)]>> \in Seq(Elements)
          BY <5>2
        <5>5. line \o <<[word |-> Octal(g.buf[1], ByteVals)]>> \in Seq(Elements)
          BY <5>3, <5>4, ConcatProperties
        <5> QED BY <4>2, <5>5
      <4> QED BY <4>1, <4>2
    <3> HIDE DEF odd, end
    <3>6. (out \o odd) \o end = out \o (odd \o end)
      BY <3>1, <3>4, <3>5
    <3> QED BY <1>10, <3>6
  <2>4. pc' = "exit"
    BY <1>10
  <2> HIDE DEF odd, end
  <2> QED BY <1>3, <2>2, <2>3, <2>4 DEF OdOutput, Ended
<1> QED BY <1>4, <1>6, <1>7, <1>8, <1>9, <1>10

\* A read: what is there is written, and the next input follows the end.
LEMMA OdReadStep ==
    ASSUME prog = "od", OdInv, OdPlain, OdRead
    PROVE  OdOutput'
<1> DEFINE limit == IF g.N THEN Min({BufSize, g.left}) ELSE BufSize
<1>1. pc = "od_read" /\ argv' = argv /\ fs' = fs
  BY DEF OdRead, Return, Goto
<1>2. PICK c : OdAt(c, off)
  BY <1>1, OdHere
<1>3. /\ c = OdCall /\ c = OdCall' /\ OdSane(c) /\ c.F = fs /\ c.F \in Seq(OdFiles)
      /\ Reading(c, fi, off, g, out) /\ fi \in 1..(Len(fs) + 1) /\ Len(fs) \in Nat
  BY <1>2 DEF OdAt
<1>4. InInput(c, fi, off, g)
  BY <1>1, <1>3 DEF OdInv, OdOutput
<1>5. fi \in 1..Len(c.F) /\ c.F[fi] = In /\ fi \in Nat
  BY <1>3, <1>4 DEF InInput, In
<1>6. In.kind \in {"file", "pipe", "dir", "missing"} /\ In.data = DataOf(c.F, fi)
      /\ DataOf(c.F, fi) \in Seq(ByteSet)
  BY <1>3, <1>5, DataType
<1>7. Len(In.data) \in Nat /\ (In.kind = "dir" => Len(In.data) = 0)
  BY <1>5, <1>6, LenProperties, EmptySeq DEF DataOf
<1>8. OdState(c, g) /\ off \in Nat /\ off <= Len(In.data)
  BY <1>3, <1>4, <1>5 DEF Reading, Position, InInput
<1>9. g.left \in Nat /\ g.N = c.N /\ g.start = c.skip /\ g.N \in BOOLEAN
  <2>1. c.N \in BOOLEAN
    BY <1>3 DEF OdSane
  <2> QED BY <1>8, <2>1, SeenType
<1>10. \/ g.N /\ g.left = 0 /\ Return(TRUE) /\ UNCHANGED <<out, g>>
       \/ /\ ~g.N \/ g.left # 0
          /\ \E n \in Reads(off, limit) :
               LET b == g.buf \o Block(off, n) IN
               \/ n < 0 /\ Return(FALSE) /\ UNCHANGED <<out, g>>
               \/ n = 0 /\ Return(TRUE) /\ UNCHANGED <<out, g>>
               \/ n > 0 /\ pc' = "undefined"
               \/ /\ n > 0 /\ Goto("od_read", None) /\ off' = off + n
                  /\ out' = out \o Words(b, g.done)
                  /\ g' = [g EXCEPT !.buf = LeftOver(b),
                                    !.done = @ + 2 * (Len(b) \div 2),
                                    !.left = IF g.N THEN @ - n ELSE @]
  BY DEF OdRead, Goto
<1>11. ASSUME NEW r, Return(r), UNCHANGED <<out, g>>, (c.N /\ g.left = 0) \/ off = Len(c.F[fi].data)
       PROVE  OdOutput'
  <2>1. Reading(c, fi + 1, 0, g, out)
    BY <1>3, <1>5, <1>11, NextInput
  <2>2. pc' = "file" /\ fi' = fi + 1 /\ g' = g /\ out' = out
    BY <1>11 DEF Return
  <2> QED BY <1>3, <2>1, <2>2 DEF OdOutput, Ended
<1>12. CASE g.N /\ g.left = 0 /\ Return(TRUE) /\ UNCHANGED <<out, g>>
  BY <1>9, <1>11, <1>12
<1>13. CASE /\ ~g.N \/ g.left # 0
            /\ \E n \in Reads(off, limit) :
                 LET b == g.buf \o Block(off, n) IN
                 \/ n < 0 /\ Return(FALSE) /\ UNCHANGED <<out, g>>
                 \/ n = 0 /\ Return(TRUE) /\ UNCHANGED <<out, g>>
                 \/ n > 0 /\ pc' = "undefined"
                 \/ /\ n > 0 /\ Goto("od_read", None) /\ off' = off + n
                    /\ out' = out \o Words(b, g.done)
                    /\ g' = [g EXCEPT !.buf = LeftOver(b),
                                      !.done = @ + 2 * (Len(b) \div 2),
                                      !.left = IF g.N THEN @ - n ELSE @]
  <2>1. limit \in Nat \ {0} /\ (g.N => limit <= g.left)
    <3>1. BufSize \in Nat \ {0}
      BY BufAssumption
    <3>2. CASE g.N
      <4>1. Min({BufSize, g.left}) = IF BufSize <= g.left THEN BufSize ELSE g.left
        BY <1>9, <3>1, OfTwo
      <4> QED BY <1>9, <1>13, <3>1, <3>2, <4>1
    <3>3. CASE ~g.N
      BY <3>1, <3>3
    <3> QED BY <3>2, <3>3
  <2> HIDE DEF limit
  <2>2. PICK n \in Reads(off, limit) :
               LET b == g.buf \o Block(off, n) IN
               \/ n < 0 /\ Return(FALSE) /\ UNCHANGED <<out, g>>
               \/ n = 0 /\ Return(TRUE) /\ UNCHANGED <<out, g>>
               \/ n > 0 /\ pc' = "undefined"
               \/ /\ n > 0 /\ Goto("od_read", None) /\ off' = off + n
                  /\ out' = out \o Words(b, g.done)
                  /\ g' = [g EXCEPT !.buf = LeftOver(b),
                                    !.done = @ + 2 * (Len(b) \div 2),
                                    !.left = IF g.N THEN @ - n ELSE @]
    BY <1>13
  <2>3. /\ n \in Int /\ (n <= 0 => off = Len(In.data))
        /\ n > 0 => n \in Nat /\ n <= limit /\ off + n <= Len(In.data)
    BY <1>7, <1>8, <2>1, ReadsBytes
  <2>4. PICK b : b = g.buf \o Block(off, n)
    OBVIOUS
  <2>5. CASE n < 0 /\ Return(FALSE) /\ UNCHANGED <<out, g>>
    <3>1. off = Len(c.F[fi].data)
      BY <1>5, <2>3, <2>5
    <3> QED BY <1>11, <2>5, <3>1
  <2>6. CASE n = 0 /\ Return(TRUE) /\ UNCHANGED <<out, g>>
    <3>1. off = Len(c.F[fi].data)
      BY <1>5, <2>3, <2>6
    <3> QED BY <1>11, <2>6, <3>1
  <2>7. CASE n > 0 /\ pc' = "undefined"
    BY <2>7 DEF OdOutput, Ended
  <2>8. CASE /\ n > 0 /\ Goto("od_read", None) /\ off' = off + n
             /\ out' = out \o Words(b, g.done)
             /\ g' = [g EXCEPT !.buf = LeftOver(b),
                               !.done = @ + 2 * (Len(b) \div 2),
                               !.left = IF g.N THEN @ - n ELSE @]
    <3>1. b = Filled(c, fi, off, g, n)
      BY <1>5, <2>4 DEF Filled, Block
    <3>2. g' = AfterRead(g, b, n)
      BY <2>8 DEF AfterRead
    <3>3. CanRead(c, fi, off, g, n)
      <4>1. c.N => n <= g.left
        BY <1>9, <2>1, <2>3, <2>8
      <4>2. ~(c.N /\ g.left = 0)
        BY <1>9, <1>13
      <4>3. off + n <= Len(c.F[fi].data)
        BY <1>5, <2>3, <2>8
      <4> QED BY <4>1, <4>2, <4>3 DEF CanRead
    <3>4. n \in Nat /\ n > 0
      BY <2>3, <2>8
    <3>5. Reading(c, fi, off + n, g', out \o Words(b, g.done)) /\ InInput(c, fi, off + n, g')
      BY <1>3, <1>4, <1>5, <1>9, <3>1, <3>2, <3>3, <3>4, ReadBytes
    <3>6. pc' = "od_read" /\ fi' = fi /\ out' = out \o Words(b, g.done) /\ off' = off + n
      BY <2>8 DEF Goto
    <3> QED BY <1>3, <3>5, <3>6 DEF OdOutput, Ended
  <2> QED BY <2>2, <2>4, <2>5, <2>6, <2>7, <2>8
<1> QED BY <1>10, <1>12, <1>13

\* The steps of all commands.
LEMMA OdKept == ASSUME OdInv, [Next]_vars PROVE OdInv'
<1>1. CASE UNCHANGED vars
  <2>1. prog' = prog /\ argv' = argv /\ fs' = fs /\ pc' = pc /\ g' = g /\ fi' = fi /\ off' = off /\ out' = out
    BY <1>1 DEF vars
  <2>2. OdCall' = OdCall /\ (OdArgs <=> OdArgs') /\ (OdPlain <=> OdPlain')
        /\ (fs \in Seq(OdFiles) <=> (fs \in Seq(OdFiles))')
    BY <2>1, OdSame
  <2>3. PICK c : c = OdCall /\ c = OdCall'
    BY <2>2
  <2>4. OdOutput <=> OdOutput'
    BY <2>1, <2>3 DEF OdOutput
  <2> QED BY <2>1, <2>2, <2>4 DEF OdInv
<1>2. CASE OdNext
  <2>1. prog = "od" /\ prog' = prog
    BY <1>2, OwnSteps DEF Step
  <2>2. argv' = argv /\ fs' = fs
    BY <1>2 DEF OdNext, OdMain, OdFile, OdRead, Return, Goto
  <2>3. (OdArgs <=> OdArgs') /\ (OdPlain <=> OdPlain') /\ (fs \in Seq(OdFiles) <=> (fs \in Seq(OdFiles))')
    BY <2>2, OdSame
  <2>4. OdPlain => OdOutput'
    BY <1>2, <2>1, OdMainStep, OdFileStep, OdReadStep DEF OdNext
  <2> QED BY <2>1, <2>3, <2>4 DEF OdInv
<1>3. CASE HeadNext \/ TailNext \/ CatNext \/ ChownNext \/ ChmodNext \/ CpNext \/ PwdNext
           \/ ChildSyncNext \/ MultiJoinNext \/ SeqNumNext
  <2>1. prog # "od" /\ prog' = prog
    BY <1>3, OwnSteps DEF Step, Waiters
  <2> QED BY <2>1 DEF OdInv
<1> QED BY <1>1, <1>2, <1>3 DEF Next, Exited

LEMMA InitOd == ASSUME Init PROVE OdInv
<1>1. PICK i \in DOMAIN Cases : \E c \in Cases[i] :
        /\ prog = c.prog /\ argv = c.argv /\ fs = c.fs
        /\ pc = "main" /\ g = None /\ v = None
        /\ fi = 1 /\ off = 0 /\ out = <<>> /\ ok = TRUE
  BY DEF Init
<1>2. PICK c \in Cases[i] : /\ prog = c.prog /\ argv = c.argv /\ fs = c.fs
                            /\ pc = "main" /\ fi = 1 /\ out = <<>>
  BY <1>1
<1>3. prog = "od" => OdArgs /\ fs \in Seq(OdFiles)
  BY <1>2, BytesAssumption DEF OdArgs, OdFiles, ByteSet
<1> QED BY <1>2, <1>3 DEF OdInv, OdOutput

\* What has been written at the end is what was asked for.
LEMMA OdWrites == ASSUME OdInv PROVE OdExact
<1>1. SUFFICES ASSUME prog = "od", pc = "exit",
                      Has("j") => \A i \in DOMAIN fs : fs[i].kind \notin {"pipe", "dir"}
               PROVE  LET size == Len(Dumped) IN
                      /\ out # <<>> /\ Cardinality(WordsOf(out)) = (size + 1) \div 2
                      /\ Last(out) = [offset |-> Skipped("j", 0) + size]
                      /\ \A p \in 1..(Len(out) - 1) :
                           LET at == 2 * Before(out, p) IN
                           IF p \in WordsOf(out)
                           THEN Decoded(out[p].word, at + 1 = size) = SubSeq(Dumped, at + 1, Min({at + 2, size}))
                           ELSE out[p] = [offset |-> Skipped("j", 0) + at]
  BY DEF OdExact
<1>2. OdPlain
  BY <1>1 DEF OdPlain
<1>3. OutputOk(out, Wanted(OdCall), OdCall.skip)
  BY <1>1, <1>2 DEF OdInv, OdOutput
<1>4. OdCall.skip = Skipped("j", 0)
  BY DEF OdCall
<1>5. Wanted(OdCall) = Dumped
  <2>1. Skipped("N", Len(Joined)) = IF Has("N") THEN Skipped("N", 0) ELSE Len(Joined)
    BY DEF Skipped
  <2> QED BY <2>1 DEF Wanted, OdCall, Dumped
<1>6. OutputOk(out, Dumped, Skipped("j", 0))
  BY <1>3, <1>4, <1>5
<1> QED BY <1>6 DEF OutputOk, Tells

\* od writes the words, offsets and odd byte of exactly the bytes that -j and
\* -N ask for, from any inputs, in pieces of any length and with a buffer and
\* bytes of any size.
THEOREM OdDumpsAll == Spec => []OdExact
<1>1. Init => OdInv
  BY InitOd
<1>2. OdInv /\ [Next]_vars => OdInv'
  BY OdKept
<1>3. OdInv => OdExact
  BY OdWrites
<1> QED BY <1>1, <1>2, <1>3, PTL DEF Spec
=============================================================================

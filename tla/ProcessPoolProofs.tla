-------------------------- MODULE ProcessPoolProofs --------------------------
(***************************************************************************)
(* Theorems about ProcessPool, for any number of children and connections. *)
(***************************************************************************)
EXTENDS ProcessPool, TLAPS

\* The parent keeps the pids of exactly the children that it has forked and
\* not reaped.
PidsInv == pids = {k \in Procs : child[k] \notin {"unborn", "reaped"}}

\* Children are forked in order, all of them before the parent's loop;
\* before it, nothing is reported to the parent and a death is missed.
ForkInv ==
    /\ \A k \in Procs : child[k] = "unborn" <=> k >= forked
    /\ parent \in {"loop", "exited"} => forked = NumProc
    /\ parent = "fork" => ~edge /\ Zombies \subseteq missed

\* The parent stops only when it knows of no child any more.
StopInv ==
    /\ stop => pids = {} /\ parent \in {"loop", "exited"}
    /\ parent = "exited" => stop

\* The inductive invariant.
IInv == TypeOK /\ PidsInv /\ ForkInv /\ StopInv /\ ZombiesNoticed

\* The round robin of run_parent stays inside the table of children.
LEMMA CounterInRange ==
    ASSUME TypeOK PROVE NextCounter \in Procs
BY ProcAssumption DEF TypeOK, Procs, NextCounter

LEMMA InitIInv == Init => IInv
<1> SUFFICES ASSUME Init PROVE IInv
  OBVIOUS
<1> USE DEF Init
<1>1. TypeOK
  <2>1. 0 \in Procs /\ 0 \in 0..NumProc
    BY ProcAssumption DEF Procs
  <2>2. /\ child \in [Procs -> ChildStates]
        /\ cstop \in [Procs -> BOOLEAN]
        /\ ccaught \in [Procs -> SUBSET {"TERM"}]
        /\ notes \in [Procs -> Nat] /\ cedge \in [Procs -> BOOLEAN]
        /\ open \in [Procs -> SUBSET Conns]
    BY DEF ChildStates
  <2> QED BY <2>1, <2>2 DEF TypeOK
<1>2. PidsInv /\ StopInv /\ ZombiesNoticed
  BY DEF PidsInv, StopInv, ZombiesNoticed
<1>3. ForkInv
  BY ProcAssumption DEF ForkInv, Procs, Zombies
<1> QED BY <1>1, <1>2, <1>3 DEF IInv

-----------------------------------------------------------------------------
\* What the end of the children K, all of them running, leaves true.
LEMMA EndKeeps ==
    ASSUME IInv, NEW K \in SUBSET Living, NEW over \in SUBSET Conns,
           End(K, over)
    PROVE  /\ child' \in [Procs -> ChildStates]
           /\ cstop' \in [Procs -> BOOLEAN]
           /\ notes' \in [Procs -> Nat]
           /\ cedge' \in [Procs -> BOOLEAN]
           /\ open' \in [Procs -> SUBSET Conns]
           /\ closed' \subseteq Conns
           /\ missed' \subseteq Procs
           /\ \A k \in Procs :
                /\ child'[k] = "unborn" <=> child[k] = "unborn"
                /\ child'[k] = "reaped" <=> child[k] = "reaped"
           /\ \A k \in Procs : child'[k] = "zombie" <=> child[k] = "zombie" \/ k \in K
           /\ missed \subseteq missed'
           /\ parent # "loop" => K \subseteq missed'
<1> USE DEF IInv, TypeOK, End, Living, ChildStates
<1>1. closed' \subseteq Conns
  <2>1. UNION {open[k] : k \in K} \subseteq Conns
    OBVIOUS
  <2> QED BY <2>1
<1>2. missed' \subseteq Procs /\ missed \subseteq missed'
      /\ (parent # "loop" => K \subseteq missed')
  OBVIOUS
<1>3. \A k \in Procs :
        /\ child'[k] = "unborn" <=> child[k] = "unborn"
        /\ child'[k] = "reaped" <=> child[k] = "reaped"
        /\ child'[k] = "zombie" <=> child[k] = "zombie" \/ k \in K
  OBVIOUS
<1>4. child' \in [Procs -> ChildStates] /\ cstop' \in [Procs -> BOOLEAN]
      /\ notes' \in [Procs -> Nat] /\ cedge' \in [Procs -> BOOLEAN]
  OBVIOUS
<1>5. open' \in [Procs -> SUBSET Conns]
  OBVIOUS
<1> QED BY <1>1, <1>2, <1>3, <1>4, <1>5

\* Steps with which running children end keep the invariant: the pids stay,
\* and a parent that has its handler catches SIGCHLD.
LEMMA EndPreserves ==
    ASSUME IInv, NEW K \in SUBSET Living, NEW over \in SUBSET Conns,
           End(K, over),
           UNCHANGED <<forked, pids, counter, stop, edge, unheard, fits>>,
           parent' = parent \/ (parent = "fork" /\ parent' = "killed"),
           waiting' \subseteq Conns,
           caught' \subseteq {"CHLD", "TERM"},
           "CHLD" \in caught => "CHLD" \in caught',
           Sigchld(K) \subseteq caught',
           ccaught' \in [Procs -> SUBSET {"TERM"}]
    PROVE  IInv'
<1> USE DEF IInv
<1>1. TypeOK'
  BY EndKeeps DEF TypeOK
<1>2. PidsInv'
  <2>1. \A k \in Procs : child'[k] \notin {"unborn", "reaped"}
                      <=> child[k] \notin {"unborn", "reaped"}
    BY EndKeeps
  <2> QED BY <2>1 DEF PidsInv
<1>3. ForkInv'
  <2>1. parent' = "fork" => Zombies' \subseteq missed'
    BY EndKeeps DEF ForkInv, Zombies
  <2> QED BY <2>1, EndKeeps DEF ForkInv
<1>4. StopInv'
  BY DEF StopInv
<1>5. ZombiesNoticed'
  <2> SUFFICES ASSUME parent' = "loop", NEW z \in Procs, child'[z] = "zombie",
                      z \notin missed'
               PROVE  "CHLD" \in caught'
    BY DEF ZombiesNoticed, Zombies
  <2>1. parent = "loop" /\ z \notin missed
    BY EndKeeps
  <2>2. CASE z \in K
    BY <2>1, <2>2 DEF Sigchld
  <2>3. CASE z \notin K
    BY <2>1, <2>3, EndKeeps DEF ZombiesNoticed, Zombies
  <2> QED BY <2>2, <2>3
<1> QED BY <1>1, <1>2, <1>3, <1>4, <1>5

\* SIGTERM to some of the children.
LEMMA TermPreserves ==
    ASSUME IInv, NEW K \in SUBSET Procs, NEW sigs \in SUBSET {"CHLD", "TERM"},
           Term(K, sigs), "CHLD" \in caught => "CHLD" \in sigs,
           UNCHANGED <<forked, pids, counter, stop, edge, waiting, unheard, fits>>,
           parent' = parent \/ (parent = "fork" /\ parent' = "killed")
    PROVE  IInv'
<1> DEFINE killed == {k \in K : child[k] = "setup"}
<1>1. killed \in SUBSET Living /\ {} \in SUBSET Conns
  BY DEF Living
<1>2. End(killed, {}) /\ caught' = sigs \cup Sigchld(killed)
  BY DEF Term
<1>3. ccaught' \in [Procs -> SUBSET {"TERM"}]
  BY DEF Term, IInv, TypeOK
<1>4. Sigchld(killed) \subseteq {"CHLD", "TERM"}
  BY DEF Sigchld
<1>5. waiting' \subseteq Conns
  BY DEF IInv, TypeOK
<1> HIDE DEF killed
<1> QED BY <1>1, <1>2, <1>3, <1>4, <1>5, EndPreserves

\* A child that ends by itself.
LEMMA OneEnds ==
    ASSUME IInv, NEW k \in Living, NEW over \in SUBSET Conns, End({k}, over),
           caught' = caught \cup Sigchld({k}),
           ccaught' = [ccaught EXCEPT ![k] = {}],
           UNCHANGED <<parentVars, edge, unheard, fits>>, waiting' \subseteq waiting
    PROVE  IInv'
<1>1. {k} \in SUBSET Living
  OBVIOUS
<1>2. Sigchld({k}) \subseteq {"CHLD", "TERM"}
  BY DEF Sigchld
<1>3. ccaught' \in [Procs -> SUBSET {"TERM"}] /\ waiting' \subseteq Conns
      /\ caught \subseteq {"CHLD", "TERM"}
  BY DEF IInv, TypeOK
<1> QED BY <1>1, <1>2, <1>3, EndPreserves DEF parentVars
-----------------------------------------------------------------------------
\* Every step of the parent keeps the invariant.
LEMMA ParentPreserves ==
    ASSUME IInv, ParentStep PROVE IInv'
<1> USE DEF IInv
<1>1. CASE Fork
  <2> USE <1>1 DEF Fork
  <2>1. forked \in Procs /\ child'[forked] = "setup"
        /\ \A k \in Procs : k # forked => child'[k] = child[k]
    BY ProcAssumption DEF TypeOK, Procs
  <2>2. TypeOK'
    BY <2>1, ProcAssumption DEF TypeOK, ChildStates, connVars, ghostVars,
       signalVars, pipeVars
  <2>3. PidsInv'
    BY <2>1 DEF PidsInv
  <2>4. ForkInv'
    <3>1. Zombies' \subseteq Zombies /\ missed' = missed /\ edge' = edge
      BY <2>1 DEF Zombies, ghostVars
    <3>2. \A k \in Procs : child'[k] = "unborn" <=> k >= forked'
      BY <2>1 DEF ForkInv, TypeOK, Procs
    <3> QED BY <3>1, <3>2 DEF ForkInv
  <2>5. StopInv' /\ ZombiesNoticed'
    BY DEF StopInv, ZombiesNoticed
  <2> QED BY <2>2, <2>3, <2>4, <2>5
<1>2. CASE ParentSetup
  <2> USE <1>2 DEF ParentSetup, childVars, connVars, ghostVars, signalVars, pipeVars
  <2>1. TypeOK'
    BY DEF TypeOK
  <2>2. PidsInv' /\ ForkInv' /\ StopInv'
    BY DEF PidsInv, ForkInv, StopInv
  <2>3. ZombiesNoticed'
    BY DEF ZombiesNoticed, ForkInv, Zombies
  <2> QED BY <2>1, <2>2, <2>3
<1>3. CASE Dispatch
  <2> USE <1>3 DEF Dispatch, childVars, connVars, ghostVars, signalVars
  <2>1. TypeOK'
    <3>1. counter' \in Procs
      BY CounterInRange DEF TypeOK
    <3>2. notes' \in [Procs -> Nat] /\ cedge' \in [Procs -> BOOLEAN]
      <4>1. CASE pids = {}
        BY <4>1 DEF TypeOK
      <4>2. CASE pids # {}
        <5>1. PICK k \in Procs :
                /\ notes' = [notes EXCEPT ![k] = IF k \in Living THEN @ + 1 ELSE @]
                /\ cedge' = [cedge EXCEPT ![k] = @ \/ child[k] = "loop"]
          BY <4>2
        <5>2. notes[k] + 1 \in Nat /\ notes[k] \in Nat
          BY DEF TypeOK
        <5> QED BY <5>1, <5>2 DEF TypeOK
      <4> QED BY <4>1, <4>2
    <3>3. stop' \in BOOLEAN /\ edge' \in BOOLEAN
      BY DEF TypeOK
    <3> QED BY <3>1, <3>2, <3>3 DEF TypeOK
  <2>2. PidsInv' /\ ForkInv' /\ StopInv'
    BY DEF PidsInv, ForkInv, StopInv, Zombies
  <2>3. ZombiesNoticed'
    BY DEF ZombiesNoticed, Zombies
  <2> QED BY <2>1, <2>2, <2>3
<1>4. CASE ParentChld
  <2> USE <1>4 DEF ParentChld, connVars, ghostVars, pipeVars, Reaped, Zombies, AllGone
  <2>1. TypeOK'
    BY DEF TypeOK, ChildStates
  <2>2. PidsInv'
    BY DEF PidsInv, TypeOK
  <2>3. ForkInv' /\ StopInv'
    BY DEF ForkInv, StopInv, TypeOK
  <2>4. ZombiesNoticed'
    BY DEF ZombiesNoticed, TypeOK
  <2> QED BY <2>1, <2>2, <2>3, <2>4
<1>5. CASE ParentTerm
  <2>1. pids \in SUBSET Procs /\ caught \ {"TERM"} \in SUBSET {"CHLD", "TERM"}
    BY DEF TypeOK
  <2> QED BY <1>5, <2>1, TermPreserves DEF ParentTerm, parentVars
<1>6. CASE ParentExit
  <2> USE <1>6 DEF ParentExit, childVars, connVars, ghostVars, signalVars, pipeVars
  <2>1. TypeOK'
    BY DEF TypeOK
  <2>2. PidsInv' /\ ForkInv' /\ StopInv' /\ ZombiesNoticed'
    BY DEF PidsInv, ForkInv, StopInv, ZombiesNoticed
  <2> QED BY <2>1, <2>2
<1> QED BY <1>1, <1>2, <1>3, <1>4, <1>5, <1>6 DEF ParentStep

\* Every step of a child keeps the invariant.
LEMMA ChildPreserves ==
    ASSUME IInv, NEW k \in Procs, ChildStep(k) PROVE IInv'
<1> USE DEF IInv
<1>1. CASE ChildSetup(k)
  <2> USE <1>1 DEF ChildSetup, parentVars, connVars, ghostVars, signalVars
  <2>1. /\ child' \in [Procs -> ChildStates]
        /\ \A j \in Procs : /\ child'[j] = "unborn" <=> child[j] = "unborn"
                            /\ child'[j] = "reaped" <=> child[j] = "reaped"
                            /\ child'[j] = "zombie" <=> child[j] = "zombie"
    BY DEF TypeOK, ChildStates
  <2>2. TypeOK'
    BY <2>1 DEF TypeOK
  <2>3. PidsInv'
    BY <2>1 DEF PidsInv
  <2>4. ForkInv' /\ StopInv' /\ ZombiesNoticed'
    BY <2>1 DEF ForkInv, StopInv, ZombiesNoticed, Zombies
  <2> QED BY <2>2, <2>3, <2>4
<1>2. ASSUME NEW c \in Conns, AcceptFails(k, c) PROVE IInv'
  <2> USE <1>2 DEF AcceptFails, Announced, Consume, parentVars, childVars,
                   ghostVars, signalVars
  <2>1. notes[k] \in Nat /\ notes[k] - 1 \in Nat
    BY DEF TypeOK
  <2>2. TypeOK'
    BY <2>1 DEF TypeOK
  <2>3. PidsInv' /\ ForkInv' /\ StopInv' /\ ZombiesNoticed'
    BY DEF PidsInv, ForkInv, StopInv, ZombiesNoticed, Zombies
  <2> QED BY <2>2, <2>3
<1>3. CASE ChildTerm(k)
  <2> USE <1>3 DEF ChildTerm, parentVars, connVars, ghostVars, pipeVars
  <2>1. TypeOK'
    BY DEF TypeOK
  <2>2. PidsInv' /\ ForkInv' /\ StopInv' /\ ZombiesNoticed'
    BY DEF PidsInv, ForkInv, StopInv, ZombiesNoticed, Zombies
  <2> QED BY <2>1, <2>2
<1>4. CASE ChildExit(k)
  BY <1>4, OneEnds DEF ChildExit, Living
<1>5. ASSUME NEW c \in Conns, Accept(k, c) PROVE IInv'
  <2> USE <1>5 DEF Accept, Announced, Consume, parentVars, childVars,
                   ghostVars, signalVars
  <2>1. notes[k] \in Nat /\ notes[k] - 1 \in Nat
    BY DEF TypeOK
  <2>2. TypeOK'
    BY <2>1 DEF TypeOK
  <2>3. PidsInv' /\ ForkInv' /\ StopInv' /\ ZombiesNoticed'
    BY DEF PidsInv, ForkInv, StopInv, ZombiesNoticed, Zombies
  <2> QED BY <2>2, <2>3
<1>6. ASSUME NEW c \in Conns, AcceptFatal(k, c) PROVE IInv'
  <2>1. {c} \in SUBSET Conns /\ waiting' \subseteq waiting /\ k \in Living
    BY <1>6 DEF AcceptFatal, Announced, Living
  <2> QED BY <1>6, <2>1, OneEnds DEF AcceptFatal
<1> QED BY <1>1, <1>2, <1>3, <1>4, <1>5, <1>6 DEF ChildStep

\* Signals, clients and crashes keep the invariant.
LEMMA EnvironmentPreserves ==
    ASSUME IInv, Environment PROVE IInv'
<1> USE DEF IInv
<1>1. CASE TermParent
  <2> USE <1>1 DEF TermParent, childVars, connVars, ghostVars, pipeVars
  <2>1. TypeOK'
    BY DEF TypeOK
  <2>2. PidsInv' /\ ForkInv' /\ StopInv'
    BY DEF PidsInv, ForkInv, StopInv, Zombies
  <2>3. ZombiesNoticed'
    BY DEF ZombiesNoticed, Zombies
  <2> QED BY <2>1, <2>2, <2>3
<1>2. CASE TermGroup
  <2>1. Living \in SUBSET Procs /\ caught \in SUBSET {"CHLD", "TERM"}
        /\ caught \cup {"TERM"} \in SUBSET {"CHLD", "TERM"}
    BY DEF TypeOK, Living
  <2>2. CASE parent = "loop"
    BY <1>2, <2>1, <2>2, TermPreserves DEF TermGroup
  <2>3. CASE parent = "fork"
    BY <1>2, <2>1, <2>3, TermPreserves DEF TermGroup
  <2> QED BY <1>2, <2>2, <2>3 DEF TermGroup
<1>3. ASSUME NEW c \in Conns, Connect(c) PROVE IInv'
  <2> USE <1>3 DEF Connect, parentVars, childVars, ghostVars, signalVars, pipeVars
  <2>1. TypeOK'
    BY DEF TypeOK
  <2>2. PidsInv' /\ ForkInv' /\ StopInv' /\ ZombiesNoticed'
    BY DEF PidsInv, ForkInv, StopInv, ZombiesNoticed, Zombies
  <2> QED BY <2>1, <2>2
<1>4. ASSUME NEW k \in Procs, Crash(k) PROVE IInv'
  BY <1>4, OneEnds DEF Crash
<1>5. ASSUME NEW k \in Procs, NEW c \in Conns, CloseConn(k, c) PROVE IInv'
  <2> USE <1>5 DEF CloseConn, parentVars, childVars, ghostVars, signalVars, pipeVars
  <2>1. TypeOK'
    BY DEF TypeOK
  <2>2. PidsInv' /\ ForkInv' /\ StopInv' /\ ZombiesNoticed'
    BY DEF PidsInv, ForkInv, StopInv, ZombiesNoticed, Zombies
  <2> QED BY <2>1, <2>2
<1> QED BY <1>1, <1>2, <1>3, <1>4, <1>5 DEF Environment

LEMMA NextPreserves == IInv /\ [Next]_vars => IInv'
<1> SUFFICES ASSUME IInv, [Next]_vars PROVE IInv'
  OBVIOUS
<1>1. CASE UNCHANGED vars
  BY <1>1 DEF IInv, TypeOK, PidsInv, ForkInv, StopInv, ZombiesNoticed, Zombies,
     vars, parentVars, childVars, connVars, ghostVars, signalVars, pipeVars
<1> QED BY <1>1, ParentPreserves, ChildPreserves, EnvironmentPreserves
        DEF Next, Stopped

LEMMA Inductive == Spec => []IInv
BY InitIInv, NextPreserves, PTL DEF Spec
-----------------------------------------------------------------------------
\* Every state of the pool has the declared types: the round robin stays in
\* the table and no child takes a message that was not sent.
THEOREM TypeCorrect == Spec => []TypeOK
<1>1. IInv => TypeOK
  BY DEF IInv
<1> QED BY <1>1, Inductive, PTL

\* A parent that has left its loop leaves no running child behind, however
\* crashes, signals and exits of the children were ordered.
THEOREM NoOrphansTheorem == Spec => []NoOrphans
<1>1. IInv => NoOrphans
  <2> SUFFICES ASSUME IInv, parent = "exited", NEW k \in Living PROVE FALSE
    BY DEF NoOrphans
  <2>1. k \in pids
    BY DEF IInv, PidsInv, Living
  <2> QED BY <2>1 DEF IInv, StopInv
<1> QED BY <1>1, Inductive, PTL

\* A death that the parent could notice is noticed, for any number of
\* children that end at once.
THEOREM ZombiesNoticedTheorem == Spec => []ZombiesNoticed
<1>1. IInv => ZombiesNoticed
  BY DEF IInv
<1> QED BY <1>1, Inductive, PTL

\* Round robin over a table with written-off children finds a running one.
THEOREM NoteReachesChildTheorem == Spec => NoteReachesChild
<1> DEFINE Told == edge /\ ~edge' /\ Zombies = {} /\ Living # {} =>
                     \E k \in Living : notes'[k] = notes[k] + 1
<1>1. IInv /\ [Next]_vars => [Told]_vars
  <2> SUFFICES ASSUME IInv, Next, edge, ~edge', Zombies = {}, Living # {}
               PROVE  \E k \in Living : notes'[k] = notes[k] + 1
    OBVIOUS
  <2>1. Dispatch
    <3>1. \A k \in Procs : ~ChildStep(k)
      BY DEF ChildStep, ChildSetup, AcceptFails, ChildTerm, ChildExit, Accept,
         AcceptFatal
    <3>2. ~Environment /\ ~Stopped
      BY DEF Environment, TermParent, TermGroup, Connect, Crash, CloseConn,
         Stopped, vars
    <3>3. ~Fork /\ ~ParentChld /\ ~ParentTerm /\ ~ParentExit
      BY DEF Fork, ParentChld, ParentTerm, ParentExit
    <3>4. ~ParentSetup
      BY DEF ParentSetup, IInv, ForkInv
    <3> QED BY <3>1, <3>2, <3>3, <3>4 DEF Next, ParentStep
  <2>2. Living \subseteq pids
    BY DEF IInv, PidsInv, Living
  <2>3. PICK k \in pids : notes' = [notes EXCEPT ![k] = IF k \in Living THEN @ + 1 ELSE @]
    BY <2>1, <2>2 DEF Dispatch, Chosen
  <2>4. k \in Living
    BY DEF IInv, TypeOK, PidsInv, Living, Zombies, ChildStates
  <2> QED BY <2>3, <2>4 DEF IInv, TypeOK, Living
<1>2. NoteReachesChild <=> [][Told]_vars
  BY DEF NoteReachesChild
<1> QED BY <1>1, <1>2, Inductive, PTL DEF Spec
=============================================================================

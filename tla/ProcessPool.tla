----------------------------- MODULE ProcessPool -----------------------------
(***************************************************************************)
(* The process pool of lib/processpool.hh.  The constructor forks the      *)
(* children; the parent waits for connections on the listening socket and  *)
(* tells a child, round robin, to accept one; signals reach both event     *)
(* loops through a pipe the handler writes to.  Parent and children share  *)
(* nothing but pipes, signals and the listening socket.                    *)
(*                                                                         *)
(* Descriptors are watched edge-triggered (addfd): an event stands for all *)
(* that has arrived since the last one.  Every event of an event loop is a *)
(* step; events that epoll_wait returned together with the one that sets   *)
(* stop are still handled.  SIGINT is treated like SIGTERM.                *)
(***************************************************************************)
EXTENDS Integers, FiniteSets

CONSTANTS
    NumProc,    \* process_number
    Conns       \* connections that clients make

ASSUME ProcAssumption == NumProc \in Nat \ {0}

Procs == 0..(NumProc - 1)

VARIABLES
    parent,     \* "fork" in the constructor, "loop", "exited" or "killed"
    forked,     \* children forked so far
    pids,       \* the k with sub_process[k].pid # -1 in the parent
    counter,    \* counter of run_parent
    stop,       \* stop of the parent
    caught,     \* signals in the parent's signal pipe
    edge,       \* epoll will report listenfd to the parent
    child,      \* state of each child: see ChildStates
    cstop,      \* stop of each child
    ccaught,    \* signals in each child's signal pipe
    notes,      \* integers in the pipe to each child
    cedge,      \* epoll will report this pipe to the child
    waiting,    \* connections to be accepted
    open,       \* connections each child serves
    closed,     \* connections that are over
    fits,       \* the timer of a connection has the class timer_lst expects
    unheard,    \* history: a client came while another waited, or accept failed
    missed      \* history: children that ended while the parent had no handler

parentVars == <<parent, forked, pids, counter, stop>>
signalVars == <<caught, ccaught>>
childVars == <<child, cstop>>
pipeVars == <<notes, cedge>>
connVars == <<waiting, open, closed, unheard>>
ghostVars == <<fits, missed>>
vars == <<parentVars, signalVars, childVars, pipeVars, edge, connVars,
          ghostVars>>

ChildStates == {"unborn", "setup", "loop", "zombie", "reaped"}
Living == {k \in Procs : child[k] \in {"setup", "loop"}}
Zombies == {k \in Procs : child[k] = "zombie"}

\* run_child makes a util_timer for a connection while timer_lst is a
\* timer_wheel, whose add_timer dereferences the null result of the cast:
\* undefined behaviour, which ends the child or (fits) does no harm.
Init ==
    /\ parent = "fork" /\ forked = 0 /\ pids = {} /\ counter = 0
    /\ stop = FALSE /\ caught = {} /\ edge = FALSE
    /\ child = [k \in Procs |-> "unborn"]
    /\ cstop = [k \in Procs |-> FALSE]
    /\ ccaught = [k \in Procs |-> {}]
    /\ notes = [k \in Procs |-> 0]
    /\ cedge = [k \in Procs |-> FALSE]
    /\ waiting = {} /\ closed = {} /\ unheard = FALSE /\ missed = {}
    /\ open = [k \in Procs |-> {}]
    /\ fits \in BOOLEAN
-----------------------------------------------------------------------------
(* How processes start and end *)

\* One round of the loop of the constructor.
Fork ==
    /\ parent = "fork" /\ forked < NumProc
    /\ forked' = forked + 1
    /\ pids' = pids \cup {forked}
    /\ child' = [child EXCEPT ![forked] = "setup"]
    /\ UNCHANGED <<parent, counter, stop, signalVars, cstop, pipeVars, edge,
                   connVars, ghostVars>>

\* The beginning of run_parent: handlers and descriptors are set up; a socket
\* that is readable when it is added is reported.
ParentSetup ==
    /\ parent = "fork" /\ forked = NumProc
    /\ parent' = "loop"
    /\ edge' = (waiting # {})
    /\ UNCHANGED <<forked, pids, counter, stop, signalVars, childVars,
                   pipeVars, connVars, ghostVars>>

ChildSetup(k) ==
    /\ child[k] = "setup"
    /\ child' = [child EXCEPT ![k] = "loop"]
    /\ cedge' = [cedge EXCEPT ![k] = notes[k] > 0]
    /\ UNCHANGED <<parentVars, signalVars, cstop, notes, edge, connVars, ghostVars>>

\* The children K end: their sockets are closed and the kernel sends SIGCHLD,
\* which is lost unless the parent has set its handler.
End(K, over) ==
    /\ child' = [k \in Procs |-> IF k \in K THEN "zombie" ELSE child[k]]
    /\ cstop' = [k \in Procs |-> k \notin K /\ cstop[k]]
    /\ notes' = [k \in Procs |-> IF k \in K THEN 0 ELSE notes[k]]
    /\ cedge' = [k \in Procs |-> k \notin K /\ cedge[k]]
    /\ open' = [k \in Procs |-> IF k \in K THEN {} ELSE open[k]]
    /\ closed' = closed \cup over \cup UNION {open[k] : k \in K}
    /\ missed' = missed \cup IF parent = "loop" THEN {} ELSE K

Sigchld(K) == IF K # {} /\ parent = "loop" THEN {"CHLD"} ELSE {}

\* SIGTERM to the children K: one without handlers is killed.
Term(K, sigs) ==
    LET killed == {k \in K : child[k] = "setup"}
        told == {k \in K : child[k] = "loop"}
    IN /\ End(killed, {})
       /\ ccaught' = [k \in Procs |-> ccaught[k] \cup
                                      IF k \in told THEN {"TERM"} ELSE {}]
       /\ caught' = sigs \cup Sigchld(killed)

Crash(k) ==
    /\ k \in Living
    /\ End({k}, {})
    /\ caught' = caught \cup Sigchld({k})
    /\ ccaught' = [ccaught EXCEPT ![k] = {}]
    /\ UNCHANGED <<parentVars, edge, waiting, unheard, fits>>

\* SIGTERM to the parent alone; without a handler it is killed.
TermParent ==
    /\ \/ parent = "loop" /\ caught' = caught \cup {"TERM"} /\ parent' = parent
       \/ parent = "fork" /\ parent' = "killed" /\ caught' = caught
    /\ UNCHANGED <<forked, pids, counter, stop, ccaught, childVars, pipeVars,
                   edge, connVars, ghostVars>>

\* SIGINT from the terminal reaches the parent and all children.
TermGroup ==
    /\ \/ parent = "loop" /\ parent' = parent
          /\ Term(Living, caught \cup {"TERM"})
       \/ parent = "fork" /\ parent' = "killed"
          /\ Term(Living, caught)
    /\ UNCHANGED <<forked, pids, counter, stop, edge, waiting, unheard, fits>>

Connect(c) ==
    /\ parent \in {"fork", "loop"}
    /\ c \notin waiting \cup closed \cup UNION {open[k] : k \in Procs}
    /\ waiting' = waiting \cup {c}
    /\ unheard' = (unheard \/ waiting # {})
    /\ edge' = (edge \/ parent = "loop")
    /\ UNCHANGED <<parentVars, signalVars, childVars, pipeVars, open, closed,
                   ghostVars>>
-----------------------------------------------------------------------------
(* run_parent *)

\* The search for a child that runs goes from counter on, and the first one
\* found is told.  The faulty variants do not search, and do not wrap.
Steps(k) == (k + NumProc - counter) % NumProc
Chosen_First(k) == k = counter
Chosen(k) == k \in pids /\ \A j \in pids : Steps(k) <= Steps(j)

NextCounter_NoWrap == counter + 1
NextCounter == (counter + 1) % NumProc

\* listenfd is readable: a child that runs is told to accept.  Nothing is
\* sent to one that has died and has not been reaped.
Dispatch ==
    /\ parent = "loop" /\ edge
    /\ edge' = FALSE
    /\ \/ /\ pids = {} /\ stop' = TRUE
          /\ UNCHANGED <<counter, notes, cedge>>
       \/ /\ pids # {} /\ stop' = stop
          /\ counter' = NextCounter
          /\ \E k \in Procs :
               /\ Chosen(k)
               /\ notes' = [notes EXCEPT ![k] = IF k \in Living THEN @ + 1 ELSE @]
               /\ cedge' = [cedge EXCEPT ![k] = @ \/ child[k] = "loop"]
    /\ UNCHANGED <<parent, forked, pids, signalVars, childVars, connVars,
                   ghostVars>>

\* Are there no children left; the faulty variants stop with the first
\* child that ends, and forget to stop.
AllGone_Any(P) == P # Procs
AllGone_Never(P) == FALSE
AllGone(P) == P = {}

\* SIGCHLD in the parent: the waitpid loop reaps all that have ended.  The
\* faulty variant reaps one.
Reaped_One == IF Zombies = {} THEN {} ELSE {CHOOSE k \in Zombies : TRUE}
Reaped == Zombies

ParentChld ==
    /\ parent = "loop" /\ "CHLD" \in caught
    /\ caught' = caught \ {"CHLD"}
    /\ child' = [k \in Procs |-> IF k \in Reaped THEN "reaped" ELSE child[k]]
    /\ pids' = pids \ Reaped
    /\ stop' = AllGone(pids')
    /\ UNCHANGED <<parent, forked, counter, ccaught, cstop, pipeVars, edge,
                   connVars, ghostVars>>

\* SIGTERM or SIGINT in the parent is passed on; a zombie ignores it.
ParentTerm ==
    /\ parent = "loop" /\ "TERM" \in caught
    /\ Term(pids, caught \ {"TERM"})
    /\ UNCHANGED <<parentVars, edge, waiting, unheard, fits>>

\* The loop of run_parent ends.
ParentExit ==
    /\ parent = "loop" /\ stop
    /\ parent' = "exited"
    /\ UNCHANGED <<forked, pids, counter, stop, signalVars, childVars,
                   pipeVars, edge, connVars, ghostVars>>
-----------------------------------------------------------------------------
(* run_child *)

\* The pipe is readable and recv returns an integer, after which the child
\* goes on to accept.  The faulty variant has the test the wrong way round.
Announced_Inverted(k) == child[k] = "loop" /\ cedge[k] /\ notes[k] = 0
Announced(k) == child[k] = "loop" /\ cedge[k] /\ notes[k] > 0

Consume(k) ==
    /\ notes' = [notes EXCEPT ![k] = @ - 1]
    /\ cedge' = [cedge EXCEPT ![k] = FALSE]

\* accept fails: the client has given up (ECONNABORTED), or for want of a
\* descriptor, and then nobody is told of the connection again.
AcceptFails(k, c) ==
    /\ Announced(k) /\ c \in waiting
    /\ Consume(k)
    /\ \/ /\ waiting' = waiting \ {c} /\ closed' = closed \cup {c}
          /\ unheard' = unheard
       \/ /\ unheard' = TRUE
          /\ UNCHANGED <<waiting, closed>>
    /\ UNCHANGED <<parentVars, signalVars, childVars, edge, open, ghostVars>>

Accept(k, c) ==
    /\ Announced(k) /\ c \in waiting /\ fits
    /\ Consume(k)
    /\ waiting' = waiting \ {c}
    /\ open' = [open EXCEPT ![k] = @ \cup {c}]
    /\ UNCHANGED <<parentVars, signalVars, childVars, edge, closed, unheard,
                   ghostVars>>

\* The dynamic_cast in add_timer yields a null timer, which is dereferenced.
AcceptFatal(k, c) ==
    /\ Announced(k) /\ c \in waiting /\ ~fits
    /\ waiting' = waiting \ {c}
    /\ End({k}, {c})
    /\ caught' = caught \cup Sigchld({k})
    /\ ccaught' = [ccaught EXCEPT ![k] = {}]
    /\ UNCHANGED <<parentVars, edge, unheard, fits>>

\* process() returns false, or the connection's timer expires.
CloseConn(k, c) ==
    /\ child[k] = "loop" /\ c \in open[k]
    /\ open' = [open EXCEPT ![k] = @ \ {c}]
    /\ closed' = closed \cup {c}
    /\ UNCHANGED <<parentVars, signalVars, childVars, pipeVars, edge, waiting,
                   unheard, ghostVars>>

ChildTerm(k) ==
    /\ child[k] = "loop" /\ "TERM" \in ccaught[k]
    /\ cstop' = [cstop EXCEPT ![k] = TRUE]
    /\ ccaught' = [ccaught EXCEPT ![k] = {}]
    /\ UNCHANGED <<parentVars, caught, child, pipeVars, edge, connVars, ghostVars>>

\* The loop of run_child ends and main returns.
ChildExit(k) ==
    /\ child[k] = "loop" /\ cstop[k]
    /\ End({k}, {})
    /\ caught' = caught \cup Sigchld({k})
    /\ ccaught' = [ccaught EXCEPT ![k] = {}]
    /\ UNCHANGED <<parentVars, edge, waiting, unheard, fits>>
-----------------------------------------------------------------------------
Stopped == parent \in {"exited", "killed"} /\ UNCHANGED vars

ParentStep == \/ Fork \/ ParentSetup \/ Dispatch \/ ParentChld \/ ParentTerm
              \/ ParentExit

ChildStep(k) ==
    \/ ChildSetup(k) \/ ChildTerm(k) \/ ChildExit(k)
    \/ \E c \in Conns : Accept(k, c) \/ AcceptFatal(k, c) \/ AcceptFails(k, c)

Environment ==
    \/ TermParent \/ TermGroup
    \/ \E c \in Conns : Connect(c)
    \/ \E k \in Procs : Crash(k) \/ \E c \in Conns : CloseConn(k, c)

Next == ParentStep \/ (\E k \in Procs : ChildStep(k)) \/ Environment \/ Stopped

Spec == Init /\ [][Next]_vars

(* Fairness: an event loop handles every event epoll reports, whatever     *)
(* other events there are; a child runs.  Clients, signals and crashes     *)
(* need not come.                                                          *)
FairSpec ==
    /\ Spec
    /\ WF_vars(Fork) /\ WF_vars(ParentSetup) /\ WF_vars(Dispatch)
    /\ WF_vars(ParentChld) /\ WF_vars(ParentTerm) /\ WF_vars(ParentExit)
    /\ \A k \in Procs :
         /\ WF_vars(ChildSetup(k)) /\ WF_vars(ChildTerm(k))
         /\ WF_vars(ChildExit(k))
         /\ WF_vars(\E c \in Conns : \/ Accept(k, c) \/ AcceptFatal(k, c)
                                    \/ AcceptFails(k, c))
-----------------------------------------------------------------------------
(* Properties *)

TypeOK ==
    /\ parent \in {"fork", "loop", "exited", "killed"}
    /\ forked \in 0..NumProc /\ pids \subseteq Procs /\ counter \in Procs
    /\ stop \in BOOLEAN /\ edge \in BOOLEAN /\ fits \in BOOLEAN
    /\ caught \subseteq {"CHLD", "TERM"}
    /\ child \in [Procs -> ChildStates]
    /\ cstop \in [Procs -> BOOLEAN]
    /\ ccaught \in [Procs -> SUBSET {"TERM"}]
    /\ notes \in [Procs -> Nat] /\ cedge \in [Procs -> BOOLEAN]
    /\ missed \subseteq Procs
    /\ waiting \subseteq Conns /\ closed \subseteq Conns
    /\ open \in [Procs -> SUBSET Conns] /\ unheard \in BOOLEAN

\* The parent leaves its loop only when no child runs any more: children
\* that died, were killed or exited in any order, before or after its
\* handlers were set, are told apart from those that still serve.
NoOrphans == parent = "exited" => Living = {}

\* A child that has died is noticed: while one is not reaped the parent has
\* a SIGCHLD to handle, although one signal may stand for several deaths.
\* Only those that ended before the handler was set may stay.
ZombiesNoticed ==
    parent = "loop" /\ ~(Zombies \subseteq missed) => "CHLD" \in caught

\* The message about a connection reaches a running child, whatever children
\* have been written off, unless one has died and is not yet reaped.
NoteReachesChild ==
    [][edge /\ ~edge' /\ Zombies = {} /\ Living # {} =>
         \E k \in Living : notes'[k] = notes[k] + 1]_vars

\* A parent that has caught SIGTERM or SIGINT exits in the end, unless all
\* children had ended before its handlers were set.
ShutdownEnds == "TERM" \in caught ~> parent = "exited" \/ missed = Procs

\* Connections that do not arrive together are all accepted, as long as no
\* accept fails, no child ends and the parent is not killed, also those made before the pool
\* has started.
ConnsAccepted ==
    \A c \in Conns : c \in waiting ~>
        \/ c \notin waiting \/ unheard \/ parent = "killed"
        \/ \E k \in Procs : child[k] \in {"zombie", "reaped"}
=============================================================================

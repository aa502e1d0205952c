------------------------------ MODULE ChildSync ------------------------------
(***************************************************************************)
(* A parent that waits for its children: multi_SIGCHLD.c for all of them   *)
(* by a signal handler that reaps them, pipe_sync.c for all of them by the *)
(* end of a pipe, fork_sig_sync.c for the only one by a signal it sends.   *)
(* fs is the kernel's part: child, the state of every child ("none",       *)
(* "run", "zombie", "reaped"), and pending, whether the signal is pending, *)
(* which the parent has blocked but for sigsuspend.  fork may fail.        *)
(***************************************************************************)
EXTENDS CmdBase

Waiters == {"multi_SIGCHLD", "pipe_sync", "fork_sig_sync"}
InState(s) == {c \in DOMAIN fs.child : fs.child[c] = s}

\* main up to its loop around fork; one child for every argument, a time to
\* sleep.  The handler is set and the signal blocked before the first fork.
WaiterMain ==
    /\ prog \in Waiters /\ pc = "main"
    /\ IF prog # "fork_sig_sync" /\ argv = <<>> THEN Exit(FALSE)
       ELSE /\ g' = [numLiveChildren |-> Len(argv), sigCnt |-> 0]
            /\ Goto("fork", None) /\ UNCHANGED <<out, off>>

Fork ==
    /\ prog \in Waiters /\ pc = "fork"
    /\ \/ InState("none") # {} /\ Exit(FALSE)
       \/ /\ InState("none") # {} /\ fs' = [fs EXCEPT !.child[Min(InState("none"))] = "run"]
          /\ UNCHANGED <<prog, argv, g, fi, off, out, ok, pc, v>>
       \/ InState("none") = {} /\ Goto("wait", None) /\ UNCHANGED <<g, out, off>>

\* A child ends, which closes its end of the pipe and, but for pipe_sync.c,
\* comes with a signal: SIGCHLD, or the SIGUSR1 it sends before.  A signal
\* that is pending already is lost.
ChildEnds(c) ==
    /\ prog \in Waiters /\ pc \notin Ended /\ fs.child[c] = "run"
    /\ fs' = [fs EXCEPT !.child[c] = "zombie", !.pending = prog # "pipe_sync"]
    /\ UNCHANGED <<prog, argv, g, fi, off, out, ok, pc, v>>

\* pipe_sync.c: read returns 0 when nobody can write any more.
ReadPipe == prog = "pipe_sync" /\ pc = "wait" /\ InState("run") = {} /\ Exit(TRUE)

\* fork_sig_sync.c: sigsuspend returns when the handler has.
SuspendOnce == prog = "fork_sig_sync" /\ pc = "wait" /\ fs.pending /\ Exit(TRUE)

\* multi_SIGCHLD.c: the loop around sigsuspend.  The signal is delivered
\* once; what comes during the handler is pending when sigsuspend returns.
Suspend ==
    /\ prog = "multi_SIGCHLD" /\ pc = "wait"
    /\ \/ g.numLiveChildren = 0 /\ Exit(TRUE)
       \/ /\ g.numLiveChildren > 0 /\ fs.pending
          /\ fs' = [fs EXCEPT !.pending = FALSE] /\ pc' = "handler"
          /\ UNCHANGED <<prog, argv, g, fi, off, out, ok, v>>

\* One pass of the handler's loop around waitpid, or its end: then there is
\* no zombie left, and sigsuspend returns.
SigchldHandler ==
    /\ prog = "multi_SIGCHLD" /\ pc = "handler"
    /\ \/ /\ InState("zombie") = {} /\ g' = [g EXCEPT !.sigCnt = @ + 1]
          /\ Goto("wait", None) /\ UNCHANGED <<out, off>>
       \/ \E c \in InState("zombie") :
            /\ fs' = [fs EXCEPT !.child[c] = "reaped"]
            /\ g' = [g EXCEPT !.numLiveChildren = @ - 1]
            /\ UNCHANGED <<prog, argv, fi, off, out, ok, pc, v>>

ChildSyncNext ==
    \/ WaiterMain \/ Fork \/ ReadPipe \/ SuspendOnce \/ Suspend \/ SigchldHandler
    \/ prog \in Waiters /\ \E c \in DOMAIN fs.child : ChildEnds(c)
=============================================================================

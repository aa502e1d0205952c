------------------------------ MODULE ServerNet ------------------------------
(***************************************************************************)
(* The clients of a server and the sockets between them, as the servers of *)
(* net/ see them.  A client connects once, sends and leaves; it            *)
(* is numbered in the order of the connections, and what it sends is told  *)
(* apart only by its author.                                               *)
(*                                                                         *)
(* State of a connection: "in" while the client is there, "left" when it   *)
(* has closed its end, "rst" when it was reset (a client that leaves with  *)
(* unread data does that), "epipe" when it was reset after it was closed,  *)
(* "dead" when the error of a reset has been reported, "away" before and   *)
(* "out" after the connection.                                             *)
(***************************************************************************)
EXTENDS Integers, FiniteSetsExt, Sequences

CONSTANTS
    MaxClients, \* clients that connect
    Limit,      \* clients that the server has room for
    MaxSends    \* how often they send, all together, by kind of server

Chats == {"select", "poll"}      \* the two chat servers
EpollKinds == {"echo", "file"}   \* the servers that use epoll
Kinds == Chats \cup EpollKinds

ASSUME NetAssumption ==
    /\ MaxClients \in Nat \ {0} /\ Limit \in Nat \ {0}
    /\ MaxSends \in [Kinds -> Nat]

VARIABLES
    kind,       \* the server that runs
    pc,         \* where it is
    i,          \* its loop variable
    queue,      \* connections that it has not accepted
    st,         \* state of every client's connection
    inbox,      \* sends of a client that the server has not read
    sends,      \* sends so far
    full,       \* whether a client does not read: "no", "yes", "over"
    peer        \* the client behind a descriptor of the server

netVars == <<queue, st, inbox, sends, full, peer>>

Clients == 1..MaxClients
Listen == 0             \* descriptor of the listening socket
Null == -1              \* no descriptor, no slot
Fds == 1..Limit
Nobody == 0
Stopped == {"exit", "abort", "killed", "fault"}

NetInit ==
    /\ queue = <<>> /\ st = [c \in Clients |-> "away"]
    /\ inbox = [c \in Clients |-> 0] /\ sends = 0
    /\ full = [c \in Clients |-> "no"] /\ peer = [f \in Fds |-> Nobody]
-----------------------------------------------------------------------------
(* The clients *)

Connect(c) ==
    /\ st[c] = "away" /\ \A d \in 1..(c - 1) : st[d] # "away"
    /\ st' = [st EXCEPT ![c] = "in"] /\ queue' = Append(queue, c)
    /\ UNCHANGED <<inbox, sends, full, peer>>

Send(c) ==
    /\ st[c] = "in" /\ sends < MaxSends[kind]
    /\ sends' = sends + 1 /\ inbox' = [inbox EXCEPT ![c] = @ + 1]
    /\ UNCHANGED <<queue, st, full, peer>>

\* A reset may throw away what the server has not read.
Leave(c) ==
    /\ st[c] = "in"
    /\ \/ st' = [st EXCEPT ![c] = "left"] /\ UNCHANGED inbox
       \/ st' = [st EXCEPT ![c] = "rst"] /\ inbox' \in {inbox, [inbox EXCEPT ![c] = 0]}
    /\ UNCHANGED <<queue, sends, full, peer>>

\* One of the clients stops reading for a while, and its socket fills up.
Stall(c) ==
    /\ kind \in Chats /\ st[c] = "in" /\ \E f \in Fds : peer[f] = c
    /\ \A d \in Clients : full[d] = "no"
    /\ full' = [full EXCEPT ![c] = "yes"] /\ UNCHANGED <<queue, st, inbox, sends, peer>>
Drain(c) ==
    /\ full[c] = "yes"
    /\ full' = [full EXCEPT ![c] = "over"] /\ UNCHANGED <<queue, st, inbox, sends, peer>>
-----------------------------------------------------------------------------
(* System calls of the server *)

Free == {f \in Fds : peer[f] = Nobody}
Readable(f) == inbox[peer[f]] > 0 \/ st[peer[f]] # "in"
Writable(f) == st[peer[f]] # "in" \/ full[peer[f]] # "yes"

\* What recv may return: everything sent so far or only the first part.
RecvResults(f) ==
    CASE inbox[peer[f]] > 0 -> 1..inbox[peer[f]]
      [] inbox[peer[f]] = 0 /\ st[peer[f]] = "rst" -> {-1}
      [] OTHER -> {0}

\* The connection after a text is written to it; empty if there was nothing
\* to write.
AfterWrite(s, empty) ==
    CASE s = "left" /\ ~empty -> "epipe" [] s = "rst" -> "dead" [] OTHER -> s
Sigpipe(s) == s \in {"epipe", "dead"}

Closed(f) ==
    /\ peer' = [peer EXCEPT ![f] = Nobody] /\ st' = [st EXCEPT ![peer[f]] = "out"]
    /\ inbox' = [inbox EXCEPT ![peer[f]] = 0]
=============================================================================

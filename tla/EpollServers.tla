---------------------------- MODULE EpollServers ----------------------------
(***************************************************************************)
(* echo_server_epoll.c and file_server_epoll.c.  Their listening sockets   *)
(* are edge-triggered: epoll reports them once for whatever has happened   *)
(* since the last report.  So are the connections and the datagram socket  *)
(* of the echo server; the connections of the file server are reported as  *)
(* long as there is something to read.  Nobody watches for writing: what   *)
(* does not fit into a socket is lost.                                     *)
(***************************************************************************)
EXTENDS ServerNet

VARIABLES
    edges,      \* descriptors with news that epoll has not reported
    events,     \* descriptors reported that the loop has not come to
    grams       \* datagrams that the echo server has not read

epollVars == <<edges, events, grams>>

Udp == Limit + 1        \* descriptor of the datagram socket

EpollInit == edges = {} /\ events = {} /\ grams = 0

\* News of a descriptor, and a datagram.
News(fs) == edges' = IF kind \in EpollKinds THEN edges \cup fs ELSE edges
Datagram ==
    /\ kind = "echo" /\ sends < MaxSends[kind]
    /\ sends' = sends + 1 /\ grams' = grams + 1 /\ News({Udp})

\* The descriptors that addfd was given without EPOLLET.
LevelTriggered == IF kind = "file" THEN Fds ELSE {}

EpollWait ==
    /\ kind \in EpollKinds /\ pc = "wait"
    /\ LET ready == {f \in edges \cup LevelTriggered :
                       CASE f = Listen -> queue # <<>>
                         [] f = Udp -> grams > 0
                         [] OTHER -> peer[f] # Nobody /\ Readable(f)}
       IN ready # {} /\ events' = ready
    /\ pc' = "round" /\ edges' = {} /\ UNCHANGED <<kind, i, netVars, grams>>

\* The loop goes on with the other events.
Handled(f) ==
    /\ events' = events \ {f} /\ i' = 0
    /\ pc' = IF events = {f} THEN "wait" ELSE "round"

\* One accept for all connections that wait, and addfd.
EpollAccept ==
    /\ kind \in EpollKinds /\ pc = "round" /\ i = 0 /\ Listen \in events
    /\ LET c == Head(queue) IN
       \/ /\ st[c] = "rst"          \* accept fails
          /\ queue' = Tail(queue) /\ st' = [st EXCEPT ![c] = "out"]
          /\ UNCHANGED <<inbox, sends, full, peer, edges>>
       \/ Free = {} /\ UNCHANGED <<netVars, edges>>
       \/ /\ Free # {}
          /\ peer' = [peer EXCEPT ![Min(Free)] = c] /\ queue' = Tail(queue)
          /\ edges' = IF inbox[c] > 0 \/ st[c] # "in" THEN edges \cup {Min(Free)} ELSE edges
          /\ UNCHANGED <<st, inbox, sends, full>>
    /\ Handled(Listen) /\ UNCHANGED <<kind, grams>>

\* recvfrom and sendto, once.
EchoDatagram ==
    /\ kind = "echo" /\ pc = "round" /\ i = 0 /\ Udp \in events
    /\ grams' = grams - 1 /\ Handled(Udp) /\ UNCHANGED <<kind, netVars, edges>>

\* One pass of the loop around recv, which ends when there is nothing left,
\* after an error or after the end of the input (recv fails on the closed
\* socket).  i is the connection it is at.
EchoRecv ==
    /\ kind = "echo" /\ pc = "round"
    /\ \E f \in events \cap Fds : LET s == st[peer[f]] IN
         /\ i \in {0, f}
         /\ \/ /\ ~Readable(f) /\ Handled(f) /\ UNCHANGED <<netVars, edges>>
            \/ /\ Readable(f)
               /\ \E n \in RecvResults(f) :
                    \/ /\ n <= 0 /\ Closed(f) /\ edges' = edges \ {f}
                       /\ Handled(f) /\ UNCHANGED <<queue, sends, full>>
                    \/ /\ n > 0 /\ Sigpipe(s) /\ pc' = "killed"
                       /\ UNCHANGED <<i, netVars, edges, events>>
                    \/ /\ n > 0 /\ ~Sigpipe(s) /\ i' = f
                       /\ inbox' = [inbox EXCEPT ![peer[f]] = @ - n]
                       /\ st' = [st EXCEPT ![peer[f]] = AfterWrite(s, FALSE)]
                       /\ UNCHANGED <<pc, queue, sends, full, peer, edges, events>>
    /\ UNCHANGED <<kind, grams>>

\* lt(): one request, answered with a message or the file, which may be
\* empty.
FileServe ==
    /\ kind = "file" /\ pc = "round"
    /\ \E f \in events \cap Fds : LET s == st[peer[f]] IN
         \E n \in RecvResults(f), empty \in BOOLEAN :
           \/ /\ n <= 0 /\ Closed(f) /\ edges' = edges \ {f}
              /\ Handled(f) /\ UNCHANGED <<queue, sends, full>>
           \/ /\ n > 0 /\ ~empty /\ Sigpipe(s) /\ pc' = "killed"
              /\ UNCHANGED <<i, netVars, edges, events>>
           \/ /\ n > 0 /\ (empty \/ ~Sigpipe(s))
              /\ inbox' = [inbox EXCEPT ![peer[f]] = @ - n]
              /\ st' = [st EXCEPT ![peer[f]] = IF empty THEN s ELSE AfterWrite(s, FALSE)]
              /\ Handled(f) /\ UNCHANGED <<queue, sends, full, peer, edges>>
    /\ UNCHANGED <<kind, grams>>

EpollNext == EpollWait \/ EpollAccept \/ EchoDatagram \/ EchoRecv \/ FileServe
=============================================================================

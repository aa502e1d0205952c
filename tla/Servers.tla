-------------------------------- MODULE Servers --------------------------------
(***************************************************************************)
(* The chat, echo and file servers of net/ with their clients: a behaviour *)
(* runs one of the servers, and the clients come, send, stop reading and   *)
(* leave between any two of its steps.                                     *)
(***************************************************************************)
EXTENDS ChatSelect, ChatPoll, EpollServers

vars == <<kind, pc, i, netVars, selectVars, pollVars, epollVars>>

Init ==
    /\ kind \in Kinds /\ pc = "wait" /\ i = 0
    /\ NetInit /\ SelectInit /\ PollInit /\ EpollInit

SelectServer == SelectNext /\ UNCHANGED <<pollVars, epollVars>>
PollServer == PollNext /\ UNCHANGED <<selectVars, epollVars>>
EpollServer == EpollNext /\ UNCHANGED <<selectVars, pollVars>>

Client(c) ==
    /\ pc \notin Stopped
    /\ \/ Connect(c) /\ News({Listen}) /\ UNCHANGED grams
       \/ Send(c) /\ News({f \in Fds : peer[f] = c}) /\ UNCHANGED grams
       \/ Leave(c) /\ News({f \in Fds : peer[f] = c}) /\ UNCHANGED grams
       \/ Stall(c) /\ UNCHANGED <<edges, grams>>
    /\ UNCHANGED <<kind, pc, i, selectVars, pollVars, events>>
DatagramSent ==
    /\ pc \notin Stopped /\ Datagram
    /\ UNCHANGED <<kind, pc, i, queue, st, inbox, full, peer, selectVars, pollVars, events>>
Drained(c) == Drain(c) /\ UNCHANGED <<kind, pc, i, selectVars, pollVars, epollVars>>

Next == SelectServer \/ PollServer \/ EpollServer \/ DatagramSent
        \/ \E c \in Clients : Client(c) \/ Drained(c)

Spec ==
    /\ Init /\ [][Next]_vars
    /\ WF_vars(SelectServer) /\ WF_vars(PollServer) /\ WF_vars(EpollServer)
    /\ \A c \in Clients : WF_vars(Drained(c))
-----------------------------------------------------------------------------
Connections == {f \in Fds : peer[f] # Nobody}
InTable == CASE kind = "select" -> {clients[k].connfd : k \in Slots} \ {Null}
             [] kind = "poll" -> {fds[k].fd : k \in DOMAIN fds}

\* Every connection that is open is in the table of a chat server, once, and
\* nothing else is: add_client and init_client, and the way poll's table is
\* packed while the loop is inside it, neither leak a descriptor nor keep a
\* closed one (which would soon be another client's) nor have one twice.
TableExact ==
    /\ kind \in Chats => InTable = Connections
    /\ kind = "select" => \A j, k \in Slots :
         j # k /\ clients[j].connfd # Null => clients[j].connfd # clients[k].connfd
    /\ kind = "poll" => \A j, k \in DOMAIN fds : j # k => fds[j].fd # fds[k].fd

\* A client is watched for reading or for writing, never for both or none,
\* and for writing only while it has a text to write, so that no null
\* pointer is written and no client is left deaf: whatever texts, ends and
\* errors come between the select or poll and the client's turn.  And what
\* the edge-triggered echo server has not read is announced or being read:
\* no text is left over that epoll will not report again.
WatchedOnce ==
    /\ pc # "fault"
    /\ kind = "select" =>
         /\ read_fds \cap write_fds = {} /\ read_fds \cup write_fds = InTable \cup {Listen}
         /\ \A k \in Slots : clients[k].write_buf # Null <=> clients[k].connfd \in write_fds
    /\ kind = "poll" => \A k \in DOMAIN fds :
         fds[k].events = "out" => users[fds[k].fd].write_buf # Null
    /\ kind = "echo" => \A f \in Connections : Readable(f) => f \in edges \cup events

\* What waits for a client of the select server is never its own text, and
\* nothing waits for one that has not said its name, although the buffer
\* that it comes from may have been filled again, cleared or given to another
\* client since.  Not so for poll: there the texts of a client are copied to
\* the entry of one that left, to which it may itself have a pointer.
HeardFromOthers ==
    kind = "select" => \A k \in Slots : LET from == clients[k].write_buf IN
        from # Null => ~clients[k].welcome /\ clients[from].buf # peer[clients[k].connfd]

\* Connected, and with something for the server to do: to be accepted, read,
\* closed or written to.
Waiting(c) ==
    \/ /\ \E k \in DOMAIN queue : queue[k] = c
       /\ kind \in Chats \/ Listen \in edges \cup events
    \/ \E f \in Fds : /\ peer[f] = c
                      /\ \/ inbox[c] > 0 \/ st[c] # "in"
                         \/ kind = "select" /\ f \in write_fds
                         \/ kind = "poll" /\ \E k \in DOMAIN fds :
                              fds[k].fd = f /\ fds[k].events = "out"

\* As long as the server runs, no client waits for ever: it is accepted, its
\* texts are read, it gets what waits for it and is closed when it has left,
\* however nready, maxi and the moving loop variable skip others.  Not so in
\* the queue of an epoll server, which accepts one client for all that came
\* since the last event: the others wait until somebody else connects.
AllServed == \A c \in Clients : []<>(pc \in Stopped \/ ~Waiting(c))
=============================================================================

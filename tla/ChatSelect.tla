----------------------------- MODULE ChatSelect -----------------------------
(***************************************************************************)
(* chat_server_select.c: a table of clients and the descriptor sets given  *)
(* to select.  The first text from a client is its name; every later one   *)
(* goes to the other clients that have given theirs.  Nothing is copied:   *)
(* the receivers get a pointer to the sender's buffer and are watched for  *)
(* writing instead of reading until they have written it.  The exception   *)
(* sets, which change with the read sets, stay empty when the clients send *)
(* no urgent data, and are left out.                                       *)
(***************************************************************************)
EXTENDS ServerNet

VARIABLES
    clients,    \* the table
    read_fds, write_fds,
    ready_read, ready_write,
    nready, maxi, maxfd

selectVars == <<clients, read_fds, write_fds, ready_read, ready_write, nready, maxi, maxfd>>

Slots == 1..Limit

\* init_client.  buf is the author of what is in the buffer.
InitClient == [welcome |-> TRUE, connfd |-> Null, write_buf |-> Null, buf |-> Nobody]

\* init_pool.
SelectInit ==
    /\ clients = [k \in Slots |-> InitClient]
    /\ read_fds = {Listen} /\ write_fds = {} /\ ready_read = {} /\ ready_write = {}
    /\ nready = 0 /\ maxi = 0 /\ maxfd = Listen

\* The head of main's loop: select blocks until something is ready.
Select ==
    /\ kind = "select" /\ pc = "wait"
    /\ LET watched(fds) == {f \in fds : f <= maxfd}
           r == {f \in watched(read_fds) : IF f = Listen THEN queue # <<>> ELSE Readable(f)}
           w == {f \in watched(write_fds) : Writable(f)}
       IN /\ r \cup w # {}
          /\ ready_read' = r /\ ready_write' = w
          /\ nready' = Cardinality(r) + Cardinality(w)
          /\ pc' = IF Listen \in r THEN "accept" ELSE "round"
    /\ i' = 1 /\ UNCHANGED <<kind, netVars, clients, read_fds, write_fds, maxi, maxfd>>

\* maxi after slot k is taken: in the faulty variant it is not raised.
Raised_Not(k) == maxi
Raised(k) == Max({maxi, k})

\* accept and add_client; a server without room for the client ends.
AddClient ==
    /\ kind = "select" /\ pc = "accept"
    /\ LET c == Head(queue)
           fd == Min(Free)
           k == Min({j \in Slots : clients[j].connfd = Null})
       IN \/ /\ st[c] = "rst" /\ pc' = "exit"       \* accept fails
             /\ UNCHANGED <<netVars, clients, read_fds, nready, maxi, maxfd>>
          \/ /\ pc' = "exit" /\ \A j \in Slots : clients[j].connfd # Null
             /\ UNCHANGED <<netVars, clients, read_fds, nready, maxi, maxfd>>
          \/ /\ Free # {} /\ \E j \in Slots : clients[j].connfd = Null
             /\ clients' = [clients EXCEPT ![k].connfd = fd]
             /\ read_fds' = read_fds \cup {fd} /\ maxfd' = Max({maxfd, fd})
             /\ maxi' = Raised(k)
             /\ peer' = [peer EXCEPT ![fd] = c] /\ queue' = Tail(queue)
             /\ nready' = nready - 1 /\ pc' = "round" /\ UNCHANGED <<st, inbox, sends, full>>
    /\ UNCHANGED <<kind, i, write_fds, ready_read, ready_write>>
-----------------------------------------------------------------------------
(* check_clients: one pass of its loop, or several if they do nothing      *)

Ready == {k \in i..maxi : clients[k].connfd \in ready_read \cup ready_write}
Turn(k) == kind = "select" /\ pc = "round" /\ nready > 0 /\ Ready # {} /\ k = Min(Ready)

\* What nobody reads until the next select is forgotten.
CheckEnd ==
    /\ kind = "select" /\ pc = "round" /\ (nready <= 0 \/ Ready = {})
    /\ pc' = "wait" /\ i' = 0 /\ nready' = 0 /\ ready_read' = {} /\ ready_write' = {}
    /\ UNCHANGED <<kind, netVars, clients, read_fds, write_fds, maxi, maxfd>>

\* FD_CLR and FD_SET after a write; in the faulty variant FD_CLR is missing.
WatchInput_Both(f) == UNCHANGED write_fds /\ read_fds' = read_fds \cup {f}
WatchInput(f) == write_fds' = write_fds \ {f} /\ read_fds' = read_fds \cup {f}

\* Write: the text is in the buffer that write_buf points to, whatever that
\* holds by now.  The client is watched for reading again.
CheckWrite ==
    /\ \E k \in Slots : LET fd == clients[k].connfd
                         from == clients[k].write_buf
                         s == st[peer[fd]]
       IN /\ Turn(k) /\ fd \in ready_write
          /\ \/ from = Null /\ pc' = "fault" /\ UNCHANGED <<i, netVars, selectVars>>
             \/ from # Null /\ Sigpipe(s) /\ pc' = "killed" /\ UNCHANGED <<i, netVars, selectVars>>
             \/ /\ from # Null /\ ~Sigpipe(s)
                /\ st' = [st EXCEPT ![peer[fd]] = AfterWrite(s, clients[from].buf = Nobody)]
                /\ clients' = [clients EXCEPT ![k].write_buf = Null]
                /\ WatchInput(fd)
                /\ i' = k + 1 /\ nready' = nready - 1
                /\ UNCHANGED <<pc, queue, inbox, sends, full, peer, ready_read, ready_write, maxi, maxfd>>
    /\ UNCHANGED kind

\* The receivers of a text from slot k: in the faulty variant, all of them.
Receivers_All(k) == {j \in 1..maxi : clients[j].connfd # Null /\ ~clients[j].welcome}
Receivers(k) ==
    {j \in 1..maxi : j # k /\ clients[j].connfd # Null /\ ~clients[j].welcome}

\* A name, or a text that the receivers are told of.
Hear(k, c) ==
    LET name == clients[k].welcome
        to == IF name THEN {} ELSE Receivers(k)
        fds == {clients[j].connfd : j \in to}
    IN /\ clients' = [j \in Slots |->
             [clients[j] EXCEPT !.buf = IF j = k THEN c ELSE @,
                                !.welcome = IF j = k THEN FALSE ELSE @,
                                !.write_buf = IF j \in to THEN k ELSE @]]
       /\ write_fds' = write_fds \cup fds /\ read_fds' = read_fds \ fds

\* Otherwise the client is read: an error fails the assertion, the end of
\* its input frees its slot, a text is taken.
CheckRead ==
    /\ \E k \in Slots : LET fd == clients[k].connfd IN
         /\ Turn(k) /\ fd \notin ready_write
         /\ \E n \in RecvResults(fd) :
              \/ n < 0 /\ pc' = "abort" /\ UNCHANGED <<i, netVars, selectVars>>
              \/ /\ n = 0 /\ Closed(fd)
                 /\ clients' = [clients EXCEPT ![k] = InitClient]
                 /\ read_fds' = read_fds \ {fd} /\ write_fds' = write_fds \ {fd}
                 /\ i' = k + 1 /\ nready' = nready - 1
                 /\ UNCHANGED <<pc, queue, sends, full, ready_read, ready_write, maxi, maxfd>>
              \/ /\ n > 0 /\ inbox' = [inbox EXCEPT ![peer[fd]] = @ - n]
                 /\ Hear(k, peer[fd])
                 /\ i' = k + 1 /\ nready' = nready - 1
                 /\ UNCHANGED <<pc, queue, st, sends, full, peer, ready_read, ready_write, maxi, maxfd>>
    /\ UNCHANGED kind

SelectNext == Select \/ AddClient \/ CheckEnd \/ CheckWrite \/ CheckRead
=============================================================================

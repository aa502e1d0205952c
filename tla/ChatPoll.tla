------------------------------ MODULE ChatPoll ------------------------------
(***************************************************************************)
(* chat_server_poll.c: the descriptors given to poll are packed in fds     *)
(* (here the sequence fds, without the listening socket at position 0);    *)
(* users has the buffer of every client and the text it has to write, and  *)
(* is indexed by descriptor.  The hole of a client that leaves is filled   *)
(* with the last one while the loop over fds goes on.                      *)
(***************************************************************************)
EXTENDS ServerNet

VARIABLES
    fds,        \* [fd, events ("in" or "out"), revents] of every client
    users       \* [write_buf, buf]: descriptor of the buffer, author in it

pollVars == <<fds, users>>

PollInit ==
    fds = <<>> /\ users = [f \in Fds |-> [write_buf |-> Null, buf |-> Nobody]]

\* What poll reports of a client.
Revents(e) ==
    LET s == st[peer[e.fd]] IN
    {b \in {"err", "rdhup", "in", "out"} :
        \/ b = "err" /\ s \in {"rst", "epipe"}
        \/ b = "rdhup" /\ s # "in"
        \/ b = "in" /\ e.events = "in" /\ Readable(e.fd)
        \/ b = "out" /\ e.events = "out" /\ Writable(e.fd)}

Poll ==
    /\ kind = "poll" /\ pc = "wait"
    /\ queue # <<>> \/ \E k \in DOMAIN fds : Revents(fds[k]) # {}
    /\ fds' = [k \in DOMAIN fds |-> [fds[k] EXCEPT !.revents = Revents(fds[k])]]
    /\ pc' = IF queue # <<>> THEN "accept" ELSE "round"
    /\ i' = 1 /\ UNCHANGED <<kind, netVars, users>>

\* The listening socket: a client that there is no room for is told so and
\* closed.
Accept ==
    /\ kind = "poll" /\ pc = "accept" /\ pc' = "round"
    /\ \/ /\ st[Head(queue)] = "rst"     \* accept fails
          /\ queue' = Tail(queue) /\ st' = [st EXCEPT ![Head(queue)] = "out"]
          /\ UNCHANGED <<inbox, sends, full, peer, pollVars>>
       \/ /\ Len(fds) >= Limit
          /\ queue' = Tail(queue) /\ st' = [st EXCEPT ![Head(queue)] = "out"]
          /\ UNCHANGED <<inbox, sends, full, peer, pollVars>>
       \/ /\ Len(fds) < Limit /\ Free # {}
          /\ peer' = [peer EXCEPT ![Min(Free)] = Head(queue)] /\ queue' = Tail(queue)
          /\ fds' = Append(fds, [fd |-> Min(Free), events |-> "in", revents |-> {}])
          /\ UNCHANGED <<st, inbox, sends, full, users>>
    /\ UNCHANGED <<kind, i>>
-----------------------------------------------------------------------------
(* One pass of the loop over the clients, or several if they do nothing    *)

Reported == {k \in i..Len(fds) : fds[k].revents # {}}
At(k) == kind = "poll" /\ pc = "round" /\ Reported # {} /\ k = Min(Reported)
Got(k, b) == b \in fds[k].revents

\* What nobody reads until the next poll is forgotten.
RoundEnd ==
    /\ kind = "poll" /\ pc = "round" /\ Reported = {}
    /\ pc' = "wait" /\ i' = 0
    /\ fds' = [k \in DOMAIN fds |-> [fds[k] EXCEPT !.revents = {}]]
    /\ UNCHANGED <<kind, netVars, users>>

\* getsockopt takes the error off the socket.
RoundError ==
    /\ \E k \in DOMAIN fds :
         /\ At(k) /\ Got(k, "err") /\ i' = k + 1
         /\ st' = [st EXCEPT ![peer[fds[k].fd]] = "dead"]
    /\ UNCHANGED <<kind, pc, queue, inbox, sends, full, peer, pollVars>>

\* The last client takes the place of the one at k.  users is changed as if
\* it were indexed by position too.  Faulty variant: the table is only cut.
Packed_Cut(k) == SubSeq(fds, 1, Len(fds) - 1)
Packed(k) == [j \in 1..(Len(fds) - 1) |-> IF j = k THEN fds[Len(fds)] ELSE fds[j]]
Copied(k) == [users EXCEPT ![fds[k].fd] = users[fds[Len(fds)].fd]]

RoundHangup ==
    /\ \E k \in DOMAIN fds :
         /\ At(k) /\ ~Got(k, "err") /\ Got(k, "rdhup") /\ i' = k
         /\ Closed(fds[k].fd) /\ fds' = Packed(k) /\ users' = Copied(k)
    /\ UNCHANGED <<kind, pc, queue, sends, full>>

\* Everybody but fd is to write what is in the buffer of fd.
Told(table, fd) ==
    [j \in DOMAIN table |-> IF table[j].fd = fd THEN table[j] ELSE [table[j] EXCEPT !.events = "out"]]
Pointed(us, table, fd) ==
    [f \in Fds |-> IF f # fd /\ \E j \in DOMAIN table : table[j].fd = f
                   THEN [us[f] EXCEPT !.write_buf = fd] ELSE us[f]]

\* A text goes to all others; after an error the client is closed and what
\* its entry in users is then goes to all of them.  (EAGAIN does not follow
\* POLLIN, and the end of the input is POLLRDHUP.)
RoundRead ==
    /\ \E k \in DOMAIN fds : LET fd == fds[k].fd IN
         /\ At(k) /\ fds[k].revents = {"in"}
         /\ \E n \in RecvResults(fd) :
              \/ /\ n < 0 /\ Closed(fd) /\ i' = k
                 /\ fds' = Told(Packed(k), fd)
                 /\ users' = Pointed([Copied(k) EXCEPT ![fd].buf =
                                        IF k = Len(fds) THEN Nobody ELSE @], Packed(k), fd)
              \/ /\ n = 0 /\ i' = k + 1 /\ UNCHANGED <<st, inbox, peer, fds>>
                 /\ users' = [users EXCEPT ![fd].buf = Nobody]
              \/ /\ n > 0 /\ i' = k + 1
                 /\ inbox' = [inbox EXCEPT ![peer[fd]] = @ - n]
                 /\ fds' = Told(fds, fd)
                 /\ users' = Pointed([users EXCEPT ![fd].buf = peer[fd]], fds, fd)
                 /\ UNCHANGED <<st, peer>>
    /\ UNCHANGED <<kind, pc, queue, sends, full>>

RoundWrite ==
    /\ \E k \in DOMAIN fds : LET fd == fds[k].fd
                              from == users[fd].write_buf
                              s == st[peer[fd]]
       IN /\ At(k) /\ fds[k].revents = {"out"}
          /\ \/ from = Null /\ i' = k + 1 /\ UNCHANGED <<pc, st, fds, users>>
             \/ from # Null /\ Sigpipe(s) /\ pc' = "killed" /\ UNCHANGED <<i, st, fds, users>>
             \/ /\ from # Null /\ ~Sigpipe(s)
                /\ st' = [st EXCEPT ![peer[fd]] = AfterWrite(s, users[from].buf = Nobody)]
                /\ users' = [users EXCEPT ![fd].write_buf = Null]
                /\ fds' = [fds EXCEPT ![k].events = "in"]
                /\ i' = k + 1 /\ UNCHANGED pc
    /\ UNCHANGED <<kind, queue, inbox, sends, full, peer>>

PollNext == Poll \/ Accept \/ RoundEnd \/ RoundError \/ RoundHangup \/ RoundRead \/ RoundWrite
=============================================================================

-------------------------------- MODULE SeqNum --------------------------------
(***************************************************************************)
(* fifo_seqnum_server.c, which gives out ranges of numbers, and clients of *)
(* fifo_seqnum_client.c, any of which may be killed at any time.  fs.st is *)
(* where every client is, fs.len how many numbers it wants, fs.num the     *)
(* first number it got (-1 before), fs.fifo the requests not yet read.     *)
(***************************************************************************)
EXTENDS CmdBase

Askers == DOMAIN fs.st
Serving == prog = "fifo_seqnum" /\ pc \notin Ended
Gone == {"dead", "failed", "done"}

\* The server's first steps; open waits for the first client that opens the
\* FIFO for writing.
ServerMain ==
    /\ Serving /\ pc = "main" /\ g' = [seqNum |-> 0]
    /\ Goto("listen", None) /\ UNCHANGED <<out, off>>
ServerListen ==
    /\ Serving /\ pc = "listen" /\ \E c \in Askers : fs.st[c] = "knock"
    /\ fs' = [fs EXCEPT !.st = [c \in Askers |-> IF @[c] = "knock" THEN "send" ELSE @[c]]]
    /\ pc' = "read" /\ UNCHANGED <<prog, argv, g, fi, off, out, ok, v>>

ServerRead ==
    /\ Serving /\ pc = "read" /\ fs.fifo # <<>>
    /\ v' = [req |-> Head(fs.fifo)] /\ fs' = [fs EXCEPT !.fifo = Tail(@)]
    /\ pc' = "open" /\ UNCHANGED <<prog, argv, g, fi, off, out, ok>>

\* Each open waits for the other end; that of the client's FIFO for ever if
\* the client was killed before.
ServerOpen ==
    /\ Serving /\ pc = "open" /\ fs.st[v.req] = "open"
    /\ fs' = [fs EXCEPT !.st[v.req] = "read"]
    /\ pc' = "write" /\ UNCHANGED <<prog, argv, g, fi, off, out, ok, v>>

\* seqNum += seqLen; in the faulty variant it is only counted up.
Advance_One(n, len) == n + 1
Advance(n, len) == n + len

\* The response, which fails with EPIPE if the client was killed meanwhile.
ServerWrite ==
    /\ Serving /\ pc = "write"
    /\ fs' = [fs EXCEPT !.st[v.req] = IF @ = "read" THEN "answered" ELSE @,
                        !.num[v.req] = IF fs.st[v.req] = "read" THEN g.seqNum ELSE @]
    /\ g' = [seqNum |-> Advance(g.seqNum, fs.len[v.req])]
    /\ pc' = "read" /\ v' = None /\ UNCHANGED <<prog, argv, fi, off, out, ok>>

\* The client: the server's FIFO must be there (it may be that of an earlier
\* server), a request fits into it as a whole, and the answer is printed.
Steps(c) ==
    CASE fs.st[c] = "start" /\ pc = "main" -> {"failed", "knock"}
      [] fs.st[c] = "start" /\ pc = "listen" -> {"knock"}
      [] fs.st[c] = "start" /\ pc \notin {"main", "listen"} -> {"send"}
      [] fs.st[c] = "send" -> {"open"}
      [] fs.st[c] = "answered" -> {"done"}
      [] OTHER -> {}
Ask(c) ==
    /\ Serving
    /\ \E s \in Steps(c) :
         fs' = [fs EXCEPT !.st[c] = s, !.fifo = IF s = "open" THEN Append(@, c) ELSE @]
    /\ UNCHANGED <<prog, argv, g, fi, off, out, ok, pc, v>>
Killed(c) ==
    /\ Serving /\ fs.st[c] \notin Gone
    /\ fs' = [fs EXCEPT !.st[c] = "dead"]
    /\ UNCHANGED <<prog, argv, g, fi, off, out, ok, pc, v>>

SeqNumNext ==
    \/ ServerMain \/ ServerListen \/ ServerRead \/ ServerOpen \/ ServerWrite
    \/ prog = "fifo_seqnum" /\ \E c \in Askers : Ask(c) \/ Killed(c)

\* The server waits for requests, and all clients have gone; or it waits for
\* a client that was killed.
Resting ==
    /\ Serving
    /\ \/ pc \in {"listen", "read"} /\ fs.fifo = <<>> /\ \A c \in Askers : fs.st[c] \in Gone
       \/ pc = "open" /\ fs.st[v.req] = "dead"
=============================================================================

---------------------------- MODULE ServersProofs ----------------------------
(***************************************************************************)
(* Theorems about Servers, for any number of clients, any number of them   *)
(* that the server has room for, and any number of sends.                  *)
(***************************************************************************)
EXTENDS Servers, SequenceTheorems, WellFoundedInduction, TLAPS

StatesOfClient == {"away", "in", "left", "rst", "epipe", "dead", "out"}

\* A client that waits to be accepted waits once and has no descriptor, one
\* that is accepted has only one, and both have connected.
NetInv ==
    /\ kind \in Kinds /\ i \in Nat
    /\ queue \in Seq(Clients)
    /\ st \in [Clients -> StatesOfClient] /\ inbox \in [Clients -> Nat]
    /\ peer \in [Fds -> Clients \cup {Nobody}]
    /\ \A k \in DOMAIN queue : st[queue[k]] # "away"
    /\ \A j, k \in DOMAIN queue : queue[j] = queue[k] => j = k
    /\ \A f \in Connections : st[peer[f]] # "away" /\ \A k \in DOMAIN queue : queue[k] # peer[f]
    /\ \A f, h \in Connections : peer[f] = peer[h] => f = h

ClientRecord ==
    [welcome : BOOLEAN, connfd : Fds \cup {Null}, write_buf : Slots \cup {Null},
     buf : Clients \cup {Nobody}]

\* The table of the select server, and what is in a buffer: nothing, or a
\* text of the client that the slot belongs to.
SelectTable ==
    /\ clients \in [Slots -> ClientRecord]
    /\ maxi \in 0..Limit
    /\ read_fds \subseteq Fds \cup {Listen} /\ write_fds \subseteq Fds
    /\ \A k \in Slots : clients[k].buf # Nobody =>
         clients[k].connfd # Null /\ clients[k].buf = peer[clients[k].connfd]
    /\ \A k \in Slots : clients[k].write_buf # Null =>
         clients[k].write_buf # k /\ ~clients[k].welcome

\* A client that select reported as writable and whose turn is to come has
\* something to write.
SelectRound ==
    /\ ready_read \cup ready_write \subseteq Fds \cup {Listen}
    /\ pc = "accept" => queue # <<>> /\ i = 1
    /\ pc \in {"accept", "round"} =>
         \A k \in Slots : k >= i /\ clients[k].connfd \in ready_write => clients[k].write_buf # Null
    /\ pc = "accept" => ready_write \subseteq write_fds

SelectInv == kind = "select" => SelectTable /\ SelectRound

Events == {"in", "out"}
PollEntry == [fd : Fds, events : Events, revents : SUBSET {"err", "rdhup", "in", "out"}]
UserEntry == [write_buf : Fds \cup {Null}, buf : Clients \cup {Nobody}]

PollInv ==
    kind = "poll" =>
        /\ fds \in Seq(PollEntry) /\ users \in [Fds -> UserEntry]
        /\ pc = "accept" => queue # <<>>

\* Between two calls of epoll_wait nothing is left of what it reported; a
\* connection to be accepted that it reported still waits, and a descriptor
\* that it reported is still open.
EpollInv ==
    kind \in EpollKinds =>
        /\ edges \subseteq Fds \cup {Listen, Udp} /\ events \subseteq Fds \cup {Listen, Udp}
        /\ pc = "wait" => events = {}
        /\ Listen \in events => queue # <<>>
        /\ events \cap Fds \subseteq Connections

\* The inductive invariant.
IInv == NetInv /\ SelectInv /\ PollInv /\ EpollInv /\ TableExact /\ WatchedOnce
-----------------------------------------------------------------------------
(* Minima and sequences *)

\* Min of the slots or descriptors that are free is one of them.
LEMMA MinIn ==
    ASSUME NEW S \in SUBSET Nat, S # {}
    PROVE  Min(S) \in S /\ \A s \in S : Min(S) <= s
<1> DEFINE R == {ss \in Nat \X Nat : ss[1] < ss[2]}
<1>1. \E x \in S : \A y \in S : ~(<<y, x>> \in R)
  <2>1. IsWellFoundedOn(R, Nat)
    BY NatLessThanWellFounded DEF OpToRel
  <2> HIDE DEF R
  <2> QED BY <2>1, WFMin
<1>2. ASSUME NEW x \in Nat, NEW y \in Nat, y < x PROVE <<y, x>> \in R
  BY <1>2 DEF R
<1>3. \E x \in S : \A y \in S : x <= y
  <2> HIDE DEF R
  <2>1. PICK x \in S : \A y \in S : ~(<<y, x>> \in R)
    BY <1>1
  <2>2. \A y \in S : ~(y < x)
    BY <1>2, <2>1
  <2> QED BY <2>2
<1> QED
  BY <1>3 DEF Min

\* Max of two numbers.
LEMMA MaxOfTwo ==
    ASSUME NEW a \in Int, NEW b \in Int
    PROVE  Max({a, b}) = IF a >= b THEN a ELSE b
BY DEF Max

\* A queue without its first element.
LEMMA TailOf ==
    ASSUME NEW S, NEW s \in Seq(S), s # <<>>
    PROVE  /\ Head(s) \in S /\ Tail(s) \in Seq(S) /\ Head(s) = s[1] /\ 1 \in DOMAIN s
           /\ \A k \in DOMAIN Tail(s) : k + 1 \in DOMAIN s /\ k + 1 # 1 /\ Tail(s)[k] = s[k + 1]
<1>1. Len(s) \in Nat \ {0} /\ DOMAIN s = 1..Len(s)
  BY EmptySeq, LenProperties
<1>2. Head(s) \in S /\ Tail(s) \in Seq(S) /\ Len(Tail(s)) = Len(s) - 1
      /\ \A k \in 1..Len(Tail(s)) : Tail(s)[k] = s[k + 1]
  BY HeadTailProperties
<1>3. DOMAIN Tail(s) = 1..Len(Tail(s))
  BY <1>2, LenProperties
<1> QED BY <1>1, <1>2, <1>3

-----------------------------------------------------------------------------
(* The network *)

\* Descriptors are told apart from the listening socket and from Null, and
\* clients from Nobody.
LEMMA Numbers ==
    /\ Null \notin Fds /\ Listen \notin Fds /\ Nobody \notin Clients /\ Null \notin Slots
    /\ Null # Listen /\ Udp \notin Fds /\ Udp # Listen
    /\ Fds \subseteq Nat /\ Slots = Fds /\ Clients \subseteq Nat
BY NetAssumption DEF Null, Fds, Listen, Nobody, Clients, Slots, Udp

\* Nothing that happens to the loop of a server alone disturbs NetInv.
LEMMA NetUnchanged ==
    ASSUME NetInv, UNCHANGED <<kind, netVars>>, i' \in Nat
    PROVE  NetInv'
BY DEF NetInv, netVars, Connections

\* Nor does a new state of an accepted connection, or what is read from it.
LEMMA NetState ==
    ASSUME NetInv, NEW f \in Connections, NEW s \in StatesOfClient \ {"away"},
           st' = [st EXCEPT ![peer[f]] = s], inbox' \in [Clients -> Nat],
           UNCHANGED <<kind, queue, peer>>, i' \in Nat
    PROVE  NetInv'
<1>1. peer[f] \in Clients /\ st' \in [Clients -> StatesOfClient] /\ Connections' = Connections
  BY DEF NetInv, Connections
<1>2. \A c \in Clients : st[c] # "away" => st'[c] # "away"
  BY <1>1 DEF NetInv
<1>3. \A k \in DOMAIN queue' : st'[queue'[k]] # "away"
  BY <1>1, <1>2 DEF NetInv
<1>4. \A h \in Connections' :
        st'[peer'[h]] # "away" /\ \A k \in DOMAIN queue' : queue'[k] # peer'[h]
  BY <1>1, <1>2 DEF NetInv, Connections
<1> QED BY <1>1, <1>3, <1>4 DEF NetInv

\* A closed connection leaves the others as they are.
LEMMA NetClosed ==
    ASSUME NetInv, NEW f \in Connections, Closed(f), UNCHANGED <<kind, queue>>, i' \in Nat
    PROVE  NetInv' /\ Connections' = Connections \ {f}
           /\ \A h \in Connections' : /\ peer'[h] = peer[h] /\ st'[peer[h]] = st[peer[h]]
                                      /\ inbox'[peer[h]] = inbox[peer[h]]
<1>1. Connections' = Connections \ {f} /\ \A h \in Connections' : peer'[h] = peer[h]
  BY Numbers DEF NetInv, Connections, Closed
<1>2. \A h \in Connections' : /\ peer[h] # peer[f] /\ st'[peer[h]] = st[peer[h]]
                              /\ inbox'[peer[h]] = inbox[peer[h]]
  BY <1>1 DEF NetInv, Connections, Closed
<1>3. /\ kind' \in Kinds /\ i' \in Nat /\ queue' \in Seq(Clients)
      /\ st' \in [Clients -> StatesOfClient] /\ inbox' \in [Clients -> Nat]
      /\ peer' \in [Fds -> Clients \cup {Nobody}]
  BY DEF NetInv, Closed, StatesOfClient
<1>4. \A k \in DOMAIN queue' : st'[queue'[k]] # "away"
  BY DEF NetInv, Closed, Connections
<1> QED BY <1>1, <1>2, <1>3, <1>4 DEF NetInv

\* The first client of the queue gets a descriptor that nobody has.
LEMMA NetAccepted ==
    ASSUME NetInv, queue # <<>>, NEW f \in Free,
           peer' = [peer EXCEPT ![f] = Head(queue)], queue' = Tail(queue),
           UNCHANGED <<kind, st, inbox>>, i' \in Nat
    PROVE  NetInv' /\ Connections' = Connections \cup {f} /\ f \notin Connections
           /\ peer'[f] = Head(queue) /\ \A h \in Connections : peer'[h] = peer[h]
<1>1. /\ Head(queue) \in Clients /\ queue' \in Seq(Clients) /\ Head(queue) = queue[1]
      /\ 1 \in DOMAIN queue
      /\ \A k \in DOMAIN queue' : k + 1 \in DOMAIN queue /\ k + 1 # 1 /\ queue'[k] = queue[k + 1]
  BY TailOf DEF NetInv
<1>2. Connections' = Connections \cup {f} /\ f \notin Connections /\ f \in Fds
      /\ peer'[f] = Head(queue) /\ \A h \in Connections : peer'[h] = peer[h]
  BY <1>1, Numbers DEF NetInv, Connections, Free
<1>3. peer' \in [Fds -> Clients \cup {Nobody}]
  BY <1>1 DEF NetInv, Free
<1>4. \A k \in DOMAIN queue' : st'[queue'[k]] # "away"
  BY <1>1 DEF NetInv
<1>5. \A j, k \in DOMAIN queue' : queue'[j] = queue'[k] => j = k
  <2> SUFFICES ASSUME NEW j \in DOMAIN queue', NEW k \in DOMAIN queue', queue'[j] = queue'[k]
               PROVE  j = k
    OBVIOUS
  <2>1. j + 1 = k + 1
    BY <1>1 DEF NetInv
  <2>2. j \in Nat /\ k \in Nat
    BY <1>1, LenProperties
  <2> QED BY <2>1, <2>2
<1>6. \A h \in Connections' :
        st'[peer'[h]] # "away" /\ \A k \in DOMAIN queue' : queue'[k] # peer'[h]
  BY <1>1, <1>2 DEF NetInv
<1>7. \A h, e \in Connections' : peer'[h] = peer'[e] => h = e
  BY <1>1, <1>2 DEF NetInv
<1> QED BY <1>1, <1>2, <1>3, <1>4, <1>5, <1>6, <1>7 DEF NetInv

\* The first client of the queue is turned away.
LEMMA NetDropped ==
    ASSUME NetInv, queue # <<>>, queue' = Tail(queue), st' = [st EXCEPT ![Head(queue)] = "out"],
           UNCHANGED <<kind, inbox, peer>>, i' \in Nat
    PROVE  NetInv' /\ Connections' = Connections
           /\ \A h \in Connections : peer[h] # Head(queue) /\ st'[peer[h]] = st[peer[h]]
<1>1. /\ Head(queue) \in Clients /\ queue' \in Seq(Clients) /\ Head(queue) = queue[1]
      /\ 1 \in DOMAIN queue
      /\ \A k \in DOMAIN queue' : k + 1 \in DOMAIN queue /\ k + 1 # 1 /\ queue'[k] = queue[k + 1]
  BY TailOf DEF NetInv
<1>2. Connections' = Connections
      /\ \A h \in Connections : peer[h] # Head(queue) /\ st'[peer[h]] = st[peer[h]]
  BY <1>1 DEF NetInv, Connections
<1>4. \A k \in DOMAIN queue' : st'[queue'[k]] # "away"
  BY <1>1 DEF NetInv
<1>5. \A j, k \in DOMAIN queue' : queue'[j] = queue'[k] => j = k
  <2> SUFFICES ASSUME NEW j \in DOMAIN queue', NEW k \in DOMAIN queue', queue'[j] = queue'[k]
               PROVE  j = k
    OBVIOUS
  <2>1. j + 1 = k + 1
    BY <1>1 DEF NetInv
  <2>2. j \in Nat /\ k \in Nat
    BY <1>1, LenProperties
  <2> QED BY <2>1, <2>2
<1>6. \A h \in Connections' :
        st'[peer'[h]] # "away" /\ \A k \in DOMAIN queue' : queue'[k] # peer'[h]
  BY <1>1, <1>2 DEF NetInv
<1>7. st' \in [Clients -> StatesOfClient]
  BY <1>1 DEF NetInv, StatesOfClient
<1> QED BY <1>1, <1>2, <1>4, <1>5, <1>6, <1>7 DEF NetInv

-----------------------------------------------------------------------------
(* Clients *)

\* What the clients do changes neither the tables of the servers nor who is
\* behind which descriptor.
LEMMA ClientNet ==
    ASSUME NetInv, NEW c \in Clients, Connect(c) \/ Send(c) \/ Leave(c) \/ Stall(c) \/ Drain(c),
           UNCHANGED <<kind, i>>
    PROVE  NetInv' /\ UNCHANGED peer /\ (queue # <<>> => queue' # <<>>)
<1>1. CASE Connect(c)
  <2>1. /\ queue' \in Seq(Clients) /\ queue' # <<>> /\ Len(queue') = Len(queue) + 1
        /\ \A k \in 1..Len(queue) : queue'[k] = queue[k]
        /\ queue'[Len(queue) + 1] = c /\ Len(queue) \in Nat
        /\ DOMAIN queue = 1..Len(queue) /\ DOMAIN queue' = 1..(Len(queue) + 1)
    BY <1>1, AppendProperties, LenProperties DEF NetInv, Connect
  <2>2. /\ st' \in [Clients -> StatesOfClient] /\ st[c] = "away" /\ st'[c] = "in"
        /\ \A d \in Clients : d # c => st'[d] = st[d]
    BY <1>1 DEF NetInv, Connect, StatesOfClient
  <2>3. \A k \in DOMAIN queue : queue[k] # c /\ queue[k] \in Clients
    BY <2>1, <2>2, ElementOfSeq DEF NetInv
  <2>4. \A f \in Connections : peer[f] # c /\ peer[f] \in Clients
    BY <2>2 DEF NetInv, Connections
  <2>5. \A k \in DOMAIN queue' : \/ k \in DOMAIN queue /\ queue'[k] = queue[k]
                                 \/ k = Len(queue) + 1 /\ queue'[k] = c
    BY <2>1
  <2>6. \A k \in DOMAIN queue' : st'[queue'[k]] # "away"
    BY <2>2, <2>3, <2>5 DEF NetInv
  <2>7. \A j, k \in DOMAIN queue' : queue'[j] = queue'[k] => j = k
    BY <2>3, <2>5 DEF NetInv
  <2>8. peer' = peer /\ inbox' = inbox /\ Connections' = Connections
    BY <1>1 DEF Connect, Connections
  <2>9. \A f \in Connections :
          st'[peer[f]] # "away" /\ \A k \in DOMAIN queue' : queue'[k] # peer[f]
    BY <2>2, <2>4, <2>5 DEF NetInv
  <2> QED BY <2>1, <2>2, <2>6, <2>7, <2>8, <2>9 DEF NetInv
<1>2. CASE Send(c)
  BY <1>2 DEF NetInv, Send, Connections
<1>3. CASE Leave(c)
  <2>1. /\ st' \in [Clients -> StatesOfClient] /\ \A d \in Clients : st[d] # "away" => st'[d] # "away"
        /\ UNCHANGED <<queue, peer>> /\ Connections' = Connections
    BY <1>3 DEF NetInv, Leave, StatesOfClient, Connections
  <2>2. inbox' \in [Clients -> Nat]
    BY <1>3 DEF NetInv, Leave
  <2>3. \A k \in DOMAIN queue : st'[queue[k]] # "away"
    BY <2>1, ElementOfSeq, LenProperties DEF NetInv
  <2>4. \A f \in Connections : st'[peer[f]] # "away"
    BY <2>1 DEF NetInv, Connections
  <2> QED BY <2>1, <2>2, <2>3, <2>4 DEF NetInv
<1>4. CASE Stall(c) \/ Drain(c)
  BY <1>4, NetUnchanged DEF NetInv, Stall, Drain, Connections
<1> QED BY <1>1, <1>2, <1>3, <1>4

\* A client that sends or leaves is news to the epoll servers, which do not
\* know it yet when it connects.
LEMMA ClientRead ==
    ASSUME NetInv, NEW c \in Clients, Connect(c) \/ Send(c) \/ Leave(c) \/ Stall(c) \/ Drain(c),
           NEW f \in Connections, Readable(f)', ~Readable(f)
    PROVE  ~Connect(c) /\ ~Stall(c) /\ ~Drain(c) /\ peer[f] = c
<1>1. peer[f] \in Clients /\ st[peer[f]] # "away" /\ peer' = peer
  BY DEF NetInv, Connections, Connect, Send, Leave, Stall, Drain
<1> QED BY <1>1 DEF NetInv, Readable, Connect, Send, Leave, Stall, Drain

-----------------------------------------------------------------------------
(* The select server *)

\* What TableExact and WatchedOnce say of the select server.
SelectExact ==
    /\ {clients[k].connfd : k \in Slots} \ {Null} = Connections
    /\ \A j, k \in Slots : j # k /\ clients[j].connfd # Null => clients[j].connfd # clients[k].connfd
SelectWatched ==
    /\ pc # "fault"
    /\ read_fds \cap write_fds = {} /\ read_fds \cup write_fds = Connections \cup {Listen}
    /\ \A k \in Slots : clients[k].write_buf # Null <=> clients[k].connfd \in write_fds

\* They say it as soon as the select server runs.
LEMMA SelectMeaning ==
    ASSUME kind = "select"
    PROVE  /\ TableExact <=> SelectExact
           /\ SelectExact => (WatchedOnce <=> SelectWatched)
BY DEF TableExact, WatchedOnce, SelectExact, SelectWatched, InTable, Chats

\* The invariant of a behaviour of the select server.
LEMMA SelectIInv ==
    ASSUME kind = "select"
    PROVE  IInv <=> NetInv /\ SelectTable /\ SelectRound /\ SelectExact /\ SelectWatched
BY SelectMeaning DEF IInv, SelectInv, PollInv, EpollInv, EpollKinds

\* The same for the next state.
LEMMA SelectIInvNext ==
    ASSUME kind' = "select"
    PROVE  IInv' <=> NetInv' /\ SelectTable' /\ SelectRound' /\ SelectExact' /\ SelectWatched'
<1>1. (TableExact' <=> SelectExact') /\ (SelectExact' => (WatchedOnce' <=> SelectWatched'))
  BY DEF TableExact, WatchedOnce, SelectExact, SelectWatched, InTable, Chats
<1> QED BY <1>1 DEF IInv, SelectInv, PollInv, EpollInv, EpollKinds

\* Steps that leave the table, the sets and the connections alone.
LEMMA SelectUnchanged ==
    ASSUME SelectTable, SelectExact, SelectWatched, pc' # "fault",
           UNCHANGED <<clients, read_fds, write_fds, maxi, peer>>
    PROVE  SelectTable' /\ SelectExact' /\ SelectWatched'
BY DEF SelectTable, SelectExact, SelectWatched, Connections

\* select reports as writable only clients that have something to write.
LEMMA StepSelect ==
    ASSUME IInv, Select PROVE IInv'
<1>1. kind = "select" /\ kind' = "select"
  BY DEF Select
<1>2. NetInv /\ SelectTable /\ SelectRound /\ SelectExact /\ SelectWatched
  BY <1>1, SelectIInv
<1>3. NetInv'
  BY <1>2, NetUnchanged DEF Select
<1>4. SelectTable' /\ SelectExact' /\ SelectWatched'
  BY <1>2, SelectUnchanged DEF Select, netVars
<1>5. SelectRound'
  <2>1. ready_write' \subseteq write_fds' /\ i' = 1 /\ UNCHANGED <<queue, clients, write_fds>>
    BY DEF Select, netVars
  <2>2. pc' = "accept" => queue # <<>>
    BY DEF Select
  <2>3. ready_read' \subseteq read_fds /\ ready_write' \subseteq write_fds
    BY DEF Select
  <2> QED BY <1>2, <2>1, <2>2, <2>3 DEF SelectRound, SelectTable, SelectWatched
<1> QED BY <1>1, <1>3, <1>4, <1>5, SelectIInvNext

\* A slot and a descriptor that are free get the first client of the queue.
LEMMA StepAddClient ==
    ASSUME IInv, AddClient PROVE IInv'
<1> DEFINE FreeSlots == {j \in Slots : clients[j].connfd = Null}
           fd == Min(Free)
           k == Min(FreeSlots)
<1>1. kind = "select" /\ kind' = "select" /\ pc = "accept" /\ i' = i
  BY DEF AddClient
<1>2. NetInv /\ SelectTable /\ SelectRound /\ SelectExact /\ SelectWatched /\ i \in Nat
  BY <1>1, SelectIInv DEF NetInv
<1>3. CASE pc' = "exit" /\ UNCHANGED <<netVars, clients, read_fds, write_fds, ready_read, ready_write, maxi>>
  <2>1. NetInv' /\ SelectTable' /\ SelectExact' /\ SelectWatched'
    BY <1>1, <1>2, <1>3, NetUnchanged, SelectUnchanged DEF netVars
  <2>2. SelectRound'
    BY <1>2, <1>3 DEF SelectRound
  <2> QED BY <1>1, <2>1, <2>2, SelectIInvNext
<1>4. CASE /\ Free # {} /\ FreeSlots # {} /\ pc' = "round"
           /\ clients' = [clients EXCEPT ![k].connfd = fd]
           /\ read_fds' = read_fds \cup {fd} /\ maxi' = Raised(k)
           /\ peer' = [peer EXCEPT ![fd] = Head(queue)] /\ queue' = Tail(queue)
           /\ UNCHANGED <<st, inbox, write_fds, ready_read, ready_write>>
  <2>1. fd \in Free /\ k \in FreeSlots
    BY <1>4, MinIn, Numbers DEF Free
  <2> HIDE DEF fd, k
  <2>2. fd \in Fds /\ k \in Slots /\ clients[k].connfd = Null /\ fd \notin Connections
    BY <2>1 DEF Free, Connections
  <2>3. /\ NetInv' /\ Connections' = Connections \cup {fd}
        /\ peer'[fd] = Head(queue) /\ \A h \in Connections : peer'[h] = peer[h]
    BY <1>1, <1>2, <1>4, <2>1, NetAccepted DEF SelectRound
  <2>4. /\ clients'[k] = [clients[k] EXCEPT !.connfd = fd]
        /\ \A j \in Slots : j # k => clients'[j] = clients[j]
        /\ clients' \in [Slots -> ClientRecord]
    BY <1>2, <1>4, <2>2 DEF SelectTable, ClientRecord
  <2>5. clients[k].write_buf = Null /\ clients[k].buf = Nobody
    BY <1>2, <2>2, Numbers DEF SelectTable, SelectWatched
  <2>6. maxi' \in 0..Limit
    <3>1. maxi \in 0..Limit /\ k \in 1..Limit /\ Limit \in Nat
      BY <1>2, <2>2, NetAssumption DEF SelectTable, Slots
    <3>2. maxi' = IF maxi >= k THEN maxi ELSE k
      BY <1>4, <3>1, MaxOfTwo DEF Raised
    <3> QED BY <3>1, <3>2
  <2>7. SelectTable'
    BY <1>2, <1>4, <2>2, <2>3, <2>4, <2>5, <2>6, Numbers
    DEF SelectTable, SelectExact, ClientRecord
  <2>8. SelectExact'
    BY <1>2, <2>2, <2>3, <2>4, Numbers DEF SelectExact, SelectTable, ClientRecord
  <2>9. SelectWatched'
    BY <1>2, <1>4, <2>2, <2>3, <2>4, <2>5, Numbers
    DEF SelectWatched, SelectTable, ClientRecord
  <2>10. SelectRound'
    <3>1. i' = 1 /\ ready_write' \subseteq write_fds
      BY <1>1, <1>2, <1>4 DEF SelectRound
    <3>2. fd \notin ready_write'
      BY <1>2, <2>2, <3>1, Numbers DEF SelectWatched
    <3>3. \A j \in Slots : clients'[j].connfd \in ready_write' => clients'[j].write_buf # Null
      BY <1>2, <1>4, <2>2, <2>4, <3>1, <3>2 DEF SelectTable, ClientRecord, SelectWatched
    <3> QED BY <1>2, <1>4, <3>3 DEF SelectRound
  <2> QED BY <1>1, <2>3, <2>7, <2>8, <2>9, <2>10, SelectIInvNext
<1> QED BY <1>3, <1>4 DEF AddClient

\* A round of check_clients ends and its sets are forgotten.
LEMMA StepCheckEnd ==
    ASSUME IInv, CheckEnd PROVE IInv'
<1>1. kind = "select" /\ kind' = "select" /\ pc' = "wait" /\ i' = 0
  BY DEF CheckEnd
<1>2. NetInv /\ SelectTable /\ SelectRound /\ SelectExact /\ SelectWatched
  BY <1>1, SelectIInv
<1>3. NetInv' /\ SelectTable' /\ SelectExact' /\ SelectWatched' /\ SelectRound'
  BY <1>1, <1>2, NetUnchanged, SelectUnchanged DEF CheckEnd, netVars, SelectRound
<1> QED BY <1>1, <1>3, SelectIInvNext

\* A client whose turn it is has a slot, a descriptor and a connection.
LEMMA TurnOf ==
    ASSUME NetInv, SelectTable, SelectRound, SelectExact, NEW k \in Slots, Turn(k)
    PROVE  /\ kind = "select" /\ pc = "round" /\ k >= i
           /\ clients[k].connfd \in ready_read \cup ready_write
           /\ clients[k].connfd \in Connections /\ clients[k].connfd \in Fds
           /\ peer[clients[k].connfd] \in Clients
<1>1. Ready \subseteq Nat /\ Ready # {} /\ k = Min(Ready) /\ kind = "select" /\ pc = "round"
  BY DEF Turn, Ready, NetInv, SelectTable
<1>2. k \in Ready
  BY <1>1, MinIn
<1>3. k >= i /\ clients[k].connfd \in ready_read \cup ready_write
  BY <1>2 DEF Ready, NetInv
<1>4. clients[k].connfd # Null
  BY <1>3, Numbers DEF SelectRound
<1>5. clients[k].connfd \in Connections
  BY <1>4 DEF SelectExact
<1> QED BY <1>1, <1>3, <1>5 DEF Connections, NetInv

\* A client gets its text and is watched for reading again.
LEMMA StepCheckWrite ==
    ASSUME IInv, CheckWrite PROVE IInv'
<1>1. PICK k \in Slots : LET fd == clients[k].connfd
                             from == clients[k].write_buf
                             s == st[peer[fd]]
       IN /\ Turn(k) /\ fd \in ready_write
          /\ \/ from = Null /\ pc' = "fault" /\ UNCHANGED <<i, netVars, selectVars>>
             \/ from # Null /\ Sigpipe(s) /\ pc' = "killed" /\ UNCHANGED <<i, netVars, selectVars>>
             \/ /\ from # Null /\ ~Sigpipe(s)
                /\ st' = [st EXCEPT ![peer[fd]] = AfterWrite(s, clients[from].buf = Nobody)]
                /\ clients' = [clients EXCEPT ![k].write_buf = Null]
                /\ WatchInput(fd)
                /\ i' = k + 1 /\ nready' = nready - 1
                /\ UNCHANGED <<pc, queue, inbox, sends, full, peer, ready_read, ready_write, maxi, maxfd>>
  BY DEF CheckWrite
<1> DEFINE fd == clients[k].connfd
           from == clients[k].write_buf
           s == st[peer[fd]]
<1>2. kind = "select" /\ kind' = "select"
  BY <1>1 DEF Turn, CheckWrite
<1>3. NetInv /\ SelectTable /\ SelectRound /\ SelectExact /\ SelectWatched
  BY <1>2, SelectIInv
<1>4. pc = "round" /\ k >= i /\ fd \in Connections /\ fd \in Fds /\ peer[fd] \in Clients /\ from # Null
  BY <1>1, <1>3, TurnOf DEF SelectRound
<1>5. CASE pc' = "killed" /\ UNCHANGED <<i, netVars, selectVars>>
  <2>1. NetInv' /\ SelectTable' /\ SelectExact' /\ SelectWatched'
    BY <1>2, <1>3, <1>5, NetUnchanged, SelectUnchanged DEF netVars, selectVars, NetInv
  <2>2. SelectRound'
    BY <1>3, <1>5 DEF SelectRound, selectVars
  <2> QED BY <1>2, <2>1, <2>2, SelectIInvNext
<1>6. CASE /\ st' = [st EXCEPT ![peer[fd]] = AfterWrite(s, clients[from].buf = Nobody)]
           /\ clients' = [clients EXCEPT ![k].write_buf = Null]
           /\ WatchInput(fd) /\ i' = k + 1
           /\ UNCHANGED <<pc, queue, inbox, peer, ready_read, ready_write, maxi>>
  <2>1. NetInv'
    <3>1. AfterWrite(s, clients[from].buf = Nobody) \in StatesOfClient \ {"away"}
      BY <1>3, <1>4 DEF NetInv, AfterWrite, StatesOfClient
    <3>2. i' \in Nat /\ inbox' \in [Clients -> Nat]
      BY <1>3, <1>6, Numbers DEF NetInv
    <3> QED BY <1>2, <1>3, <1>4, <1>6, <3>1, <3>2, NetState
  <2>2. /\ clients'[k] = [clients[k] EXCEPT !.write_buf = Null]
        /\ \A j \in Slots : j # k => clients'[j] = clients[j]
        /\ clients' \in [Slots -> ClientRecord] /\ Connections' = Connections
    BY <1>3, <1>6 DEF SelectTable, ClientRecord, Connections
  <2>3. read_fds' = read_fds \cup {fd} /\ write_fds' = write_fds \ {fd}
    BY <1>6 DEF WatchInput
  <2>4. SelectTable'
    BY <1>3, <1>4, <1>6, <2>2, <2>3 DEF SelectTable, ClientRecord
  <2>5. SelectExact'
    BY <1>3, <2>2 DEF SelectExact, SelectTable, ClientRecord
  <2>6. SelectWatched'
    BY <1>3, <1>4, <1>6, <2>2, <2>3, Numbers DEF SelectExact, SelectWatched, SelectTable, ClientRecord
  <2>7. SelectRound'
    <3>1. \A j \in Slots : j >= i' => j >= i /\ clients'[j] = clients[j]
      BY <1>3, <1>4, <1>6, <2>2, Numbers DEF NetInv
    <3>2. pc' = "round" /\ ready_read' = ready_read /\ ready_write' = ready_write
      BY <1>4, <1>6
    <3> QED BY <1>3, <1>4, <3>1, <3>2 DEF SelectRound
  <2> QED BY <1>2, <2>1, <2>4, <2>5, <2>6, <2>7, SelectIInvNext
<1> QED BY <1>1, <1>4, <1>5, <1>6

\* What is taken from a client is its name or goes to all others that have
\* given theirs.
LEMMA HearKeeps ==
    ASSUME NetInv, SelectTable, SelectExact, SelectWatched, NEW k \in Slots,
           clients[k].connfd \in Connections, Hear(k, peer[clients[k].connfd]),
           UNCHANGED <<peer, maxi, pc>>
    PROVE  /\ SelectTable' /\ SelectExact' /\ SelectWatched'
           /\ \A j \in Slots : /\ clients'[j].connfd = clients[j].connfd
                               /\ clients[j].write_buf # Null => clients'[j].write_buf # Null
<1> DEFINE name == clients[k].welcome
           to == IF name THEN {} ELSE Receivers(k)
           told == {clients[j].connfd : j \in to}
           c == peer[clients[k].connfd]
<1>1. /\ clients' = [j \in Slots |->
             [clients[j] EXCEPT !.buf = IF j = k THEN c ELSE @,
                                !.welcome = IF j = k THEN FALSE ELSE @,
                                !.write_buf = IF j \in to THEN k ELSE @]]
      /\ write_fds' = write_fds \cup told /\ read_fds' = read_fds \ told
  BY DEF Hear
<1>2. \A j \in to : j \in Slots /\ j # k /\ clients[j].connfd # Null /\ ~clients[j].welcome
  <2>1. 1..maxi \subseteq Slots
    BY NetAssumption DEF SelectTable, Slots
  <2> QED BY <2>1 DEF Receivers
<1>3. c \in Clients /\ Connections' = Connections
  BY DEF NetInv, Connections
<1>4. told \subseteq Connections
  BY <1>2 DEF SelectExact
<1> HIDE DEF to, told
<1>5. \A j \in Slots :
        /\ clients'[j].connfd = clients[j].connfd
        /\ clients'[j].buf = IF j = k THEN c ELSE clients[j].buf
        /\ clients'[j].welcome = IF j = k THEN FALSE ELSE clients[j].welcome
        /\ clients'[j].write_buf = IF j \in to THEN k ELSE clients[j].write_buf
        /\ clients'[j] \in ClientRecord
  BY <1>1, <1>3 DEF SelectTable, ClientRecord
<1>6. clients' \in [Slots -> ClientRecord]
  BY <1>1, <1>5
<1>7. \A j \in Slots : clients'[j].connfd = clients[j].connfd
  BY <1>5
<1>8. write_fds' = write_fds \cup told
  BY <1>1
<1>9. SelectTable'
  <2>1. read_fds' \subseteq Fds \cup {Listen} /\ write_fds' \subseteq Fds /\ maxi' \in 0..Limit
    BY <1>1, <1>4 DEF SelectTable, Connections
  <2>2. \A j \in Slots : clients'[j].buf # Nobody =>
          clients'[j].connfd # Null /\ clients'[j].buf = peer'[clients'[j].connfd]
    <3>1. \A j \in Slots : j # k /\ clients'[j].buf # Nobody =>
            clients[j].connfd # Null /\ clients'[j].buf = peer[clients[j].connfd]
      BY <1>5 DEF SelectTable
    <3>2. clients[k].connfd # Null /\ clients'[k].buf = peer[clients[k].connfd]
      BY <1>5, Numbers DEF Connections
    <3> QED BY <1>5, <3>1, <3>2
  <2>3. \A j \in Slots : clients'[j].write_buf # Null =>
          clients'[j].write_buf # j /\ ~clients'[j].welcome
    BY <1>2, <1>5 DEF SelectTable
  <2> QED BY <1>6, <2>1, <2>2, <2>3 DEF SelectTable
<1>10. SelectExact'
  <2>1. {clients'[j].connfd : j \in Slots} = {clients[j].connfd : j \in Slots}
    BY <1>7
  <2> QED BY <1>3, <1>7, <2>1 DEF SelectExact
<1>11. SelectWatched'
  <2>1. \A j \in Slots : j \in to <=> clients[j].connfd \in told
    <3>1. \A j \in Slots : clients[j].connfd \in told => j \in to
      BY <1>2 DEF told, SelectExact
    <3> QED BY <3>1 DEF told
  <2>2. \A j \in Slots : clients'[j].write_buf # Null <=> clients'[j].connfd \in write_fds'
    <3>1. \A j \in Slots : clients'[j].write_buf # Null <=> j \in to \/ clients[j].write_buf # Null
      BY <1>5, Numbers
    <3>2. \A j \in Slots : clients'[j].connfd \in write_fds' <=>
            clients[j].connfd \in told \/ clients[j].connfd \in write_fds
      BY <1>7, <1>8
    <3> QED BY <2>1, <3>1, <3>2 DEF SelectWatched
  <2>3. /\ read_fds' \cap write_fds' = {}
        /\ read_fds' \cup write_fds' = Connections \cup {Listen}
    BY <1>1, <1>4 DEF SelectWatched
  <2> QED BY <1>3, <2>2, <2>3 DEF SelectWatched
<1> QED BY <1>2, <1>5, <1>9, <1>10, <1>11, Numbers

\* A client is read: its slot is freed, or its text goes to the others.
LEMMA StepCheckRead ==
    ASSUME IInv, CheckRead PROVE IInv'
<1>1. PICK k \in Slots : LET fd == clients[k].connfd IN
         /\ Turn(k) /\ fd \notin ready_write
         /\ \E n \in RecvResults(fd) :
              \/ n < 0 /\ pc' = "abort" /\ UNCHANGED <<i, netVars, selectVars>>
              \/ /\ n = 0 /\ Closed(fd)
                 /\ clients' = [clients EXCEPT ![k] = InitClient]
                 /\ read_fds' = read_fds \ {fd} /\ write_fds' = write_fds \ {fd}
                 /\ i' = k + 1 /\ nready' = nready - 1
                 /\ UNCHANGED <<pc, queue, sends, full, ready_read, ready_write, maxi, maxfd>>
              \/ /\ n > 0 /\ inbox' = [inbox EXCEPT ![peer[fd]] = @ - n]
                 /\ Hear(k, peer[fd])
                 /\ i' = k + 1 /\ nready' = nready - 1
                 /\ UNCHANGED <<pc, queue, st, sends, full, peer, ready_read, ready_write, maxi, maxfd>>
  BY DEF CheckRead
<1> DEFINE fd == clients[k].connfd
<1>2. kind = "select" /\ kind' = "select"
  BY <1>1 DEF Turn, CheckRead
<1>3. NetInv /\ SelectTable /\ SelectRound /\ SelectExact /\ SelectWatched
  BY <1>2, SelectIInv
<1>4. pc = "round" /\ k >= i /\ fd \in Connections /\ fd \in Fds /\ peer[fd] \in Clients
  BY <1>1, <1>3, TurnOf
<1>5. CASE pc' = "abort" /\ UNCHANGED <<i, netVars, selectVars>>
  <2>1. NetInv' /\ SelectTable' /\ SelectExact' /\ SelectWatched'
    BY <1>2, <1>3, <1>5, NetUnchanged, SelectUnchanged DEF netVars, selectVars, NetInv
  <2>2. SelectRound'
    BY <1>3, <1>5 DEF SelectRound, selectVars
  <2> QED BY <1>2, <2>1, <2>2, SelectIInvNext
<1>6. CASE /\ Closed(fd) /\ clients' = [clients EXCEPT ![k] = InitClient]
           /\ read_fds' = read_fds \ {fd} /\ write_fds' = write_fds \ {fd} /\ i' = k + 1
           /\ UNCHANGED <<pc, queue, ready_read, ready_write, maxi>>
  <2>1. NetInv' /\ Connections' = Connections \ {fd} /\ \A h \in Connections' : peer'[h] = peer[h]
    BY <1>2, <1>3, <1>4, <1>6, NetClosed, Numbers
  <2>2. /\ clients'[k] = InitClient /\ \A j \in Slots : j # k => clients'[j] = clients[j]
        /\ clients' \in [Slots -> ClientRecord]
    BY <1>3, <1>6 DEF SelectTable, ClientRecord, InitClient
  <2>3. SelectTable'
    BY <1>3, <1>6, <2>1, <2>2 DEF SelectTable, SelectExact, InitClient
  <2>4. SelectExact'
    BY <1>3, <1>4, <2>1, <2>2 DEF SelectExact, InitClient
  <2>5. SelectWatched'
    BY <1>3, <1>4, <1>6, <2>1, <2>2, Numbers DEF SelectExact, SelectWatched, InitClient
  <2>6. SelectRound'
    <3>1. \A j \in Slots : j >= i' => j >= i /\ clients'[j] = clients[j]
      BY <1>3, <1>4, <1>6, <2>2, Numbers DEF NetInv
    <3> QED BY <1>3, <1>4, <1>6, <3>1 DEF SelectRound
  <2> QED BY <1>2, <2>1, <2>3, <2>4, <2>5, <2>6, SelectIInvNext
<1>7. ASSUME NEW n \in RecvResults(fd), n > 0, inbox' = [inbox EXCEPT ![peer[fd]] = @ - n],
             Hear(k, peer[fd]), i' = k + 1,
             UNCHANGED <<pc, queue, st, peer, ready_read, ready_write, maxi>>
      PROVE  IInv'
  <2>1. NetInv'
    <3>1. inbox' \in [Clients -> Nat] /\ i' \in Nat
      BY <1>3, <1>4, <1>7, Numbers DEF RecvResults, NetInv
    <3> QED BY <1>2, <1>3, <1>7, <3>1 DEF NetInv, Connections
  <2>2. /\ SelectTable' /\ SelectExact' /\ SelectWatched'
        /\ \A j \in Slots : /\ clients'[j].connfd = clients[j].connfd
                            /\ clients[j].write_buf # Null => clients'[j].write_buf # Null
    BY <1>3, <1>4, <1>7, HearKeeps
  <2>3. SelectRound'
    <3>1. \A j \in Slots : j >= i' => j >= i
      BY <1>3, <1>4, <1>7, Numbers DEF NetInv
    <3> QED BY <1>3, <1>4, <1>7, <2>2, <3>1 DEF SelectRound
  <2> QED BY <1>2, <2>1, <2>2, <2>3, SelectIInvNext
<1> QED BY <1>1, <1>5, <1>6, <1>7

\* Every step of the select server.
LEMMA StepSelectServer ==
    ASSUME IInv, SelectServer PROVE IInv'
BY StepSelect, StepAddClient, StepCheckEnd, StepCheckWrite, StepCheckRead
DEF SelectServer, SelectNext

-----------------------------------------------------------------------------
(* The poll server *)

\* What TableExact and WatchedOnce say of the poll server.
PollExact ==
    /\ {fds[k].fd : k \in DOMAIN fds} = Connections
    /\ \A j, k \in DOMAIN fds : j # k => fds[j].fd # fds[k].fd
PollWatched ==
    /\ pc # "fault"
    /\ \A k \in DOMAIN fds : fds[k].events = "out" => users[fds[k].fd].write_buf # Null
PollTable ==
    /\ fds \in Seq(PollEntry) /\ users \in [Fds -> UserEntry]
    /\ pc = "accept" => queue # <<>>

\* The invariant of a behaviour of the poll server.
LEMMA PollIInv ==
    ASSUME kind = "poll"
    PROVE  IInv <=> NetInv /\ PollTable /\ PollExact /\ PollWatched
BY DEF IInv, SelectInv, PollInv, EpollInv, EpollKinds, TableExact, WatchedOnce, InTable, Chats,
       PollTable, PollExact, PollWatched

\* The same for the next state.
LEMMA PollIInvNext ==
    ASSUME kind' = "poll"
    PROVE  IInv' <=> NetInv' /\ PollTable' /\ PollExact' /\ PollWatched'
BY DEF IInv, SelectInv, PollInv, EpollInv, EpollKinds, TableExact, WatchedOnce, InTable, Chats,
       PollTable, PollExact, PollWatched

\* The table after revents, and nothing else of it, is written.
LEMMA PollReported ==
    ASSUME fds \in Seq(PollEntry), PollExact, PollWatched, UNCHANGED <<users, peer>>, pc' # "fault",
           NEW r \in [DOMAIN fds -> SUBSET {"err", "rdhup", "in", "out"}],
           fds' = [k \in DOMAIN fds |-> [fds[k] EXCEPT !.revents = r[k]]]
    PROVE  fds' \in Seq(PollEntry) /\ PollExact' /\ PollWatched'
<1>1. DOMAIN fds = 1..Len(fds) /\ Len(fds) \in Nat /\ \A k \in DOMAIN fds : fds[k] \in PollEntry
  BY LenProperties, ElementOfSeq
<1>2. \A k \in DOMAIN fds : /\ fds'[k] \in PollEntry /\ fds'[k].fd = fds[k].fd
                            /\ fds'[k].events = fds[k].events
  BY <1>1 DEF PollEntry
<1>3. fds' \in [1..Len(fds) -> PollEntry]
  BY <1>1, <1>2
<1>4. fds' \in Seq(PollEntry)
  BY <1>1, <1>3, SeqDef
<1>5. DOMAIN fds' = DOMAIN fds /\ Connections' = Connections
  BY DEF Connections
<1>6. {fds'[k].fd : k \in DOMAIN fds'} = {fds[k].fd : k \in DOMAIN fds}
  BY <1>2, <1>5
<1>7. PollExact'
  BY <1>2, <1>5, <1>6 DEF PollExact
<1>8. PollWatched'
  BY <1>2, <1>5 DEF PollWatched
<1> QED BY <1>4, <1>7, <1>8

\* poll writes revents and nothing else.
LEMMA StepPoll ==
    ASSUME IInv, Poll PROVE IInv'
<1>1. kind = "poll" /\ kind' = "poll" /\ pc' \in {"accept", "round"} /\ i' = 1
  BY DEF Poll
<1>2. NetInv /\ PollTable /\ PollExact /\ PollWatched
  BY <1>1, PollIInv
<1>3. NetInv' /\ UNCHANGED <<peer, users, queue>>
  BY <1>1, <1>2, NetUnchanged DEF Poll, netVars
<1> DEFINE r == [k \in DOMAIN fds |-> Revents(fds[k])]
<1>4. r \in [DOMAIN fds -> SUBSET {"err", "rdhup", "in", "out"}]
  BY DEF Revents
<1>5. fds' = [k \in DOMAIN fds |-> [fds[k] EXCEPT !.revents = r[k]]]
  BY DEF Poll
<1> HIDE DEF r
<1>6. fds' \in Seq(PollEntry) /\ PollExact' /\ PollWatched'
  BY <1>1, <1>2, <1>3, <1>4, <1>5, PollReported DEF PollTable
<1>7. PollTable'
  BY <1>2, <1>3, <1>6 DEF PollTable, Poll
<1> QED BY <1>1, <1>3, <1>6, <1>7, PollIInvNext

\* A connection gets a descriptor that is in no entry yet, or is refused.
LEMMA StepAccept ==
    ASSUME IInv, Accept PROVE IInv'
<1>1. kind = "poll" /\ kind' = "poll" /\ pc = "accept" /\ pc' = "round" /\ i' = i
  BY DEF Accept
<1>2. NetInv /\ PollTable /\ PollExact /\ PollWatched /\ queue # <<>> /\ i \in Nat
  BY <1>1, PollIInv DEF PollTable, NetInv
<1>3. CASE /\ queue' = Tail(queue) /\ st' = [st EXCEPT ![Head(queue)] = "out"]
           /\ UNCHANGED <<inbox, peer, fds, users>>
  <2>1. NetInv' /\ Connections' = Connections
    BY <1>1, <1>2, <1>3, NetDropped
  <2> QED BY <1>1, <1>2, <1>3, <2>1, PollIInvNext DEF PollTable, PollExact, PollWatched
<1>4. CASE /\ Free # {}
           /\ peer' = [peer EXCEPT ![Min(Free)] = Head(queue)] /\ queue' = Tail(queue)
           /\ fds' = Append(fds, [fd |-> Min(Free), events |-> "in", revents |-> {}])
           /\ UNCHANGED <<st, inbox, users>>
  <2> DEFINE fd == Min(Free)
             e == [fd |-> fd, events |-> "in", revents |-> {}]
  <2>1. fd \in Free
    BY <1>4, MinIn, Numbers DEF Free
  <2> HIDE DEF fd
  <2>2. NetInv' /\ Connections' = Connections \cup {fd} /\ fd \notin Connections
    BY <1>1, <1>2, <1>4, <2>1, NetAccepted DEF fd
  <2>3. e \in PollEntry
    BY <2>1 DEF PollEntry, Events, Free
  <2>4. /\ fds' \in Seq(PollEntry) /\ Len(fds') = Len(fds) + 1 /\ Len(fds) \in Nat
        /\ \A j \in 1..Len(fds) : fds'[j] = fds[j]
        /\ fds'[Len(fds) + 1] = e /\ DOMAIN fds = 1..Len(fds) /\ DOMAIN fds' = 1..(Len(fds) + 1)
    BY <1>2, <1>4, <2>3, AppendProperties, LenProperties DEF PollTable, fd
  <2>5. /\ DOMAIN fds' = DOMAIN fds \cup {Len(fds) + 1} /\ Len(fds) + 1 \notin DOMAIN fds
        /\ \A j \in DOMAIN fds : fds'[j] = fds[j] /\ fds[j].fd # fd
        /\ fds'[Len(fds) + 1].fd = fd /\ fds'[Len(fds) + 1].events = "in"
    BY <1>2, <2>2, <2>4 DEF PollExact
  <2>6. PollTable'
    BY <1>1, <1>2, <1>4, <2>4 DEF PollTable
  <2>7. PollExact'
    <3>1. {fds'[j].fd : j \in DOMAIN fds'} = {fds[j].fd : j \in DOMAIN fds} \cup {fd}
      BY <2>5
    <3>2. \A j, h \in DOMAIN fds' : j # h => fds'[j].fd # fds'[h].fd
      BY <1>2, <2>5 DEF PollExact
    <3> QED BY <1>2, <2>2, <3>1, <3>2 DEF PollExact
  <2>8. PollWatched'
    BY <1>1, <1>2, <1>4, <2>5 DEF PollWatched
  <2> QED BY <1>1, <2>2, <2>6, <2>7, <2>8, PollIInvNext
<1> QED BY <1>3, <1>4 DEF Accept, pollVars

\* The round of the poll server ends.
LEMMA StepRoundEnd ==
    ASSUME IInv, RoundEnd PROVE IInv'
<1>1. kind = "poll" /\ kind' = "poll" /\ pc' = "wait" /\ i' = 0
  BY DEF RoundEnd
<1>2. NetInv /\ PollTable /\ PollExact /\ PollWatched
  BY <1>1, PollIInv
<1>3. NetInv' /\ UNCHANGED <<peer, users, queue>>
  BY <1>1, <1>2, NetUnchanged DEF RoundEnd, netVars
<1> DEFINE r == [k \in DOMAIN fds |-> {}]
<1>4. r \in [DOMAIN fds -> SUBSET {"err", "rdhup", "in", "out"}]
  OBVIOUS
<1>5. fds' = [k \in DOMAIN fds |-> [fds[k] EXCEPT !.revents = r[k]]]
  BY DEF RoundEnd
<1> HIDE DEF r
<1>6. fds' \in Seq(PollEntry) /\ PollExact' /\ PollWatched'
  BY <1>1, <1>2, <1>3, <1>4, <1>5, PollReported DEF PollTable
<1>7. PollTable'
  BY <1>1, <1>2, <1>3, <1>6 DEF PollTable
<1> QED BY <1>1, <1>3, <1>6, <1>7, PollIInvNext

\* An entry of the table belongs to a connection.
LEMMA EntryOf ==
    ASSUME NetInv, PollTable, PollExact, NEW k \in DOMAIN fds
    PROVE  /\ DOMAIN fds = 1..Len(fds) /\ Len(fds) \in Nat \ {0} /\ k \in Nat
           /\ Len(fds) \in DOMAIN fds
           /\ fds[k] \in PollEntry /\ fds[k].fd \in Connections /\ fds[k].fd \in Fds
           /\ peer[fds[k].fd] \in Clients
<1>1. DOMAIN fds = 1..Len(fds) /\ Len(fds) \in Nat /\ fds[k] \in PollEntry
  BY LenProperties, ElementOfSeq DEF PollTable
<1>2. fds[k].fd \in Connections
  BY DEF PollExact
<1> QED BY <1>1, <1>2 DEF Connections, NetInv

\* An error is taken from a socket, which stays in the table.
LEMMA StepRoundError ==
    ASSUME IInv, RoundError PROVE IInv'
<1>1. PICK k \in DOMAIN fds :
         /\ At(k) /\ Got(k, "err") /\ i' = k + 1
         /\ st' = [st EXCEPT ![peer[fds[k].fd]] = "dead"]
  BY DEF RoundError
<1>2. kind = "poll" /\ kind' = "poll" /\ UNCHANGED <<pc, queue, inbox, peer, fds, users>>
  BY <1>1 DEF RoundError, At, pollVars
<1>3. NetInv /\ PollTable /\ PollExact /\ PollWatched /\ inbox' \in [Clients -> Nat]
  BY <1>2, PollIInv DEF NetInv
<1>4. fds[k].fd \in Connections /\ i' \in Nat
  BY <1>1, <1>3, EntryOf
<1>5. "dead" \in StatesOfClient \ {"away"}
  BY DEF StatesOfClient
<1>6. NetInv' /\ Connections' = Connections
  BY <1>1, <1>2, <1>3, <1>4, <1>5, NetState DEF Connections
<1> QED BY <1>2, <1>3, <1>6, PollIInvNext DEF PollTable, PollExact, PollWatched

\* The table without the entry at k.
LEMMA PackedIs ==
    ASSUME NetInv, PollTable, PollExact, NEW k \in DOMAIN fds
    PROVE  /\ Packed(k) \in Seq(PollEntry)
           /\ {Packed(k)[j].fd : j \in DOMAIN Packed(k)} = Connections \ {fds[k].fd}
           /\ \A j, h \in DOMAIN Packed(k) : j # h => Packed(k)[j].fd # Packed(k)[h].fd
           /\ \A j \in DOMAIN Packed(k) : \E m \in DOMAIN fds : m # k /\ Packed(k)[j] = fds[m]
<1> DEFINE n == Len(fds)
           Old(j) == IF j = k THEN n ELSE j
<1>1. DOMAIN fds = 1..n /\ n \in Nat \ {0} /\ k \in Nat /\ n \in DOMAIN fds
      /\ \A j \in DOMAIN fds : fds[j] \in PollEntry
  BY EntryOf
<1>2. DOMAIN Packed(k) = 1..(n - 1)
  BY DEF Packed
<1>3. \A j \in DOMAIN Packed(k) : /\ Old(j) \in DOMAIN fds /\ Old(j) # k
                                  /\ Packed(k)[j] = fds[Old(j)] /\ j \in DOMAIN fds /\ j # n
  <2>1. \A j \in 1..(n - 1) : Packed(k)[j] = fds[Old(j)]
    BY DEF Packed
  <2>2. \A m \in Nat : \A j \in 1..(m - 1) : j \in 1..m /\ j # m
    OBVIOUS
  <2> QED BY <1>1, <1>2, <2>1, <2>2
<1>4. \A m \in DOMAIN fds : m # k => \E j \in DOMAIN Packed(k) : Old(j) = m
  <2> SUFFICES ASSUME NEW m \in DOMAIN fds, m # k PROVE \E j \in DOMAIN Packed(k) : Old(j) = m
    OBVIOUS
  <2>1. CASE m = n
    BY <1>1, <1>2, <2>1
  <2>2. CASE m # n
    BY <1>1, <1>2, <2>2
  <2> QED BY <2>1, <2>2
<1>5. Packed(k) \in Seq(PollEntry)
  <2>1. Packed(k) \in [1..(n - 1) -> PollEntry]
    BY <1>1, <1>2, <1>3 DEF Packed
  <2> QED BY <1>1, <2>1, SeqDef
<1>6. \A j, h \in DOMAIN Packed(k) : j # h => Old(j) # Old(h)
  BY <1>3
<1> HIDE DEF Old
<1>7. {Packed(k)[j].fd : j \in DOMAIN Packed(k)} = Connections \ {fds[k].fd}
  <2>1. {Packed(k)[j].fd : j \in DOMAIN Packed(k)} = {fds[m].fd : m \in DOMAIN fds \ {k}}
    BY <1>3, <1>4
  <2> QED BY <2>1 DEF PollExact
<1>8. \A j, h \in DOMAIN Packed(k) : j # h => Packed(k)[j].fd # Packed(k)[h].fd
  BY <1>3, <1>6 DEF PollExact
<1> QED BY <1>3, <1>5, <1>7, <1>8

\* A client that hung up is closed and its entry filled by the last one.
LEMMA StepRoundHangup ==
    ASSUME IInv, RoundHangup PROVE IInv'
<1>1. PICK k \in DOMAIN fds :
         /\ At(k) /\ i' = k /\ Closed(fds[k].fd) /\ fds' = Packed(k) /\ users' = Copied(k)
  BY DEF RoundHangup
<1>2. kind = "poll" /\ kind' = "poll" /\ UNCHANGED <<pc, queue>>
  BY <1>1 DEF RoundHangup, At
<1>3. NetInv /\ PollTable /\ PollExact /\ PollWatched
  BY <1>2, PollIInv
<1> DEFINE fd == fds[k].fd
           last == fds[Len(fds)].fd
<1>4. fd \in Connections /\ fd \in Fds /\ i' \in Nat /\ last \in Fds
  BY <1>1, <1>3, EntryOf
<1>5. NetInv' /\ Connections' = Connections \ {fd}
  BY <1>1, <1>2, <1>3, <1>4, NetClosed
<1>6. users' \in [Fds -> UserEntry] /\ \A f \in Fds : f # fd => users'[f] = users[f]
  BY <1>1, <1>3, <1>4 DEF Copied, PollTable
<1>7. PollTable'
  BY <1>1, <1>2, <1>3, <1>6, PackedIs DEF PollTable
<1>8. PollExact'
  BY <1>1, <1>3, <1>5, PackedIs DEF PollExact
<1>9. PollWatched'
  <2> SUFFICES ASSUME NEW j \in DOMAIN fds', fds'[j].events = "out"
               PROVE  users'[fds'[j].fd].write_buf # Null
    BY <1>2, <1>3 DEF PollWatched
  <2>1. PICK m \in DOMAIN fds : m # k /\ fds'[j] = fds[m]
    BY <1>1, <1>3, PackedIs
  <2>2. fds[m].fd # fd /\ fds[m].fd \in Fds
    BY <1>3, <2>1, EntryOf DEF PollExact
  <2> QED BY <1>3, <1>6, <2>1, <2>2 DEF PollWatched
<1> QED BY <1>2, <1>5, <1>7, <1>8, <1>9, PollIInvNext

\* The table after everybody but fd is told to write.
LEMMA ToldIs ==
    ASSUME NEW table \in Seq(PollEntry), NEW fd
    PROVE  /\ Told(table, fd) \in Seq(PollEntry)
           /\ DOMAIN Told(table, fd) = DOMAIN table
           /\ \A j \in DOMAIN table :
                /\ Told(table, fd)[j].fd = table[j].fd
                /\ table[j].fd = fd => Told(table, fd)[j].events = table[j].events
<1>1. DOMAIN table = 1..Len(table) /\ Len(table) \in Nat
      /\ \A j \in DOMAIN table : table[j] \in PollEntry
  BY LenProperties, ElementOfSeq
<1>2. DOMAIN Told(table, fd) = DOMAIN table
  BY DEF Told
<1>3. \A j \in DOMAIN table :
        /\ Told(table, fd)[j] \in PollEntry
        /\ Told(table, fd)[j].fd = table[j].fd
        /\ table[j].fd = fd => Told(table, fd)[j].events = table[j].events
  BY <1>1 DEF Told, PollEntry, Events
<1>4. Told(table, fd) \in [1..Len(table) -> PollEntry]
  BY <1>1, <1>2, <1>3 DEF Told
<1> QED BY <1>1, <1>2, <1>3, <1>4, SeqDef

\* The entries of users when the text is in the buffer of fd.
LEMMA PointedIs ==
    ASSUME NEW us \in [Fds -> UserEntry], NEW table \in Seq(PollEntry), NEW fd \in Fds
    PROVE  /\ Pointed(us, table, fd) \in [Fds -> UserEntry]
           /\ \A j \in DOMAIN table : table[j].fd # fd =>
                Pointed(us, table, fd)[table[j].fd].write_buf # Null
           /\ Pointed(us, table, fd)[fd] = us[fd]
<1>1. Pointed(us, table, fd) \in [Fds -> UserEntry]
  BY DEF Pointed, UserEntry
<1>2. \A j \in DOMAIN table : table[j].fd \in Fds
  <2>1. DOMAIN table = 1..Len(table) /\ \A j \in DOMAIN table : table[j] \in PollEntry
    BY ElementOfSeq, LenProperties
  <2> QED BY <2>1 DEF PollEntry
<1>3. \A j \in DOMAIN table : table[j].fd # fd =>
        Pointed(us, table, fd)[table[j].fd].write_buf = fd
  BY <1>2 DEF Pointed, UserEntry
<1>4. Pointed(us, table, fd)[fd] = us[fd]
  BY DEF Pointed
<1> QED BY <1>1, <1>3, <1>4, Numbers

\* After a text from fd, or an error there, everybody else has something to
\* write, and fd what it had before.
LEMMA ToldKeeps ==
    ASSUME NetInv, NEW table \in Seq(PollEntry), NEW us \in [Fds -> UserEntry], NEW fd \in Fds,
           {table[j].fd : j \in DOMAIN table} = Connections',
           \A j, h \in DOMAIN table : j # h => table[j].fd # table[h].fd,
           \A j \in DOMAIN table :
             table[j].fd = fd /\ table[j].events = "out" => us[fd].write_buf # Null,
           fds' = Told(table, fd), users' = Pointed(us, table, fd), pc' = "round"
    PROVE  PollTable' /\ PollExact' /\ PollWatched'
<1>1. /\ fds' \in Seq(PollEntry) /\ DOMAIN fds' = DOMAIN table
      /\ \A j \in DOMAIN table : /\ fds'[j].fd = table[j].fd
                                 /\ table[j].fd = fd => fds'[j].events = table[j].events
  BY ToldIs
<1>2. /\ users' \in [Fds -> UserEntry]
      /\ \A j \in DOMAIN table : table[j].fd # fd => users'[table[j].fd].write_buf # Null
      /\ users'[fd] = us[fd]
  BY PointedIs
<1>3. {fds'[j].fd : j \in DOMAIN fds'} = {table[j].fd : j \in DOMAIN table}
  BY <1>1
<1>4. PollTable'
  BY <1>1, <1>2 DEF PollTable
<1>5. PollExact'
  BY <1>1, <1>3 DEF PollExact
<1>6. PollWatched'
  BY <1>1, <1>2 DEF PollWatched
<1> QED BY <1>4, <1>5, <1>6

\* A client is read; whatever comes, the others are told, even of an error.
LEMMA StepRoundRead ==
    ASSUME IInv, RoundRead PROVE IInv'
<1>1. PICK k \in DOMAIN fds : LET fd == fds[k].fd IN
         /\ At(k) /\ fds[k].revents = {"in"}
         /\ \E n \in RecvResults(fd) :
              \/ /\ n < 0 /\ Closed(fd) /\ i' = k
                 /\ fds' = Told(Packed(k), fd)
                 /\ users' = Pointed([Copied(k) EXCEPT ![fd].buf =
                                        IF k = Len(fds) THEN Nobody ELSE @], Packed(k), fd)
              \/ /\ n = 0 /\ i' = k + 1 /\ UNCHANGED <<st, inbox, peer, fds>>
                 /\ users' = [users EXCEPT ![fd].buf = Nobody]
              \/ /\ n > 0 /\ i' = k + 1
                 /\ inbox' = [inbox EXCEPT ![peer[fd]] = @ - n]
                 /\ fds' = Told(fds, fd)
                 /\ users' = Pointed([users EXCEPT ![fd].buf = peer[fd]], fds, fd)
                 /\ UNCHANGED <<st, peer>>
  BY DEF RoundRead
<1> DEFINE fd == fds[k].fd
           last == fds[Len(fds)].fd
<1>2. kind = "poll" /\ kind' = "poll" /\ UNCHANGED <<pc, queue>> /\ pc = "round" /\ pc' = "round"
  BY <1>1 DEF RoundRead, At
<1>3. NetInv /\ PollTable /\ PollExact /\ PollWatched
  BY <1>2, PollIInv
<1>4. fd \in Connections /\ fd \in Fds /\ k \in Nat /\ last \in Fds /\ peer[fd] \in Clients
      /\ fds[k].fd = fd
  BY <1>1, <1>3, EntryOf
<1>5. CASE /\ Closed(fd) /\ i' = k /\ fds' = Told(Packed(k), fd)
           /\ users' = Pointed([Copied(k) EXCEPT ![fd].buf =
                                  IF k = Len(fds) THEN Nobody ELSE @], Packed(k), fd)
  <2> DEFINE us == [Copied(k) EXCEPT ![fd].buf = IF k = Len(fds) THEN Nobody ELSE @]
  <2>1. NetInv' /\ Connections' = Connections \ {fd}
    BY <1>2, <1>3, <1>4, <1>5, NetClosed
  <2>2. us \in [Fds -> UserEntry]
    BY <1>3, <1>4 DEF Copied, PollTable, UserEntry
  <2>3. /\ Packed(k) \in Seq(PollEntry)
        /\ {Packed(k)[j].fd : j \in DOMAIN Packed(k)} = Connections'
        /\ \A j, h \in DOMAIN Packed(k) : j # h => Packed(k)[j].fd # Packed(k)[h].fd
    BY <1>3, <2>1, PackedIs
  <2>4. \A j \in DOMAIN Packed(k) : Packed(k)[j].fd # fd
    BY <2>1, <2>3
  <2>5. fds' = Told(Packed(k), fd) /\ users' = Pointed(us, Packed(k), fd)
    BY <1>5
  <2> HIDE DEF us, fd
  <2>6. PollTable' /\ PollExact' /\ PollWatched'
    BY <1>2, <1>3, <1>4, <2>2, <2>3, <2>4, <2>5, ToldKeeps
  <2> QED BY <1>2, <2>1, <2>6, PollIInvNext
<1>6. CASE /\ i' = k + 1 /\ UNCHANGED <<st, inbox, peer, fds>>
           /\ users' = [users EXCEPT ![fd].buf = Nobody]
  <2>1. NetInv' /\ Connections' = Connections
    BY <1>2, <1>3, <1>4, <1>6 DEF NetInv, Connections
  <2>2. users' \in [Fds -> UserEntry] /\ \A f \in Fds : users'[f].write_buf = users[f].write_buf
    BY <1>3, <1>4, <1>6 DEF PollTable, UserEntry
  <2>3. \A j \in DOMAIN fds : fds[j].fd \in Fds
    BY <1>3, EntryOf
  <2>4. PollTable' /\ PollExact' /\ PollWatched'
    BY <1>2, <1>3, <1>6, <2>1, <2>2, <2>3 DEF PollTable, PollExact, PollWatched
  <2> QED BY <1>2, <2>1, <2>4, PollIInvNext
<1>7. ASSUME NEW n \in RecvResults(fd), n > 0, i' = k + 1,
             inbox' = [inbox EXCEPT ![peer[fd]] = @ - n], fds' = Told(fds, fd),
             users' = Pointed([users EXCEPT ![fd].buf = peer[fd]], fds, fd), UNCHANGED <<st, peer>>
      PROVE  IInv'
  <2> DEFINE us == [users EXCEPT ![fd].buf = peer[fd]]
  <2>1. inbox' \in [Clients -> Nat] /\ i' \in Nat
    BY <1>3, <1>4, <1>7 DEF RecvResults, NetInv
  <2>2. NetInv' /\ Connections' = Connections
    BY <1>2, <1>3, <1>7, <2>1 DEF NetInv, Connections
  <2>3. us \in [Fds -> UserEntry] /\ us[fd].write_buf = users[fd].write_buf
    BY <1>3, <1>4 DEF PollTable, UserEntry
  <2>4. \A j \in DOMAIN fds : fds[j].fd = fd /\ fds[j].events = "out" => us[fd].write_buf # Null
    BY <1>3, <2>3 DEF PollWatched
  <2>5. fds \in Seq(PollEntry) /\ {fds[j].fd : j \in DOMAIN fds} = Connections'
        /\ \A j, h \in DOMAIN fds : j # h => fds[j].fd # fds[h].fd
    BY <1>3, <2>2 DEF PollTable, PollExact
  <2>6. fds' = Told(fds, fd) /\ users' = Pointed(us, fds, fd)
    BY <1>7
  <2> HIDE DEF us, fd
  <2>7. PollTable' /\ PollExact' /\ PollWatched'
    BY <1>2, <1>3, <1>4, <2>3, <2>4, <2>5, <2>6, ToldKeeps
  <2> QED BY <1>2, <2>2, <2>7, PollIInvNext
<1> QED BY <1>1, <1>5, <1>6, <1>7

\* A client gets its text, if there still is one.
LEMMA StepRoundWrite ==
    ASSUME IInv, RoundWrite PROVE IInv'
<1>1. PICK k \in DOMAIN fds : LET fd == fds[k].fd
                                  from == users[fd].write_buf
                                  s == st[peer[fd]]
       IN /\ At(k) /\ fds[k].revents = {"out"}
          /\ \/ from = Null /\ i' = k + 1 /\ UNCHANGED <<pc, st, fds, users>>
             \/ from # Null /\ Sigpipe(s) /\ pc' = "killed" /\ UNCHANGED <<i, st, fds, users>>
             \/ /\ from # Null /\ ~Sigpipe(s)
                /\ st' = [st EXCEPT ![peer[fd]] = AfterWrite(s, users[from].buf = Nobody)]
                /\ users' = [users EXCEPT ![fd].write_buf = Null]
                /\ fds' = [fds EXCEPT ![k].events = "in"]
                /\ i' = k + 1 /\ UNCHANGED pc
  BY DEF RoundWrite
<1> DEFINE fd == fds[k].fd
           from == users[fd].write_buf
           s == st[peer[fd]]
<1>2. /\ kind = "poll" /\ kind' = "poll" /\ pc = "round"
      /\ UNCHANGED <<queue, inbox, sends, full, peer>>
  BY <1>1 DEF RoundWrite, At
<1>3. NetInv /\ PollTable /\ PollExact /\ PollWatched
  BY <1>2, PollIInv
<1>4. fd \in Connections /\ fd \in Fds /\ k \in Nat /\ peer[fd] \in Clients /\ k \in 1..Len(fds)
  BY <1>1, <1>3, EntryOf
<1>5. CASE i' \in {i, k + 1} /\ pc' \in {pc, "killed"} /\ UNCHANGED <<st, fds, users>>
  <2>1. NetInv' /\ Connections' = Connections
    BY <1>2, <1>3, <1>4, <1>5 DEF NetInv, Connections
  <2> QED BY <1>2, <1>3, <1>5, <2>1, PollIInvNext DEF PollTable, PollExact, PollWatched
<1>6. CASE /\ st' = [st EXCEPT ![peer[fd]] = AfterWrite(s, users[from].buf = Nobody)]
           /\ users' = [users EXCEPT ![fd].write_buf = Null]
           /\ fds' = [fds EXCEPT ![k].events = "in"]
           /\ i' = k + 1 /\ UNCHANGED pc
  <2>1. NetInv' /\ Connections' = Connections
    <3>1. AfterWrite(s, users[from].buf = Nobody) \in StatesOfClient \ {"away"}
      BY <1>3, <1>4 DEF NetInv, AfterWrite, StatesOfClient
    <3>2. i' \in Nat /\ inbox' \in [Clients -> Nat]
      BY <1>2, <1>3, <1>4, <1>6 DEF NetInv
    <3> QED BY <1>2, <1>3, <1>4, <1>6, <3>1, <3>2, NetState DEF Connections
  <2>2. /\ users' \in [Fds -> UserEntry] /\ \A f \in Fds : f # fd => users'[f] = users[f]
    BY <1>3, <1>4, <1>6 DEF PollTable, UserEntry
  <2>3. /\ [fds[k] EXCEPT !.events = "in"] \in PollEntry /\ fds' = [fds EXCEPT ![k] = [fds[k] EXCEPT !.events = "in"]]
    BY <1>3, <1>6, EntryOf DEF PollEntry, Events
  <2>4. /\ fds' \in Seq(PollEntry) /\ DOMAIN fds' = DOMAIN fds
        /\ \A j \in DOMAIN fds : j # k => fds'[j] = fds[j]
        /\ fds'[k] = [fds[k] EXCEPT !.events = "in"]
    BY <1>3, <1>4, <2>3, ExceptSeq, LenProperties DEF PollTable
  <2>5. fds'[k].fd = fd /\ fds'[k].events = "in"
    BY <1>3, <2>4, EntryOf DEF PollEntry
  <2>6. PollTable'
    BY <1>2, <1>3, <1>6, <2>2, <2>4 DEF PollTable
  <2>7. PollExact'
    <3>1. \A j \in DOMAIN fds : fds'[j].fd = fds[j].fd
      BY <2>4, <2>5
    <3>2. {fds'[j].fd : j \in DOMAIN fds'} = {fds[j].fd : j \in DOMAIN fds}
      BY <2>4, <3>1
    <3> QED BY <1>3, <2>1, <2>4, <3>1, <3>2 DEF PollExact
  <2>8. PollWatched'
    <3>1. \A j \in DOMAIN fds : j # k => fds[j].fd # fd /\ fds[j].fd \in Fds
      BY <1>3, EntryOf DEF PollExact
    <3> QED BY <1>2, <1>3, <1>6, <2>2, <2>4, <2>5, <3>1 DEF PollWatched
  <2> QED BY <1>2, <2>1, <2>6, <2>7, <2>8, PollIInvNext
<1> QED BY <1>1, <1>5, <1>6

\* Every step of the poll server.
LEMMA StepPollServer ==
    ASSUME IInv, PollServer PROVE IInv'
BY StepPoll, StepAccept, StepRoundEnd, StepRoundError, StepRoundHangup, StepRoundRead, StepRoundWrite
DEF PollServer, PollNext

-----------------------------------------------------------------------------
(* The echo and the file server *)

\* What EpollInv and WatchedOnce say of the servers that use epoll.
EpollTable ==
    /\ edges \subseteq Fds \cup {Listen, Udp} /\ events \subseteq Fds \cup {Listen, Udp}
    /\ pc = "wait" => events = {}
    /\ Listen \in events => queue # <<>>
    /\ events \cap Fds \subseteq Connections
EpollWatched ==
    /\ pc # "fault"
    /\ kind = "echo" => \A f \in Connections : Readable(f) => f \in edges \cup events

\* The invariant of a behaviour of one of them.
LEMMA EpollIInv ==
    ASSUME kind \in EpollKinds
    PROVE  IInv <=> NetInv /\ EpollTable /\ EpollWatched
BY DEF IInv, SelectInv, PollInv, EpollInv, EpollKinds, TableExact, WatchedOnce, Chats,
       EpollTable, EpollWatched

\* The same for the next state.
LEMMA EpollIInvNext ==
    ASSUME kind' \in EpollKinds
    PROVE  IInv' <=> NetInv' /\ EpollTable' /\ EpollWatched'
BY DEF IInv, SelectInv, PollInv, EpollInv, EpollKinds, TableExact, WatchedOnce, Chats,
       EpollTable, EpollWatched

\* epoll_wait takes every edge of which something is left.
LEMMA StepEpollWait ==
    ASSUME IInv, EpollWait PROVE IInv'
<1>1. kind \in EpollKinds /\ kind' \in EpollKinds /\ pc = "wait" /\ pc' = "round" /\ i' = i
  BY DEF EpollWait
<1>2. NetInv /\ EpollTable /\ EpollWatched /\ i \in Nat
  BY <1>1, EpollIInv DEF NetInv
<1>3. NetInv' /\ Connections' = Connections /\ UNCHANGED <<queue, peer, inbox, st>>
  BY <1>1, <1>2, NetUnchanged DEF EpollWait, netVars, Connections
<1>4. /\ events' \subseteq edges \cup LevelTriggered
      /\ Listen \in events' => queue # <<>>
      /\ \A f \in Fds : f \in events' <=> /\ f \in edges \cup LevelTriggered
                                          /\ peer[f] # Nobody /\ Readable(f)
  BY Numbers DEF EpollWait
<1>5. EpollTable'
  BY <1>1, <1>2, <1>3, <1>4 DEF EpollTable, EpollWait, LevelTriggered, Connections
<1>6. EpollWatched'
  BY <1>1, <1>2, <1>3, <1>4 DEF EpollTable, EpollWatched, EpollWait, Readable, Connections
<1> QED BY <1>1, <1>3, <1>5, <1>6, EpollIInvNext

\* The loop is done with an event.
LEMMA HandledKeeps ==
    ASSUME EpollTable, NEW f, Handled(f), edges' \subseteq Fds \cup {Listen, Udp},
           Listen \in events' => queue' # <<>>, events' \cap Fds \subseteq Connections'
    PROVE  EpollTable' /\ i' \in Nat /\ pc' # "fault" /\ events' = events \ {f}
BY DEF EpollTable, Handled

\* A connection is accepted, refused for want of a descriptor, or found reset.
LEMMA StepEpollAccept ==
    ASSUME IInv, EpollAccept PROVE IInv'
<1>1. kind \in EpollKinds /\ kind' = kind /\ Listen \in events /\ Handled(Listen)
  BY DEF EpollAccept
<1>2. NetInv /\ EpollTable /\ EpollWatched /\ i' \in Nat /\ Listen \notin events'
      /\ events' \cap Fds = events \cap Fds
  BY <1>1, EpollIInv, Numbers DEF Handled
<1>3. queue # <<>>
  BY <1>1, <1>2 DEF EpollTable
<1>4. CASE UNCHANGED <<netVars, edges>>
  <2>1. NetInv' /\ Connections' = Connections
    BY <1>1, <1>2, <1>4, NetUnchanged DEF netVars, Connections
  <2>2. EpollTable' /\ pc' # "fault"
    BY <1>1, <1>2, <1>4, <2>1, HandledKeeps DEF EpollTable
  <2>3. EpollWatched'
    BY <1>1, <1>2, <1>4, <2>1, <2>2 DEF EpollWatched, Readable, netVars, Connections
  <2> QED BY <1>1, <2>1, <2>2, <2>3, EpollIInvNext
<1>5. CASE /\ queue' = Tail(queue) /\ st' = [st EXCEPT ![Head(queue)] = "out"]
           /\ UNCHANGED <<inbox, peer, edges>>
  <2>1. NetInv' /\ Connections' = Connections
        /\ \A h \in Connections : st'[peer[h]] = st[peer[h]]
    BY <1>1, <1>2, <1>3, <1>5, NetDropped
  <2>2. EpollTable' /\ pc' # "fault"
    BY <1>1, <1>2, <1>5, <2>1, HandledKeeps DEF EpollTable
  <2>3. EpollWatched'
    BY <1>1, <1>2, <1>5, <2>1, <2>2 DEF EpollWatched, Readable, Connections
  <2> QED BY <1>1, <2>1, <2>2, <2>3, EpollIInvNext
<1>6. CASE LET c == Head(queue) IN
           /\ Free # {}
           /\ peer' = [peer EXCEPT ![Min(Free)] = c] /\ queue' = Tail(queue)
           /\ edges' = IF inbox[c] > 0 \/ st[c] # "in" THEN edges \cup {Min(Free)} ELSE edges
           /\ UNCHANGED <<st, inbox>>
  <2> DEFINE fd == Min(Free)
  <2>1. fd \in Free
    BY <1>6, MinIn, Numbers DEF Free
  <2>2. fd \in Fds
    BY <2>1 DEF Free
  <2>3. /\ edges' \subseteq edges \cup {fd} /\ edges \subseteq edges'
        /\ inbox[Head(queue)] > 0 \/ st[Head(queue)] # "in" => fd \in edges'
        /\ peer' = [peer EXCEPT ![fd] = Head(queue)] /\ queue' = Tail(queue)
        /\ UNCHANGED <<st, inbox>>
    BY <1>6
  <2> HIDE DEF fd
  <2>4. NetInv' /\ Connections' = Connections \cup {fd} /\ fd \notin Connections
        /\ peer'[fd] = Head(queue) /\ \A h \in Connections : peer'[h] = peer[h]
    BY <1>1, <1>2, <1>3, <2>1, <2>3, NetAccepted
  <2>5. EpollTable' /\ pc' # "fault"
    BY <1>1, <1>2, <2>2, <2>3, <2>4, HandledKeeps DEF EpollTable
  <2>6. EpollWatched'
    BY <1>1, <1>2, <2>2, <2>3, <2>4, <2>5 DEF EpollWatched, Readable, Connections
  <2> QED BY <1>1, <2>4, <2>5, <2>6, EpollIInvNext
<1> QED BY <1>4, <1>5, <1>6 DEF EpollAccept

\* A datagram is echoed.
LEMMA StepEchoDatagram ==
    ASSUME IInv, EchoDatagram PROVE IInv'
<1>1. kind \in EpollKinds /\ kind' = kind /\ Handled(Udp)
  BY DEF EchoDatagram, EpollKinds
<1>2. NetInv /\ EpollTable /\ EpollWatched /\ i' \in Nat /\ events' = events \ {Udp}
  BY <1>1, EpollIInv DEF Handled
<1>3. NetInv' /\ Connections' = Connections /\ UNCHANGED <<queue, st, inbox, peer, edges>>
  BY <1>1, <1>2, NetUnchanged DEF EchoDatagram, netVars, Connections
<1>4. EpollTable' /\ pc' # "fault"
  BY <1>1, <1>2, <1>3, HandledKeeps DEF EpollTable
<1>5. EpollWatched'
  BY <1>1, <1>2, <1>3, <1>4, Numbers DEF EpollWatched, Readable, Connections
<1> QED BY <1>1, <1>3, <1>4, <1>5, EpollIInvNext

\* A connection that was reported is at its end, and closed.
LEMMA EpollClosed ==
    ASSUME IInv, kind \in EpollKinds, NEW f \in events \cap Fds, Closed(f), edges' = edges \ {f},
           Handled(f), UNCHANGED <<kind, queue>>
    PROVE  IInv'
<1>1. NetInv /\ EpollTable /\ EpollWatched /\ f \in Connections /\ i' \in Nat
      /\ events' = events \ {f}
  BY EpollIInv DEF EpollTable, Handled
<1>2. NetInv' /\ Connections' = Connections \ {f}
      /\ \A h \in Connections' : /\ peer'[h] = peer[h] /\ st'[peer[h]] = st[peer[h]]
                                 /\ inbox'[peer[h]] = inbox[peer[h]]
  BY <1>1, NetClosed
<1>3. EpollTable' /\ pc' # "fault"
  BY <1>1, <1>2, HandledKeeps DEF EpollTable
<1>4. EpollWatched'
  BY <1>1, <1>2, <1>3 DEF EpollWatched, Readable
<1> QED BY <1>2, <1>3, <1>4, EpollIInvNext

\* Something is read from a connection that was reported, and answered.
LEMMA EpollRead ==
    ASSUME NetInv, NEW f \in Connections, NEW n \in RecvResults(f), n > 0,
           NEW s \in {st[peer[f]], AfterWrite(st[peer[f]], FALSE)},
           inbox' = [inbox EXCEPT ![peer[f]] = @ - n], st' = [st EXCEPT ![peer[f]] = s],
           UNCHANGED <<kind, queue, peer>>, i' \in Nat
    PROVE  NetInv' /\ Connections' = Connections
           /\ \A h \in Connections : h # f => (Readable(h)' <=> Readable(h))
<1>1. peer[f] \in Clients /\ st[peer[f]] \in StatesOfClient \ {"away"}
      /\ inbox[peer[f]] \in Nat /\ Connections' = Connections
  BY DEF NetInv, Connections
<1>2. s \in StatesOfClient \ {"away"}
  BY <1>1 DEF AfterWrite, StatesOfClient
<1>3. inbox' \in [Clients -> Nat]
  BY <1>1 DEF NetInv, RecvResults
<1>4. NetInv'
  BY <1>2, <1>3, NetState
<1>5. \A h \in Connections : h # f => peer[h] # peer[f] /\ peer[h] \in Clients
  BY DEF NetInv, Connections
<1>6. \A h \in Connections : h # f => inbox'[peer'[h]] = inbox[peer[h]] /\ st'[peer'[h]] = st[peer[h]]
  BY <1>5 DEF NetInv
<1> QED BY <1>1, <1>4, <1>6 DEF Readable

\* The loop of the echo server around recv.
LEMMA StepEchoRecv ==
    ASSUME IInv, EchoRecv PROVE IInv'
<1>1. PICK f \in events \cap Fds : LET s == st[peer[f]] IN
            \/ ~Readable(f) /\ Handled(f) /\ UNCHANGED <<netVars, edges>>
            \/ \E n \in RecvResults(f) :
                    \/ /\ Closed(f) /\ edges' = edges \ {f}
                       /\ Handled(f) /\ UNCHANGED queue
                    \/ pc' = "killed" /\ UNCHANGED <<i, netVars, edges, events>>
                    \/ /\ n > 0 /\ i' = f
                       /\ inbox' = [inbox EXCEPT ![peer[f]] = @ - n]
                       /\ st' = [st EXCEPT ![peer[f]] = AfterWrite(s, FALSE)]
                       /\ UNCHANGED <<pc, queue, peer, edges, events>>
  BY DEF EchoRecv
<1>2. kind \in EpollKinds /\ kind' = kind /\ kind' \in EpollKinds /\ pc = "round"
  BY DEF EchoRecv, EpollKinds
<1>3. NetInv /\ EpollTable /\ EpollWatched /\ f \in Connections /\ f \in Nat /\ i \in Nat
  BY <1>1, <1>2, EpollIInv, Numbers DEF EpollTable, NetInv
<1>4. CASE ~Readable(f) /\ Handled(f) /\ UNCHANGED <<netVars, edges>>
  <2>1. i' \in Nat /\ events' = events \ {f}
    BY <1>4 DEF Handled
  <2>2. NetInv' /\ Connections' = Connections /\ UNCHANGED <<queue, st, inbox, peer>>
    BY <1>2, <1>3, <1>4, <2>1, NetUnchanged DEF netVars, Connections
  <2>3. EpollTable' /\ pc' # "fault"
    BY <1>2, <1>3, <1>4, <2>1, <2>2, HandledKeeps DEF EpollTable
  <2>4. EpollWatched'
    BY <1>2, <1>3, <1>4, <2>1, <2>2, <2>3 DEF EpollWatched, Readable
  <2> QED BY <1>2, <2>2, <2>3, <2>4, EpollIInvNext
<1>5. CASE Closed(f) /\ edges' = edges \ {f} /\ Handled(f) /\ UNCHANGED queue
  BY <1>2, <1>5, EpollClosed
<1>6. CASE pc' = "killed" /\ UNCHANGED <<i, netVars, edges, events>>
  <2>1. NetInv' /\ Connections' = Connections /\ UNCHANGED <<queue, st, inbox, peer>>
    BY <1>2, <1>3, <1>6, NetUnchanged DEF netVars, Connections
  <2>2. EpollTable' /\ EpollWatched'
    BY <1>2, <1>3, <1>6, <2>1 DEF EpollTable, EpollWatched, Readable
  <2> QED BY <1>2, <2>1, <2>2, EpollIInvNext
<1>7. ASSUME NEW n \in RecvResults(f), n > 0, i' = f,
             inbox' = [inbox EXCEPT ![peer[f]] = @ - n],
             st' = [st EXCEPT ![peer[f]] = AfterWrite(st[peer[f]], FALSE)],
             UNCHANGED <<pc, queue, peer, edges, events>>
      PROVE  IInv'
  <2>1. NetInv' /\ Connections' = Connections
        /\ \A h \in Connections : h # f => (Readable(h)' <=> Readable(h))
    BY <1>2, <1>3, <1>7, EpollRead
  <2>2. EpollTable' /\ EpollWatched'
    BY <1>2, <1>3, <1>7, <2>1 DEF EpollTable, EpollWatched
  <2> QED BY <1>2, <2>1, <2>2, EpollIInvNext
<1> QED BY <1>1, <1>4, <1>5, <1>6, <1>7

\* A request to the file server.
LEMMA StepFileServe ==
    ASSUME IInv, FileServe PROVE IInv'
<1>1. PICK f \in events \cap Fds : \E n \in RecvResults(f) :
           \/ /\ Closed(f) /\ edges' = edges \ {f}
              /\ Handled(f) /\ UNCHANGED queue
           \/ pc' = "killed" /\ UNCHANGED <<i, netVars, edges, events>>
           \/ /\ n > 0 /\ inbox' = [inbox EXCEPT ![peer[f]] = @ - n]
              /\ \E s \in {st[peer[f]], AfterWrite(st[peer[f]], FALSE)} :
                   st' = [st EXCEPT ![peer[f]] = s]
              /\ Handled(f) /\ UNCHANGED <<queue, peer, edges>>
  BY DEF FileServe
<1>2. kind = "file" /\ kind' = kind /\ kind' \in EpollKinds /\ pc = "round"
  BY DEF FileServe, EpollKinds
<1>3. NetInv /\ EpollTable /\ EpollWatched /\ f \in Connections /\ i \in Nat
  BY <1>2, EpollIInv DEF EpollTable, NetInv
<1>4. CASE Closed(f) /\ edges' = edges \ {f} /\ Handled(f) /\ UNCHANGED queue
  BY <1>2, <1>4, EpollClosed
<1>5. CASE pc' = "killed" /\ UNCHANGED <<i, netVars, edges, events>>
  <2>1. NetInv' /\ Connections' = Connections /\ UNCHANGED <<queue, st, inbox, peer>>
    BY <1>2, <1>3, <1>5, NetUnchanged DEF netVars, Connections
  <2>2. EpollTable' /\ EpollWatched'
    BY <1>2, <1>3, <1>5, <2>1 DEF EpollTable, EpollWatched
  <2> QED BY <1>2, <2>1, <2>2, EpollIInvNext
<1>6. ASSUME NEW n \in RecvResults(f), n > 0, inbox' = [inbox EXCEPT ![peer[f]] = @ - n],
             NEW s \in {st[peer[f]], AfterWrite(st[peer[f]], FALSE)},
             st' = [st EXCEPT ![peer[f]] = s], Handled(f), UNCHANGED <<queue, peer, edges>>
      PROVE  IInv'
  <2>1. i' \in Nat /\ events' = events \ {f}
    BY <1>6 DEF Handled
  <2>2. NetInv' /\ Connections' = Connections
    BY <1>2, <1>3, <1>6, <2>1, EpollRead
  <2>3. EpollTable' /\ pc' # "fault"
    BY <1>3, <1>6, <2>1, <2>2, HandledKeeps DEF EpollTable
  <2> QED BY <1>2, <2>2, <2>3, EpollIInvNext DEF EpollWatched
<1> QED BY <1>1, <1>4, <1>5, <1>6

\* Every step of the servers that use epoll.
LEMMA StepEpollServer ==
    ASSUME IInv, EpollServer PROVE IInv'
BY StepEpollWait, StepEpollAccept, StepEchoDatagram, StepEchoRecv, StepFileServe
DEF EpollServer, EpollNext

-----------------------------------------------------------------------------
(* The clients *)

\* A client connects, sends, leaves or stops reading.
LEMMA StepClient ==
    ASSUME IInv, NEW c \in Clients, Client(c) PROVE IInv'
<1>1. /\ Connect(c) \/ Send(c) \/ Leave(c) \/ Stall(c)
      /\ UNCHANGED <<kind, pc, i, selectVars, pollVars, events>>
  BY DEF Client
<1>2. NetInv /\ NetInv' /\ UNCHANGED peer /\ Connections' = Connections
      /\ (queue # <<>> => queue' # <<>>)
  BY <1>1, ClientNet DEF IInv, Connections
<1>3. CASE kind = "select"
  <2>1. SelectTable /\ SelectRound /\ SelectExact /\ SelectWatched
    BY <1>3, SelectIInv
  <2>2. SelectTable' /\ SelectExact' /\ SelectWatched'
    BY <1>1, <1>2, <2>1, SelectUnchanged DEF selectVars, SelectWatched
  <2>3. SelectRound'
    BY <1>1, <1>2, <2>1 DEF SelectRound, selectVars
  <2> QED BY <1>1, <1>2, <1>3, <2>2, <2>3, SelectIInvNext
<1>4. CASE kind = "poll"
  <2>1. PollTable /\ PollExact /\ PollWatched
    BY <1>4, PollIInv
  <2>2. PollTable' /\ PollExact' /\ PollWatched'
    BY <1>1, <1>2, <2>1 DEF PollTable, PollExact, PollWatched, pollVars
  <2> QED BY <1>1, <1>2, <1>4, <2>2, PollIInvNext
<1>5. CASE kind \in EpollKinds
  <2>1. EpollTable /\ EpollWatched
    BY <1>5, EpollIInv
  <2>2. edges \subseteq edges' /\ edges' \subseteq edges \cup Fds \cup {Listen}
    BY DEF Client, News
  <2>3. \A f \in Connections : Readable(f)' /\ ~Readable(f) => f \in edges'
    <3> SUFFICES ASSUME NEW f \in Connections, Readable(f)', ~Readable(f) PROVE f \in edges'
      OBVIOUS
    <3>1. ~Connect(c) /\ ~Stall(c) /\ peer[f] = c
      BY <1>1, <1>2, ClientRead
    <3>2. News({h \in Fds : peer[h] = c})
      BY <3>1 DEF Client
    <3> QED BY <1>5, <3>1, <3>2 DEF News, Connections
  <2>4. EpollTable' /\ EpollWatched'
    BY <1>1, <1>2, <2>1, <2>2, <2>3 DEF EpollTable, EpollWatched
  <2> QED BY <1>1, <1>2, <1>5, <2>4, EpollIInvNext
<1> QED BY <1>2, <1>3, <1>4, <1>5 DEF NetInv, Kinds, Chats

\* A datagram comes, which no connection notices.
LEMMA StepDatagram ==
    ASSUME IInv, DatagramSent PROVE IInv'
<1>1. kind \in EpollKinds /\ kind' \in EpollKinds
      /\ UNCHANGED <<kind, pc, i, queue, st, inbox, peer, events>>
      /\ edges \subseteq edges' /\ edges' \subseteq edges \cup {Udp}
  BY DEF DatagramSent, Datagram, News, EpollKinds
<1>2. NetInv /\ EpollTable /\ EpollWatched
  BY <1>1, EpollIInv
<1>3. NetInv' /\ Connections' = Connections
  BY <1>1, <1>2 DEF NetInv, Connections
<1>4. EpollTable' /\ EpollWatched'
  BY <1>1, <1>2, <1>3 DEF EpollTable, EpollWatched, Readable
<1> QED BY <1>1, <1>3, <1>4, EpollIInvNext

\* Nothing in the invariant is about the clients that do not read, or about
\* how often they have sent.
LEMMA StepQuiet ==
    ASSUME IInv, UNCHANGED <<kind, pc, i, queue, st, inbox, peer, selectVars, pollVars, epollVars>>
    PROVE  IInv'
<1>1. NetInv /\ NetInv' /\ Connections' = Connections
  BY DEF IInv, NetInv, Connections
<1>2. CASE kind = "select"
  <2>1. SelectTable /\ SelectRound /\ SelectExact /\ SelectWatched
    BY <1>2, SelectIInv
  <2>2. SelectTable' /\ SelectExact' /\ SelectWatched'
    BY <2>1, SelectUnchanged DEF selectVars, SelectWatched
  <2>3. SelectRound'
    BY <2>1 DEF SelectRound, selectVars
  <2> QED BY <1>1, <1>2, <2>2, <2>3, SelectIInvNext
<1>3. CASE kind = "poll"
  BY <1>1, <1>3, PollIInv, PollIInvNext DEF PollTable, PollExact, PollWatched, pollVars
<1>4. CASE kind \in EpollKinds
  BY <1>1, <1>4, EpollIInv, EpollIInvNext DEF EpollTable, EpollWatched, Readable, epollVars
<1> QED BY <1>1, <1>2, <1>3, <1>4 DEF NetInv, Kinds, Chats
-----------------------------------------------------------------------------
(* The theorems *)

\* Whichever server starts, the invariant holds.
LEMMA InitIInv ==
    ASSUME Init PROVE IInv
<1>1. NetInv /\ Connections = {}
  <2>1. queue \in Seq(Clients) /\ DOMAIN queue = {}
    BY EmptySeq DEF Init, NetInit
  <2> QED BY <2>1 DEF Init, NetInit, NetInv, Connections, StatesOfClient
<1>2. CASE kind = "select"
  <2>1. SelectTable
    BY NetAssumption, Numbers DEF Init, SelectInit, SelectTable, ClientRecord, InitClient
  <2>2. SelectRound /\ SelectExact /\ SelectWatched
    BY <1>1, Numbers, NetAssumption
    DEF Init, SelectInit, SelectRound, SelectExact, SelectWatched, InitClient
  <2> QED BY <1>1, <1>2, <2>1, <2>2, SelectIInv
<1>3. CASE kind = "poll"
  <2>1. fds = <<>> /\ DOMAIN fds = {} /\ fds \in Seq(PollEntry) /\ users \in [Fds -> UserEntry]
    BY EmptySeq DEF Init, PollInit, UserEntry
  <2> QED BY <1>1, <1>3, <2>1, PollIInv DEF Init, PollTable, PollExact, PollWatched
<1>4. CASE kind \in EpollKinds
  BY <1>1, <1>4, EpollIInv DEF Init, EpollInit, EpollTable, EpollWatched
<1> QED BY <1>1, <1>2, <1>3, <1>4 DEF NetInv, Kinds, Chats

\* Every step, of a server, of a client or of nobody, keeps the invariant.
LEMMA NextIInv ==
    ASSUME IInv, [Next]_vars PROVE IInv'
<1>1. ASSUME NEW c \in Clients, Drained(c) PROVE IInv'
  BY <1>1, StepQuiet DEF Drained, Drain
<1>2. CASE UNCHANGED vars
  BY <1>2, StepQuiet DEF vars, netVars
<1> QED BY <1>1, <1>2, StepSelectServer, StepPollServer, StepEpollServer, StepDatagram, StepClient
        DEF Next

\* The inductive invariant holds in every behaviour of the servers.
THEOREM ServersInvariant == Spec => []IInv
<1>1. Init => IInv
  BY InitIInv
<1>2. IInv /\ [Next]_vars => IInv'
  BY NextIInv
<1> QED BY <1>1, <1>2, PTL DEF Spec

\* Every open connection is in the table of the select server and of the
\* poll server once, and nothing else is, at every point of their loops.
THEOREM ServersTableExact == Spec => []TableExact
BY ServersInvariant, PTL DEF IInv

\* The select server watches a client for writing exactly when it has a text
\* to write to it, and for reading otherwise; the poll server writes none
\* that is not there; the echo server leaves nothing unread that epoll will
\* not announce.
THEOREM ServersWatchedOnce == Spec => []WatchedOnce
BY ServersInvariant, PTL DEF IInv

\* No client of the select server is written a text of its own, whoever the
\* buffer that its pointer leads to belongs to by now.
THEOREM ServersHeardFromOthers == Spec => []HeardFromOthers
<1>1. IInv => HeardFromOthers
  <2> SUFFICES ASSUME IInv, kind = "select", NEW k \in Slots, clients[k].write_buf # Null
               PROVE  /\ ~clients[k].welcome
                      /\ clients[clients[k].write_buf].buf # peer[clients[k].connfd]
    BY DEF HeardFromOthers
  <2> DEFINE from == clients[k].write_buf
             fd == clients[k].connfd
  <2>1. NetInv /\ SelectTable /\ SelectExact /\ SelectWatched
    BY SelectIInv
  <2>2. from \in Slots /\ from # k /\ ~clients[k].welcome
    BY <2>1 DEF SelectTable, ClientRecord
  <2>3. fd \in Connections
    BY <2>1, <2>2, Numbers DEF SelectWatched, SelectTable
  <2>4. CASE clients[from].buf = Nobody
    BY <2>2, <2>3, <2>4 DEF Connections
  <2>5. CASE clients[from].buf # Nobody
    <3>1. clients[from].connfd # Null /\ clients[from].buf = peer[clients[from].connfd]
      BY <2>1, <2>2, <2>5 DEF SelectTable
    <3>2. clients[from].connfd \in Connections /\ clients[from].connfd # fd
      BY <2>1, <2>2, <3>1 DEF SelectExact
    <3> QED BY <2>1, <2>2, <2>3, <3>1, <3>2 DEF NetInv
  <2> QED BY <2>4, <2>5
<1> QED BY <1>1, ServersInvariant, PTL
=============================================================================

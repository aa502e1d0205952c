------------------------------ MODULE ListTimer ------------------------------
(***************************************************************************)
(* sort_timer_lst of lib/lst_timer.hh: a doubly linked list of timers,     *)
(* earliest first.  The links are the fields next and prev of the timers,  *)
(* so they survive a removal, as in the code.                              *)
(***************************************************************************)
EXTENDS TimerBase

EmptyList == [head |-> Null, tail |-> Null, next |-> NoLinks, prev |-> NoLinks]

\* The private add_timer: the timer goes behind the last one that is earlier.
InsertAfter(b, e, t) ==
    LET c == Chain(b.next, b.head)
        Ends(i) == b.next[c[i]] = Null \/ e[b.next[c[i]]] >= e[t]
    IN c[CHOOSE i \in DOMAIN c : Ends(i) /\ \A k \in 1..(i - 1) : ~Ends(k)]

Insert(b, e, t) ==
    LET cur == InsertAfter(b, e, t)
        after == b.next[cur]
    IN IF after # Null
       THEN [b EXCEPT !.next = [@ EXCEPT ![t] = after, ![cur] = t],
                      !.prev = [@ EXCEPT ![after] = t, ![t] = cur]]
       ELSE [b EXCEPT !.next = [@ EXCEPT ![t] = Null, ![cur] = t],
                      !.prev[t] = cur, !.tail = t]

\* Does the timer become the head; the faulty variant tests the wrong way.
BeforeHead_Swapped(b, e, t) == e[b.head] <= e[t]
BeforeHead(b, e, t) == e[b.head] >= e[t]

ListAdd(b, e, t) ==
    IF b.head = Null THEN Done([b EXCEPT !.head = t, !.tail = t], {}, TRUE)
    ELSE IF BeforeHead(b, e, t)
    THEN Done([b EXCEPT !.next[t] = b.head, !.prev[b.head] = t, !.head = t],
              {}, TRUE)
    ELSE Done(Insert(b, e, t), {}, FALSE)

\* del_timer: tail follows only when the list becomes empty.
Unlink(b, t) ==
    LET p == b.prev[t]
        n == b.next[t]
    IN [b EXCEPT !.next = IF t # b.head THEN [@ EXCEPT ![p] = n] ELSE @,
                 !.prev = IF t # b.tail THEN [@ EXCEPT ![n] = p] ELSE @,
                 !.head = IF t = b.head THEN n ELSE @,
                 !.tail = IF t = b.head /\ n = Null THEN Null ELSE @]

ListDel(b, live, t) ==
    IF \/ t # b.head /\ b.prev[t] \notin live
       \/ t # b.tail /\ b.next[t] \notin live
    THEN Fault(b, "pointer")
    ELSE Done(Unlink(b, t), {}, t = b.head)

\* The test with which adjust_timer leaves the timer where it is.
LeftInPlace(b, e, t) ==
    \/ b.prev[t] = Null \/ e[t] >= e[b.prev[t]]
    \/ b.next[t] = Null \/ e[t] <= e[b.next[t]]

ListAdjust(b, live, e, t) ==
    IF b.prev[t] \notin live \cup {Null} THEN Fault(b, "pointer")
    ELSE IF LeftInPlace(b, e, t) THEN Done(b, {}, FALSE)
    ELSE Then(ListDel(b, live, t), LAMBDA c : ListAdd(c, e, t))

\* tick runs and deletes the expired timers from the head on.
ListTick(b, e, now) ==
    LET c == Chain(b.next, b.head)
        gone == {i \in DOMAIN c : \A k \in 1..i : e[c[k]] <= now}
        rest == IF Cardinality(gone) = Len(c) THEN Null
                ELSE c[Cardinality(gone) + 1]
    IN Done([b EXCEPT !.head = rest,
                      !.prev = IF rest = Null THEN @ ELSE [@ EXCEPT ![rest] = Null]],
            {c[i] : i \in gone}, TRUE)
=============================================================================

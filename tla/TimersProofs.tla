----------------------------- MODULE TimersProofs -----------------------------
(***************************************************************************)
(* The timer containers in use are correct for any number of timers, slots *)
(* and seconds and any order of calls, expiries and ticks: the heap for    *)
(* any calls (AnyUse), the list and the wheel for callers that make none   *)
(* of those that MayAdjust and MayDel of Timers exclude.                   *)
(***************************************************************************)
EXTENDS Timers, ContainerProofs

\* The restriction of every theorem: if the callers may make any call, the
\* container is a heap.  Callers of a list move no deadline past that of a
\* neighbour, nor the first one forward, and do not delete the last of several
\* timers; callers of a wheel move only the first timer of a slot, and one
\* that has a next only to an occupied slot.
Careful == AnyUse => Kinds \subseteq {"heap"}
\* The callbacks of a tick take a second at most.
TicksShort == TickTimes \subseteq {0, 1}

\* Container b of class k holds the timers in C; those in D have no links.
Held(k, b, C, D, e) ==
    /\ k = "heap" => Heap(b, C, e)
    /\ k = "list" => SortedList(b, C, D, e)
    /\ k = "wheel" => WheelOf(b, C, D) /\ TurnsKnown(b)

\* The ticks until the wheel reaches the slot of t, from 1 to N, and until t
\* has waited all its turns.
SlotsTo(slot, cur) == IF slot > cur THEN slot - cur ELSE slot - cur + N
TicksTo(b, t) == SlotsTo(b.slot[t], b.cur) + N * b.rotation[t]
\* A timer of the wheel runs when its caller expects it or a turn later; it
\* may be a second ahead if no tick is due.
InTurn(b, l, e, tm, due, t) ==
    /\ l[t] = TicksTo(b, t) \/ l[t] = TicksTo(b, t) - N
    /\ e[t] - tm <= TicksTo(b, t) + (IF due THEN 0 ELSE 1)
AllInTurn(k, b, C, l, e, tm, due) == k = "wheel" => \A t \in C : InTurn(b, l, e, tm, due, t)

\* The alarm a at time tm is early enough for the timers in C.
Alarmed(k, C, e, tm, a) ==
    \A t \in C : /\ a > 0 /\ (k = "wheel" => a = 1)
                 /\ k # "wheel" => tm <= e[t] /\ (a = 1 \/ tm + a <= e[t])
AlarmKept == mode = "run" /\ ~sigalrm => Alarmed(kind, Armed, expire, now, alarm)

IInv ==
    /\ TypeOK /\ NoFault
    /\ mode = "run" => /\ Held(kind, box, Armed, Timer \ Armed, expire)
                       /\ AllInTurn(kind, box, Armed, left, expire, now, sigalrm)

\* Call r, made on container b with C, D and e, completes and leaves C2, D2
\* and f.  If it does not reset the alarm, no timer expires earlier than one
\* did before.
Outcome(k, r, C, e, C2, D2, f) ==
    /\ r.fault = "none" /\ r.rearm \in BOOLEAN /\ Held(k, r.box, C2, D2, f)
    /\ ~r.rearm => k # "wheel" /\ \A u \in C2 : \E v \in C : e[v] <= f[u]
-----------------------------------------------------------------------------
(* Containers of any class *)

\* The timers of a container are timers, whose expiries are known.
LEMMA HeldTimers ==
    ASSUME NEW k \in AllKinds, NEW b, NEW C, NEW D, NEW e, Held(k, b, C, D, e)
    PROVE  C \subseteq Timer /\ IsFiniteSet(C)
<1>1. ASSUME NEW s, Holds(s, C) PROVE C \subseteq Timer
  BY <1>1, HoldsIs
<1>2. k = "heap" => C \subseteq Timer
  BY <1>1 DEF Held, Heap
<1>3. k = "list" => C \subseteq Timer
  BY <1>1 DEF Held, SortedList, ListOf
<1>4. k = "wheel" => C \subseteq Timer
  BY DEF Held, WheelOf
<1>5. C \subseteq Timer
  BY <1>2, <1>3, <1>4 DEF AllKinds
<1> QED BY <1>5, TimerAssumption, FS_Subset

\* Only the expiries of the timers in the container matter.
LEMMA HeldKeys ==
    ASSUME NEW k \in AllKinds, NEW b, NEW C, NEW D, NEW e, NEW f, Held(k, b, C, D, e),
           \A t \in C : f[t] = e[t]
    PROVE  Held(k, b, C, D, f)
<1>1. CASE k = "heap"
  BY <1>1, HeapOfKeys DEF Held
<1>2. CASE k = "list"
  <2>1. PICK s : ListOf(b, s, C, D) /\ Sorted(s, e)
    BY <1>2 DEF Held, SortedList
  <2>2. \A i \in 1..Len(s) : s[i] \in C
    BY <2>1, HoldsIs DEF ListOf
  <2>3. Sorted(s, f)
    BY <2>1, <2>2 DEF Sorted
  <2> QED BY <1>2, <2>1, <2>3 DEF Held, SortedList
<1>3. CASE k = "wheel"
  BY <1>3 DEF Held
<1> QED BY <1>1, <1>2, <1>3 DEF AllKinds

\* The container in which resetTimer finds no timer is empty, and the one it
\* looks at is the first to expire.
LEMMA HeldFirst ==
    ASSUME NEW b, NEW C, NEW D, NEW e \in [Timer -> Int]
    PROVE  /\ Heap(b, C, e) =>
                /\ b = <<>> => C = {}
                /\ b # <<>> => Head(b) \in C /\ \A t \in C : e[Head(b)] <= e[t]
           /\ SortedList(b, C, D, e) =>
                /\ b.head = Null => C = {}
                /\ b.head # Null => b.head \in C /\ \A t \in C : e[b.head] <= e[t]
           /\ WheelOf(b, C, D) => (b.count = 0 <=> C = {})
<1>1. ASSUME Heap(b, C, e)
      PROVE  /\ b = <<>> => C = {}
             /\ b # <<>> => Head(b) \in C /\ \A t \in C : e[Head(b)] <= e[t]
  <2>1. b = <<>> => C = {}
    BY <1>1, HoldsIs DEF Heap
  <2> QED BY <1>1, <2>1, FireRoot
<1>2. ASSUME SortedList(b, C, D, e)
      PROVE  /\ b.head = Null => C = {}
             /\ b.head # Null => b.head \in C /\ \A t \in C : e[b.head] <= e[t]
  <2>1. PICK s : ListOf(b, s, C, D) /\ Sorted(s, e)
    BY <1>2 DEF SortedList
  <2>2. Holds(s, C) /\ (b.head = Null <=> s = <<>>)
        /\ (s # <<>> => 1 \in 1..Len(s) /\ b.head = s[1])
    <3>1. ListOf(b, s, C, D)
      BY <2>1
    <3>2. (b.head = Null <=> s = <<>>) /\ (s # <<>> => 1 \in 1..Len(s) /\ b.head = s[1])
      BY <3>1, ListIs
    <3> QED BY <3>1, <3>2 DEF ListOf
  <2>3. (s = <<>> <=> C = {}) /\ \A i \in 1..Len(s) : s[i] \in C
    BY <2>2, HoldsIs
  <2>4. \A t \in C : e[s[1]] <= e[t]
    BY <2>1, <2>2, SortedFirst
  <2> QED BY <2>2, <2>3, <2>4
<1>3. ASSUME WheelOf(b, C, D)
      PROVE  b.count = 0 <=> C = {}
  <2>1. IsFiniteSet(C) /\ b.count = Cardinality(C)
    BY <1>3, CountOneMore DEF WheelOf
  <2> QED BY <2>1, FS_EmptySet
<1> QED BY <1>1, <1>2, <1>3


\* resetTimer sets an alarm that is early enough, unless a deadline of the
\* heap or the list has passed.
LEMMA ResetIs ==
    ASSUME kind \in AllKinds, NEW b, NEW C, NEW D, NEW e \in [Timer -> Int], NEW tm \in Int,
           Held(kind, b, C, D, e)
    PROVE  /\ ResetTimer(b, e, tm) \in Nat \cup {Never}
           /\ (kind # "wheel" => \A t \in C : tm <= e[t])
                => Alarmed(kind, C, e, tm, ResetTimer(b, e, tm))
<1> DEFINE a == ResetTimer(b, e, tm)
           InTime == \A t \in C : tm <= e[t]
<1>1. C \subseteq Timer
  BY HeldTimers
<1>2. ASSUME kind # "wheel", NEW x \in C, a = Tics(e[x] - tm), \A t \in C : e[x] <= e[t]
      PROVE  a \in Nat \cup {Never} /\ (InTime => Alarmed(kind, C, e, tm, a))
  <2>1. e[x] \in Int /\ \A t \in C : e[t] \in Int
    BY <1>1
  <2> HIDE DEF a
  <2>2. a \in Nat \cup {Never} /\ (tm <= e[x] => a > 0 /\ (a = 1 \/ tm + a <= e[x]))
    BY <1>2, <2>1 DEF Tics, Never
  <2> QED BY <1>2, <2>1, <2>2 DEF Alarmed
<1>3. ASSUME C = {}, a = Off \/ a = 1
      PROVE  a \in Nat \cup {Never} /\ Alarmed(kind, C, e, tm, a)
  BY <1>3 DEF Off, Alarmed
<1>4. CASE kind = "heap"
  <2>1. Heap(b, C, e) /\ a = IF b = <<>> THEN Off ELSE Tics(e[Head(b)] - tm)
    BY <1>4 DEF Held, ResetTimer
  <2> HIDE DEF a
  <2>2. /\ b = <<>> => C = {}
        /\ b # <<>> => Head(b) \in C /\ \A t \in C : e[Head(b)] <= e[t]
    BY <2>1, HeldFirst
  <2> QED BY <1>2, <1>3, <1>4, <2>1, <2>2 DEF a
<1>5. CASE kind = "list"
  <2>1. SortedList(b, C, D, e) /\ a = IF b.head = Null THEN Off ELSE Tics(e[b.head] - tm)
    BY <1>5 DEF Held, ResetTimer
  <2> HIDE DEF a
  <2>2. /\ b.head = Null => C = {}
        /\ b.head # Null => b.head \in C /\ \A t \in C : e[b.head] <= e[t]
    BY <2>1, HeldFirst
  <2> QED BY <1>2, <1>3, <1>5, <2>1, <2>2 DEF a
<1>6. CASE kind = "wheel"
  <2>1. WheelOf(b, C, D) /\ a = IF b.count = 0 THEN Off ELSE 1
    BY <1>6 DEF Held, ResetTimer
  <2> HIDE DEF a
  <2>2. b.count = 0 <=> C = {}
    BY <2>1, HeldFirst
  <2> QED BY <1>6, <2>1, <2>2 DEF a, Off, Alarmed
<1> QED BY <1>4, <1>5, <1>6 DEF AllKinds

\* Links and turns of the timers that are still there are not forgotten.
LEMMA ForgetIs ==
    ASSUME kind \in AllKinds, NEW b, NEW C, NEW D \in SUBSET Timer, NEW e,
           Held(kind, b, C, D, e), NEW gone \in SUBSET Timer, gone \cap C = {}
    PROVE  /\ Held(kind, Forget(b, gone), C, D \cup gone, e)
           /\ kind = "wheel" =>
                /\ Forget(b, gone).cur = b.cur
                /\ \A t \in C : /\ Forget(b, gone).slot[t] = b.slot[t]
                                /\ Forget(b, gone).rotation[t] = b.rotation[t]
<1> DEFINE g == Forget(b, gone)
<1>1. C \subseteq Timer
  BY HeldTimers
<1>2. CASE kind = "heap"
  BY <1>2 DEF Held, Forget
<1>3. CASE kind = "list"
  <2>1. PICK s : ListOf(b, s, C, D) /\ Sorted(s, e)
    BY <1>3 DEF Held, SortedList
  <2>2. b \in ListBox /\ Holds(s, C) /\ Linking(b.next, b.prev, s)
    BY <2>1 DEF ListOf
  <2>3. \A i \in 1..Len(s) : s[i] \in C /\ s[i] \in Timer /\ s[i] \notin gone
    BY <1>1, <2>2, HoldsIs
  <2>4. /\ g \in ListBox /\ g.head = b.head /\ g.tail = b.tail
        /\ \A t \in Timer : g.next[t] = IF t \in gone THEN Null ELSE b.next[t]
        /\ \A t \in Timer : g.prev[t] = IF t \in gone THEN Null ELSE b.prev[t]
    BY <1>3, <2>2 DEF Forget, ListBox, Links
  <2> HIDE DEF g
  <2>5. Linking(g.next, g.prev, s)
    BY <2>2, <2>3, <2>4 DEF Linking
  <2>6. ListOf(g, s, C, D \cup gone)
    <3>1. b.head = At(s, 1) /\ (s # <<>> => b.tail = At(s, Len(s)))
          /\ D \cap C = {} /\ \A x \in D : b.next[x] = Null /\ b.prev[x] = Null
      BY <2>1 DEF ListOf
    <3>2. \A x \in D \cup gone : g.next[x] = Null /\ g.prev[x] = Null
      BY <2>4, <3>1
    <3> QED BY <2>2, <2>4, <2>5, <3>1, <3>2 DEF ListOf
  <2>7. SortedList(g, C, D \cup gone, e)
    BY <2>1, <2>6 DEF SortedList
  <2> QED BY <1>3, <2>7 DEF Held, g
<1>4. CASE kind = "wheel"
  <2>1. WheelOf(b, C, D) /\ TurnsKnown(b) /\ b \in Wheel
    BY <1>4 DEF Held, WheelOf
  <2>2. /\ b = [slots |-> b.slots, cur |-> b.cur, count |-> b.count, next |-> b.next,
                prev |-> b.prev, rotation |-> b.rotation, slot |-> b.slot]
        /\ b.slots \in [0..(N - 1) -> Timer \cup {Null}] /\ b.cur \in 0..(N - 1)
        /\ b.count \in Int /\ b.next \in [Timer -> Timer \cup {Null}]
        /\ b.prev \in [Timer -> Timer \cup {Null}]
        /\ b.rotation \in [Timer -> Int] /\ b.slot \in [Timer -> 0..(N - 1)]
    BY <2>1, WheelIs
  <2> DEFINE Clear(f, v) == [t \in Timer |-> IF t \in gone THEN v ELSE f[t]]
             next == Clear(b.next, Null)
             prev == Clear(b.prev, Null)
             slot == Clear(b.slot, 0)
             rotation == Clear(b.rotation, 0)
             w == [slots |-> b.slots, cur |-> b.cur, count |-> b.count, next |-> next,
                   prev |-> prev, rotation |-> rotation, slot |-> slot]
  <2>3. g = [b EXCEPT !.next = next, !.prev = prev, !.slot = slot, !.rotation = rotation]
    BY <1>4 DEF Forget
  <2>4. next \in [Timer -> Timer \cup {Null}] /\ prev \in [Timer -> Timer \cup {Null}]
    BY <2>2
  <2>5. rotation \in [Timer -> Int] /\ slot \in [Timer -> 0..(N - 1)]
    BY <2>2, WheelAssumption
  <2>6. /\ \A t \in Timer : t \in gone => next[t] = Null /\ prev[t] = Null
        /\ \A t \in Timer : t \notin gone =>
             next[t] = b.next[t] /\ prev[t] = b.prev[t] /\ slot[t] = b.slot[t]
        /\ \A t \in Timer : rotation[t] = IF t \in gone THEN 0 ELSE b.rotation[t]
    BY <1>1
  <2> HIDE DEF next, prev, slot, rotation, g
  <2>7. g = w
    BY <2>2, <2>3
  <2>8. g \in Wheel
    BY <2>2, <2>4, <2>5, <2>7 DEF Wheel, Links
  <2>9. /\ g.slots = b.slots /\ g.cur = b.cur /\ g.count = b.count /\ g.next = next
        /\ g.prev = prev /\ g.rotation = rotation /\ g.slot = slot
    BY <2>7
  <2> HIDE DEF w
  <2>10. \A t \in C : t \in Timer /\ t \notin gone
    BY <1>1
  <2>11. \A u \in 0..(N - 1) : InSlot(g, C, u) = InSlot(b, C, u)
    BY <2>6, <2>9, <2>10 DEF InSlot
  <2>12. ASSUME NEW u \in 0..(N - 1) PROVE \E s : SlotIs(g, C, u, s)
    <3>1. PICK s : SlotIs(b, C, u, s)
      BY <2>1 DEF WheelOf, SlotsOf
    <3>2. Holds(s, InSlot(b, C, u)) /\ Linking(b.next, b.prev, s) /\ b.slots[u] = At(s, 1)
      BY <3>1 DEF SlotIs
    <3>3. \A i \in 1..Len(s) : s[i] \in C
      BY <3>2, HoldsIs DEF InSlot
    <3>4. Linking(g.next, g.prev, s)
      BY <2>6, <2>9, <2>10, <3>2, <3>3 DEF Linking
    <3> QED BY <2>9, <2>11, <3>2, <3>4 DEF SlotIs
  <2>13. WheelOf(g, C, D \cup gone)
    BY <2>1, <2>6, <2>8, <2>9, <2>12 DEF WheelOf, SlotsOf
  <2>14. TurnsKnown(g)
    BY <2>1, <2>6, <2>9 DEF TurnsKnown
  <2> QED BY <1>4, <2>6, <2>9, <2>10, <2>13, <2>14 DEF Held, g
<1> QED BY <1>2, <1>3, <1>4 DEF AllKinds
-----------------------------------------------------------------------------
(* The virtual functions *)

\* A list call that does not reset the alarm leaves a first timer that was the
\* first before, so no timer expires earlier than one did.
LEMMA ListOutcome ==
    ASSUME NEW r, NEW b, NEW C, C \subseteq Timer, NEW e, NEW C2, NEW D2, NEW f \in [Timer -> Int],
           ListCall(r, b, C), \A u \in C : f[u] = e[u], SortedList(r.box, C2, D2, f)
    PROVE  Outcome("list", r, C, e, C2, D2, f)
<1>1. ASSUME ~r.rearm PROVE \A u \in C2 : \E v \in C : e[v] <= f[u]
  <2>1. r.box.head = b.head /\ b.head \in C /\ b.head # Null
    BY <1>1, TimerAssumption DEF ListCall
  <2>2. \A u \in C2 : f[r.box.head] <= f[u]
    BY <2>1, HeldFirst
  <2> QED BY <2>1, <2>2
<1> QED BY <1>1 DEF Outcome, Held, ListCall

\* The wheel keeps the turns of its timers when one is put or taken out.
LEMMA PutOutcome ==
    ASSUME NEW b, TurnsKnown(b), NEW r, NEW C, NEW D, NEW t, NEW ticks, NEW C0, NEW e, NEW f,
           \/ WheelPut(b, r, C, D, t, ticks) /\ ticks \in Nat
           \/ WheelTaken(b, r, C, D, t)
    PROVE  Outcome("wheel", r, C0, e, C, D, f)
<1>1. r = Done(r.box, {}, TRUE) /\ WheelOf(r.box, C, D)
  BY DEF WheelPut, WheelTaken
<1>2. TurnsKnown(r.box)
  <2>1. CASE WheelTaken(b, r, C, D, t)
    BY <2>1 DEF WheelTaken, SameTurns, TurnsKnown
  <2>2. CASE WheelPut(b, r, C, D, t, ticks) /\ ticks \in Nat
    <3>1. \A x \in Timer \ {t} : r.box.rotation[x] \in Nat
      BY <2>2 DEF WheelPut, SameTurns, TurnsKnown
    <3>2. ticks \div N \in Nat
      BY <2>2, WheelAssumption
    <3> QED BY <2>2, <3>1, <3>2 DEF WheelPut, TurnsKnown
  <2> QED BY <2>1, <2>2
<1>3. r.fault = "none" /\ r.rearm = TRUE
  BY <1>1 DEF Done
<1> QED BY <1>1, <1>2, <1>3 DEF Outcome, Held

\* The ticks of a delay.
LEMMA TicksNat ==
    ASSUME NEW d \in Int, d >= 0
    PROVE  Ticks(d) \in Nat \ {0} /\ d <= Ticks(d)
BY DEF Ticks

\* add_timer
LEMMA AddOutcome ==
    ASSUME kind \in AllKinds, NEW e \in [Timer -> Int], NEW f \in [Timer -> Int],
           Held(kind, box, Armed, Timer \ Armed, e), NEW t \in Timer \ Armed,
           \A u \in Armed : f[u] = e[u], now \in Int, now <= f[t]
    PROVE  LET r == AddTimer(f, t)
               C == Armed \cup {t}
               D == (Timer \ Armed) \ {t}
           IN /\ Outcome(kind, r, Armed, e, C, D, f)
              /\ kind = "wheel" => WheelPut(box, r, C, D, t, Ticks(f[t] - now))
<1> DEFINE C == Armed
           D == Timer \ C
           r == AddTimer(f, t)
<1>1. C \subseteq Timer /\ D \in SUBSET Timer /\ t \in D /\ Held(kind, box, C, D, f)
  BY HeldKeys DEF Armed
<1>2. f[t] - now \in Int /\ f[t] - now >= 0
  OBVIOUS
<1>3. CASE kind = "heap"
  <2>1. r = HeapAdd(box, f, t) /\ Heap(box, C, f)
    BY <1>1, <1>3 DEF AddTimer, Held
  <2> HIDE DEF C, D, r
  <2>2. Heap(HeapAdd(box, f, t).box, C \cup {t}, f)
    BY <2>1, HeapAddIs DEF D, C
  <2>3. r.fault = "none" /\ r.rearm = TRUE
    BY <2>1 DEF HeapAdd, Done
  <2>4. Outcome(kind, r, C, e, C \cup {t}, D \ {t}, f)
    BY <1>3, <2>1, <2>2, <2>3 DEF Outcome, Held
  <2> QED BY <1>3, <2>4 DEF C, D, r
<1>4. CASE kind = "list"
  <2>1. r = ListAdd(box, f, t) /\ SortedList(box, C, D, f)
    BY <1>1, <1>4 DEF AddTimer, Held
  <2>2. \A u \in C : f[u] = e[u]
    OBVIOUS
  <2> HIDE DEF C, D, r
  <2>3. SortedList(r.box, C \cup {t}, D \ {t}, f) /\ ListCall(r, box, C)
    BY <1>1, <2>1, ListAddIs
  <2>4. Outcome("list", r, C, e, C \cup {t}, D \ {t}, f)
    BY <1>1, <2>2, <2>3, ListOutcome
  <2> QED BY <1>4, <2>4 DEF C, D, r
<1>5. CASE kind = "wheel"
  <2>1. r = WheelAdd(box, C \cup {t}, f, t, now) /\ WheelOf(box, C, D) /\ TurnsKnown(box)
    BY <1>1, <1>5 DEF AddTimer, Held
  <2> HIDE DEF C, D, r
  <2>2. WheelPut(box, r, C \cup {t}, D \ {t}, t, Ticks(f[t] - now))
    <3>1. C \subseteq C \cup {t}
      OBVIOUS
    <3> QED BY <1>1, <2>1, <3>1, WheelAddIs
  <2>3. Ticks(f[t] - now) \in Nat
    BY <1>2, TicksNat
  <2>4. Outcome("wheel", r, C, e, C \cup {t}, D \ {t}, f)
    BY <2>1, <2>2, <2>3, PutOutcome
  <2> QED BY <1>5, <2>2, <2>4 DEF C, D, r
<1> QED BY <1>3, <1>4, <1>5 DEF AllKinds

\* The timer in front of another one of the list.
LEMMA PrevHeld ==
    ASSUME NEW b, NEW C, NEW D, NEW e, SortedList(b, C, D, e), NEW t \in C
    PROVE  b.prev[t] \in C \cup {Null}
<1>1. PICK s : ListOf(b, s, C, D)
  BY DEF SortedList
<1>2. /\ Len(s) \in Nat /\ \A i \in 1..Len(s) : s[i] \in C
      /\ \E i \in 1..Len(s) : s[i] = t
  BY <1>1, HoldsIs DEF ListOf
<1>3. PICK k \in 1..Len(s) : s[k] = t
  BY <1>2
<1>4. b.prev[t] = At(s, k - 1)
  BY <1>1, <1>3, ListIs
<1> QED BY <1>2, <1>4 DEF At

\* What callers of adjust_timer keep to: the list stays sorted without moving
\* the timer; in the wheel it is the first of its slot and its next is null or
\* overwritten.
Adjustable(k, b, e, f, t) ==
    /\ k = "list" => /\ e[IF b.prev[t] = Null THEN t ELSE b.prev[t]] <= f[t]
                     /\ b.next[t] # Null => f[t] <= e[b.next[t]]
    /\ k = "wheel" =>
         /\ b.prev[t] = Null
         /\ b.next[t] = Null \/ b.slots[(b.cur + Ticks(f[t] - now)) % N] # Null

\* adjust_timer
LEMMA AdjustOutcome ==
    ASSUME kind \in AllKinds, NEW e \in [Timer -> Int], NEW f \in [Timer -> Int],
           Held(kind, box, Armed, Timer \ Armed, e), NEW t \in Armed,
           \A u \in Armed \ {t} : f[u] = e[u], now \in Int, now <= f[t],
           Adjustable(kind, box, e, f, t)
    PROVE  LET r == AdjustTimer(f, t)
               D == Timer \ Armed
           IN /\ Outcome(kind, r, Armed, e, Armed, D, f)
              /\ kind = "wheel" => WheelPut(box, r, Armed, D, t, Ticks(f[t] - now))
<1> DEFINE C == Armed
           D == Timer \ C
           r == AdjustTimer(f, t)
<1>1. C \subseteq Timer /\ t \in C /\ t \in Timer
  BY DEF Armed
<1>2. f[t] - now \in Int /\ f[t] - now >= 0
  BY <1>1
<1>3. CASE kind = "heap"
  <2>1. r = HeapAdjust(box, f, t) /\ Heap(box, C, e)
    BY <1>3 DEF AdjustTimer, Held
  <2>2. \A u \in C \ {t} : f[u] = e[u]
    OBVIOUS
  <2> HIDE DEF C, D, r
  <2>3. Heap(r.box, C, f)
    BY <1>1, <2>1, <2>2, HeapAdjustIs
  <2>4. r.fault = "none" /\ r.rearm = TRUE
    BY <2>1 DEF HeapAdjust, Done
  <2>5. Outcome(kind, r, C, e, C, D, f)
    BY <1>3, <2>3, <2>4 DEF Outcome, Held
  <2> QED BY <1>3, <2>5 DEF C, D, r
<1>4. CASE kind = "list"
  <2>1. r = ListAdjust(box, C, f, t) /\ SortedList(box, C, D, e)
    BY <1>4 DEF AdjustTimer, Held
  <2>2. \A u \in C \ {t} : f[u] = e[u]
    OBVIOUS
  <2> HIDE DEF C, D, r
  <2>3. /\ e[IF box.prev[t] = Null THEN t ELSE box.prev[t]] <= f[t]
        /\ box.next[t] # Null => f[t] <= e[box.next[t]]
    BY <1>4 DEF Adjustable
  <2>4. SortedList(box, C, D, f) /\ r = Done(box, {}, FALSE)
    <3>1. box.prev[t] # Null => e[box.prev[t]] <= f[t]
      BY <2>3
    <3> QED BY <1>1, <2>1, <2>2, <2>3, <3>1, ListAdjustIs
  <2>5. \A u \in C : \E v \in C : e[v] <= f[u]
    <3>1. box.prev[t] \in C \cup {Null}
      BY <1>1, <2>1, PrevHeld
    <3>2. \A u \in C \ {t} : e[u] <= f[u]
      BY <1>1, <2>2
    <3> QED BY <1>1, <2>3, <3>1, <3>2
  <2>6. r.fault = "none" /\ r.rearm = FALSE /\ r.box = box
    BY <2>4 DEF Done
  <2>7. Outcome("list", r, C, e, C, D, f)
    BY <2>4, <2>5, <2>6 DEF Outcome, Held
  <2> QED BY <1>4, <2>7 DEF C, D, r
<1>5. CASE kind = "wheel"
  <2>1. r = WheelAdjust(box, C, f, t, now) /\ WheelOf(box, C, D) /\ TurnsKnown(box)
    BY <1>5 DEF AdjustTimer, Held
  <2> HIDE DEF C, D, r
  <2>2. WheelPut(box, r, C, D, t, Ticks(f[t] - now))
    <3>1. /\ box.prev[t] = Null
          /\ box.next[t] = Null \/ box.slots[(box.cur + Ticks(f[t] - now)) % N] # Null
      BY <1>5 DEF Adjustable
    <3> QED BY <1>1, <2>1, <3>1, WheelAdjustIs
  <2>3. Ticks(f[t] - now) \in Nat
    BY <1>2, TicksNat
  <2>4. Outcome("wheel", r, C, e, C, D, f)
    BY <2>1, <2>2, <2>3, PutOutcome
  <2> QED BY <1>5, <2>2, <2>4 DEF C, D, r
<1> QED BY <1>3, <1>4, <1>5 DEF AllKinds


\* del_timer
LEMMA DelOutcome ==
    ASSUME kind \in AllKinds, expire \in [Timer -> Int],
           Held(kind, box, Armed, Timer \ Armed, expire), NEW t \in Armed,
           kind = "list" /\ t = box.tail => t = box.head
    PROVE  LET r == DelTimer(t)
               D == Timer \ Armed
           IN /\ Outcome(kind, r, Armed, expire, Armed \ {t}, D, expire)
              /\ kind = "wheel" => WheelTaken(box, r, Armed \ {t}, D, t)
<1> DEFINE C == Armed
           D == Timer \ C
           r == DelTimer(t)
<1>1. C \subseteq Timer /\ D \subseteq Timer /\ t \in C
  BY DEF Armed
<1>2. CASE kind = "heap"
  <2>1. r = HeapDel(box, expire, t) /\ Heap(box, C, expire)
    BY <1>2 DEF DelTimer, Held
  <2> HIDE DEF C, D, r
  <2>2. Heap(r.box, C \ {t}, expire)
    BY <1>1, <2>1, HeapDelIs
  <2>3. r.fault = "none" /\ r.rearm = TRUE
    BY <2>1 DEF HeapDel, Done
  <2>4. Outcome(kind, r, C, expire, C \ {t}, D, expire)
    BY <1>2, <2>2, <2>3 DEF Outcome, Held
  <2> QED BY <1>2, <2>4 DEF C, D, r
<1>3. CASE kind = "list"
  <2>1. r = ListDel(box, C, t) /\ SortedList(box, C, D, expire)
    BY <1>3 DEF DelTimer, Held
  <2> HIDE DEF C, D, r
  <2>2. SortedList(r.box, C \ {t}, D, expire) /\ ListCall(r, box, C \ {t})
    BY <1>1, <1>3, <2>1, ListDelIs
  <2>3. ListCall(r, box, C)
    BY <2>2 DEF ListCall
  <2>4. Outcome("list", r, C, expire, C \ {t}, D, expire)
    BY <1>1, <2>2, <2>3, ListOutcome
  <2> QED BY <1>3, <2>4 DEF C, D, r
<1>4. CASE kind = "wheel"
  <2>1. r = WheelDel(box, C, t) /\ WheelOf(box, C, D) /\ TurnsKnown(box)
    BY <1>4 DEF DelTimer, Held
  <2> HIDE DEF C, D, r
  <2>2. WheelTaken(box, r, C \ {t}, D, t)
    BY <1>1, <2>1, WheelDelIs
  <2>3. Outcome("wheel", r, C, expire, C \ {t}, D, expire)
    BY <2>1, <2>2, PutOutcome
  <2> QED BY <1>4, <2>2, <2>3 DEF C, D, r
<1> QED BY <1>2, <1>3, <1>4 DEF AllKinds

\* The timers that tick runs: those that have expired, or those whose turns
\* are over.
Running(k, b, C, e, tm) == IF k = "wheel" THEN Due(b, C) ELSE Late(C, e, tm)

\* tick
LEMMA TickOutcome ==
    ASSUME kind \in AllKinds, expire \in [Timer -> Int], now \in Int,
           Held(kind, box, Armed, Timer \ Armed, expire)
    PROVE  LET r == RunTick
               D == Timer \ Armed
               S == Running(kind, box, Armed, expire, now)
           IN /\ Outcome(kind, r, Armed, expire, Armed \ S, D, expire)
              /\ r.fired = S /\ S \subseteq Armed /\ (~r.rearm => Armed = {})
              /\ kind = "wheel" => WheelTurned(box, r, Armed, D)
<1> DEFINE C == Armed
           D == Timer \ C
           r == RunTick
           S == Running(kind, box, C, expire, now)
<1>1. C \subseteq Timer /\ D \subseteq Timer
  BY DEF Armed
<1>2. Kept(C, expire, now) = C \ Late(C, expire, now)
  <2>1. \A t \in C : expire[t] \in Int
    BY <1>1
  <2>2. \A t \in C : expire[t] > now <=> ~(expire[t] <= now)
    BY <2>1
  <2> HIDE DEF C
  <2> QED BY <2>2 DEF Kept, Late
<1>3. CASE kind = "heap"
  <2>1. r = HeapTick(box, expire, now) /\ Heap(box, C, expire) /\ S = Late(C, expire, now)
    BY <1>3 DEF RunTick, Held, Running
  <2> HIDE DEF C, D, r, S
  <2>2. r.fired = S /\ Heap(r.box, C \ S, expire)
    <3>1. /\ HeapTick(box, expire, now).fired = Late(C, expire, now)
          /\ Heap(HeapTick(box, expire, now).box, Kept(C, expire, now), expire)
      BY <2>1, HeapTickIs
    <3> QED BY <1>2, <2>1, <3>1
  <2>3. S \subseteq C
    BY <2>1 DEF Late
  <2>4. r.fault = "none" /\ r.rearm \in BOOLEAN /\ (~r.rearm => box = <<>>)
    BY <2>1 DEF HeapTick, Done
  <2>5. box = <<>> => C = {}
    BY <2>1, HeldFirst
  <2>6. Outcome(kind, r, C, expire, C \ S, D, expire)
    BY <1>3, <2>2, <2>4, <2>5 DEF Outcome, Held
  <2> QED BY <1>3, <2>2, <2>3, <2>4, <2>5, <2>6 DEF C, D, r, S
<1>4. CASE kind = "list"
  <2>1. r = ListTick(box, expire, now) /\ SortedList(box, C, D, expire)
        /\ S = Late(C, expire, now)
    BY <1>4 DEF RunTick, Held, Running
  <2> HIDE DEF C, D, r, S
  <2>2. /\ SortedList(r.box, C \ S, D, expire)
        /\ r.fired = S /\ r.fault = "none" /\ r.rearm = TRUE
    <3> DEFINE q == ListTick(box, expire, now)
    <3>1. /\ SortedList(q.box, Kept(C, expire, now), D, expire)
          /\ q.fired = Late(C, expire, now) /\ q.fault = "none" /\ q.rearm = TRUE
      BY <1>1, <2>1, ListTickIs
    <3> QED BY <1>2, <2>1, <3>1
  <2>3. S \subseteq C
    BY <2>1 DEF Late
  <2>4. Outcome(kind, r, C, expire, C \ S, D, expire)
    BY <1>4, <2>2 DEF Outcome, Held
  <2> QED BY <1>4, <2>2, <2>3, <2>4 DEF C, D, r, S
<1>5. CASE kind = "wheel"
  <2>1. r = WheelTick(box, C) /\ WheelOf(box, C, D) /\ TurnsKnown(box) /\ S = Due(box, C)
    BY <1>5 DEF RunTick, Held, Running
  <2> HIDE DEF C, D, r, S
  <2>2. WheelTurned(box, r, C, D)
    BY <2>1, WheelTickIs
  <2>3. r.fired = S /\ r.fault = "none" /\ r.rearm = TRUE /\ WheelOf(r.box, C \ S, D)
    BY <2>1, <2>2 DEF WheelTurned, Done
  <2>4. S \subseteq C
    BY <2>1 DEF Due, InSlot
  <2>5. TurnsKnown(r.box)
    <3> SUFFICES ASSUME NEW x \in Timer PROVE r.box.rotation[x] \in Nat
      BY DEF TurnsKnown
    <3>1. box.rotation[x] \in Nat
      BY <2>1 DEF TurnsKnown
    <3>2. CASE x \in InSlot(box, C \ S, (box.cur + 1) % N)
      <4>1. box.rotation[x] # 0
        BY <2>1, <3>2 DEF Due, InSlot
      <4>2. r.box.rotation[x] = box.rotation[x] - 1
        BY <2>1, <2>2, <3>2 DEF WheelTurned
      <4> QED BY <3>1, <4>1, <4>2
    <3>3. CASE x \notin InSlot(box, C \ S, (box.cur + 1) % N)
      BY <2>1, <2>2, <3>1, <3>3 DEF WheelTurned
    <3> QED BY <3>2, <3>3
  <2>6. Outcome(kind, r, C, expire, C \ S, D, expire)
    BY <1>5, <2>3, <2>5 DEF Outcome, Held
  <2> QED BY <1>5, <2>2, <2>3, <2>4, <2>6 DEF C, D, r, S
<1> QED BY <1>3, <1>4, <1>5 DEF AllKinds
-----------------------------------------------------------------------------
(* The turns of the wheel *)

\* The next slot is one tick away, and then N; every other comes closer.
LEMMA SlotsToIs ==
    ASSUME NEW cur \in 0..(N - 1), NEW slot \in 0..(N - 1)
    PROVE  LET next == (cur + 1) % N
           IN /\ next \in 0..(N - 1) /\ SlotsTo(slot, cur) \in 1..N
              /\ slot = next => SlotsTo(slot, cur) = 1 /\ SlotsTo(slot, next) = N
              /\ slot # next => SlotsTo(slot, next) = SlotsTo(slot, cur) - 1
<1> DEFINE next == (cur + 1) % N
<1>1. N \in Nat \ {0}
  BY WheelAssumption
<1>2. next = IF cur + 1 = N THEN 0 ELSE cur + 1
  BY <1>1
<1> HIDE DEF next
<1> QED BY <1>1, <1>2 DEF next, SlotsTo

\* Of the multiples of n, the next one is larger by n at least.
LEMMA Multiples ==
    ASSUME NEW n \in Nat \ {0}, NEW p \in Int, NEW q \in Int, p < q
    PROVE  n * p \in Int /\ n * q \in Int /\ n * p + n <= n * q
<1> DEFINE k == q - p - 1
<1>1. k \in Nat /\ q = p + k + 1
  OBVIOUS
<1>2. n * k \in Nat
  BY <1>1
<1>3. n * q = n * p + n * k + n
  BY <1>1
<1>4. n * p \in Int /\ n * q \in Int
  OBVIOUS
<1> HIDE DEF k
<1> QED BY <1>2, <1>3, <1>4

\* There is one remainder only.
LEMMA Remainder ==
    ASSUME NEW n \in Nat \ {0}, NEW q \in Int, NEW m \in 0..(n - 1), NEW x \in Int,
           x = n * q + m
    PROVE  x % n = m
<1> DEFINE p == x \div n
           r == x % n
<1>1. p \in Int /\ r \in 0..(n - 1) /\ x = n * p + r
  OBVIOUS
<1> HIDE DEF p, r
<1>2. n * p \in Int /\ n * q \in Int
  BY <1>1
<1>3. CASE p < q
  <2>1. n * p + n <= n * q
    BY <1>1, <1>3, Multiples
  <2> QED BY <1>1, <1>2, <2>1
<1>4. CASE q < p
  <2>1. n * q + n <= n * p
    BY <1>1, <1>4, Multiples
  <2> QED BY <1>1, <1>2, <2>1
<1>5. CASE p = q
  <2>1. n * p = n * q
    BY <1>5
  <2> QED BY <1>1, <1>2, <2>1 DEF r
<1> QED BY <1>1, <1>3, <1>4, <1>5

\* A slot past the last one is counted from 0 on.
LEMMA Wraps ==
    ASSUME NEW n \in Nat \ {0}, NEW cur \in 0..(n - 1), NEW a \in Nat \ {0}
    PROVE  /\ (cur + a) % n = IF cur + (a % n) < n THEN cur + (a % n) ELSE cur + (a % n) - n
           /\ a = n * (a \div n) + (a % n) /\ n * (a \div n) \in Nat /\ a % n \in 0..(n - 1)
<1>1. a \div n \in Nat /\ a % n \in 0..(n - 1)
  OBVIOUS
<1>2. a = n * (a \div n) + (a % n)
  OBVIOUS
<1>3. n * (a \div n) \in Nat
  BY <1>1
<1>4. (cur + a) % n = IF cur + (a % n) < n THEN cur + (a % n) ELSE cur + (a % n) - n
  <2> DEFINE q == a \div n
             m == a % n
  <2>1. q \in Nat /\ m \in 0..(n - 1) /\ n * q \in Nat /\ a = n * q + m
    BY <1>1, <1>2, <1>3
  <2>2. n * (q + 1) = n * q + n
    BY <2>1
  <2> HIDE DEF q, m
  <2> DEFINE x == cur + a
             k == IF cur + m < n THEN q ELSE q + 1
             y == IF cur + m < n THEN cur + m ELSE cur + m - n
  <2>3. x = n * k + y /\ x \in Int /\ k \in Int /\ y \in 0..(n - 1)
    BY <2>1, <2>2
  <2> HIDE DEF x, k, y
  <2>4. x % n = y
    BY <2>3, Remainder
  <2> QED BY <2>4 DEF x, y, m
<1> QED BY <1>1, <1>2, <1>3, <1>4

\* The ticks to slot s, when m slots and whole turns are asked for.
LEMMA SlotSum ==
    ASSUME NEW n \in Nat \ {0}, NEW cur \in 0..(n - 1), NEW turns \in Nat,
           NEW m \in 0..(n - 1), NEW a, a = turns + m,
           NEW s, s = IF cur + m < n THEN cur + m ELSE cur + m - n
    PROVE  LET d == (IF s > cur THEN s - cur ELSE s - cur + n) + turns
           IN s \in 0..(n - 1) /\ d \in Nat /\ (d = a \/ d = a + n)
<1>1. s \in 0..(n - 1)
  OBVIOUS
<1>2. m = 0 => s = cur
  OBVIOUS
<1>3. m # 0 => (IF s > cur THEN s - cur ELSE s - cur + n) = m
  OBVIOUS
<1> QED BY <1>1, <1>2, <1>3

\* The slot that add_timer chooses is reached in as many ticks as were asked
\* for, turns included; when these are whole turns it takes another one.
LEMMA SlotAfter ==
    ASSUME NEW n \in Nat \ {0}, NEW cur \in 0..(n - 1), NEW a \in Nat \ {0}
    PROVE  LET s == (cur + a) % n
               d == (IF s > cur THEN s - cur ELSE s - cur + n) + n * (a \div n)
           IN s \in 0..(n - 1) /\ d \in Nat /\ (d = a \/ d = a + n)
<1> DEFINE s == (cur + a) % n
           m == a % n
           turns == n * (a \div n)
<1>1. m \in 0..(n - 1) /\ turns \in Nat /\ a = turns + m
      /\ s = IF cur + m < n THEN cur + m ELSE cur + m - n
  BY Wraps
<1> HIDE DEF s, m, turns
<1>2. /\ s \in 0..(n - 1)
      /\ (IF s > cur THEN s - cur ELSE s - cur + n) + turns \in Nat
      /\ \/ (IF s > cur THEN s - cur ELSE s - cur + n) + turns = a
         \/ (IF s > cur THEN s - cur ELSE s - cur + n) + turns = a + n
  BY <1>1, SlotSum
<1> QED BY <1>2 DEF s, turns

\* The ticks to wait are known.
LEMMA TicksToNat ==
    ASSUME NEW b \in Wheel, TurnsKnown(b), NEW t \in Timer
    PROVE  TicksTo(b, t) \in Nat \ {0} /\ N \in Nat \ {0}
<1>1. /\ b.cur \in 0..(N - 1) /\ b.slot[t] \in 0..(N - 1) /\ b.rotation[t] \in Nat
      /\ N \in Nat \ {0}
  BY WheelIs, WheelAssumption DEF TurnsKnown
<1>2. SlotsTo(b.slot[t], b.cur) \in 1..N
  BY <1>1, SlotsToIs
<1>3. N * b.rotation[t] \in Nat
  BY <1>1
<1> QED BY <1>1, <1>2, <1>3 DEF TicksTo

\* add_timer and adjust_timer put a timer where it is reached in turn.
LEMMA PutInTurn ==
    ASSUME NEW b \in Wheel, NEW r, NEW C, NEW D, NEW t \in Timer, NEW ticks \in Nat \ {0},
           WheelPut(b, r, C, D, t, ticks)
    PROVE  TicksTo(r.box, t) \in Nat /\ (TicksTo(r.box, t) = ticks \/ TicksTo(r.box, t) = ticks + N)
<1>1. b.cur \in 0..(N - 1) /\ N \in Nat \ {0}
  BY WheelIs, WheelAssumption
<1>2. /\ r.box.cur = b.cur /\ r.box.slot[t] = (b.cur + ticks) % N
      /\ r.box.rotation[t] = ticks \div N
  BY DEF WheelPut, SameTurns
<1>3. TicksTo(r.box, t) =
        (IF ((b.cur + ticks) % N) > b.cur THEN ((b.cur + ticks) % N) - b.cur
         ELSE ((b.cur + ticks) % N) - b.cur + N) + N * (ticks \div N)
  BY <1>2 DEF TicksTo, SlotsTo
<1> QED BY <1>1, <1>3, SlotAfter

\* A tick brings every timer that it does not run one tick closer; one that
\* it runs had one tick left to wait.
LEMMA TurnedInTurn ==
    ASSUME NEW b, NEW r, NEW C, NEW D, WheelOf(b, C, D), TurnsKnown(b),
           WheelTurned(b, r, C, D)
    PROVE  /\ \A t \in Due(b, C) : TicksTo(b, t) = 1
           /\ \A t \in C \ Due(b, C) : TicksTo(r.box, t) = TicksTo(b, t) - 1
<1> DEFINE next == (b.cur + 1) % N
<1>1. b \in Wheel /\ C \subseteq Timer
  BY DEF WheelOf
<1>2. N \in Nat \ {0} /\ b.cur \in 0..(N - 1) /\ \A t \in Timer : b.slot[t] \in 0..(N - 1)
  BY <1>1, WheelIs, WheelAssumption
<1>3. ASSUME NEW t \in C
      PROVE  /\ next \in 0..(N - 1) /\ SlotsTo(b.slot[t], b.cur) \in 1..N
             /\ b.slot[t] = next => SlotsTo(b.slot[t], b.cur) = 1 /\ SlotsTo(b.slot[t], next) = N
             /\ b.slot[t] # next => SlotsTo(b.slot[t], next) = SlotsTo(b.slot[t], b.cur) - 1
  BY <1>1, <1>2, SlotsToIs
<1>4. r.box.cur = next /\ r.box.slot = b.slot
  BY DEF WheelTurned
<1> HIDE DEF next
<1>5. ASSUME NEW t \in Due(b, C) PROVE TicksTo(b, t) = 1
  <2>1. t \in C /\ b.slot[t] = next /\ b.rotation[t] = 0
    BY DEF Due, InSlot, next
  <2>2. SlotsTo(b.slot[t], b.cur) = 1
    BY <1>3, <2>1
  <2> QED BY <1>2, <2>1, <2>2 DEF TicksTo
<1>6. ASSUME NEW t \in C \ Due(b, C) PROVE TicksTo(r.box, t) = TicksTo(b, t) - 1
  <2>1. t \in Timer /\ b.rotation[t] \in Nat
    BY <1>1 DEF TurnsKnown
  <2>2. /\ TicksTo(b, t) = SlotsTo(b.slot[t], b.cur) + N * b.rotation[t]
        /\ TicksTo(r.box, t) = SlotsTo(b.slot[t], next) + N * r.box.rotation[t]
    BY <1>4 DEF TicksTo
  <2>3. CASE b.slot[t] = next
    <3>1. t \in InSlot(b, C \ Due(b, C), next)
      BY <2>3 DEF InSlot
    <3>2. r.box.rotation[t] = b.rotation[t] - 1
      BY <2>1, <3>1 DEF WheelTurned, next
    <3>3. N * (b.rotation[t] - 1) = N * b.rotation[t] - N
      BY <1>2, <2>1
    <3>4. N * b.rotation[t] \in Int
      BY <1>2, <2>1
    <3> QED BY <1>2, <1>3, <2>2, <2>3, <3>2, <3>3, <3>4
  <2>4. CASE b.slot[t] # next
    <3>1. t \notin InSlot(b, C \ Due(b, C), next)
      BY <2>4 DEF InSlot
    <3>2. r.box.rotation[t] = b.rotation[t]
      BY <2>1, <3>1 DEF WheelTurned, next
    <3>3. N * b.rotation[t] \in Int
      BY <1>2, <2>1
    <3> QED BY <1>2, <1>3, <2>2, <2>4, <3>2, <3>3
  <2> QED BY <2>3, <2>4
<1> QED BY <1>5, <1>6
-----------------------------------------------------------------------------
(* Steps *)

\* A wheel's members have their types.
LEMMA WheelTyped ==
    ASSUME NEW b, NEW C, NEW D, NEW e, Held("wheel", b, C, D, e)
    PROVE  b \in Wheel /\ b.cur \in 0..(N - 1) /\ b.count \in Nat /\ b.rotation \in [Timer -> Nat]
<1>1. b \in Wheel /\ WheelOf(b, C, D) /\ TurnsKnown(b)
  BY DEF Held, WheelOf
<1>2. b.cur \in 0..(N - 1) /\ b.rotation \in [Timer -> Int]
  BY <1>1, WheelIs
<1>3. b.count \in Nat
  BY <1>1, CountOneMore DEF WheelOf
<1>4. b.rotation \in [Timer -> Nat]
  BY <1>1, <1>2 DEF TurnsKnown
<1> QED BY <1>1, <1>2, <1>3, <1>4

\* What a completed call leaves, once the timers in gone are deleted.
AfterCall(k, b, b2, C2, f, a) ==
    /\ Held(k, b2, C2, Timer \ C2, f) /\ a \in Nat \cup {Never}
    /\ k = "wheel" =>
         /\ b2.cur \in 0..(N - 1) /\ b2.count \in Nat /\ b2.rotation \in [Timer -> Nat]
         /\ \A t \in C2 : TicksTo(b2, t) = TicksTo(b, t)

LEMMA ApplyIs ==
    ASSUME kind \in AllKinds, alarm \in Nat \cup {Never}, NEW r, NEW C, NEW e \in [Timer -> Int],
           NEW C2, NEW D2 \in SUBSET Timer, NEW f \in [Timer -> Int], NEW tm \in Int,
           NEW gone \in SUBSET Timer, gone \cap C2 = {}, D2 \cup gone = Timer \ C2,
           C \subseteq Timer, Outcome(kind, r, C, e, C2, D2, f), Apply(r, f, tm, gone)
    PROVE  /\ mode' = "run" /\ AfterCall(kind, r.box, box', C2, f, alarm')
           /\ /\ kind # "wheel" => \A t \in C2 : tm <= f[t]
              /\ r.rearm \/ Alarmed(kind, C, e, tm, alarm)
              => Alarmed(kind, C2, f, tm, alarm')
<1>1. /\ r.fault = "none" /\ r.rearm \in BOOLEAN /\ Held(kind, r.box, C2, D2, f)
      /\ ~r.rearm => kind # "wheel" /\ \A u \in C2 : \E v \in C : e[v] <= f[u]
  BY DEF Outcome
<1>2. /\ box' = Forget(r.box, gone) /\ mode' = "run"
      /\ alarm' = IF r.rearm THEN ResetTimer(r.box, f, tm) ELSE alarm
  BY <1>1 DEF Apply
<1>3. /\ Held(kind, Forget(r.box, gone), C2, Timer \ C2, f)
      /\ kind = "wheel" =>
           /\ Forget(r.box, gone).cur = r.box.cur
           /\ \A t \in C2 : /\ Forget(r.box, gone).slot[t] = r.box.slot[t]
                            /\ Forget(r.box, gone).rotation[t] = r.box.rotation[t]
  <2>1. /\ Held(kind, Forget(r.box, gone), C2, D2 \cup gone, f)
        /\ kind = "wheel" =>
             /\ Forget(r.box, gone).cur = r.box.cur
             /\ \A t \in C2 : /\ Forget(r.box, gone).slot[t] = r.box.slot[t]
                              /\ Forget(r.box, gone).rotation[t] = r.box.rotation[t]
    BY <1>1, ForgetIs
  <2> QED BY <2>1
<1>4. /\ ResetTimer(r.box, f, tm) \in Nat \cup {Never}
      /\ (kind # "wheel" => \A t \in C2 : tm <= f[t])
           => Alarmed(kind, C2, f, tm, ResetTimer(r.box, f, tm))
  BY <1>1, ResetIs
<1>5. C2 \subseteq Timer
  BY <1>1, HeldTimers
<1>6. AfterCall(kind, r.box, box', C2, f, alarm')
  <2> DEFINE b == Forget(r.box, gone)
  <2> HIDE DEF b
  <2>1. kind = "wheel" => b.cur \in 0..(N - 1) /\ b.count \in Nat /\ b.rotation \in [Timer -> Nat]
    BY <1>3, WheelTyped DEF b
  <2>2. kind = "wheel" => \A t \in C2 : TicksTo(b, t) = TicksTo(r.box, t)
    BY <1>3 DEF TicksTo, b
  <2>3. box' = b /\ Held(kind, b, C2, Timer \ C2, f)
    BY <1>2, <1>3 DEF b
  <2> QED BY <1>2, <1>4, <2>1, <2>2, <2>3 DEF AfterCall
<1>7. ASSUME kind # "wheel" => \A t \in C2 : tm <= f[t],
             r.rearm \/ Alarmed(kind, C, e, tm, alarm)
      PROVE  Alarmed(kind, C2, f, tm, alarm')
  <2>1. CASE r.rearm
    BY <1>2, <1>4, <1>7, <2>1
  <2>2. CASE ~r.rearm
    <3>1. alarm' = alarm /\ kind # "wheel" /\ Alarmed(kind, C, e, tm, alarm)
      BY <1>1, <1>2, <1>7, <2>2
    <3>2. ASSUME NEW u \in C2
          PROVE  tm <= f[u] /\ alarm > 0 /\ (alarm = 1 \/ tm + alarm <= f[u])
      <4>1. PICK v \in C : e[v] <= f[u]
        BY <1>1, <2>2
      <4>2. tm <= e[v] /\ alarm > 0 /\ (alarm = 1 \/ tm + alarm <= e[v])
        BY <3>1, <4>1 DEF Alarmed
      <4>3. e[v] \in Int /\ f[u] \in Int /\ alarm \in Nat
        BY <1>5, <4>1, <4>2 DEF Never
      <4> QED BY <4>1, <4>2, <4>3
    <3> QED BY <3>1, <3>2 DEF Alarmed
  <2> QED BY <1>1, <2>1, <2>2
<1> QED BY <1>2, <1>6, <1>7


\* What is known while the process runs.
LEMMA RunIs ==
    ASSUME IInv, mode = "run"
    PROVE  /\ kind \in AllKinds /\ Armed \subseteq Timer /\ MaxTime \in Nat /\ Delays \subseteq Nat
           /\ expire \in [Timer -> Nat] /\ expire \in [Timer -> Int] /\ left \in [Timer -> Int]
           /\ state \in [Timer -> {"new", "armed", "fired", "deleted"}]
           /\ now \in 0..MaxTime /\ now \in Int /\ alarm \in Nat \cup {Never} /\ sigalrm \in BOOLEAN
           /\ Held(kind, box, Armed, Timer \ Armed, expire)
           /\ AllInTurn(kind, box, Armed, left, expire, now, sigalrm)
           /\ kind = "wheel" =>
                /\ box \in Wheel /\ TurnsKnown(box) /\ WheelOf(box, Armed, Timer \ Armed)
                /\ \A t \in Timer : TicksTo(box, t) \in Nat \ {0} /\ N \in Nat \ {0}
<1>1. TypeOK /\ Held(kind, box, Armed, Timer \ Armed, expire)
      /\ AllInTurn(kind, box, Armed, left, expire, now, sigalrm)
  BY DEF IInv
<1>2. kind \in AllKinds /\ MaxTime \in Nat /\ Delays \subseteq Nat
  BY <1>1, UseAssumption DEF TypeOK
<1>3. /\ expire \in [Timer -> Nat] /\ left \in [Timer -> Int]
      /\ state \in [Timer -> {"new", "armed", "fired", "deleted"}]
      /\ now \in 0..MaxTime /\ alarm \in Nat \cup {Never} /\ sigalrm \in BOOLEAN
  BY <1>1 DEF TypeOK
<1>4. expire \in [Timer -> Int] /\ now \in Int
  BY <1>2, <1>3
<1>5. kind = "wheel" => box \in Wheel /\ TurnsKnown(box) /\ WheelOf(box, Armed, Timer \ Armed)
  BY <1>1 DEF Held, WheelOf
<1>6. kind = "wheel" => \A t \in Timer : TicksTo(box, t) \in Nat \ {0} /\ N \in Nat \ {0}
  BY <1>5, TicksToNat
<1> QED BY <1>1, <1>2, <1>3, <1>4, <1>5, <1>6 DEF Armed

\* What a step has to leave for the invariant to hold again.
LEMMA RunsOn ==
    ASSUME IInv, mode = "run", NEW b, kind' = kind, mode' = "run",
           AfterCall(kind, b, box', Armed', expire', alarm'), expire' \in [Timer -> Nat],
           state' \in [Timer -> {"new", "armed", "fired", "deleted"}],
           now' \in 0..MaxTime, sigalrm' \in BOOLEAN, left' \in [Timer -> Int],
           AllInTurn(kind, b, Armed', left', expire', now', sigalrm')
    PROVE  IInv'
<1>1. Held(kind, box', Armed', Timer \ Armed', expire') /\ alarm' \in Nat \cup {Never}
  BY DEF AfterCall
<1>2. kind = "wheel" => /\ box'.cur \in 0..(N - 1) /\ box'.count \in Nat
                        /\ box'.rotation \in [Timer -> Nat]
                        /\ \A t \in Armed' : TicksTo(box', t) = TicksTo(b, t)
  BY DEF AfterCall
<1>3. AllInTurn(kind, box', Armed', left', expire', now', sigalrm')
  BY <1>2 DEF AllInTurn, InTurn
<1>4. kind \in Kinds
  BY DEF IInv, TypeOK
<1>5. TypeOK'
  BY <1>1, <1>2, <1>4 DEF TypeOK
<1>6. NoFault'
  BY DEF NoFault
<1> QED BY <1>1, <1>3, <1>5, <1>6 DEF IInv

\* A timer put into the wheel is in turn, and so are the others.
LEMMA PutTurns ==
    ASSUME IInv, mode = "run", kind = "wheel", NEW r, NEW C2, NEW D2, NEW t \in Timer,
           NEW d \in Nat, WheelPut(box, r, C2, D2, t, Ticks(d)), C2 \subseteq Armed \cup {t},
           NEW f, f[t] = now + d, \A u \in Armed \ {t} : f[u] = expire[u],
           NEW l, l[t] = AskedTicks(d), \A u \in Armed \ {t} : l[u] = left[u]
    PROVE  AllInTurn(kind, r.box, C2, l, f, now, sigalrm)
<1>1. /\ box \in Wheel /\ TurnsKnown(box) /\ now \in Int /\ Armed \subseteq Timer
      /\ \A u \in Armed : InTurn(box, left, expire, now, sigalrm, u)
  BY RunIs DEF AllInTurn
<1>2. AskedTicks(d) = Ticks(d) /\ Ticks(d) \in Nat \ {0} /\ d <= Ticks(d)
  BY TicksNat DEF AskedTicks, Ticks
<1>3. ASSUME NEW u \in Armed \ {t} PROVE InTurn(r.box, l, f, now, sigalrm, u)
  <2>1. TicksTo(r.box, u) = TicksTo(box, u)
    BY <1>1 DEF WheelPut, SameTurns, TicksTo
  <2> QED BY <1>1, <2>1 DEF InTurn
<1>4. InTurn(r.box, l, f, now, sigalrm, t)
  <2>1. TicksTo(r.box, t) \in Nat
        /\ (TicksTo(r.box, t) = Ticks(d) \/ TicksTo(r.box, t) = Ticks(d) + N)
    BY <1>1, <1>2, PutInTurn
  <2>2. N \in Nat
    BY WheelAssumption
  <2> DEFINE n == TicksTo(r.box, t)
             k == Ticks(d)
  <2>3. n \in Nat /\ k \in Nat /\ (n = k \/ n = k + N) /\ l[t] = k /\ f[t] = now + d /\ d <= k
    BY <1>2, <2>1
  <2> HIDE DEF n, k
  <2>4. (l[t] = n \/ l[t] = n - N) /\ f[t] - now <= n + (IF sigalrm THEN 0 ELSE 1)
    BY <1>1, <2>2, <2>3
  <2> QED BY <2>4 DEF InTurn, n
<1> QED BY <1>3, <1>4 DEF AllInTurn

LEMMA AddStep ==
    ASSUME IInv, NEW t \in Timer, NEW d \in Delays, Add(t, d)
    PROVE  IInv' /\ (AlarmKept => AlarmKept')
<1> DEFINE f == [expire EXCEPT ![t] = now + d]
           r == AddTimer(f, t)
           C == Armed
           C2 == Armed \cup {t}
           D2 == (Timer \ Armed) \ {t}
<1>1. mode = "run" /\ state[t] = "new" /\ expire' = f /\ Apply(r, f, now, {})
      /\ state' = [state EXCEPT ![t] = "armed"]
      /\ left' = [left EXCEPT ![t] = AskedTicks(d)]
      /\ kind' = kind /\ now' = now /\ sigalrm' = sigalrm
  BY DEF Add
<1>2. /\ kind \in AllKinds /\ C \subseteq Timer /\ MaxTime \in Nat /\ d \in Nat
      /\ expire \in [Timer -> Nat] /\ expire \in [Timer -> Int] /\ left \in [Timer -> Int]
      /\ state \in [Timer -> {"new", "armed", "fired", "deleted"}]
      /\ now \in 0..MaxTime /\ now \in Int /\ alarm \in Nat \cup {Never} /\ sigalrm \in BOOLEAN
      /\ Held(kind, box, Armed, Timer \ Armed, expire)
  BY <1>1, RunIs
<1>3. t \in Timer \ Armed /\ Armed' = C2
  BY <1>1, <1>2 DEF Armed
<1>4. /\ f \in [Timer -> Nat] /\ f \in [Timer -> Int] /\ f[t] = now + d /\ now <= f[t]
      /\ f[t] - now = d
      /\ (\A u \in Armed : f[u] = expire[u]) /\ \A u \in Armed \ {t} : f[u] = expire[u]
  BY <1>2, <1>3
<1>5. AskedTicks(d) \in Nat
  BY <1>2 DEF AskedTicks
<1>6. /\ left' \in [Timer -> Int] /\ left'[t] = AskedTicks(d)
      /\ \A u \in Armed \ {t} : left'[u] = left[u]
  BY <1>1, <1>2, <1>5
<1>7. state' \in [Timer -> {"new", "armed", "fired", "deleted"}]
  BY <1>1, <1>2
<1> HIDE DEF f, r
<1>8. /\ Outcome(kind, r, Armed, expire, C2, D2, f)
      /\ kind = "wheel" => WheelPut(box, r, C2, D2, t, Ticks(d))
  <2>1. /\ Outcome(kind, AddTimer(f, t), Armed, expire, C2, D2, f)
        /\ kind = "wheel" => WheelPut(box, AddTimer(f, t), C2, D2, t, Ticks(f[t] - now))
    BY <1>2, <1>3, <1>4, AddOutcome
  <2> QED BY <1>4, <2>1 DEF r
<1>9. /\ mode' = "run" /\ AfterCall(kind, r.box, box', C2, f, alarm')
      /\ /\ kind # "wheel" => \A u \in C2 : now <= f[u]
         /\ r.rearm \/ Alarmed(kind, C, expire, now, alarm)
         => Alarmed(kind, C2, f, now, alarm')
  <2>1. D2 \in SUBSET Timer /\ {} \in SUBSET Timer /\ {} \cap C2 = {} /\ D2 \cup {} = Timer \ C2
    OBVIOUS
  <2> HIDE DEF C2, D2
  <2> QED BY <1>1, <1>2, <1>4, <1>8, <2>1, ApplyIs
<1>10. AllInTurn(kind, r.box, C2, left', f, now, sigalrm)
  <2>1. CASE kind = "wheel"
    <3>1. C2 \subseteq Armed \cup {t}
      OBVIOUS
    <3> HIDE DEF C2, D2
    <3> QED BY <1>1, <1>2, <1>4, <1>6, <1>8, <2>1, <3>1, PutTurns
  <2>2. CASE kind # "wheel"
    BY <2>2 DEF AllInTurn
  <2> QED BY <2>1, <2>2
<1>11. IInv'
  <2> HIDE DEF C2
  <2> QED BY <1>1, <1>2, <1>3, <1>4, <1>6, <1>7, <1>9, <1>10, RunsOn
<1>12. ASSUME AlarmKept PROVE AlarmKept'
  <2> SUFFICES ASSUME ~sigalrm PROVE Alarmed(kind, C2, f, now, alarm')
    BY <1>1, <1>3 DEF AlarmKept
  <2>1. Alarmed(kind, C, expire, now, alarm)
    BY <1>1, <1>12 DEF AlarmKept
  <2>2. kind # "wheel" => \A u \in C2 : now <= f[u]
    BY <1>4, <2>1 DEF Alarmed
  <2> QED BY <1>9, <2>1, <2>2
<1> QED BY <1>11, <1>12


LEMMA AdjustStep ==
    ASSUME Careful, IInv, NEW t \in Timer, NEW d \in Delays, Adjust(t, d)
    PROVE  IInv' /\ (AlarmKept => AlarmKept')
<1> DEFINE f == [expire EXCEPT ![t] = now + d]
           r == AdjustTimer(f, t)
           C == Armed
           D2 == Timer \ Armed
<1>1. mode = "run" /\ t \in C /\ expire' = f /\ Apply(r, f, now, {}) /\ MayAdjust(t, d)
      /\ left' = [left EXCEPT ![t] = AskedTicks(d)]
      /\ kind' = kind /\ state' = state /\ now' = now /\ sigalrm' = sigalrm
  BY DEF Adjust
<1>2. /\ kind \in AllKinds /\ C \subseteq Timer /\ MaxTime \in Nat /\ d \in Nat
      /\ expire \in [Timer -> Nat] /\ expire \in [Timer -> Int] /\ left \in [Timer -> Int]
      /\ state \in [Timer -> {"new", "armed", "fired", "deleted"}]
      /\ now \in 0..MaxTime /\ now \in Int /\ alarm \in Nat \cup {Never} /\ sigalrm \in BOOLEAN
      /\ Held(kind, box, Armed, Timer \ Armed, expire)
  BY <1>1, RunIs
<1>3. Armed' = C
  BY <1>1 DEF Armed
<1>4. /\ f \in [Timer -> Nat] /\ f \in [Timer -> Int] /\ f[t] = now + d /\ now <= f[t]
      /\ f[t] - now = d /\ \A u \in Armed \ {t} : f[u] = expire[u]
  BY <1>2
<1>5. AskedTicks(d) \in Nat
  BY <1>2 DEF AskedTicks
<1>6. /\ left' \in [Timer -> Int] /\ left'[t] = AskedTicks(d)
      /\ \A u \in Armed \ {t} : left'[u] = left[u]
  BY <1>1, <1>2, <1>5
<1>7. Adjustable(kind, box, expire, f, t)
  <2>1. AnyUse => kind = "heap"
    BY DEF Careful, IInv, TypeOK
  <2>2. ~AnyUse /\ kind = "list" =>
          /\ now + d >= expire[IF box.prev[t] = Null THEN t ELSE box.prev[t]]
          /\ box.next[t] # Null => now + d <= expire[box.next[t]]
    BY <1>1 DEF MayAdjust
  <2>3. ~AnyUse /\ kind = "wheel" =>
          /\ box.prev[t] = Null
          /\ box.next[t] = Null \/ box.slots[(box.cur + Ticks(d)) % N] # Null
    BY <1>1 DEF MayAdjust
  <2>4. kind = "list" => box.prev[t] \in Armed \cup {Null}
    BY <1>1, <1>2, PrevHeld DEF Held
  <2>5. kind = "list" => expire[IF box.prev[t] = Null THEN t ELSE box.prev[t]] \in Int
    BY <1>1, <1>2, <2>4
  <2> HIDE DEF f
  <2>6. kind = "list" /\ ~AnyUse => /\ expire[IF box.prev[t] = Null THEN t ELSE box.prev[t]] <= f[t]
                                    /\ box.next[t] # Null => f[t] <= expire[box.next[t]]
    BY <1>2, <1>4, <2>2, <2>5
  <2>7. kind = "wheel" /\ ~AnyUse =>
          /\ box.prev[t] = Null
          /\ box.next[t] = Null \/ box.slots[(box.cur + Ticks(f[t] - now)) % N] # Null
    BY <1>4, <2>3
  <2> QED BY <2>1, <2>6, <2>7 DEF Adjustable, AllKinds
<1> HIDE DEF f, r
<1>8. /\ Outcome(kind, r, Armed, expire, C, D2, f)
      /\ kind = "wheel" => WheelPut(box, r, C, D2, t, Ticks(d))
  <2>1. /\ Outcome(kind, AdjustTimer(f, t), Armed, expire, C, D2, f)
        /\ kind = "wheel" => WheelPut(box, AdjustTimer(f, t), C, D2, t, Ticks(f[t] - now))
    BY <1>1, <1>2, <1>4, <1>7, AdjustOutcome
  <2> QED BY <1>4, <2>1 DEF r
<1>9. /\ mode' = "run" /\ AfterCall(kind, r.box, box', C, f, alarm')
      /\ /\ kind # "wheel" => \A u \in C : now <= f[u]
         /\ r.rearm \/ Alarmed(kind, C, expire, now, alarm)
         => Alarmed(kind, C, f, now, alarm')
  <2>1. D2 \in SUBSET Timer /\ {} \in SUBSET Timer /\ {} \cap C = {} /\ D2 \cup {} = Timer \ C
    BY <1>2
  <2> HIDE DEF D2
  <2> QED BY <1>1, <1>2, <1>4, <1>8, <2>1, ApplyIs
<1>10. AllInTurn(kind, r.box, C, left', f, now, sigalrm)
  <2>1. CASE kind = "wheel"
    <3>1. C \subseteq Armed \cup {t}
      OBVIOUS
    <3> HIDE DEF C, D2
    <3> QED BY <1>1, <1>2, <1>4, <1>6, <1>8, <2>1, <3>1, PutTurns
  <2>2. CASE kind # "wheel"
    BY <2>2 DEF AllInTurn
  <2> QED BY <2>1, <2>2
<1>11. IInv'
  <2> HIDE DEF C
  <2> QED BY <1>1, <1>2, <1>3, <1>4, <1>6, <1>9, <1>10, RunsOn
<1>12. ASSUME AlarmKept PROVE AlarmKept'
  <2> SUFFICES ASSUME ~sigalrm PROVE Alarmed(kind, C, f, now, alarm')
    BY <1>1, <1>3 DEF AlarmKept
  <2>1. Alarmed(kind, C, expire, now, alarm)
    BY <1>1, <1>12 DEF AlarmKept
  <2>2. kind # "wheel" => \A u \in C : now <= f[u]
    BY <1>4, <2>1 DEF Alarmed
  <2> QED BY <1>9, <2>1, <2>2
<1> QED BY <1>11, <1>12

LEMMA DelStep ==
    ASSUME Careful, IInv, NEW t \in Timer, Del(t)
    PROVE  IInv' /\ (AlarmKept => AlarmKept')
<1> DEFINE r == DelTimer(t)
           C == Armed
           C2 == Armed \ {t}
           D2 == Timer \ Armed
<1>1. mode = "run" /\ t \in C /\ Apply(r, expire, now, {t}) /\ MayDel(t)
      /\ state' = [state EXCEPT ![t] = "deleted"]
      /\ expire' = [expire EXCEPT ![t] = 0] /\ left' = [left EXCEPT ![t] = 0]
      /\ kind' = kind /\ now' = now /\ sigalrm' = sigalrm
  BY DEF Del
<1>2. /\ kind \in AllKinds /\ C \subseteq Timer /\ MaxTime \in Nat
      /\ expire \in [Timer -> Nat] /\ expire \in [Timer -> Int] /\ left \in [Timer -> Int]
      /\ state \in [Timer -> {"new", "armed", "fired", "deleted"}]
      /\ now \in 0..MaxTime /\ now \in Int /\ alarm \in Nat \cup {Never} /\ sigalrm \in BOOLEAN
      /\ Held(kind, box, Armed, Timer \ Armed, expire)
      /\ AllInTurn(kind, box, Armed, left, expire, now, sigalrm)
  BY <1>1, RunIs
<1>3. Armed' = C2
  BY <1>1, <1>2 DEF Armed
<1>4. /\ expire' \in [Timer -> Nat] /\ left' \in [Timer -> Int]
      /\ \A u \in C2 : u \in Timer /\ expire'[u] = expire[u] /\ left'[u] = left[u]
      /\ state' \in [Timer -> {"new", "armed", "fired", "deleted"}]
  BY <1>1, <1>2
<1>5. kind = "list" /\ t = box.tail => t = box.head
  BY <1>1 DEF MayDel, Careful, IInv, TypeOK
<1>6. /\ Outcome(kind, r, Armed, expire, C2, D2, expire)
      /\ kind = "wheel" => WheelTaken(box, r, C2, D2, t)
  BY <1>1, <1>2, <1>5, DelOutcome
<1> HIDE DEF r
<1>7. /\ mode' = "run" /\ AfterCall(kind, r.box, box', C2, expire, alarm')
      /\ /\ kind # "wheel" => \A u \in C2 : now <= expire[u]
         /\ r.rearm \/ Alarmed(kind, C, expire, now, alarm)
         => Alarmed(kind, C2, expire, now, alarm')
  <2>1. D2 \in SUBSET Timer /\ {t} \in SUBSET Timer /\ {t} \cap C2 = {}
        /\ D2 \cup {t} = Timer \ C2
    BY <1>1, <1>2
  <2> HIDE DEF C2, D2
  <2> QED BY <1>1, <1>2, <1>6, <2>1, ApplyIs
<1>8. AfterCall(kind, r.box, box', C2, expire', alarm')
  <2>1. \A u \in C2 : expire'[u] = expire[u]
    BY <1>4
  <2> HIDE DEF C2
  <2> QED BY <1>2, <1>7, <2>1, HeldKeys DEF AfterCall
<1>9. AllInTurn(kind, r.box, C2, left', expire', now, sigalrm)
  <2> SUFFICES ASSUME kind = "wheel", NEW u \in C2
               PROVE  InTurn(r.box, left', expire', now, sigalrm, u)
    BY DEF AllInTurn
  <2>1. TicksTo(r.box, u) = TicksTo(box, u)
    BY <1>4, <1>6 DEF WheelTaken, SameTurns, TicksTo
  <2>2. InTurn(box, left, expire, now, sigalrm, u)
    BY <1>2 DEF AllInTurn
  <2> QED BY <1>4, <2>1, <2>2 DEF InTurn
<1>10. IInv'
  <2> HIDE DEF C2
  <2> QED BY <1>1, <1>2, <1>3, <1>4, <1>7, <1>8, <1>9, RunsOn
<1>11. ASSUME AlarmKept PROVE AlarmKept'
  <2> SUFFICES ASSUME ~sigalrm PROVE Alarmed(kind, C2, expire', now, alarm')
    BY <1>1, <1>3 DEF AlarmKept
  <2>1. Alarmed(kind, C, expire, now, alarm)
    BY <1>1, <1>11 DEF AlarmKept
  <2>2. kind # "wheel" => \A u \in C2 : now <= expire[u]
    BY <2>1 DEF Alarmed
  <2>3. Alarmed(kind, C2, expire, now, alarm')
    BY <1>7, <2>1, <2>2
  <2> QED BY <1>4, <2>3 DEF Alarmed
<1> QED BY <1>10, <1>11


\* What tick runs: timers of the container that have expired, or in the wheel
\* will at the next second, and in the heap and the list all that have.
LEMMA TickRuns ==
    ASSUME IInv, NEW d, Tick(d)
    PROVE  /\ RunTick.fired = Running(kind, box, Armed, expire, now)
           /\ RunTick.fired \subseteq Armed
           /\ \A t \in RunTick.fired : expire[t] <= now + (IF kind = "wheel" THEN 1 ELSE 0)
<1> DEFINE S == Running(kind, box, Armed, expire, now)
           D == Timer \ Armed
<1>1. mode = "run" /\ sigalrm
  BY DEF Tick
<1>2. /\ kind \in AllKinds /\ Armed \subseteq Timer /\ now \in Int
      /\ expire \in [Timer -> Int] /\ Held(kind, box, Armed, Timer \ Armed, expire)
      /\ AllInTurn(kind, box, Armed, left, expire, now, sigalrm)
      /\ kind = "wheel" => TurnsKnown(box) /\ WheelOf(box, Armed, D)
  BY <1>1, RunIs
<1>3. /\ RunTick.fired = S /\ S \subseteq Armed
      /\ kind = "wheel" => WheelTurned(box, RunTick, Armed, D)
  BY <1>2, TickOutcome
<1>4. CASE kind = "wheel"
  <2>1. S = Due(box, Armed)
    BY <1>4 DEF Running
  <2>2. \A t \in S : TicksTo(box, t) = 1
    BY <1>2, <1>3, <1>4, <2>1, TurnedInTurn
  <2>3. ASSUME NEW t \in S PROVE expire[t] <= now + 1
    <3>1. expire[t] - now <= TicksTo(box, t) + 0
      BY <1>1, <1>2, <1>3, <1>4 DEF AllInTurn, InTurn
    <3>2. TicksTo(box, t) = 1 /\ expire[t] \in Int
      BY <1>2, <1>3, <2>2
    <3> QED BY <1>2, <3>1, <3>2
  <2> QED BY <1>3, <1>4, <2>3
<1>5. CASE kind # "wheel"
  <2>1. \A t \in S : expire[t] <= now
    BY <1>5 DEF Running, Late
  <2>2. now + 0 = now
    BY <1>2
  <2> QED BY <1>3, <1>5, <2>1, <2>2
<1> QED BY <1>4, <1>5

LEMMA TickStep ==
    ASSUME IInv, NEW d \in TickTimes, Tick(d)
    PROVE  IInv' /\ (TicksShort /\ AlarmKept => AlarmKept')
<1> DEFINE r == RunTick
           C == Armed
           S == Running(kind, box, Armed, expire, now)
           C2 == Armed \ S
           D2 == Timer \ Armed
           tm == now + d
<1>1. mode = "run" /\ sigalrm /\ now + d <= MaxTime /\ Apply(r, expire, tm, r.fired)
      /\ state' = [t \in Timer |-> IF t \in r.fired THEN "fired" ELSE state[t]]
      /\ expire' = [t \in Timer |-> IF t \in r.fired THEN 0 ELSE expire[t]]
      /\ left' = [t \in Timer |-> IF kind = "wheel" /\ state'[t] = "armed"
                                  THEN left[t] - 1 ELSE 0]
      /\ now' = now + d /\ sigalrm' = (0 < alarm /\ alarm <= d) /\ kind' = kind
  BY DEF Tick
<1>2. /\ kind \in AllKinds /\ C \subseteq Timer /\ MaxTime \in Nat
      /\ expire \in [Timer -> Nat] /\ expire \in [Timer -> Int] /\ left \in [Timer -> Int]
      /\ state \in [Timer -> {"new", "armed", "fired", "deleted"}]
      /\ now \in 0..MaxTime /\ now \in Int /\ alarm \in Nat \cup {Never} /\ sigalrm \in BOOLEAN
      /\ Held(kind, box, Armed, Timer \ Armed, expire)
      /\ AllInTurn(kind, box, Armed, left, expire, now, sigalrm)
      /\ kind = "wheel" =>
           /\ box \in Wheel /\ TurnsKnown(box) /\ WheelOf(box, Armed, Timer \ Armed)
           /\ \A t \in Timer : TicksTo(box, t) \in Nat \ {0} /\ N \in Nat \ {0}
  BY <1>1, RunIs
<1>3. /\ Outcome(kind, r, Armed, expire, C2, D2, expire)
      /\ r.fired = S /\ S \subseteq Armed /\ (~r.rearm => Armed = {})
      /\ kind = "wheel" => WheelTurned(box, r, Armed, D2)
  BY <1>2, TickOutcome
<1> HIDE DEF r, S
<1>4. d \in Nat /\ tm \in Int /\ now' \in 0..MaxTime /\ sigalrm' \in BOOLEAN
  BY <1>1, <1>2, UseAssumption
<1>5. Armed' = C2 /\ \A u \in C2 : u \in Timer /\ state'[u] = "armed"
  BY <1>1, <1>2, <1>3 DEF Armed
<1>6. /\ expire' \in [Timer -> Nat]
      /\ state' \in [Timer -> {"new", "armed", "fired", "deleted"}]
      /\ \A u \in C2 : expire'[u] = expire[u]
  BY <1>1, <1>2, <1>3
<1>7. left' \in [Timer -> Int] /\ (kind = "wheel" => \A u \in C2 : left'[u] = left[u] - 1)
  BY <1>1, <1>2, <1>5
<1>8. /\ mode' = "run" /\ AfterCall(kind, r.box, box', C2, expire, alarm')
      /\ /\ kind # "wheel" => \A u \in C2 : tm <= expire[u]
         /\ r.rearm \/ Alarmed(kind, C, expire, tm, alarm)
         => Alarmed(kind, C2, expire, tm, alarm')
  <2>1. D2 \in SUBSET Timer /\ S \in SUBSET Timer /\ S \cap C2 = {} /\ D2 \cup S = Timer \ C2
    BY <1>2, <1>3
  <2>2. Apply(r, expire, tm, S)
    BY <1>1, <1>3
  <2> HIDE DEF C2, D2, tm
  <2> QED BY <1>2, <1>3, <1>4, <2>1, <2>2, ApplyIs
<1>9. AfterCall(kind, r.box, box', C2, expire', alarm')
  <2> HIDE DEF C2
  <2> QED BY <1>2, <1>6, <1>8, HeldKeys DEF AfterCall
<1>10. AllInTurn(kind, r.box, C2, left', expire', now', sigalrm')
  <2> SUFFICES ASSUME kind = "wheel", NEW u \in C2
               PROVE  InTurn(r.box, left', expire', now', sigalrm', u)
    BY DEF AllInTurn
  <2> DEFINE n == TicksTo(box, u)
             x == expire[u]
  <2>1. S = Due(box, Armed)
    BY DEF S, Running
  <2>2. TicksTo(r.box, u) = n - 1
    BY <1>2, <1>3, <2>1, TurnedInTurn
  <2>3. (left[u] = n \/ left[u] = n - N) /\ x - now <= n + 0
    BY <1>1, <1>2 DEF AllInTurn, InTurn
  <2>4. n \in Nat \ {0} /\ N \in Nat \ {0} /\ x \in Int /\ expire'[u] = x /\ left'[u] = left[u] - 1
    BY <1>2, <1>5, <1>6, <1>7
  <2> HIDE DEF n, x
  <2>5. (left'[u] = n - 1 \/ left'[u] = (n - 1) - N)
    BY <2>3, <2>4
  <2>6. 0 < alarm /\ alarm <= d => d >= 1
    BY <1>2, <1>4 DEF Never
  <2>7. x - (now + d) <= (n - 1) + (IF sigalrm' THEN 0 ELSE 1)
    <3>1. d >= 1 => x - (now + d) <= (n - 1) + 0
      BY <1>2, <1>4, <2>3, <2>4
    <3>2. x - (now + d) <= (n - 1) + 1
      BY <1>2, <1>4, <2>3, <2>4
    <3>3. sigalrm' => d >= 1
      BY <1>1, <2>6, Zenon
    <3> QED BY <3>1, <3>2, <3>3
  <2> QED BY <1>1, <2>2, <2>4, <2>5, <2>7 DEF InTurn
<1>11. IInv'
  <2> HIDE DEF C2
  <2> QED BY <1>1, <1>2, <1>4, <1>5, <1>6, <1>7, <1>8, <1>9, <1>10, RunsOn
<1>12. ASSUME TicksShort PROVE AlarmKept'
  <2>1. d = 0 \/ d = 1
    BY <1>12 DEF TicksShort
  <2>2. kind # "wheel" => \A u \in C2 : tm <= expire[u]
    <3> SUFFICES ASSUME kind # "wheel", NEW u \in C2 PROVE now + d <= expire[u]
      OBVIOUS
    <3>1. ~(expire[u] <= now) /\ expire[u] \in Int
      BY <1>2 DEF S, Running, Late
    <3> QED BY <1>2, <2>1, <3>1
  <2>3. r.rearm \/ Alarmed(kind, C, expire, tm, alarm)
    BY <1>3 DEF Alarmed
  <2>4. Alarmed(kind, C2, expire, tm, alarm')
    BY <1>8, <2>2, <2>3
  <2>5. Alarmed(kind, C2, expire', now', alarm')
    BY <1>1, <1>6, <2>4 DEF Alarmed
  <2> QED BY <1>1, <1>5, <2>5 DEF AlarmKept
<1> QED BY <1>11, <1>12

LEMMA AdvanceStep ==
    ASSUME IInv, Advance
    PROVE  IInv' /\ (AlarmKept => AlarmKept')
<1>1. /\ mode = "run" /\ now < MaxTime /\ now' = now + 1
      /\ alarm' = (IF alarm > 0 THEN alarm - 1 ELSE alarm)
      /\ sigalrm' = (sigalrm \/ alarm = 1)
      /\ kind' = kind /\ box' = box /\ expire' = expire /\ state' = state /\ mode' = mode
      /\ left' = left
  BY DEF Advance
<1>2. /\ kind \in AllKinds /\ Armed \subseteq Timer /\ MaxTime \in Nat
      /\ expire \in [Timer -> Nat] /\ expire \in [Timer -> Int] /\ left \in [Timer -> Int]
      /\ state \in [Timer -> {"new", "armed", "fired", "deleted"}]
      /\ now \in 0..MaxTime /\ now \in Int /\ alarm \in Nat \cup {Never} /\ sigalrm \in BOOLEAN
      /\ Held(kind, box, Armed, Timer \ Armed, expire)
      /\ AllInTurn(kind, box, Armed, left, expire, now, sigalrm)
      /\ kind = "wheel" =>
           /\ box \in Wheel /\ TurnsKnown(box) /\ WheelOf(box, Armed, Timer \ Armed)
           /\ \A t \in Timer : TicksTo(box, t) \in Nat \ {0} /\ N \in Nat \ {0}
  BY <1>1, RunIs
<1>3. Armed' = Armed
  BY <1>1 DEF Armed
<1>4. now' \in 0..MaxTime /\ sigalrm' \in BOOLEAN /\ alarm' \in Nat \cup {Never}
  BY <1>1, <1>2
<1>5. AfterCall(kind, box, box', Armed', expire', alarm')
  <2>1. kind = "wheel" => /\ box.cur \in 0..(N - 1) /\ box.count \in Nat
                          /\ box.rotation \in [Timer -> Nat]
    BY <1>2, WheelTyped
  <2> QED BY <1>1, <1>2, <1>3, <1>4, <2>1 DEF AfterCall
<1>6. AllInTurn(kind, box, Armed', left', expire', now', sigalrm')
  <2> SUFFICES ASSUME kind = "wheel", NEW u \in Armed
               PROVE  InTurn(box, left, expire, now', sigalrm', u)
    BY <1>1, <1>3 DEF AllInTurn
  <2>1. /\ left[u] = TicksTo(box, u) \/ left[u] = TicksTo(box, u) - N
        /\ expire[u] - now <= TicksTo(box, u) + (IF sigalrm THEN 0 ELSE 1)
    BY <1>2 DEF AllInTurn, InTurn
  <2>2. TicksTo(box, u) \in Nat /\ expire[u] \in Int
    BY <1>2
  <2>3. expire[u] - now' <= TicksTo(box, u) + (IF sigalrm' THEN 0 ELSE 1)
    BY <1>1, <1>2, <2>1, <2>2
  <2> QED BY <2>1, <2>3 DEF InTurn
<1>7. IInv'
  BY <1>1, <1>2, <1>4, <1>5, <1>6, RunsOn
<1>8. ASSUME AlarmKept PROVE AlarmKept'
  <2> SUFFICES ASSUME ~sigalrm, alarm # 1 PROVE Alarmed(kind, Armed, expire, now', alarm')
    BY <1>1, <1>3 DEF AlarmKept
  <2>1. Alarmed(kind, Armed, expire, now, alarm)
    BY <1>1, <1>8 DEF AlarmKept
  <2>2. ASSUME NEW u \in Armed
        PROVE  /\ alarm' > 0 /\ kind # "wheel"
               /\ now' <= expire[u] /\ (alarm' = 1 \/ now' + alarm' <= expire[u])
    <3>1. /\ alarm > 0 /\ (kind = "wheel" => alarm = 1)
          /\ kind # "wheel" => now <= expire[u] /\ (alarm = 1 \/ now + alarm <= expire[u])
      BY <2>1 DEF Alarmed
    <3>2. expire[u] \in Int /\ alarm \in Nat
      BY <1>2, <3>1 DEF Never
    <3> QED BY <1>1, <1>2, <3>1, <3>2
  <2> QED BY <2>2 DEF Alarmed
<1> QED BY <1>7, <1>8


LEMMA DestroyStep ==
    ASSUME IInv, Destroy
    PROVE  IInv' /\ AlarmKept'
<1>1. /\ mode = "run" /\ mode' = "destroyed" /\ alarm' = Off
      /\ state' = [t \in Timer |-> IF t \in Linked THEN "deleted" ELSE state[t]]
      /\ left' = [t \in Timer |-> 0] /\ expire' = [t \in Timer |-> 0]
      /\ kind' = kind /\ box' = box /\ now' = now /\ sigalrm' = sigalrm
  BY DEF Destroy
<1>2. TypeOK
  BY DEF IInv
<1>3. state' \in [Timer -> {"new", "armed", "fired", "deleted"}]
  BY <1>1, <1>2 DEF TypeOK
<1>4. TypeOK'
  BY <1>1, <1>2, <1>3 DEF TypeOK, Off
<1>5. NoFault' /\ mode' # "run"
  BY <1>1 DEF NoFault
<1> QED BY <1>4, <1>5 DEF IInv, AlarmKept

\* A new container holds no timer.
LEMMA EmptyIs ==
    ASSUME NEW k \in AllKinds, NEW e, kind = k
    PROVE  Held(k, Empty, {}, Timer, e)
<1> DEFINE s == <<>>
<1>1. Holds(s, {}) /\ Len(s) = 0 /\ s \in Seq(Timer)
  BY DEF Holds
<1> HIDE DEF s
<1>2. ASSUME k = "heap" PROVE Heap(Empty, {}, e)
  <2>1. Empty = s
    BY <1>2 DEF Empty, EmptyHeap, s
  <2>2. HeapOrder(KeysOf(s, e), Len(s))
    BY <1>1 DEF HeapOrder
  <2> QED BY <1>1, <2>1, <2>2 DEF Heap
<1>3. ASSUME k = "list" PROVE SortedList(Empty, {}, Timer, e)
  <2>1. Empty = EmptyList
    BY <1>3 DEF Empty
  <2>2. ListOf(EmptyList, s, {}, Timer)
    <3>1. s = <<>> /\ At(s, 1) = Null
      BY <1>1 DEF At, s
    <3>2. Linking(EmptyList.next, EmptyList.prev, s)
      BY <1>1 DEF Linking
    <3> QED BY <1>1, <3>1, <3>2 DEF ListOf, EmptyList, ListBox, Links, NoLinks
  <2>3. Sorted(s, e)
    BY <1>1 DEF Sorted
  <2> QED BY <2>1, <2>2, <2>3 DEF SortedList
<1>4. ASSUME k = "wheel" PROVE WheelOf(Empty, {}, Timer) /\ TurnsKnown(Empty)
  <2>1. Empty = EmptyWheel
    BY <1>4 DEF Empty
  <2>2. EmptyWheel \in Wheel
    BY WheelAssumption DEF EmptyWheel, Wheel, Links, NoLinks
  <2>3. /\ \A u \in 0..(N - 1) : EmptyWheel.slots[u] = Null
        /\ \A t \in Timer : /\ EmptyWheel.next[t] = Null /\ EmptyWheel.prev[t] = Null
                            /\ EmptyWheel.rotation[t] = 0
        /\ EmptyWheel.count = 0
    BY DEF EmptyWheel, NoLinks
  <2> DEFINE b == EmptyWheel
  <2> HIDE DEF b
  <2>4. ASSUME NEW u \in 0..(N - 1) PROVE SlotIs(b, {}, u, s)
    <3>1. InSlot(b, {}, u) = {}
      BY DEF InSlot
    <3>2. Linking(b.next, b.prev, s) /\ At(s, 1) = Null
      BY <1>1 DEF Linking, At
    <3> QED BY <1>1, <2>3, <3>1, <3>2 DEF SlotIs, b
  <2>5. b.count = Cardinality({})
    BY <2>3, FS_EmptySet DEF b
  <2>6. WheelOf(b, {}, Timer)
    BY <2>2, <2>3, <2>4, <2>5 DEF WheelOf, SlotsOf, b
  <2>7. TurnsKnown(b)
    BY <2>3 DEF TurnsKnown, b
  <2> QED BY <2>1, <2>6, <2>7 DEF b
<1> QED BY <1>2, <1>3, <1>4 DEF Held, AllKinds

LEMMA InitOK == Init => IInv /\ AlarmKept
<1> SUFFICES ASSUME Init PROVE IInv /\ AlarmKept
  OBVIOUS
<1>1. /\ kind \in Kinds /\ kind \in AllKinds /\ box = Empty
      /\ expire = [t \in Timer |-> 0] /\ state = [t \in Timer |-> "new"]
      /\ left = [t \in Timer |-> 0]
      /\ now = 0 /\ alarm = Off /\ sigalrm = FALSE /\ mode = "run"
  BY UseAssumption DEF Init
<1>2. Armed = {} /\ Timer \ Armed = Timer
  BY <1>1 DEF Armed
<1>3. Held(kind, box, Armed, Timer \ Armed, expire)
  BY <1>1, <1>2, EmptyIs
<1>4. kind = "wheel" => /\ box.cur \in 0..(N - 1) /\ box.count \in Nat
                        /\ box.rotation \in [Timer -> Nat]
  BY <1>3, WheelTyped
<1>5. TypeOK
  <2>1. expire \in [Timer -> Nat] /\ left \in [Timer -> Int]
        /\ state \in [Timer -> {"new", "armed", "fired", "deleted"}]
    BY <1>1
  <2>2. now \in 0..MaxTime
    BY <1>1, UseAssumption
  <2>3. alarm \in Nat \cup {Never}
    BY <1>1 DEF Off
  <2>4. sigalrm \in BOOLEAN
    BY <1>1
  <2>5. kind \in Kinds /\ mode \in {"run", "destroyed", "pointer", "assert"}
    BY <1>1
  <2> QED BY <1>4, <2>1, <2>2, <2>3, <2>4, <2>5 DEF TypeOK
<1>6. NoFault
  BY <1>1 DEF NoFault
<1>7. AllInTurn(kind, box, Armed, left, expire, now, sigalrm) /\ AlarmKept
  BY <1>2 DEF AllInTurn, AlarmKept, Alarmed
<1> QED BY <1>3, <1>5, <1>6, <1>7 DEF IInv

LEMMA NextOK ==
    ASSUME Careful, IInv, [Next]_vars
    PROVE  IInv' /\ (TicksShort /\ AlarmKept => AlarmKept')
<1>1. CASE UNCHANGED vars
  <2>1. TypeOK' /\ NoFault' /\ Armed' = Armed
    BY <1>1 DEF IInv, TypeOK, NoFault, Armed, vars
  <2> QED BY <1>1, <2>1 DEF IInv, AlarmKept, vars
<1>2. ASSUME NEW t \in Timer, NEW d \in Delays, Add(t, d) \/ Adjust(t, d)
      PROVE  IInv' /\ (TicksShort /\ AlarmKept => AlarmKept')
  BY <1>2, AddStep, AdjustStep
<1>3. ASSUME NEW t \in Timer, Del(t)
      PROVE  IInv' /\ (TicksShort /\ AlarmKept => AlarmKept')
  BY <1>3, DelStep
<1>4. ASSUME NEW d \in TickTimes, Tick(d)
      PROVE  IInv' /\ (TicksShort /\ AlarmKept => AlarmKept')
  BY <1>4, TickStep
<1>5. CASE Advance
  BY <1>5, AdvanceStep
<1>6. CASE Destroy
  BY <1>6, DestroyStep
<1> QED BY <1>1, <1>2, <1>3, <1>4, <1>5, <1>6 DEF Next, Stopped

\* The invariant holds for any calls of a heap, and of a list or a wheel for
\* the calls that MayAdjust and MayDel leave.
THEOREM TimersInvariant ==
    ASSUME Careful
    PROVE  Spec => []IInv
<1>1. Init => IInv
  BY InitOK
<1>2. IInv /\ [Next]_vars => IInv'
  BY NextOK
<1> QED BY <1>1, <1>2, PTL DEF Spec
-----------------------------------------------------------------------------
(* The properties *)

\* The chain of a slot of wheel b leads to the timers of that slot, once.
SlotMeets(b, C, u) ==
    LET c == Chain(b.next, b.slots[u])
    IN /\ {c[i] : i \in DOMAIN c} = InSlot(b, C, u)
       /\ \A t \in C : Cardinality({i \in DOMAIN c : c[i] = t})
                         = IF b.slot[t] = u THEN 1 ELSE 0

\* Every slot's does.
LEMMA SlotLinks ==
    ASSUME NEW b, NEW C, NEW D, WheelOf(b, C, D), NEW u \in 0..(N - 1)
    PROVE  SlotMeets(b, C, u)
<1>1. PICK s : Holds(s, InSlot(b, C, u)) /\ Chain(b.next, b.slots[u]) = s
  BY SlotOf
<1>2. {s[i] : i \in DOMAIN s} = InSlot(b, C, u)
  BY <1>1, HoldsCount
<1>3. DOMAIN s = 1..Len(s) /\ \A i, j \in 1..Len(s) : s[i] = s[j] => i = j
  BY <1>1, HoldsIs, LenProperties
<1>4. ASSUME NEW t \in C
      PROVE  Cardinality({i \in DOMAIN s : s[i] = t}) = IF b.slot[t] = u THEN 1 ELSE 0
  <2> DEFINE places == {i \in DOMAIN s : s[i] = t}
  <2>1. CASE b.slot[t] = u
    <3>1. t \in InSlot(b, C, u)
      BY <2>1 DEF InSlot
    <3>2. PICK i \in DOMAIN s : s[i] = t
      BY <1>2, <3>1
    <3>3. places = {i}
      BY <1>3, <3>2
    <3> HIDE DEF places
    <3>4. Cardinality(places) = 1
      BY <3>3, FS_Singleton
    <3> QED BY <2>1, <3>4 DEF places
  <2>2. CASE b.slot[t] # u
    <3>1. t \notin InSlot(b, C, u)
      BY <2>2 DEF InSlot
    <3>2. places = {}
      BY <1>2, <3>1
    <3> HIDE DEF places
    <3>3. Cardinality(places) = 0
      BY <3>2, FS_EmptySet
    <3> QED BY <2>2, <3>3 DEF places
  <2> QED BY <2>1, <2>2
<1> QED BY <1>1, <1>2, <1>4 DEF SlotMeets

\* Following its links one meets exactly the timers that the container holds.
LEMMA LinkedIs ==
    ASSUME kind \in AllKinds, Held(kind, box, Armed, Timer \ Armed, expire)
    PROVE  /\ Linked = Armed
           /\ kind = "heap" => Len(box) = Cardinality(Armed)
           /\ kind = "list" => Len(Chain(box.next, box.head)) = Cardinality(Armed)
           /\ kind = "wheel" =>
                /\ box.count = Cardinality(Armed)
                /\ \A t \in Armed : \E s \in DOMAIN box.slots :
                     \A u \in DOMAIN box.slots :
                       LET c == Chain(box.next, box.slots[u]) IN
                       Cardinality({i \in DOMAIN c : c[i] = t}) = IF u = s THEN 1 ELSE 0
<1>1. CASE kind = "heap"
  <2>1. Holds(box, Armed)
    BY <1>1 DEF Held, Heap
  <2>2. {box[i] : i \in DOMAIN box} = Armed /\ Len(box) = Cardinality(Armed)
    BY <2>1, HoldsCount
  <2> QED BY <1>1, <2>2 DEF Linked
<1>2. CASE kind = "list"
  <2>1. PICK s : ListOf(box, s, Armed, Timer \ Armed)
    BY <1>2 DEF Held, SortedList
  <2>2. Holds(s, Armed) /\ Chain(box.next, box.head) = s
    BY <2>1, ListIs DEF ListOf
  <2>3. {s[i] : i \in DOMAIN s} = Armed /\ Len(s) = Cardinality(Armed)
    BY <2>2, HoldsCount
  <2> QED BY <1>2, <2>2, <2>3 DEF Linked
<1>3. CASE kind = "wheel"
  <2>1. WheelOf(box, Armed, Timer \ Armed) /\ box \in Wheel /\ Armed \subseteq Timer
    BY <1>3 DEF Held, WheelOf
  <2>2. DOMAIN box.slots = 0..(N - 1) /\ \A t \in Armed : box.slot[t] \in 0..(N - 1)
    BY <2>1, WheelIs
  <2>3. ASSUME NEW u \in DOMAIN box.slots
        PROVE  LET c == Chain(box.next, box.slots[u])
               IN /\ {c[i] : i \in DOMAIN c} = InSlot(box, Armed, u)
                  /\ \A t \in Armed : Cardinality({i \in DOMAIN c : c[i] = t})
                                        = IF box.slot[t] = u THEN 1 ELSE 0
    <3>1. u \in 0..(N - 1)
      BY <2>2
    <3>2. SlotMeets(box, Armed, u)
      BY <2>1, <3>1, SlotLinks
    <3> QED BY <3>2 DEF SlotMeets
  <2>4. Linked = Armed
    <3>1. Linked = UNION {InSlot(box, Armed, u) : u \in DOMAIN box.slots}
      BY <1>3, <2>3 DEF Linked
    <3>2. ASSUME NEW t \in Armed PROVE \E u \in DOMAIN box.slots : t \in InSlot(box, Armed, u)
      BY <2>2 DEF InSlot
    <3>3. \A u \in DOMAIN box.slots : InSlot(box, Armed, u) \subseteq Armed
      BY DEF InSlot
    <3> QED BY <3>1, <3>2, <3>3
  <2>5. ASSUME NEW t \in Armed
        PROVE  \E s \in DOMAIN box.slots : \A u \in DOMAIN box.slots :
                 LET c == Chain(box.next, box.slots[u]) IN
                 Cardinality({i \in DOMAIN c : c[i] = t}) = IF u = s THEN 1 ELSE 0
    <3>1. box.slot[t] \in DOMAIN box.slots
      BY <2>2
    <3>2. \A u \in DOMAIN box.slots :
            LET c == Chain(box.next, box.slots[u]) IN
            Cardinality({i \in DOMAIN c : c[i] = t}) = IF u = box.slot[t] THEN 1 ELSE 0
      BY <2>3
    <3> QED BY <3>1, <3>2
  <2>6. box.count = Cardinality(Armed)
    BY <2>1 DEF WheelOf
  <2> QED BY <1>3, <2>4, <2>5, <2>6
<1> QED BY <1>1, <1>2, <1>3 DEF AllKinds


\* Every variable keeps its type; the wheel's count and turns, which the code
\* only adds to and takes from, never become negative.
THEOREM TimersTypeOK ==
    ASSUME Careful
    PROVE  Spec => []TypeOK
<1>1. IInv => TypeOK
  BY DEF IInv
<1> QED BY <1>1, TimersInvariant, PTL

\* No call of a container dereferences a null or deleted timer, and the
\* assertion of timer_wheel::tick holds.
THEOREM TimersNoFault ==
    ASSUME Careful
    PROVE  Spec => []NoFault
<1>1. IInv => NoFault
  BY DEF IInv
<1> QED BY <1>1, TimersInvariant, PTL

\* Whatever calls are made of a heap, its slots hold the timers added and not
\* yet fired or deleted, each once and no other; so do the links of a list and
\* of a wheel lead to them, if its callers are Careful.
THEOREM TimersHoldArmed ==
    ASSUME Careful
    PROVE  Spec => []HoldsArmed
<1>1. IInv => HoldsArmed
  <2> SUFFICES ASSUME IInv, mode = "run" PROVE HoldsArmed
    BY DEF HoldsArmed
  <2>1. kind \in AllKinds /\ Held(kind, box, Armed, Timer \ Armed, expire)
    BY RunIs
  <2> QED BY <2>1, LinkedIs DEF HoldsArmed
<1> QED BY <1>1, TimersInvariant, PTL

\* The root of a heap, whatever calls are made of it, and the head of a list
\* whose callers are Careful, the only timers that tick and resetTimer look
\* at, expire first.
THEOREM TimersEarliestFirst ==
    ASSUME Careful
    PROVE  Spec => []EarliestFirst
<1>1. IInv => EarliestFirst
  <2> SUFFICES ASSUME IInv, mode = "run", kind # "wheel", Armed # {} PROVE EarliestFirst
    BY DEF EarliestFirst
  <2>1. /\ kind \in AllKinds /\ Held(kind, box, Armed, Timer \ Armed, expire)
        /\ expire \in [Timer -> Int] /\ Armed \subseteq Timer
    BY RunIs
  <2>2. CASE kind = "heap"
    <3>1. \A t \in Armed : expire[Head(box)] <= expire[t]
      BY <2>1, <2>2, HeldFirst DEF Held
    <3> QED BY <2>2, <3>1 DEF EarliestFirst
  <2>3. CASE kind = "list"
    <3>1. \A t \in Armed : expire[box.head] <= expire[t]
      BY <2>1, <2>3, HeldFirst DEF Held
    <3> QED BY <2>3, <3>1 DEF EarliestFirst
  <2> QED BY <2>1, <2>2, <2>3 DEF AllKinds
<1> QED BY <1>1, TimersInvariant, PTL

\* The timers that a tick of the wheel runs are those one tick away.
LEMMA DueIs ==
    ASSUME IInv, mode = "run", kind = "wheel", NEW t \in Armed
    PROVE  IF t \in Due(box, Armed) THEN TicksTo(box, t) = 1 ELSE TicksTo(box, t) > 1
<1> DEFINE r == RunTick
           D == Timer \ Armed
           C2 == Armed \ Due(box, Armed)
<1>1. /\ kind \in AllKinds /\ now \in Int /\ expire \in [Timer -> Int] /\ t \in Timer
      /\ Held(kind, box, Armed, Timer \ Armed, expire) /\ Armed \subseteq Timer
      /\ TurnsKnown(box) /\ WheelOf(box, Armed, D)
      /\ TicksTo(box, t) \in Nat \ {0}
  BY RunIs
<1>2. WheelTurned(box, r, Armed, D)
  BY <1>1, TickOutcome
<1>3. Held(kind, r.box, C2, D, expire)
  BY <1>1, TickOutcome DEF Outcome, Running
<1> HIDE DEF r, C2, D
<1>4. TurnsKnown(r.box) /\ WheelOf(r.box, C2, D)
  BY <1>3 DEF Held
<1>5. TicksTo(r.box, t) \in Nat \ {0}
  BY <1>1, <1>4, TicksToNat DEF WheelOf
<1>6. /\ t \in Due(box, Armed) => TicksTo(box, t) = 1
      /\ t \notin Due(box, Armed) => TicksTo(r.box, t) = TicksTo(box, t) - 1
  BY <1>1, <1>2, TurnedInTurn
<1> QED BY <1>1, <1>5, <1>6

\* A wheel whose callers are Careful runs a timer at the tick its caller asked
\* for or exactly one turn later: at no other tick, and at the later one if
\* not before.
THEOREM TimersFireInTurn ==
    ASSUME Careful
    PROVE  Spec => FiresInTurn
<1> DEFINE Fires ==
             \A d \in TickTimes : kind = "wheel" /\ Tick(d) =>
               \A t \in Armed : IF state'[t] = "fired" THEN left[t] \in {1, 1 - N}
                                                      ELSE left[t] > 1 - N
<1>1. IInv /\ [Next]_vars => [Fires]_vars
  <2> SUFFICES ASSUME IInv, NEW d \in TickTimes, kind = "wheel", Tick(d), NEW t \in Armed
               PROVE  IF state'[t] = "fired" THEN left[t] \in {1, 1 - N}
                                             ELSE left[t] > 1 - N
    OBVIOUS
  <2>1. mode = "run" /\ t \in Timer /\ state[t] = "armed"
    BY DEF Tick, Armed
  <2>2. /\ TicksTo(box, t) \in Nat \ {0} /\ N \in Nat \ {0}
        /\ left[t] = TicksTo(box, t) \/ left[t] = TicksTo(box, t) - N
    BY <2>1, RunIs DEF AllInTurn, InTurn
  <2>3. RunTick.fired = Due(box, Armed)
    BY TickRuns DEF Running
  <2>4. state'[t] = IF t \in RunTick.fired THEN "fired" ELSE "armed"
    BY <2>1 DEF Tick
  <2>5. IF t \in Due(box, Armed) THEN TicksTo(box, t) = 1 ELSE TicksTo(box, t) > 1
    BY <2>1, DueIs
  <2> QED BY <2>2, <2>3, <2>4, <2>5
<1> QED BY <1>1, TimersInvariant, PTL DEF Spec, FiresInTurn

\* When callbacks take a second at most and callers are Careful, resetTimer and
\* the SIGALRMs caught never leave a timer without an alarm that comes in time.
THEOREM TimersAlarmInTime ==
    ASSUME Careful, TicksShort
    PROVE  Spec => []AlarmInTime
<1>1. Init => IInv /\ AlarmKept
  BY InitOK
<1>2. IInv /\ AlarmKept /\ [Next]_vars => IInv' /\ AlarmKept'
  BY NextOK
<1>3. IInv /\ AlarmKept => AlarmInTime
  <2> SUFFICES ASSUME IInv, AlarmKept, mode = "run", ~sigalrm, NEW t \in Armed
               PROVE  alarm > 0 /\ (alarm = 1 \/ now + alarm <= expire[t])
    BY DEF AlarmInTime
  <2> QED BY DEF AlarmKept, Alarmed
<1> QED BY <1>1, <1>2, <1>3, PTL DEF Spec

\* A tick of a heap, or of a list whose callers are Careful, runs every timer
\* that had expired when it began.
THEOREM TimersTickFiresAll ==
    ASSUME Careful
    PROVE  Spec => TickFiresAll
<1> DEFINE Fires ==
             \A d \in TickTimes : kind # "wheel" /\ Tick(d) =>
               \A t \in Armed : expire[t] <= now => state'[t] = "fired"
<1>1. IInv /\ [Next]_vars => [Fires]_vars
  <2> SUFFICES ASSUME IInv, NEW d \in TickTimes, Tick(d), kind # "wheel",
                      NEW t \in Armed, expire[t] <= now
               PROVE  state'[t] = "fired"
    OBVIOUS
  <2>1. RunTick.fired = Late(Armed, expire, now)
    BY TickRuns DEF Running
  <2>2. t \in RunTick.fired /\ t \in Timer
    BY <2>1 DEF Late, Armed
  <2>3. state' = [u \in Timer |-> IF u \in RunTick.fired THEN "fired" ELSE state[u]]
    BY DEF Tick
  <2> QED BY <2>2, <2>3
<1> QED BY <1>1, TimersInvariant, PTL DEF Spec, TickFiresAll

\* A heap under any calls, and a list and a wheel whose callers are Careful,
\* implement what the base class promises: a timer runs at most once and not
\* after it was deleted, in a heap and a list not before its deadline, and in
\* a wheel at most a second before it (when it was added between a SIGALRM and
\* its tick).
THEOREM TimersContract ==
    ASSUME Careful
    PROVE  Spec => ImplementsContract
<1> DEFINE early == IF kind = "wheel" THEN 1 ELSE 0
<1>1. Init => Contract!Init
  BY DEF Init, Contract!Init
<1>2. IInv /\ [Next]_vars => [Contract!Next]_(Contract!vars)
  <2> SUFFICES ASSUME IInv, Next PROVE [Contract!Next]_(Contract!vars)
    BY DEF vars, Contract!vars
  <2> USE DEF Contract!vars
  <2>1. CASE Stopped
    BY <2>1 DEF Stopped, vars
  <2>2. ASSUME mode = "run"
        PROVE  Contract!Next
    <3>1. /\ now \in Nat /\ Delays \subseteq Nat
          /\ state \in [Timer -> {"new", "armed", "fired", "deleted"}]
          /\ expire \in [Timer -> Nat]
          /\ kind \in AllKinds /\ Held(kind, box, Armed, Timer \ Armed, expire)
      BY <2>2, RunIs
    <3>2. ASSUME NEW t \in Timer, NEW d \in Delays, Add(t, d) \/ Adjust(t, d)
          PROVE  Contract!Next
      <4>1. expire'[t] = now + d /\ d \in 0..expire'[t]
        BY <3>1, <3>2 DEF Add, Adjust
      <4>2. Contract!Add(t, d) \/ Contract!Adjust(t, d)
        BY <3>2 DEF Add, Adjust, Armed, Contract!Add, Contract!Adjust
      <4> QED BY <4>1, <4>2 DEF Contract!Next
    <3>3. ASSUME NEW t \in Timer, Del(t)
          PROVE  Contract!Next
      <4>1. Contract!Del(t)
        BY <3>3 DEF Del, Armed, Contract!Del
      <4> QED BY <4>1 DEF Contract!Next
    <3>4. ASSUME NEW d \in TickTimes, Tick(d)
          PROVE  Contract!Next
      <4> DEFINE S == RunTick.fired
      <4>1. S \subseteq Armed /\ \A t \in S : expire[t] <= now + early
        BY <3>4, TickRuns
      <4>2. /\ state' = [t \in Timer |-> IF t \in S THEN "fired" ELSE state[t]]
            /\ expire' = [t \in Timer |-> IF t \in S THEN 0 ELSE expire[t]]
            /\ now' = now + d /\ kind' = kind
        BY <3>4 DEF Tick
      <4>3. now' >= now
        BY <3>1, <4>2, UseAssumption
      <4> HIDE DEF S
      <4>4. Contract!Tick(S)
        BY <4>1, <4>2, <4>3 DEF Contract!Tick
      <4>5. S \in SUBSET Contract!Armed
        BY <4>1 DEF Armed, Contract!Armed
      <4> QED BY <4>4, <4>5 DEF Contract!Next
    <3>5. CASE Advance
      <4>1. now' = now + 1 /\ kind' = kind /\ expire' = expire /\ state' = state
        BY <3>5 DEF Advance
      <4>2. now' >= now
        BY <3>1, <4>1
      <4>3. Contract!Tick({})
        BY <3>1, <4>1, <4>2 DEF Contract!Tick
      <4> QED BY <4>3 DEF Contract!Next
    <3>6. CASE Destroy
      <4>1. Linked = Armed
        BY <3>1, LinkedIs
      <4>2. Contract!Destroy
        BY <3>6, <4>1 DEF Destroy, Armed, Contract!Destroy, Contract!Armed
      <4> QED BY <4>2 DEF Contract!Next
    <3>7. ~Stopped
      BY <2>2 DEF Stopped
    <3> QED BY <3>2, <3>3, <3>4, <3>5, <3>6, <3>7 DEF Next
  <2>3. mode = "run" \/ Stopped
    BY DEF Next, Add, Adjust, Del, Tick, Advance, Destroy
  <2> QED BY <2>1, <2>2, <2>3
<1> QED BY <1>1, <1>2, TimersInvariant, PTL DEF Spec, ImplementsContract, Contract!Spec
=============================================================================

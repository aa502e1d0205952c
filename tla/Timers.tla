------------------------------- MODULE Timers -------------------------------
(***************************************************************************)
(* A timer container of lib/ in use.  The process calls add_timer,         *)
(* adjust_timer and del_timer through the base class timer_container, and  *)
(* tick when its event loop has read SIGALRM from the signal pipe, as      *)
(* ProcessPool does; resetTimer keeps alarm() set for the next expiry.     *)
(* kind is the class of the container.                                     *)
(***************************************************************************)
EXTENDS HeapTimer, ListTimer, WheelTimer

CONSTANTS
    Kinds,      \* the classes of this instance
    Delays,     \* seconds from now to the expiry a caller asks for
    MaxTime,    \* bound: the clock stops here
    TickTimes,  \* seconds the callbacks of one tick may take
    AnyUse      \* FALSE: callers avoid the calls that corrupt the list and the
                \* wheel, see MayAdjust and MayDel

AllKinds == {"heap", "list", "wheel"}

ASSUME UseAssumption ==
    /\ Kinds \subseteq AllKinds /\ AnyUse \in BOOLEAN
    /\ Delays \subseteq Nat /\ MaxTime \in Nat /\ TickTimes \subseteq Nat

VARIABLES
    kind,       \* class of the container
    box,        \* its members
    expire,     \* field expire of each timer
    state,      \* "new", "armed" (in the container), "fired" or "deleted"
    now,        \* time(NULL)
    alarm,      \* seconds to SIGALRM; Off, or Never when alarm() got a negative
    sigalrm,    \* SIGALRM was caught and tick has not run yet
    mode,       \* "run", "destroyed" or the fault that ended the process
    left        \* ticks after which the caller expects the timer to fire

vars == <<kind, box, expire, state, now, alarm, sigalrm, mode, left>>

Off == 0
Never == -1

Armed == {t \in Timer : state[t] = "armed"}

Empty == CASE kind = "heap" -> EmptyHeap
           [] kind = "list" -> EmptyList
           [] OTHER -> EmptyWheel

Init ==
    /\ kind \in Kinds /\ box = Empty
    /\ expire = [t \in Timer |-> 0]
    /\ state = [t \in Timer |-> "new"]
    /\ left = [t \in Timer |-> 0]
    /\ now = 0 /\ alarm = Off /\ sigalrm = FALSE /\ mode = "run"
-----------------------------------------------------------------------------
(* The virtual functions *)

AddTimer(e, t) ==
    CASE kind = "heap" -> HeapAdd(box, e, t)
      [] kind = "list" -> ListAdd(box, e, t)
      [] OTHER -> WheelAdd(box, Armed \cup {t}, e, t, now)

AdjustTimer(e, t) ==
    CASE kind = "heap" -> HeapAdjust(box, e, t)
      [] kind = "list" -> ListAdjust(box, Armed, e, t)
      [] OTHER -> WheelAdjust(box, Armed, e, t, now)

DelTimer(t) ==
    CASE kind = "heap" -> HeapDel(box, expire, t)
      [] kind = "list" -> ListDel(box, Armed, t)
      [] OTHER -> WheelDel(box, Armed, t)

RunTick ==
    CASE kind = "heap" -> HeapTick(box, expire, now)
      [] kind = "list" -> ListTick(box, expire, now)
      [] OTHER -> WheelTick(box, Armed)

\* resetTimer of the heap and the list: the seconds to the first expiry.
\* alarm() takes an unsigned number, so a negative one never expires.  The
\* faulty variant misses the correction of 0, which switches the alarm off.
Tics_Zero(n) == IF n < 0 THEN Never ELSE n
Tics(n) == IF n = 0 THEN 1 ELSE IF n < 0 THEN Never ELSE n

\* resetTimer at time tm on container b.
ResetTimer(b, e, tm) ==
    CASE kind = "heap" -> IF b = <<>> THEN Off ELSE Tics(e[Head(b)] - tm)
      [] kind = "list" -> IF b.head = Null THEN Off ELSE Tics(e[b.head] - tm)
      [] OTHER -> IF b.count = 0 THEN Off ELSE 1

\* The members of a timer that is deleted are not looked at again: reading
\* them is a fault.  Forgetting them keeps states together that do not differ.
Forget(b, gone) ==
    LET Clear(f, v) == [t \in Timer |-> IF t \in gone THEN v ELSE f[t]] IN
    CASE kind = "heap" -> b
      [] kind = "list" -> [b EXCEPT !.next = Clear(@, Null), !.prev = Clear(@, Null)]
      [] OTHER -> [b EXCEPT !.next = Clear(@, Null), !.prev = Clear(@, Null),
                            !.slot = Clear(@, 0), !.rotation = Clear(@, 0)]

\* The outcome r of a call that ends at time tm and after which the timers
\* in gone are deleted.
Apply(r, e, tm, gone) ==
    /\ box' = Forget(r.box, gone)
    /\ alarm' = IF r.rearm THEN ResetTimer(r.box, e, tm) ELSE alarm
    /\ mode' = IF r.fault = "none" THEN "run" ELSE r.fault
-----------------------------------------------------------------------------
(* The callers.  Without AnyUse they make no call that one of these defects *)
(* spoils: the list is not sorted again by adjust_timer, nor is its alarm  *)
(* set again; it loses its tail when the last of several timers is         *)
(* deleted; and the wheel's adjust_timer keeps the links the timer had to  *)
(* its neighbours.  Of the heap all calls are allowed.                     *)

\* A deadline of the list may be moved between those of the neighbours, the
\* first one not forward.  A timer of the wheel may be moved if it is the
\* first of its slot, whose old next is overwritten or null: it has none, or
\* it goes to a slot that is occupied.
MayAdjust(t, d) ==
    LET prev == box.prev[t]
        next == box.next[t]
        slot == (box.cur + Ticks(d)) % N
    IN ~AnyUse => CASE kind = "heap" -> TRUE
                    [] kind = "list" ->
                         /\ now + d >= expire[IF prev = Null THEN t ELSE prev]
                         /\ next # Null => now + d <= expire[next]
                    [] OTHER -> prev = Null /\ (next = Null \/ box.slots[slot] # Null)

\* A timer of the list may be deleted unless it is the last of several.
MayDel(t) == ~AnyUse /\ kind = "list" => (t = box.tail => t = box.head)

\* What left counts: a delay of 0 is one tick; kept for the wheel only.
AskedTicks(d) == IF kind # "wheel" THEN 0 ELSE IF d = 0 THEN 1 ELSE d

Add(t, d) ==
    /\ mode = "run" /\ state[t] = "new"
    /\ expire' = [expire EXCEPT ![t] = now + d]
    /\ Apply(AddTimer(expire', t), expire', now, {})
    /\ state' = [state EXCEPT ![t] = "armed"]
    /\ left' = [left EXCEPT ![t] = AskedTicks(d)]
    /\ UNCHANGED <<kind, now, sigalrm>>

\* setExpire, then adjust_timer.
Adjust(t, d) ==
    /\ mode = "run" /\ t \in Armed /\ MayAdjust(t, d)
    /\ expire' = [expire EXCEPT ![t] = now + d]
    /\ Apply(AdjustTimer(expire', t), expire', now, {})
    /\ left' = [left EXCEPT ![t] = AskedTicks(d)]
    /\ UNCHANGED <<kind, state, now, sigalrm>>

Del(t) ==
    /\ mode = "run" /\ t \in Armed /\ MayDel(t)
    /\ Apply(DelTimer(t), expire, now, {t})
    /\ state' = [state EXCEPT ![t] = "deleted"]
    /\ expire' = [expire EXCEPT ![t] = 0]
    /\ left' = [left EXCEPT ![t] = 0]
    /\ UNCHANGED <<kind, now, sigalrm>>

\* tick in the event loop; the callbacks take d seconds, during which an
\* alarm set since the last one can expire.
Tick(d) ==
    /\ mode = "run" /\ sigalrm /\ now + d <= MaxTime
    /\ now' = now + d
    /\ sigalrm' = (0 < alarm /\ alarm <= d)
    /\ Apply(RunTick, expire, now + d, RunTick.fired)
    /\ state' = [t \in Timer |-> IF t \in RunTick.fired THEN "fired" ELSE state[t]]
    /\ expire' = [t \in Timer |-> IF t \in RunTick.fired THEN 0 ELSE expire[t]]
    /\ left' = [t \in Timer |-> IF kind = "wheel" /\ state'[t] = "armed"
                               THEN left[t] - 1 ELSE 0]
    /\ UNCHANGED kind

\* A second passes.
Advance ==
    /\ mode = "run" /\ now < MaxTime
    /\ now' = now + 1
    /\ alarm' = IF alarm > 0 THEN alarm - 1 ELSE alarm
    /\ sigalrm' = (sigalrm \/ alarm = 1)
    /\ UNCHANGED <<kind, box, expire, state, mode, left>>

\* The destructors: alarm(0), then the timers that are linked are deleted.
Linked ==
    CASE kind = "heap" -> {box[i] : i \in DOMAIN box}
      [] kind = "list" -> LET c == Chain(box.next, box.head)
                          IN {c[i] : i \in DOMAIN c}
      [] OTHER -> UNION {LET c == Chain(box.next, box.slots[s])
                         IN {c[i] : i \in DOMAIN c} : s \in DOMAIN box.slots}

Destroy ==
    /\ mode = "run"
    /\ mode' = "destroyed" /\ alarm' = Off
    /\ state' = [t \in Timer |-> IF t \in Linked THEN "deleted" ELSE state[t]]
    /\ left' = [t \in Timer |-> 0] /\ expire' = [t \in Timer |-> 0]
    /\ UNCHANGED <<kind, box, now, sigalrm>>

Stopped == mode # "run" /\ UNCHANGED vars

Next ==
    \/ \E t \in Timer :
         \/ \E d \in Delays : Add(t, d) \/ Adjust(t, d)
         \/ Del(t)
    \/ \E d \in TickTimes : Tick(d)
    \/ Advance \/ Destroy \/ Stopped

Spec == Init /\ [][Next]_vars
-----------------------------------------------------------------------------
(* Properties *)

TypeOK ==
    /\ kind \in Kinds /\ mode \in {"run", "destroyed", "pointer", "assert"}
    /\ expire \in [Timer -> Nat]
    /\ state \in [Timer -> {"new", "armed", "fired", "deleted"}]
    /\ now \in 0..MaxTime /\ alarm \in Nat \cup {Never} /\ sigalrm \in BOOLEAN
    /\ left \in [Timer -> Int]
    /\ kind = "wheel" => /\ box.cur \in 0..(N - 1) /\ box.count \in Nat
                         /\ box.rotation \in [Timer -> Nat]

\* The container holds exactly the timers that were added and have neither
\* fired nor been deleted, each once, whatever the order of the calls: no
\* timer is lost when lists and slots are relinked, and none is found twice.
HoldsArmed ==
    mode = "run" =>
        /\ Linked = Armed
        /\ kind = "heap" => Len(box) = Cardinality(Armed)
        /\ kind = "list" => Len(Chain(box.next, box.head)) = Cardinality(Armed)
        /\ kind = "wheel" =>
             /\ box.count = Cardinality(Armed)
             /\ \A t \in Armed : \E s \in DOMAIN box.slots :
                  \A u \in DOMAIN box.slots :
                    LET c == Chain(box.next, box.slots[u]) IN
                    Cardinality({i \in DOMAIN c : c[i] = t}) = IF u = s THEN 1 ELSE 0

\* The heap's root and the list's head expire first, after any sequence of
\* additions, deletions and changes of deadlines: tick and resetTimer look
\* at nothing else.
EarliestFirst ==
    mode = "run" /\ kind # "wheel" /\ Armed # {} =>
        LET first == IF kind = "heap" THEN Head(box) ELSE box.head
        IN \A t \in Armed : expire[first] <= expire[t]

\* While a timer is in the container a SIGALRM is on its way, not later than
\* the first deadline or, when that has been reached, the next second.
AlarmInTime ==
    mode = "run" =>
        \A t \in Armed :
            \/ sigalrm
            \/ alarm > 0 /\ (alarm = 1 \/ now + alarm <= expire[t])

\* No call dereferences a null or deleted timer or fails its assertion.
NoFault == mode \in {"run", "destroyed"}

\* A tick of the heap or the list leaves no timer behind that had expired
\* when it began.
TickFiresAll ==
    [][\A d \in TickTimes : kind # "wheel" /\ Tick(d) =>
         \A t \in Armed : expire[t] <= now => state'[t] = "fired"]_vars

\* The wheel fires a timer at the tick its caller asked for or exactly one
\* turn later, not before, not in between and not after, however the timers
\* of its slot come and go: a delay of whole turns gets a rotation too many.
FiresInTurn ==
    [][\A d \in TickTimes : kind = "wheel" /\ Tick(d) =>
         \A t \in Armed : IF state'[t] = "fired" THEN left[t] \in {1, 1 - N}
                                                ELSE left[t] > 1 - N]_vars

\* Every container keeps the promise of the base class: a timer fires at
\* most once, not before its deadline and not after it was deleted.  The
\* wheel may be one tick ahead: it counts slots from cur_slot although the
\* tick of a SIGALRM already caught is still to come.
Contract == INSTANCE TimerContract WITH early <- IF kind = "wheel" THEN 1 ELSE 0
ImplementsContract == Contract!Spec

\* lst_timer.hh calls the container an ascending list: every timer expires
\* no later than the next one.
Ascending ==
    kind = "list" /\ mode = "run" =>
        LET c == Chain(box.next, box.head) IN
        \A i \in 1..(Len(c) - 1) : expire[c[i]] <= expire[c[i + 1]]

\* The assertion of timer_wheel::tick that a timer behind the head of its
\* slot has a predecessor.
PredecessorKnown == mode # "assert"
=============================================================================

# A TLA+ verification of ulsp

ulsp is a collection of Linux system programs in C and C++.  Most of it is
small demonstration programs; its own core logic is in five places: a thread
pool (`thpool/`), a family of timer containers and a process pool built on them
(`lib/*.hh`), chat, echo and file servers (`net/`) and versions of eight commands
(`cmd/src/`).  This directory models them and those of the demonstrations that
wait for children, threads or clients, checks the models with TLC, and proves with
TLAPS, for every value of the constants, the safety of the thread pool, the timer
containers, the process pool, the servers, the programs that wait, `cp` and `pwd`.

## The system

| part | state | operations | talks to | hard because |
|---|---|---|---|---|
| Thread pool, `thpool/thpool.c` | job queue with its mutex, semaphore `has_job`, counters `thread_alive` and `thread_working` with mutex and condition, flags `running` and the file-global `stop` | `thpool_init`, `_add_job`, `_wait`, `_pause`, `_resume`, `_destroy`; each worker runs `thread_do` | any number of client threads; SIGUSR1 to the workers for a pause | workers, clients and signal handlers interleave; `sem_wait` is interrupted; a pause can stop a worker that holds a mutex; counters are polled without the mutex |
| Timer containers, `lib/timer.hh`, `heap_timer.hh`, `lst_timer.hh`, `wheel_timer.hh` | a binary heap, a sorted doubly linked list, a wheel of 60 slots | `add_timer`, `adjust_timer`, `del_timer`, `tick`, `resetTimer`, destructor | `alarm()` and SIGALRM; the callbacks of the timers | pointer surgery under arbitrary call sequences; `alarm(0)`; ticks that come late or take long |
| Process pool, `lib/processpool.hh` | table of children, round-robin counter, `stop`; per child its pipe, `stop`, connections | constructor, `run_parent`, `run_child`, `sig_handler` | pipes, signals, the listening socket, a timer container | signals that merge, children that die at any moment, edge-triggered events |
| Chat servers, `net/chat_server_*.c` | the table of clients, the sets given to `select` or the array given to `poll`, the ready sets of the round, buffers shared by pointers | accept, read, write, end of a client | sockets through `select` or `poll` | the table is changed while it is walked; a round works on old ready sets; a receiver keeps a pointer to the sender's buffer |
| Epoll servers, `net/echo_server_epoll.c`, `file_server_epoll.c` | the reported events | accept, echo until nothing is left, echo a datagram, send a file | sockets through `epoll` | edges: what is reported once must be read to the end |
| Other network programs, `net/` | a buffer | copy loops, urgent data | sockets | |
| Parents that wait, `procexec/multi_SIGCHLD.c`, `fork_sig_sync.c`, `ipc/pipe_sync.c` | the number of live children | fork, handler, wait | signals, a pipe | one SIGCHLD for several children; a signal before the wait |
| Joining main thread, `threads/thread_multijoin.c` | table of threads, two counters | create, end, join | a mutex and a condition | threads end before the first wait and while others are joined |
| Sequence number server, `ipc/fifo_seqnum_*.c` | the next number | request, response | FIFOs | blocking opens; clients that die in between |
| Other IPC, process, signal and thread programs | counters, masks, a shared buffer | one program per mechanism | the kernel | |
| Commands, `cmd/src/` | options, counters of lines and bytes, the rest of a buffer, the files and their modes and owners | `cat`, `head`, `tail`, `od`, `cp`, `chmod`, `chown`, `pwd` | files | boundaries of buffers and inputs; state kept from file to file |
| Support, `lib/*.c`, `thpool/locker.hh` | none | error reports, number parsing, lock wrappers | | |

What makes the core correct:

* thread pool: a job is executed at most once and never lost; a queued job always
  has someone who will run it; the counters the other functions rely on are exact;
  `thpool_wait` returns when, and only when, the work is over; `thpool_destroy`
  frees nothing that is in use;
* timers: exactly the armed timers are in the container; none fires early, all
  expired ones fire on a tick, and an alarm is always set in time for the next;
* process pool: the parent outlives its children and does not outlive them for
  ever; every death is noticed; every connection reaches a child;
* servers: the table is the set of open connections; everyone in it is watched for
  the right thing; nobody waits for ever while the server runs;
* waiting programs: nobody and nothing is counted twice or missed;
* commands: a call that ends well has done what the usage text says, wherever the
  boundaries of buffers, reads and inputs lie.

`PROJECT.json` lists the hazards line by line with the properties aimed at them.

## Modules

| module | models |
|---|---|
| `ThreadPool` | `thpool.c`, all of it |
| `JobPool` | what `thpool.h` promises: the abstract specification of the pool |
| `ThreadPoolProofs` | theorems about `ThreadPool`, and that it implements `JobPool` |
| `TimerBase`, `HeapTimer`, `ListTimer`, `WheelTimer` | the containers as functions from members to members |
| `ContainerProofs` | lemmas: what each call makes of an ordered heap, of the links of a list or a wheel |
| `Timers` | a container in use: calls, clock, alarm, SIGALRM and ticks |
| `TimerContract` | what a container promises: the abstract specification |
| `TimersProofs` | theorems about `Timers`, and that it implements `TimerContract` |
| `HeapCalls`, `HeapCallsProofs` | one call of `timer_heap` on every ordered heap; theorems |
| `ProcessPool` | `processpool.hh` |
| `ProcessPoolProofs` | theorems about `ProcessPool` |
| `ServerNet` | clients, connections and the system calls of the servers |
| `ChatSelect`, `ChatPoll`, `EpollServers` | `chat_server_select.c`, `chat_server_poll.c`, `echo_server_epoll.c` and `file_server_epoll.c` |
| `Servers`, `ServersProofs` | a server with its clients: composes the four above; theorems |
| `CmdBase` | a process with its inputs and output; what `head.c` and `tail.c` share |
| `Head`, `Tail`, `Cat`, `Od`, `Cp`, `Chmod`, `Chown`, `Pwd` | the commands |
| `ChildSync`, `MultiJoin`, `SeqNum` | the programs that wait for children, threads, clients |
| `Commands` | composes all of these, with what they are documented to do |
| `CommandsProofs` | theorems about the waiting programs, `cp`, `pwd`, `chown` and `od` |
| `HeadTailProofs` | theorems about `head` and `tail` |
| `MC...` | constants of the small instances |

### ThreadPool

Each worker has a control point `wpc` in `thread_do` and the job in its `hand`; each
client has a control point `cpc` inside a public function.  A worker's critical
section is two steps (lock and body, unlock) because the pause signal can stop it in
between and because `thread_alive` is polled without the mutex.  The calls of a
client are not interrupted, so each of its critical sections is one step.
`sigpend` and `handler` follow SIGUSR1 from `pthread_kill` to the busy wait of
`thread_pause`; a worker in the handler takes no other step.  A `sem_wait` that the
handler interrupts returns without a token, as the code, which ignores its result,
lets it.  `thpool_init` can fail at each library call in `Faults`.

Two restrictions on the callers are constants, not hidden in the guards: `Ops`, the
functions called, and `CallsWhilePaused`, whether clients call into a paused pool.
`MaxJobs` bounds the jobs and `MaxSem` the tokens that the polling of
`thpool_destroy` can accumulate.

### Timers

The containers are operators on records that hold the members of the classes (for
the list and the wheel the pointers `prev`, `next`, `head`, `tail` and `slots`); a loop
is a function from its state to the state one pass later, applied as often as `Passes`
says, and a pass that finds the loop ended changes nothing.  A
null dereference, a use after deletion and a failing `assert` are results of their
own, and end up in `mode`.  `Timers` calls them as `ProcessPool` does, that is, with
`tick` run by the event loop after SIGALRM was caught, so calls can come between the
signal and its tick, and a tick can take time.  `left` counts, for the wheel, the
ticks after which the caller expects its timer.

`AnyUse` is FALSE in the run that passes: callers then keep clear of three defects
that the model has as the code has them, and of nothing else (`MayAdjust`, `MayDel`):

* the list's `adjust_timer` does not sort again when the timer fits one of its
  neighbours, nor does it set the alarm again: a deadline is moved between those of the
  two neighbours only, and the first one not forward;
* the list forgets its tail when the last of several timers is deleted: that one is not;
* the wheel's `adjust_timer` keeps the old links: only the first timer of a slot is moved,
  and if another is behind it, to an occupied slot, where the link is overwritten.

The heap has no such defect and is checked with any calls.  The runs `timer_list` and
`timer_wheel` show the first and the last.  The wheel may fire one tick before the deadline when a timer is added between SIGALRM
and its tick: `TimerContract` allows this tick and no more.

### ProcessPool

The parent is in its constructor (`fork`), in its loop, `exited`, or `killed` by a
signal it had no handler for; a child is `unborn`, in `setup`, in its `loop`, a
`zombie` or `reaped`.  Every event that an event loop handles is a step, including
all it does.  `caught` and `ccaught` are the signal pipes, as sets: signals that are
pending merge.  `notes` counts the integers in the pipe to a child, `edge` and
`cedge` say that epoll will report a descriptor; an edge-triggered descriptor is
reported once for all that arrived before.  `unheard` and `missed` are history
variables for what the code does not handle: clients that connect while another
waits or whose `accept` fails, and children that die before the parent has a handler.

`run_child` gives the wheel a timer of the wrong class and the wheel dereferences
the null result of its cast.  What follows is undefined; the model has both
outcomes: the child dies, or (`fits`) goes on.

### Servers

`kind` is the server that runs.  A connection goes through the states of `st`; a
client connects once, sends (a send is told apart by its author only), stops reading
for a while, closes its end or resets the connection, between any two steps of the
server.  `recv` returns all that was sent or a first part of it.  Writing to a closed
connection resets it, writing again raises SIGPIPE, which nobody catches: `pc` is then
`killed`.

A step of a chat server is one `select` or `poll`, one accept, or one client's turn in
the loop over the ready ones, with the system call it makes; turns that do nothing are
skipped.  In `ChatSelect`, `write_buf` is the slot whose buffer the pointer points to,
and `buf` the author of what the buffer holds now.  In `ChatPoll` the array `fds`
is packed inside the loop, as in the code, and `users` is indexed by descriptor.

In `EpollServers`, `edges` are the descriptors with news that epoll has not reported and
`events` those reported and not yet handled; only the connections of the file server
are level-triggered.

### Commands

A behaviour is one call of one program; `pc` is the function it is in and `v` has its
locals, `g` the static variables.  A step is one pass of a loop around a system call.
Bytes are model values (or numbers, for `od`); a header, a line number or an offset is an
element of the output of its own.  `Cases` lists the calls.  The options are parsed
one after the other, as the code does, with what it does to those that fall through.
The properties (`HeadText`, `CatText`, `Numeral`, `Meaning`, ...) are definitions of the
documented result that know nothing of buffers.

Where the code differs from its usage text the property says so under "not covered",
and the model has what the code does:

* `head`, `cat`, `tail` without an operand read "-".  That is standard input for `head` and
  `cat`; `tail` has no such case and looks for a file of this name, which is normally
  missing.  A call without operands is given to the models as one with this input.
* `head`: an `lseek` back on a pipe fails and the last block is lost; all but the last
  lines or bytes of a pipe are nothing; a last line without its end counts only in a
  last buffer that is not empty, and only with newline as line end.
* `tail`: no `-c` or `-n` means 0 lines, not 10; `-n +0` prints nothing; the bytes left in
  `elide_head_lines` are wrong when two lines to pass end in one buffer (`tail.c:297`).
* `cat`: output behind a null byte is cleared by `strncpy`; `-A` and `-v` set flags nobody
  reads, so that `-A` is not `-vET` and `-e` and `-t` show no byte that is not printable;
  the status is always 0.
* `od`: a carried byte and a full read are one byte more than the buffer; `-N` beyond the
  input fails an assertion; `-j` does not work on a pipe.
* `cp`: the destination is not truncated; a source that cannot be read ends well.
* `chmod`: the permissions `X` and `t` of the documented form (`ListForm`) are refused; of
  several operators in a clause only the last counts, and letters before it are not
  checked to be classes (`OneOperator`); `chmod(2)` is not checked for symbolic modes; a
  stale `errno` counts as an error of `readdir`; `-c` reports every file with a numeric
  mode; a mode given as an option (`-rw`) is not terminated, and a second one reads
  uninitialized memory; with an `s` in the first clause, what a later one copies from the
  others is not what they get.
* `chown`: `OWNER:` does not set the login group; directories that `--from` does not
  match are not descended; `--preserve-root` and its opposite drop the reference file,
  `--dereference` parses a null pointer.  Of several `--from` the last user and the last group
  named count, which is how `ChownExact` reads the text.
* `pwd`: mount points give empty names; `--help` fails.

`ChildSync`, `MultiJoin` and `SeqNum` keep what belongs to the kernel (the table of
processes, the pending signal, the threads, the FIFO) in `fs`.  A signal that is pending
is not queued twice, `sigsuspend` runs one handler, `open` of a FIFO waits for the other
end, and a client of the sequence number server may be killed at any moment.

## Runs

| run | instance | shows |
|---|---|---|
| `tp_safety` | 2 workers, 2 jobs, 2 clients, every function, every fault | types, `CountersExact`, `NoStrandedJob`, `JobInOnePlace`, `FullyStaffed`, `FreedAfterWork`, `WaitReturnsDone` |
| `tp_live` | 2 workers, 3 jobs, 1 client, no pause, fair | jobs end, calls return, initialisation ends, and the pool implements `JobPool` |
| `tp_two_waiters` | 1 worker, 2 clients that wait | violation: `pthread_cond_signal` wakes one of two waiters, the other call never returns |
| `tp_destroy` | 2 workers | violation: the pool is freed while the last worker still has to unlock `count_locker` |
| `tp_paused_add` | pause, add, add, resume as in `pause_resume.c` | violation: the worker was stopped with the queue's mutex, and the client that would resume it waits for that mutex |
| `timers` | 4 timers, 3 containers, delays 0 to 3, clock to 4, wheel of 2 slots; heap with any calls, list and wheel with careful callers | nothing lost, doubled or without an alarm, no fault, the wheel in turn (`FiresInTurn`), contract kept |
| `heap_calls` | all ordered heaps of up to 7 timers with 4 deadlines | order and contents after every call |
| `timer_list` | 3 timers | violation: the list is not ascending after `adjust_timer` |
| `timer_wheel` | 3 timers | violation: `assert(tmp->prev)` fails after `adjust_timer` |
| `procpool` | 2 children, 3 connections, crashes and signals at any time, fair | no orphans, deaths noticed, messages reach a child, shutdown ends, connections accepted |
| `servers` | one of the four servers, 3 clients, room for 2, 2 to 4 sends, fair | `TableExact`, `WatchedOnce`, `HeardFromOthers`, `AllServed` |
| `commands` | every call in `MCCommands`: inputs of up to 6 bytes, pipes, directories, missing operands, modes, owners, trees of 4 files; up to 4 children or threads, 3 clients; buffers of 3 bytes, fair | `HeadTailExact`, `CatExact`, `OdExact`, `CpExact`, `ChmodExact`, `ChownExact`, `PwdExact`, `Accounted`, `Terminates` |

Why these bounds.  Two workers and two clients give every pair of actors at every
pair of control points; with two jobs one can be queued while one runs, and a token
can be left over from a job that another worker took; three jobs show the order in
which two queued ones are started.  A heap of seven has three
full levels, the least in which a deletion must move a timer up.  A wheel of two
slots makes delays up to 3 cover less than a turn, exactly one turn and more than
one.  Two children are the least for one death to stand in for two, three
connections the least for the round robin to wrap.  Three clients for two places let a
descriptor and a slot be used again while the third waits; the select server needs four
sends for a buffer that is filled again before it is written (two names, two texts), the
others two for a second write to a closed connection.  Two places also mean that a text
of the select server has one receiver at most, and that `poll`'s array is packed with
one entry behind the hole.  Buffers of three bytes put six bytes in two full buffers,
so that every line end and every short read meets a boundary; `LineDigits` and `Base`
let the line numbers of `cat` overflow after three lines.

Fairness.  A thread that can go on does so: weak fairness of `thpool_init`, of every
worker and of every client inside a call, which any preemptive scheduler gives; clients
need not call anything, and no lock or semaphore is assumed to be fair.
In the process pool an event loop handles each event that epoll reports; signals,
clients and crashes need not happen.  A server takes a step when it can, and a client
that stopped reading reads again some day; clients need not send anything.  A command
goes on when it can; in the programs that wait, something goes on as long as anything can,
which is less than fairness of each thread.  Two stops are not ends: the sequence
number server at rest when its clients have gone, and its open of the FIFO of a killed
client, where the code waits for ever (`Resting`).

## Proofs

`ThreadPoolProofs` proves from `ThreadsAssumption`, `BoundsAssumption`,
`UseAssumption` and `ClientsAssumption` (finitely many clients, natural bounds, any
use, any faults):

* `Invariance`: `IInv` is an invariant.  None of the checked invariants is inductive.
  `CountersExact` needs `LockInv` (who holds which mutex at which point) and
  `PhaseInv` (which points a worker can be at in each phase of the pool's life);
  `NoStrandedJob` is the inductive form of "a queued job has a token", with those
  that are on the way counted; `JobInOnePlace` needs `HandInv`, `ArgInv` and
  `PlaceInv`; `WaitReturnsDone` needs `WaitInv`; `FreedAfterWork` needs
  `DestroyInv`.
* `TypeCorrect`, `CountersCorrect`, `NoJobStranded`, `JobsInOnePlace`,
  `PoolFullyStaffed`, `PoolFreedAfterWork`, `WaitCorrect`: consequences.
* `Refinement`: every step is a step of `JobPool` or leaves its variables alone.  The
  mapping takes the queue as pending jobs, what is in hands as active ones and
  the lives of the pool to four phases.

`ProcessPoolProofs` proves from `ProcAssumption` (at least one child) that `IInv` is
inductive: `PidsInv` (the pids kept are those forked and not reaped), `ForkInv` (all
children are forked before the loop, deaths before it are missed) and `StopInv` (stop
means that no pid is left).  `EndPreserves` is the heart: whatever makes children end,
the pids stay and a parent with a handler gets SIGCHLD.  `NoOrphansTheorem`,
`ZombiesNoticedTheorem` and `NoteReachesChildTheorem` follow.

`ServersProofs` proves from `NetAssumption` (any number of clients, places and sends) that
`IInv` is inductive for the four servers.  `TableExact` and `WatchedOnce` are needed for each
other and for `HeardFromOthers`, and none is inductive alone.  `NetInv` says that no client
waits or is connected twice, without which an accept could give a connection two slots.  For
the select server, `SelectRound` says that a client in the ready set of the round whose turn
is to come still has something to write, although clients before it in the walk have left
or been accepted since `select` returned; `SelectTable` says that what is in a buffer is a
text of the client in that slot, and that no slot points to its own buffer, which is what
`HeardFromOthers` comes from.  For the epoll servers, what was reported and not yet handled
is still open, or still waits.  `ServersTableExact`, `ServersWatchedOnce` and
`ServersHeardFromOthers` follow.

`CommandsProofs` proves from `CasesAssumption` (a process starts without children, threads
or clients served; the files and directories given to `cp` and `pwd` are some) and
`BufAssumption` that `IInv` is inductive; it has a part for each program and says nothing of
the others.  `WaitersInv`: `numLiveChildren` counts the children that are not reaped, and
nobody ends that was not started.  `JoinInv`: `numUnjoined` and `numLive` count the threads
in those states of the table, and the table is up to date with each thread.  `SeqNumInv`: the
next number lies behind every range given out, and the ranges are apart.  `CpInv`: the first
`off` bytes of the destination are those of the source, and what is behind them is no longer
than before.  `PwdInv`: the names found lead from the directory `pwd` is at to the one it
started in.  `WaitersAccounted`, `CpCopies` and `PwdPrintsPath` follow, for any number of
children, threads and clients, files and buffers of any length and any tree of directories.

`ContainerProofs` and `HeapCallsProofs` prove from `TimerAssumption` and `HeapAssumption`
what the calls of `timer_heap` do to heaps of any size.  The loops are `Passes` of a function
(`UpPass`, `DownPass`, `FirePass`): `LoopEnds` is their rule, with an invariant and a
measure, proved once by the least counterexample.  The invariant of `percolate_up` is `UpOrder`
(the order, but for one timer and its parent), that of `percolate_down` is `DownOrder` (but
for one timer and its children); both also say that the timers around the one that moves
are in order without it, which is what makes the exchange safe.  `Repair` shows that the
tests in `adjust_timer` and `del_timer` choose the loop whose invariant holds.  The order is
stated on the expiries alone, as a function from indices; that the timers stay the same
ones, each once, is `Holds`.  `HeapOrderKept` and `HeapContentsExact` follow.

`ContainerProofs` proves the same of the list and the wheel.  A doubly linked list is seen
as the sequence of its timers (`Linking`: the links lead from each to the next and back), a
wheel as one such sequence for each slot (`SlotsOf`).  What a call writes is compared with
the sequence it should leave: `LinkIn` and `LinkOut` say what has to be written to put a
timer in or to take one out, and `ChainIs` that whoever follows the links meets the sequence.
`ListOf` asks of timers outside the list that their links are null, because the code writes
only some of the links of a timer it puts in; and says nothing of the tail of an empty list,
which may be stale.  The loop of `timer_wheel::tick` changes the list that it walks:
`SweptAt` says where it is in the sequence that is left, and `SweepPassIs` that every pass
takes one timer from those not met yet, so that the loop ends and has met all of them.
`WheelTickIs`: it runs exactly the timers of the next slot whose turns are over.

`TimersProofs` proves from `TimerAssumption`, `WheelAssumption` and `UseAssumption`, and for
a heap under any calls, and for a list and a wheel whose callers are `Careful` (none of the calls
that `MayAdjust` and `MayDel` exclude, see above: without that the runs `timer_list` and
`timer_wheel` refute it), that `IInv` is inductive for
the three containers, any number of timers and slots, any delays and any times.  Its parts
are `Held` (the heap is ordered, or the list sorted and linked, or the wheel linked; and it
holds the armed timers) and `AllInTurn`: the ticks until the wheel reaches a timer, turns
included (`TicksTo`), are those the caller expects or a whole turn more, and no less than
the seconds to its deadline, but for one when no tick is due.  None of the checked invariants is
inductive without `Held`.  An `Outcome` says what the next step needs of a call, whatever
the class: it completes, it leaves a container that is held, and if it does not reset the alarm,
nothing expires earlier than something did before.  `AlarmKept`, with it, gives
`TimersAlarmInTime`, for callbacks of a second at most (`TicksShort`; for longer ones it is
false, see below).  `TimersHoldArmed`, `TimersEarliestFirst`, `TimersNoFault`,
`TimersTickFiresAll` and `TimersFireInTurn` follow: the wheel fires a timer at the tick asked
for or one whole turn later and at no other, so neither early nor in between.
`TimersContract` shows that every step of a container in use is a step of `TimerContract`
or leaves its variables alone; `TickRuns` is the part about deadlines, which the heap and the list
never run ahead of, and the wheel by one second at most.

`CommandsProofs` also proves from `OwnersAssumption` (a finite tree of files that belong to
somebody) and `BytesAssumption` (the inputs of `od` are bytes) that `chown` and `od` do what
their usage texts say.  Options are parsed by a fold over the command line and inputs are
joined by another, of any length; the library's rules for folds take an operator as a
parameter, which the provers cannot instantiate.  `FoldExists` and `FoldSteps` say instead
that every fold is the end of a sequence of steps, and are proved once for a step given as
a function, by the least counterexample; `Flattens` does the same for the inputs joined.

* `ChownInv`: `seen` is the set of files already done.  What is still to do and what was
  done are together closed under "below" (`ChownWalk`), nothing that `Reached` does not
  contain was touched, and whoever was touched has the new owner, so that a file met twice
  is changed once.  `AskedFor` is about the old owner, `--from` compares the one found:
  `ChownAsked` relates them.  `FromAfter` says what the options parsed so far ask for: the user
  of the last `--from` that names one, and so with the group.
* `OdInv`: `Reading` says how many bytes of the inputs, seen as one stream, were seen, that
  those behind `-j` are the words written and then the buffer, and where in the stream the
  offset of the open input lies.  An odd byte waits in the buffer for the next read or
  the next input.  `WrittenTells` leads from the words back to the bytes.

`ChownChangesOwners` and `OdDumpsAll` follow.  The first holds for any tree and any list of
options but those `ChownExact` names (`OWNER:`, `--from` with `-R` over a directory that does not
match, a reference file beside `--preserve-root` or its opposite); the second for any
options, number and length of inputs and size of buffers, of calls that exit.

`HeadTailProofs` proves from `TextsAssumption` (options of these two commands, numbers made of
digits, inputs of bytes) that `head` and `tail` print what is asked for.  What an input is to
give is a piece of it, from `Begin` to `Close`; `LineAt` says where lines end and `EndsIn` how
many line ends lie before a position.  `Sofar` joins the inputs' shares, headers included.

* `TextInv`: between inputs the output is `Sofar` of those done.  Within one it is `Owes`:
  what is written, with a piece of the input from here on, is what is due up to the end of
  this input.  The rest of the invariant says where in its loop a program is (`Part`).
* `AtCopy`, for `copy_fd`: `left` reaches the end of that piece, or the end of the input, and
  the rest of a buffer is written behind it.  `AtLines`, for `head_lines`: the line ends passed
  and those still to be counted make `num`.
* `Backwards`, for the loops that read whole buffers from the end (`elide_head_lines`,
  `tail_lines`): the line ends up to the end of the buffer, less `lines`, are those that have
  to lie before what is cut.  `Forward`, for `tail -n +N`: the line ends up to `ptr` and the
  `lines` still to be passed make `num - 1`.
* The settings are those of the last option given of each kind (`TextAfter`), and `num` is
  what was given whenever an input starts, although `copy_fd` counts it down.

`HeadTailPrint` follows.  Its exclusions are those of `HeadExact` and `TailExact`, where the code does
something else (`Plain`): pipes when it has to go back, last lines without an end that it does not
see as such (`EndSeen`), and `tail -n +N` when two line ends to be passed are in one
buffer (`Apart`).  They are used exactly where the code misses the piece: `EndSeen` where the
scan from the end starts, `Apart` where the scan from the start goes on in the same buffer.

Only model-checked: everything about liveness (the prover has no fairness), and `cat` and
`chmod`.  `chmod` applies a list of clauses one by one, and a file that is
met twice would get them twice: what it does to any tree is not what its usage text says,
only what it does to trees in which no file is met twice.  `cat` is a state machine of flags
for every byte whose documented result, `CatText`, looks at whole lines; a proof has to say,
for any text, what one more byte changes in its lines, in those that are squeezed and in
every number, and has not been done.

## Not modelled

* Memory, except for frees and dereferences that properties are about; descriptor
  numbers (`users` in `run_child` is too small for them); output.
* Two thread pools in one process, which share the global `stop`.
* Ticks that run inside the signal handler, as `net/test_timer.cc` has them.
* Callbacks of more than a second in one tick (`TickTimes`): `AlarmInTime` fails for
  them, because `resetTimer` passes a negative number to `alarm()`.
* Chat servers: urgent data and the exception sets, names and texts longer than their
  buffers, failures of `select` and `poll` themselves.  Two things the model shows and no
  property forbids: a text may be overwritten before it is written to a slow receiver, and
  a client of the poll server may get its own text, because `users` is copied from a
  position as if it were a descriptor.
* Epoll servers: what does not fit into a socket, requests split over two segments.  Clients
  in the queue of the edge-triggered listening socket are exempt from `AllServed`: one
  accept per event leaves them waiting until somebody else connects.
* Messages and layout of the commands; mode letters behind uninitialized memory; `errno`
  as `printf` leaves it.
* The clients of the servers (copy loops), `file_server_procpool.cc` (its callbacks are steps of
  a child in `ProcessPool`), the lock wrappers, which nothing uses, the support library and the
  demonstrations of a single system call.

## Plan

In this order; each module with its own instance, invariants before liveness.

1. Done: thread pool with contract and proofs, timers with contract, process pool with
   proofs.
2. Done: the chat servers and the epoll servers with their clients.
3. Done: the commands, and the programs that wait for children, threads and clients.
4. Done: the servers, `cp`, `pwd` and the programs that wait, proved for any number of
   clients, threads and bytes; the three timer containers and their use, for any number of
   timers, slots and seconds.
5. `memwrite.c` and `memread.c` over their shared buffer, `mq_notify_sig.c` and
   `thread_cleanup.c`.
6. Extensions of the core: ticks inside the signal handler, two pools that share `stop`,
   the timers of the connections inside `ProcessPool`.

# Devclego in TLA+

Devclego is a C skeleton for services: macros that generate *components*
(puffers, object pools, threaded components), a small threading library over
pthreads, data maps, a finite state machine, a set of data structures, a
configuration file loader and a command line parser. This directory holds TLA+
modules of these parts, TLC configurations that check them on small instances
and TLAPS proofs of the main properties of the concurrent core for every
instance. Paths below are relative to the repository; `C` stands for
`src/src/cmp/cmp_predefs.h`, `T` for `src/src/lib/lib_threading.c`.

## 1. Inventory

| component | state | operations | what is hard | what makes it correct |
|---|---|---|---|---|
| datapuffer, `lib_puffers.c:174-269` | `items`, `start`, `end`, `count` | ctor, write, read, isfull, isempty, capacities, clear | no guard of its own, wrap-around | the ring is the image of a sequence |
| signal, `T:76-141` | a mutex, one condition variable, `waiting`, `waiters` | lock, unlock, wait, set, setall, release | lost, stolen and spurious wakeups; the flags are written after the wait returned | the flags are touched by the owner only |
| signalized puffer, `C:65-161, 353-398` | a datapuffer and a signal | receiver (producer), supplier (consumer) | guards tested once (`if`), a signal only at the edges, one condition for two kinds of waiters | a bounded FIFO channel |
| recycle puffer, `C:404-490` | a datapuffer and a spin lock | receiver, supplier, init, deinit | the lock is given up before an item is constructed or destroyed; cleaning on return, not on hand-out | one owner per item, none lost, only clean ones handed out |
| barrier, `T:143-213` | `current` (two counters in one word), `gatenum`, mutex, condition | wait, dtor | re-entry while others leave, the dtor while others leave | rounds; no use after free |
| thread life cycle, `T:281-355`, `lib_predefs.h:17-32` | `state`, `arg`, the handle | make, start, stop, the entry point, dtor | the state is written by both sides without a lock; polling with a limit, then cancellation; never joined | the component outlives its thread; STOP ends it |
| CMP_DEF ctor and dtor, `C:164-252` | the global variable of the component | ctor, dtor | freed but not nulled, deinit before the NULL test | one life at a time |
| push threader, `C:552-614` | `item`, a signal, the thread | start, stop, receiver, main process | one slot, overwritten; waits without a condition | order; a wakeup leads to a send; the caller is blocked while an item is on its way |
| CMP_THREADS, `C:619-758` | an array of threads, a rwmutex | start, stop by activator, iteration | search under the read lock, store under the write lock; an early return with the lock held | each thread in its own slot |
| rwmutex, `T:215-255` | a pthread rwlock | read and write lock, unlock | an error nobody looks at when the caller already has the lock | readers or one writer |
| data maps, `dmap/` | rows of slots, a rwmutex per table that the callers take, the built-in table of threads | add, get, iterate, remove by index and by address, deinit | iteration while others write, a full table, a removal that leaves the slot | a set of items, each with one owner |
| FSM and main loop, `fsm/`, `main.c` | `current`, `running`, the table of threads | fire, setup, start, run, halt, shutdown, SIGINT | events from several threads and SIGINT at any time, a START or STOP without its partner, threads that have not run yet | STARTs and STOPs in pairs until two events overlap; STOP waits for every thread that has run; the program ends |
| mdatapuffer, `lib_puffers.c:15-171` | a ring with two positions and a read index | setreadindex, read, write, capacities, reset, clear | what is skipped, what is read twice, one capacity off by one | the sequence of the unread items |
| sliding windows and plugins, `lib_puffers.c:371-595`, `lib_swplugins.c` | a ring of stamped cells; two trees, a sum, a minimum and maximum | add, refresh, clear, dtor | items leave by number and by age; trees keep pointers to cells that are written again | what the plugins report is what the window holds |
| binary tree, `lib_bintree.c` | nodes with reference counts, top and bottom, two counters | insert, delete, pop, insert a popped node, reset | a node with two children is replaced by another | a bag in order |
| queue, vector, heap | nodes, an allocation, an array | push, pop, remove, shift, insert, heapify | the empty and the one-element case, growth | a deque, a list, a bag |
| lists and chains, `lib_funcs.c`, `lib_tors.c` | nodes | append, prepend, copy, dtor | which pointers are written | a sequence |
| configuration file, `etc_iniparser.c`, `etc_dict.c` | slots of keys and values, the line being read | load, set, unset, queries, dump | growth, reuse of slots, errors among good lines, continued lines | the dictionary is the file |
| command line, `etc_argtable2.c`, `main.c` | counts and values per entry, a list of errors | parse (options, operands, checks), print errors | which entry takes which operand, a second parse with the same table | the values are those of the line, or an error is told |
| timers and interrupts, `lib_interrupting.c` | signal handlers, a timer | set, arm | `tv_nsec` without a carry | |

Interaction. A component's sender is bound to the next one's receiver and its
demander to the previous one's supplier, so a pipeline is: a threaded component
calls the supplier of one puffer and the receiver of the next, items come from a
recycle puffer and go back to it. The only state two threads share is the state
of puffers, pools, barriers, the push threader's slot, `thread->state` and the
tables of threads; these are the modules below.

## 2. Modules

| module | models | state |
|---|---|---|
| `DataPuffer` | datapuffer_t as operators over a record; no behaviour of its own | - |
| `SignalPuffer` | CMP_DEF_SGPUFFER's two processes over signal_t and `DataPuffer` | the ring, the mutex's owner, the condition's wait set, `waiters`, `waiting`, a pc per thread |
| `BoundedFifo` | abstract: a bounded first-in first-out channel | |
| `Barrier` | barrier_wait and barrier_dtor | the mutex, `current`, the wait set, a pc per thread, history counters |
| `RoundBarrier` | abstract: rounds nobody leaves before all have entered | |
| `RecyclePuffer` | CMP_DEF_RECPUFFER with clients that use items and pass them on | the ring, the spin lock, a pc per client, who owns what, what is alive, what is dirty |
| `PushThreader` | CMP_THREAD's START and STOP, stop_thread, LIB_DEF_THREAD, CMP_PUSH_THREADER | the globals, thread states, the mutex and slot of each component, the items passed on |
| `ThreadChain` | CMP_THREADS' START and STOP by activator, from any caller | the array of threads, the rwmutex, a pc and the local variables per caller, thread states, what was cancelled and freed |
| `MapTable` | the functions of `dmap.c` over the slots of a table, as operators | - |
| `DataMap` | a table used by several callers under its rwmutex | the slots, the readers and the writer, each caller's index and pointers, who owns each item |
| `Service` | `program()`, `fsm_fire`, the START and STOP of the components, `MapTable` as the table of threads, SHUTDOWN, SIGINT | `current`, `running`, a pc and the thread_t it holds per actor, components, threads, rows, what was freed and read after that; beside it whether two events have overlapped and which threads a STOP passed over |
| `BinTree` | the binary tree, as operators over a record and as a tree in use | the tree, a bag beside it |
| `SlidingWindow` | the window with three plugins over `BinTree` | the window, the cells, the plugins' trees and sums |
| `Queue`, `Vector`, `Heap`, `Lists`, `MDataPuffer` | one data structure each | its memory, and beside it the sequence or bag it should be |
| `Config` | iniparser_load into the dictionary, the program's calls, dump and reload | the slots, the line, the section, the entries meant |
| `Options` | the argtable entries, arg_parse with getopt_long, the outcome in `main()` | the table, the line, counts and values, the errors |
| `*Proofs` | the theorems, one module per component; `LibraryProofs` has those of the sequential parts and the data map but for trees and windows (`BinTreeProofs`), `ServiceProofs` those of the program: its service and its command line | |
| `MC*` | what TLC needs beyond the component's module; `MCThreading` puts the puffer of a pair, the pool and the barrier into one state space, `MCLibrary` the puffer of many, the data map and the sequential parts | |

Grain. One action is what a thread does between two operations that another
thread can observe: taking a lock, releasing it, a wait, a write of
`thread->state`. What runs under a mutex is one action per lock-protected part
(test, transfer, unlock), since nobody else can see its middle. Blocking in
`pthread_cond_wait` is two steps: off the wait set (by a signal, a broadcast or
spuriously), then the mutex again - and in between everybody else may run,
which is where the hazards are. The choice of the thread a signal wakes is
nondeterministic.

Abstraction. Items are model values in the puffers and numbers in the push
threader, so that order can be stated; logging and `CMP_TEST` (empty in the
skeleton) are left out, and memory is "constructed", "freed" and who holds what.
Two things in `PushThreader` and `ThreadChain`, and in no other module, bind the
environment: `Orderly` (below) and `wait_limit`, 10 in the code. The k-th START
of `ThreadChain` makes
thread k; with which activator is the constant `ActivatorOf`, so TLC checks one
assignment and the proofs hold for each. A caller that finds no component
returns with the write lock held (`C:745-748`), and keeps it; its own next lock
operation fails with EDEADLK, which `T:215-255` does not look at, and its next
unlock releases it: `ReadLocks`, `WriteLocks` and `Unlocks` model exactly this.

Sequential parts. One call is one action, with everything it does; where the
code branches on memory it has freed or never written, the model records the
fact in a variable (`broken`, `misread`, `torn`, `strayed`, `overrun`, ...) and
goes no further, and the property says when that can happen at all: so
`QueueIsDeque` allows a freed node to be read only after queue_pop_tail has
emptied the queue. Beside the code's state each module keeps what the structure
should be (`bag`, `deque`, `series`, `unread`, `meant`), moved by the calls
alone. A data pointer is a cell or a number; a line of the configuration file is
what iniparser_line makes of it; a text on the command line is a record of what
the conversions can tell apart: sign, prefix, number of digits, suffix, and
which date or regular expression it fits.

Composition. `Service` uses `MapTable` for the table of threads and models
START and STOP with the states of `PushThreader`; `SlidingWindow` keeps its
pointers in the trees of `BinTree`; `SignalPuffer` and `RecyclePuffer` write and
read through `DataPuffer`. The other parts share no state with each other, which
is why `MCThreading` and `MCLibrary` may check several in one run: `used` says
which of them is in use, the others stay as they were made.

What the code leaves to the application. `_cmps_ctor`, `_sys_start` and
`_sys_stop` are empty in the skeleton; `Service` takes them as the examples in
their comments show (`fsm_halt.c:66`), the components one after the other.
docs/datamaps.md:73-74 has the application add its tables' init and deinit to
dmap_init and dmap_deinit. In the skeleton neither calls that of the built-in
table of threads (`dmap.c:70-91`); `Service` takes it that the application adds
the init, without which make_thread has no table, and no deinit: at exit the
table is left as it is.

Operators named in a comment as *Mutant* are not part of any specification; they
are the plausible slips each property has been tested against.

## 3. Runs

| run | instance | expected | what it shows |
|---|---|---|---|
| `Threading` | the signalized puffer with 1 producer, 1 consumer, length 2, 3 items, no spurious wakeups; the pool with 2 clients; the barrier with 3 threads, 2 rounds, then the dtor, spurious wakeups | pass | the puffer implements `BoundedFifo` with its fairness, the guards tested once still hold at the read and the write, no wakeup is lost; ownership, conservation, cleanliness of the pool, and its calls return; the barrier implements `RoundBarrier` with its fairness, its counter, its wakeups and its destruction are right |
| `SgPufferTwoConsumers` | 1 producer, 2 consumers, no spurious wakeups | **violation** of `GuardStillHolds` | the woken consumer reads an empty puffer (finding 1) |
| `ThreaderOrderly` | 2 lives, 2 clients, 2 items, 1 spurious wakeup, 1 poll | pass | order of what is passed on, a woken thread sends, STOP ends the thread, the component is not freed under a thread that ended by itself |
| `ThreaderHasty` | START, STOP at once | **violation** of `StopDeactivates` | STOP before the thread has set its state stops nothing (finding 2) |
| `ThreaderBusy` | 1 life, 2 clients, no spurious wakeups | **violation** of `BusyBlocks` | an item received while the thread is not waiting is overwritten by the next (finding 5) |
| `ChainOrderly` | 2 callers, 2 activators, 2 slots, 3 STARTs, 1 poll | pass | each parallel thread is in one slot until one STOP takes it out, is destroyed once and after its end; calls return unless a caller has kept the write lock |
| `ChainTwoStarts` | 2 callers START at the same time | **violation** of `KeptOnce` | both take the same slot (finding 3) |
| `Service` | 1 or 2 components, a second thread that fires START and STOP, 2 threads, a table of 2; SIGINT at any time | pass | until two events overlap, between events every component has its one thread or none, and a thread that lives in HALT was cancelled or had not run when its STOP came; SIGINT ends the program |
| `Library` | below | pass | mutex and wait count of signal_t with 2 + 2 threads; the data map, the data structures, the configuration file and the command line are what they should be |
| `MapRemByAddress` | 2 callers, 2 slots, 2 items | **violation** of `RemovesItsItem` | dmap_rem destroys another item than the one it was given (finding 4) |
| `QueueEmptied` | a queue of up to 3 | **violation** of `NeverMisreads` | a queue emptied from the tail reads a freed node (finding 6) |
| `ConfigSetAbsent` | a file of at most 2 lines | **violation** of `SetAddsNothing` | iniparser_set adds an entry that is not there (finding 7) |

Bounds. The puffer of `Threading` needs a length of at least 2 for positions that
differ and wrap at different times; the states empty, full and neither are all
there. Three items, one more than fit, make a loss and a swap visible. Two
threads of each kind (`Library`) are enough for a stolen and a misdirected
wakeup. Three threads and two rounds are the least for
one thread to be back in the second round while two others are still leaving the
first. `BARRIER_FLAG` is 2^31 in the code and 100 here: only `GateNum <=
BARRIER_FLAG` matters, and the proofs assume no more than that; `current` stays
below `BARRIER_FLAG + GateNum` (`BarrierTypeOK`, proved as `TypeCorrect`), within
its 32 bits. Two slots and
three items let the pool be empty, partly filled and full with one item outside.
Two lives of the push threader let a cancelled thread of the first still be
around in the second; one poll is enough for a thread to make it in time or not.
Two callers of `ChainOrderly` let a START or STOP run between the two locks of
another call, and one of them meet the lock the other has kept; three STARTs
with two slots let a slot be used again and a thread be stored beyond the array.

`Service` has one component or two, since a shutdown walk over one row and over
two are different. With one of them the other thread may START it again after a
STOP, while the first thread still runs, has been cancelled, or was passed over;
with two, an event of the other thread may come between those for the first
component and those for the second.
A table with fewer rows than there are threads is covered by `DataMap` and by
the theorem, which holds for any size. Each part of `Library` fills up, grows,
wraps and runs empty within its bounds: a puffer of two slots; a map of two slots
for three items and two callers; a tree of up to four values with up to four
references (`MaxLag` cuts
off the drift of the duplicate counter); windows of up to three items with a
time limit of one tick, without the percentile plugin and with it at 40, 50 and
67; queues and lists of three; a vector that starts with two elements and grows
to four; a heap of six, which grows from four and shrinks again; a ring of three
with two positions that lap each other within six items; a dictionary of two
slots that doubles within three lines. `Options` takes every line of up to three
words from the vocabulary of three tables - the program's own, one of numbers
and files, one of dates, regular expressions, strings and doubles - and then a
second line with the same table, which must not see anything of the first.
`IntMax = 15` and `Kilo = 2` are a miniature of 2^31 - 1 and 1024: the factors
2, 4 and 8 meet the range as 2^10, 2^20 and 2^30 do, with each suffix in range
for small numbers and out of range for large ones.

`CountBounded` (`Library`) cuts off states in which the counter of the puffer is
more than 2 out of range, which several consumers bring about (finding 1); the
two properties checked of it there do not mention the counter.
Deadlock checking is off where the system may stop: all rounds done or nobody
calls anything (`Threading`, `ThreaderOrderly`, `ChainOrderly`), the program has
ended (`Service`), a structure is full or its caller done, threads that all sleep
(`Library`). That the pair of `Threading` never blocks itself is `NoLostWakeup`
and the fairness part of `ImplementsFairFifo`.

Fairness. A thread goes on with a call it is in: weak fairness of the call's
steps. In `SignalPuffer` a consumer also calls again (the do-while loop of a
threaded component), a producer need not; weak fairness is enough because with
one thread on each side the mutex is free again for good while the other waits.
In `Barrier` and `RecyclePuffer` other threads may take the lock again and again,
so getting it needs strong fairness, the assumption that a lock released
infinitely often is obtained in the end; pthread mutexes and spin locks promise
it only statistically. It is for calls under way: nobody has to call
barrier_wait, barrier_dtor or the pool. So do the calls of `ThreadChain`, whose threads are weakly
fair where they start, end and are cancelled: a main process need not come to an
end by itself. `PushThreader` has weak fairness; its items and polls are
bounded. `Service` is weakly fair for `program()`, whose sleep ends, for what an
actor is in, and for a thread that was started and gets to run; a main process
need not come to an end, a cancelled thread need not die, nobody need press
ctrl-C. Nobody has to call START, STOP or a receiver, and no wakeup is ever
assumed to come spuriously.

`Orderly` in `PushThreader` is the use under which it works: START only when
stopped, STOP only when the thread has set its state to RUN and no client is
inside the receiver, and nothing received while STOP runs. The state machine of
the skeleton starts components before it runs and stops them after, but nothing
enforces it; `ThreaderHasty` drops it. `Orderly` in `ThreadChain` is weaker: one
START at a time, and STOP only for activators whose threads have all set their
state to RUN. Any number of STOPs may run at once and next to a START, and a
STOP may be for an activator nobody has started. `ChainTwoStarts` drops it.

`Service` has no such restriction: SIGINT comes at any moment and ends the sleep
of `program()` at once, and the other threads fire START and STOP whenever they
are not in a transition themselves. What two overlapping events lead to is
modelled; `overlapped` remembers that it has happened, and the two invariants
say what holds until then.

## 4. Findings

1. `docs/components.md:197` calls the signalized puffer thread safe. With a
   second consumer (or producer, or a spurious wakeup) a woken thread does not
   test its guard again (`C:122`, `C:149`) and reads an empty or writes a full
   puffer.
2. `docs/components.md:129-130` says STOP deactivates the thread. `stop_thread`
   does nothing unless the thread has already set `THREAD_STATE_RUN` (`T:325`);
   a STOP before that frees the component under a thread that then waits on the
   destroyed signal forever.
3. `docs/components.md:162` and `:171-173` describe START and STOP of parallel
   threads by parameter, and the rwmutex is there to let several callers use
   them. START searches a free slot under the read lock, gives it up, and stores
   under the write lock without looking again (`C:719-722`): of two threads
   started at the same time one is overwritten, and no STOP finds it.
4. `docs/datamaps.md:39` says dmap_rem_[NAME] removes the item given by its
   address. `_dmap_rem_item` passes over the rows that hold it and destroys the
   first row that holds another one (`dmap.c:205-208`); the slot keeps its
   pointer.

5. `docs/components.md:248` says the push threader "blocks the caller" while it
   is busy passing on the data received before. The receiver only takes the
   mutex. An item that comes while the thread is not in signal_wait signals
   nobody, the thread goes to sleep without looking at the slot (`C:609`), and
   the next caller overwrites it; so does a second caller that gets the mutex
   before the thread the first one has woken (`C:599`). The item is lost.
6. queue_test (`lib_queue.c:30-45`) empties its queue with queue_pop_tail and
   goes on with queue_push_head. queue_pop_tail leaves `head` on the node it has
   freed (`lib_queue.c:177`), and the push writes into it.
7. `etc_iniparser.c:520-521` says iniparser_set of an entry that cannot be found
   returns -1. It adds the entry and returns 0 (`etc_iniparser.c:527`,
   `etc_dict.c:264-276`).

Other places where the code does not do what it should are modelled as they are,
and the properties say what holds up to them; where a doc, comment or test has
something to say about one, it is named here.

* `_heapify` is introduced as "Heapifies a non-empty array" (`lib_heap.c:76`). Of
  an array of one element the last one with a child is `(1 >> 1) - 1`, UINT_MAX,
  and `data[UINT_MAX]` is read: a second disagreement of this kind, which has no
  run of its own. _heap_pop of an empty heap reads the same place. `HeapIsBag`
  says that these two are the only calls that leave the array (`strayed`).
* `queue_is_empty` is inverted: queue_dtor leaks what a queue holds and pops an
  empty one for ever. queue_test ends with the dtor of an empty queue
  (`lib_queue.c:63`). `QueueIsDeque` speaks of the queue until its dtor.
* A thread that has not set THREAD_STATE_RUN when its STOP comes lives on, with
  its component freed: the cause of finding 2, here reached by a SIGINT right
  after START, before `program()` has slept, although `main.c:99-100` promises
  room for finishing. `StoppedInHalt` excepts these threads (`missed`) and those
  that were cancelled, which no join follows; `FreedAfterUse` excepts the latter.
* The walk of SHUTDOWN removes the threads the way of finding 4: with two rows it
  destroys the second, then reads it (`fsm_halt.c:77`). `Service` goes no further
  then, and `ExitReached` allows for it. A full table leaks the row it was given.
  A thread_t of CMP_THREADS that its STOP has freed is in the table still; the two
  are not composed.
* Two threads that fire at the same time may both take the transition
  (`fsm.c:82`); `README.md:92` of the repository says the machine "at any time can
  receive an event", and the signal it makes (`fsm.c:49`) is never locked. After
  fsm_dtor (`main.c:94`) get_fsm() returns freed memory to those that still fire.
* STOP of CMP_THREADS for an unknown activator keeps the write lock (`C:745`), and
  START with all slots taken stores beyond the array (`C:719`): `CallsReturn` and
  `KeptOnce` leave these calls out. STOPPED is written before the thread's deinit
  process is called (`lib_predefs.h:29`), which is empty in the skeleton.
* An item given back to the pool is cleaned then, not when it is handed out: a
  client that writes into it after that spoils the next owner's. `SuppliedClean`
  is about clients that write only into what they hold.
* The percentile plugin keeps a value that is in the window twice in both trees
  and removes it from both; slidingwindow_test (`lib_swplugins.c:33-52`) feeds
  such values, but states no percentile it expects. Below a percentile of 50 the
  plugin reads through NULL when maxtree is empty. `PercentileSplits` excludes
  both; its disposer frees only mintree. slidingwindow_refresh drops an item of a
  window that is full although nothing comes. slidingwindow_dtor frees a function
  pointer.
* `duplicate_counter` of the tree is kept wrong by three operations: what
  bintree_get_refnum returns is checked until one of them was called (`inexact`).
* vector_remove moves one element and refuses index 0; vector_remove_all shrinks
  the memory to as many bytes as there were elements; vector_insert_at beyond the
  end counts a cell nobody wrote; vector_shift of a full vector reads one cell
  beyond; vector_pop of an empty one counts below zero. After these `VectorIsList`
  makes no claim (`skewed`).
* datchain_append links the item instead of its node; slist_cpy starts from an
  uninitialised head (`torn`). mdatapuffer_writecapacity is one too many when
  start is before end, and start is out of date once the ring has run empty:
  `RingKeepsUnread` excepts the second write on one answer.
* iniparser_load forgets a syntax error when a value or section follows, drops a
  value continued at the end of the file, and fails on a last line without its
  newline. iniparser_dump_ini drops keys that have no section.
* timer_arm adds to `tv_nsec` without a carry (`lib_interrupting.c:150`); nothing
  calls it.

## 5. Proofs

TLAPS checks every theorem of the `*Proofs` modules for all values of the
constants that satisfy the named assumptions (`PufferAssumption`,
`ThreadAssumption`, `BarrierAssumption`, `NoClientAssumption`,
`PushThreaderAssumption`, `ChainAssumption`, `MapSizeAssumption`,
`NoItemAssumption`, `VectorAssumption`, `QueueAssumption`, `ListAssumption`,
`HeapAssumption`, `RingAssumption`, `ConfigAssumption`, `IntAssumption`,
`TableAssumption`, `TokenAssumption`, `WindowAssumption`, `KeysAssumption` and
`ServiceAssumption`): sizes are positive, the keys of a tree
finitely many positive integers, the bounds of the model are naturals, the
value for "none" is no item, and finitely many threads fire events.
`IntAssumption`: 1024^3 divides INT_MAX + 1.
`TableAssumption`: an argument table is made by the constructors, with one end
entry, its last, and no two entries share a name (getopt_long would give them to
the first). `TokenAssumption`: a command line is made of tokens. Nothing else is
assumed of a constant.

* `SignalPufferProofs`: first the ring lemmas. `Contents` is the sequence a ring
  stands for; `WriteAppends` and `ReadTakesHead` say that under `RingOK` a write
  appends to it and a read takes its head, and both keep `RingOK`. Then type
  correctness, `MutualExclusion` and `WaitersCounted` for any threads; and for at
  most one producer, one consumer and no spurious wakeup `PairSafe`,
  `PairNeverOversleeps` (`NoLostWakeup`) and `PairImplementsFifo`. The invariant
  of the pair says *why* a guard tested once is enough: a blocked thread's guard holds,
  and that of a thread that was woken or passed its test does not, because only
  the thread itself could make it hold again.
* `BarrierProofs`: `CurrentCounts` follows by counting the set of threads
  between the two halves of `barrier_wait`; from it `NoLostBroadcast`
  (`NobodyOversleeps`), the rounds (`TeamSafe`, for as many threads as
  `GateNum`), the refinement of `RoundBarrier`'s safety part
  (`TeamImplementsRounds`), and `NotFreedInUse` (`DtorSafe`). The invariant of
  the team (`TeamInv`) says which of the threads have arrived but not passed:
  those between the halves of `barrier_wait`, all others being one full round
  behind or ahead of them depending on whether `current` is below the flag.
* `RecyclePufferProofs`: `PoolIntact`, `OneOwner`, `NothingLost`,
  `SuppliedClean`. The invariant strengthens ownership by the relation between
  pc and hand and by "what is stored is clean".
* `PushThreaderProofs`, for callers that are `Orderly`: type correctness,
  `NoUseAfterFree` (`FreedAfterUse`) and `OrderKept` (`SentInOrder`). `LifeInv`
  says that the lives follow each other: there is at most one component, made by
  the last START together with its thread, and of all other threads those that
  were not cancelled have ended. `SentInv` pays for every repeated item with a
  spurious wakeup: a thread that is about to send again what it sent last
  (`Owed`) got there through a wakeup nobody has used yet.
* `ThreadChainProofs`, for callers that are `Orderly`: type correctness,
  `AlwaysKeptOnce` (`KeptOnce`), `NeverDisposedTwice` (`DisposedOnce`) and
  `AlwaysFreedAfterUse` (`FreedAfterUse`), for any number of callers, slots,
  threads and polls. `ChainInv` says why the search under one lock and the store
  under the other go together: there is one START at most, so a slot found free
  can only be emptied, never filled, in between (`StartInv`). A thread is in
  turn made (`Fresh`), in one slot, taken out by one STOP (`Taken`) and freed
  (`SlotInv`, `StopInv`), and `LifeInv` ties `thread->state` to that: a thread
  in a slot runs on, one taken out has been told to stop, and one that is
  destroyed has ended or been cancelled.

* `ServiceProofs`: type correctness, `StopsPairStartsHolds` and
  `StoppedInHaltHolds`, for any number of components, firing threads and rows, with
  SIGINT at any time. `ServiceInv` says that until two events overlap one actor at
  most is in a transition (`TurnInv`), of the kind its state allows (`ToInv`), and,
  for every place it can be at there, which components are up and which down on
  either side of it (`PairInv`), each with a thread of its own (`OwnInv`): so
  whatever event comes next, a START finds everything down and a STOP finds
  everything up. `ExitInv` adds `LiveInv`: a thread that lives, was not cancelled
  and was not passed over is one of a component that is up, in a state in which its
  STOP will wait for it, or it is the one a STOP waits for now.
* `LibraryProofs`, the data map: `MapTypesHold`, `ReadersSeeTableHolds` and
  `ItemsOnceHolds`, for any table, callers and items. `MapInv` adds to ownership
  that a writer is alone (so nothing a reader has seen changes under it), that an
  iteration has returned exactly the rows in use before its index, and that an
  item alive is in one row or in the hands of one caller.
* `LibraryProofs`, vector, queue and lists: `VectorIsListHolds`,
  `QueueIsDequeHolds` and `ListIsSeriesHolds`, for any elements and any length.
  `VectorInv` says that the memory starts with the list and is as long as
  `allocNum` until vector_remove_all; what memmove and realloc do to it is
  `MovedIs`, `ReallocIs` and `GrownIs`. For the linked structures the invariant
  names the nodes: there is a sequence of nodes, each once and no other allocated,
  whose links and contents are those of the deque (`Chain`) or of the list
  (`Listed`). What a push, pop, prepend, append or copy does to such a sequence is
  a lemma about any memory (`ChainPushHead` to `ChainPopTail`, `ListedPrepend`,
  `ListedAppend`, `ListedCpy`), applied to the state by the proof of its action.
* `LibraryProofs`, heap: `HeapIsBagHolds`, for any integers and any length. The
  value on its way leaves a hole in the array: that the array with the value put
  in the hole is a `Shuffled` of the one before (by counting, `SwapShuffles`) and
  ordered but for the hole (`OrderedBelow` while it rises, `OrderedAbove` while it
  sinks) is the invariant of the loops, and they stop in time because the hole
  moves by a level with each turn (`RisesTurn`, `SinksTurn`, `SiftUpIs`,
  `SiftDownIs`). A call can leave the array only while the heap is empty.
  `Sizes`, the smallest set with `BaseSize` that doubling does not
  leave, is what the allocation is in; halving does not leave it either.
* `LibraryProofs`, mdatapuffer: `RingKeepsUnreadHolds`, for any length and number
  of items. Items are numbered as they are written, so the one with number `k` can
  only be at `Pos`, a fixed distance behind the write position; `Holds` says that
  there it is if it is unread, that there is nothing if not, and that the unread
  ones rise among the last `RingLength` numbers (`Recent`). `StartsAt` and
  `ReadsAt` give start and the read index the number they stand for: start never
  after the oldest item, the read index after those left behind and not after the
  next one. What the searches find follows (`OccupiedIs`, `NextItemIs`, `PastIs`),
  and what the calls make of it (`SetIndexIs`, `TakenOutIs`, `EmptiedIs`). The first
  write on an answer does not pass start because an answer above 0 is only given
  when the ring is empty or start is not the write position, and nothing the caller
  does in between makes them meet (`RingInv`).
* `LibraryProofs`, configuration file: `DictionaryIsFileHolds`, for any names,
  values and number of lines. `Maps` relates the slots to the entries meant: each
  key that is meant in one slot with its value, no other key, as many as `n` says.
  A dictionary that is not full then has an empty slot, which the search from the
  n-th on around the end finds (`EmptySlotIs`, by counting), and growing, setting
  and removing keep `Maps` (`DoubledIs`, `SetIs`, `UnsetIs`). Of a save only the
  set of lines matters: the n-th section is found for every n and each section for
  one (`PlacesAre`, `SectionsAre`), so the lines are those of the entries whose
  section is there (`DumpIniIs`), and loading them is a sequence of `SetIs`
  (`ReloadIs`).

* `BinTreeProofs`: `TreeCountsBagHolds`, for any set of keys and any number of
  references. A `Shape` gives each node n the set S[n] of the nodes below it,
  instead of a recursion over the tree: S[n] is n and the sets of its children
  (`Split`), the values of a side are on their side of n's (`Sorted`), a value
  between two of a set is in it (`Convex`), and two sets that meet are one inside
  the other (`Nested`). The last two follow from the first two, by an induction;
  carried along they spare it, because what each operation does to the sets can
  be written down: a leaf joins those of the nodes above it (`GrownRight`,
  `GrownLeft`), a node that is cut off leaves all of them (`CutIs`), and a value
  may change to another that compares the same way with the rest (`RelabelledIs`).
  A loop along the pointers is a recursive function, which exists because the loop
  stays where it ends (`WalkExists`); as each turn leads to a smaller S[n], it ends at
  the greatest or the least value of a side (`RightestIs`, `LeftestIs`), and at the
  node of the value searched or the one its leaf will hang on (`SearchIs`). That `top` never dangles is the
  delicate part: it is repaired *before* its node is freed, from the left child the
  node still points to or from the root, which leads to the next one in either case
  (`NextIsBelow`, `TrashIs`). With what delete, pop and insert make of the nodes
  (`PopIs`, `DerefIs`, `InsertIs`), `TreeInv` says that the shape is there, that
  node by node it counts what the bag has, and that `nodes + dups` is the sum of
  the bag until an operation gets `dups` wrong (`RefsChanged` for the sum).
* `BinTreeProofs`, sliding window: `PluginsFollowHolds` and
  `PercentileSplitsHolds`, for windows of any size and age limit, any integers and
  any percentile from 10 to 90 (what `CONSTRAIN(10,90,..)` leaves; 0 stands for a
  window without this plugin; num_limit is at least 1, since the ctor replaces 0).
  Neither is inductive: from what the plugins report nothing follows about the
  report after the next item has left. `WindowInv` adds where the items are, which
  is the k-th newest one in the k-th cell before the next (`Ring`, hence the cells
  of a window are different ones and the next cell is none of them, `RingIs`); that
  the minmax tree counts each value and keeps the pointer of the *newest* item with
  it (`MinMaxOf`: an older one of the same value may leave, `NewestTail`, and a new
  one takes over the node, `NewestAppend`, so no pointer outlives its item); that
  the sum is the last of a sequence of partial sums, of which a tail and an append
  have one too (`SumTail`, `SumAppend`); and that the window's cells fall into two
  sets, one in each tree of the percentile plugin and the one below the other
  (`Halved`, `PctInv`). `InsertKept` and `DerefKept` carry the tree lemmas over to a
  tree whose keys are read through pointers; the `Plain` lemmas are these for trees
  without equal values. The loops of the plugin and of the refresh are functions of
  the turn (`MinTurns`, `MaxTurns`, `AllTurns`, `LeavesTurns`): by induction on
  the turns, each leaves the two halves (`LeastToMaxtreeIs`, `GreatestToMintreeIs`)
  and, from 50 on, a value in maxtree (`ReduceMaxIs`, `BalancedIs`) - the reason why
  the plugin never reads through NULL there. It does below 50, which `WindowInv`
  leaves open.
* `ServiceProofs`, command line: `ErrorsToldHolds`, for any tables, command lines
  and number of calls of arg_parse. `OptInv` relates the errors kept to all the
  errors met (`KeptOf`, through one arg_register_error in `RegisteredKeeps` and
  through several in `RegistersKeeps`), says that each one kept, and the one the
  untagged parse holds back in `errorlast`, is one its entry has a message for
  (`ErrorsOf`; `ScanTold` for what the scanfns return, `OptionFound` and
  `ShortFound` for the entry getopt_long leads to), and that the regular
  expressions are compiled between the reset and the checks.
* `ServiceProofs`, command line again: `OptionsUnderstoodHolds`, for any tables,
  command lines of tokens of any kind, any INT_MAX and suffixes. The reference
  reads the line from the left and says after each token which operands there were
  (`OperandsTo`) and which values each entry was used with (`UsesTo`); the code
  takes options out of turn, moves the words behind them, and shares those out
  among the entries only later. `ParseInv` relates the two at every step. `LineInv`:
  at `Position`, which is between two options or words and never behind an option
  that waits for its value, the words moved are the operands so far, and as long as
  there is no error the tagged entries have counted and stored what the reference
  says (`OptionsRead`); with or without errors an entry without values counts
  when it is used (`LitsTold`), which is why --help takes precedence. `WordInv`: the
  words are taken in order, so that those of an entry follow those of the entries
  before it (`WordsTaken`, `TakenTo`), and `optind` is where the count of all of
  them has come to. `PlainInv` is the converse: a line that the table describes
  meets no error, and the untagged parse does not go past the one entry for words.
  What a token does is in `RoleIs`, `GetOptIs` and `OptionPassed`, what a scanfn
  makes of a text in `ScanMeans`: it stores the value the text means and refuses a
  text that means none. For integers this is the comparison with INT_MAX and
  INT_MIN divided by the factor of the suffix, which is exact because the factor
  divides INT_MAX + 1 (`FactorFits`, `IntMeans`); C rounds the negative quotient
  as \div does for the same reason.

Induction. A rule of induction takes a predicate as its parameter, which the
provers cannot instantiate. `LeastNat` (every set of naturals has a least member)
takes a set: a proof by it supposes that the set of counterexamples is not empty
and looks at the least of them. In the same way it shows that a recursive
function exists (`CmpAllDefined`, `WalkNext`, `WalkPrev`, `TailIs`, `LoopTurns`, `PastIs`,
`EmptiedIs`, `TurnsExist`, `WalkExists`, `WindowSumIs`, `RolesAre`, `OperandsAre`,
`UsesAre`, `TakenIs`), which the
definition of one as a CHOOSE leaves open, and then what its values are
(`CmpAllIsGreatest`, `FromHeadIs`, `FromTailIs`, `NthIs`).

Type invariants are not among the runs' properties: those of the concurrent
core, of `DataMap` and of `Service` are theorems of their own, and those of the
sequential parts are conjuncts of their inductive invariants.

Model-checked only: everything under fairness (`ImplementsFairFifo`,
`ImplementsRoundBarrier`'s liveness, `PoolCallsReturn`, `CallsReturn`, `StopDeactivates`,
`WokenSends`, `TakenOutEnds`, `ExitReached`), which is out of the prover's
reach. Every safety invariant the passing runs check is also proved.

## 6. Plan

Everything of the first plan is modelled, and every safety invariant of the runs
is proved. What is left to model: the parts of section 7, of which the first ones
would be worth it once something in `src/` calls them.

## 7. Not modelled

* Timers and interrupts: wrappers of sigaction, sigwait, timer_settime and
  timerfd_settime that nothing in `src/` calls.
* Logging, descriptions, printing, platform wrappers (`inc_*.c`), `etc_utils.c`
  and `etc_endian.c`: no state of their own.
* The skeleton's empty places: `cmp_defs.c`, `cmp_tests.c`, `dmap_sel.c`.
* signal_setall, signal_release, mutex wrappers, dispose_thread: called nowhere.
* argtable2: arg_free, arg_nullcheck, failures of malloc, the printing of syntax
  and glossary. iniparser: the splitting of a line into key and value, case
  folding, number conversion.
* datapuffer's peek_first and capacities; windows of other types than int32.

---------------------------- MODULE SignalPuffer ----------------------------
(***************************************************************************)
(* The signalized puffer (blocking queue) that CMP_DEF_SGPUFFER of         *)
(* src/cmp/cmp_predefs.h generates, between the threads that call its      *)
(* receiver (the producers) and its supplier (the consumers), over         *)
(* signal_t of src/lib/lib_threading.c (one mutex and ONE condition        *)
(* variable) and datapuffer_t (module DataPuffer).                         *)
(*                                                                         *)
(* A blocked thread sits in pthread_cond_wait: in condQueue until it is    *)
(* signalled, then until it owns the mutex again.  The code tests its      *)
(* guard once ("if", not "while"), wakes one thread with                   *)
(* pthread_cond_signal, and only when the puffer was full (after a read)   *)
(* or empty (after a write).  A consumer that finds nothing after its      *)
(* wait reads anyway; so does a producer that finds no room.               *)
(***************************************************************************)
EXTENDS DataPuffer, FiniteSets

CONSTANTS
  Producers,        (* threads calling the receiver process                *)
  Consumers,        (* threads calling the supplier process                *)
  NoThread,         (* the mutex is free                                   *)
  SpuriousWakeups   (* whether pthread_cond_wait may return unsignalled    *)

ASSUME ThreadAssumption ==
  /\ Producers \cap Consumers = {}
  /\ NoThread \notin Producers \cup Consumers
  /\ SpuriousWakeups \in BOOLEAN

(* bool_t of src/lib/lib_defs.h *)
BOOL_FALSE == 0
BOOL_TRUE  == 1

Threads == Producers \cup Consumers

VARIABLES
  puffer,     (* this->puffer                                              *)
  mutex,      (* the thread that owns signal->mutex, or NoThread           *)
  condQueue,  (* the threads blocked on signal->cond                       *)
  waiters,    (* signal->waiters                                           *)
  waiting,    (* signal->waiting                                           *)
  pc,         (* where each thread is in its call                          *)
  item,       (* item[p]: the receiver's argument until it is stored       *)
  result      (* result[c]: the supplier's result                          *)

vars == <<puffer, mutex, condQueue, waiters, waiting, pc, item, result>>

(* "idle": outside; "enter": in signal_lock; "test": owns the mutex, at    *)
(* the guard; "wait": in pthread_cond_wait; "transfer": owns the mutex, at *)
(* the read or the write; "exit": owns the mutex, at signal_unlock.        *)
PCs == {"idle", "enter", "test", "wait", "transfer", "exit"}

Init ==
  /\ puffer = EmptyPuffer
  /\ mutex = NoThread
  /\ condQueue = {}
  /\ waiters = 0
  /\ waiting = BOOL_FALSE
  /\ pc = [t \in Threads |-> "idle"]
  /\ item = [p \in Producers |-> NULL]
  /\ result = [c \in Consumers |-> NULL]

Goto(t, from, to) == pc[t] = from /\ pc' = [pc EXCEPT ![t] = to]

-----------------------------------------------------------------------------
(* The parts of signal_t.                                                  *)

Locks(t)   == mutex = NoThread /\ mutex' = t
Unlocks(t) == mutex = t /\ mutex' = NoThread

(* signal_wait up to the point where the thread is blocked.                *)
Blocks(t) == /\ Unlocks(t)
             /\ condQueue' = condQueue \cup {t}
             /\ waiters' = waiters + 1
             /\ waiting' = BOOL_TRUE

(* signal_set: one blocked thread, whichever the library picks, wakes up.  *)
Signals == \/ condQueue = {} /\ UNCHANGED condQueue
           \/ \E t \in condQueue : condQueue' = condQueue \ {t}

-----------------------------------------------------------------------------
(* A producer calls the receiver process with an item.                     *)
RecvCall(p, x) ==
  /\ Goto(p, "idle", "enter")
  /\ item' = [item EXCEPT ![p] = x]
  /\ UNCHANGED <<puffer, mutex, condQueue, waiters, waiting, result>>

(* A consumer calls the supplier process ("item_type *result = NULL").     *)
SupplyCall(c) ==
  /\ Goto(c, "idle", "enter")
  /\ result' = [result EXCEPT ![c] = NULL]
  /\ UNCHANGED <<puffer, mutex, condQueue, waiters, waiting, item>>

(* signal_lock *)
Lock(t) ==
  /\ Goto(t, "enter", "test")
  /\ Locks(t)
  /\ UNCHANGED <<puffer, condQueue, waiters, waiting, item, result>>

(* The guard each process tests before it blocks.                          *)
MustWait(t) == IF t \in Producers THEN IsFull(puffer) ELSE IsEmpty(puffer)

(* Mutant: the guard is left out.                                          *)
ProceedUnguarded(t) ==
  /\ Goto(t, "test", "transfer")
  /\ UNCHANGED <<puffer, mutex, condQueue, waiters, waiting, item, result>>

Proceed(t) ==
  /\ Goto(t, "test", "transfer")
  /\ ~ MustWait(t)
  /\ UNCHANGED <<puffer, mutex, condQueue, waiters, waiting, item, result>>

Wait(t) ==
  /\ Goto(t, "test", "wait")
  /\ MustWait(t)
  /\ Blocks(t)
  /\ UNCHANGED <<puffer, item, result>>

(* pthread_cond_wait may return although nobody signalled.                 *)
SpuriousWakeup(t) ==
  /\ SpuriousWakeups
  /\ t \in condQueue
  /\ condQueue' = condQueue \ {t}
  /\ UNCHANGED <<puffer, mutex, waiters, waiting, pc, item, result>>

(* Mutant: the mutex is not taken again.                                   *)
ResumeUnlocked(t) ==
  /\ Goto(t, "wait", "transfer")
  /\ t \notin condQueue
  /\ waiters' = waiters - 1
  /\ waiting' = BOOL_FALSE
  /\ UNCHANGED <<puffer, mutex, condQueue, item, result>>

(* Mutant: the woken thread is still counted.                              *)
ResumeCounted(t) ==
  /\ Goto(t, "wait", "transfer")
  /\ t \notin condQueue
  /\ Locks(t)
  /\ waiting' = BOOL_FALSE
  /\ UNCHANGED <<puffer, condQueue, waiters, item, result>>

(* The woken thread owns the mutex again and signal_wait returns.  The     *)
(* guard is not tested again.                                              *)
Resume(t) ==
  /\ Goto(t, "wait", "transfer")
  /\ t \notin condQueue
  /\ Locks(t)
  /\ waiters' = waiters - 1
  /\ waiting' = BOOL_FALSE
  /\ UNCHANGED <<puffer, condQueue, item, result>>

(* Mutant: no signal_set after the write.                                  *)
StoreQuiet(p) ==
  /\ Goto(p, "transfer", "exit")
  /\ puffer' = Written(puffer, item[p])
  /\ item' = [item EXCEPT ![p] = NULL]
  /\ UNCHANGED <<mutex, condQueue, waiters, waiting, result>>

(* was_empty = is_empty; datapuffer_write; if(was_empty) signal_set        *)
Store(p) ==
  /\ Goto(p, "transfer", "exit")
  /\ puffer' = Written(puffer, item[p])
  /\ item' = [item EXCEPT ![p] = NULL]
  /\ IF IsEmpty(puffer) THEN Signals ELSE UNCHANGED condQueue
  /\ UNCHANGED <<mutex, waiters, waiting, result>>

(* was_full = is_full; datapuffer_read; if(was_full) signal_set            *)
Fetch(c) ==
  /\ Goto(c, "transfer", "exit")
  /\ result' = [result EXCEPT ![c] = FirstItem(puffer)]
  /\ puffer' = AfterRead(puffer)
  /\ IF IsFull(puffer) THEN Signals ELSE UNCHANGED condQueue
  /\ UNCHANGED <<mutex, waiters, waiting, item>>

(* signal_unlock, and the process returns.                                 *)
Unlock(t) ==
  /\ Goto(t, "exit", "idle")
  /\ Unlocks(t)
  /\ UNCHANGED <<puffer, condQueue, waiters, waiting, item, result>>

-----------------------------------------------------------------------------
Sync(t) == Lock(t) \/ Proceed(t) \/ Wait(t) \/ Resume(t) \/ Unlock(t)

Recv(p)   == Sync(p) \/ Store(p)
Supply(c) == Sync(c) \/ Fetch(c)

Next == \/ \E p \in Producers : Recv(p) \/ \E x \in Items : RecvCall(p, x)
        \/ \E c \in Consumers : Supply(c) \/ SupplyCall(c)
        \/ \E t \in Threads : SpuriousWakeup(t)

Spec == Init /\ [][Next]_vars

(* A call that has begun is carried on by its thread, and a consumer       *)
(* thread calls the supplier over and over (the do-while of a threaded     *)
(* component); a producer may stop calling.                                *)
Fairness == /\ \A p \in Producers : WF_vars(Recv(p))
            /\ \A c \in Consumers : WF_vars(Supply(c) \/ SupplyCall(c))

FairSpec == Spec /\ Fairness

-----------------------------------------------------------------------------
TypeOK ==
  /\ puffer \in DataPuffers
  /\ mutex \in Threads \cup {NoThread}
  /\ condQueue \subseteq Threads
  /\ waiters \in Int
  /\ waiting \in {BOOL_FALSE, BOOL_TRUE}
  /\ pc \in [Threads -> PCs]
  /\ item \in [Producers -> Items \cup {NULL}]
  /\ result \in [Consumers -> Items \cup {NULL}]

InSection(t) == pc[t] \in {"test", "transfer", "exit"}

(* The puffer, its counter and the flags of the signal are only touched by *)
(* the one thread that owns the mutex, across every way of getting it: by  *)
(* signal_lock and by the return from pthread_cond_wait.                   *)
MutualExclusion == \A t \in Threads : InSection(t) <=> mutex = t

(* signal->waiters counts exactly the threads inside signal_wait, woken    *)
(* ones that do not own the mutex yet included.                            *)
WaitersCounted ==
  waiters = Cardinality({t \in Threads : pc[t] = "wait"})

(* When a thread reaches the read or the write, what it waited for still   *)
(* holds, although its guard was tested once, before it blocked: no        *)
(* supplier hands out the null pointer of an empty puffer, no receiver     *)
(* overwrites an item that was not fetched.                                *)
GuardStillHolds == \A t \in Threads : pc[t] = "transfer" => ~ MustWait(t)

(* Every item in the ring is between the two positions and none is lost:   *)
(* the ring is the image of a sequence of at most PufferLength items.      *)
RingIntact == RingOK(puffer)

(* No lost wakeup: a thread is only left blocked while its guard holds.    *)
NoLostWakeup == \A t \in condQueue : MustWait(t)

(* The puffer implements the bounded first-in first-out channel: each      *)
(* stored item is handed out once, to one consumer, in the order stored.   *)
Fifo == INSTANCE BoundedFifo
          WITH Senders <- Producers, Receivers <- Consumers,
               Capacity <- PufferLength, Values <- Items, None <- NULL,
               queue <- Contents(puffer), offer <- item, delivered <- result

ImplementsFifo == Fifo!Spec

(* ... and it makes the progress of the channel: an item passed to the     *)
(* receiver is stored once there is room, a consumer that waits gets an    *)
(* item once there is one; nobody sleeps through a wakeup.                 *)
ImplementsFairFifo == Fifo!FairSpec
=============================================================================

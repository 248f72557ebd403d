---------------------------- MODULE ThreadChain -----------------------------
(***************************************************************************)
(* The parallel threads of CMP_THREADS (src/cmp/cmp_predefs.h): START      *)
(* constructs a component with a thread of its own, looks for a free slot  *)
(* of the array under the read lock and fills it under the write lock;     *)
(* STOP looks an activator up under the write lock, empties the slot,      *)
(* stops the thread and destroys both.  START and STOP may be called from  *)
(* any thread.  The k-th START makes the k-th thread_t and component.      *)
(*                                                                         *)
(* What a caller does under a lock is one action together with the unlock: *)
(* nobody else sees its middle.                                            *)
(***************************************************************************)
EXTENDS Integers, FiniteSets

CONSTANTS
  Callers,             (* the threads that call START and STOP             *)
  Activators,
  ActivatorOf,         (* the activator the k-th START is called with      *)
  NTRT_MAX_THREAD_NUM, (* the length of the array of threads               *)
  Starts,              (* a bound on the calls of START                    *)
  wait_limit,          (* how often stop_thread polls                      *)
  NoCaller,            (* nobody has the write lock                        *)
  NoActivator,
  Orderly              (* whether one START is called after the other, and *)
                       (* STOP only for activators whose threads all run   *)

ASSUME ChainAssumption ==
  /\ ActivatorOf \in [1 .. Starts -> Activators]
  /\ NTRT_MAX_THREAD_NUM \in Nat \ {0} /\ Starts \in Nat /\ wait_limit \in Nat
  /\ Orderly \in BOOLEAN
  /\ NoCaller \notin Callers /\ NoActivator \notin Activators

THREAD_STATE_READY   == 2
THREAD_STATE_STARTED == 3
THREAD_STATE_RUN     == 4
THREAD_STATE_STOP    == 5
THREAD_STATE_STOPPED == 6

Threads == 1 .. Starts
Slots   == 0 .. NTRT_MAX_THREAD_NUM - 1
NULL    == 0

VARIABLES
  threads,    (* threads[i]: the thread in slot i, or NULL                 *)
  made,       (* the calls of START so far                                 *)
  state,      (* state[k]: thread->state                                   *)
  tpc,        (* tpc[k]: where thread k is                                 *)
  cancelled,  (* the threads pthread_cancel was called for                 *)
  freed,      (* the threads destroyed, together with their components     *)
  beyond,     (* the threads stored beyond the end of the array            *)
  readers,    (* who has the read lock of rwmutex                          *)
  writer,     (* who has its write lock                                    *)
  pc,         (* pc[u]: where caller u is                                  *)
  wanted,     (* wanted[u]: the parameter of the STOP of u                 *)
  thread,     (* thread[u]: the variable thread of the call u is in        *)
  index,      (* index[u]: its variable index                              *)
  polls       (* polls[u]: stop_thread's variable wait                     *)

lockVars   == <<readers, writer>>
threadVars == <<state, tpc, cancelled, freed>>
chainVars  == <<threads, beyond>>
callVars   == <<wanted, thread, index, polls>>
vars == <<lockVars, threadVars, chainVars, made, callVars, pc>>

Init ==
  /\ threads = [i \in Slots |-> NULL]
  /\ made = 0
  /\ state = [k \in Threads |-> 0]
  /\ tpc = [k \in Threads |-> "none"]
  /\ cancelled = {} /\ freed = {} /\ beyond = {}
  /\ readers = {} /\ writer = NoCaller
  /\ pc = [u \in Callers |-> "idle"]
  /\ wanted = [u \in Callers |-> NoActivator]
  /\ thread = [u \in Callers |-> NULL]
  /\ index = [u \in Callers |-> 0]
  /\ polls = [u \in Callers |-> 0]

Goto(u, from, to) == pc[u] = from /\ pc' = [pc EXCEPT ![u] = to]

(* The return of START or STOP: the local variables are gone.              *)
Returns(u) ==
  /\ wanted' = [wanted EXCEPT ![u] = NoActivator]
  /\ thread' = [thread EXCEPT ![u] = NULL]
  /\ index' = [index EXCEPT ![u] = 0]
  /\ polls' = [polls EXCEPT ![u] = 0]

(* pthread_rwlock.  A caller that still has the write lock gets an error,  *)
(* which nobody looks at, and goes on.                                     *)
ReadLocks(u) ==
  \/ writer = NoCaller /\ readers' = readers \cup {u} /\ UNCHANGED writer
  \/ writer = u /\ UNCHANGED lockVars
WriteLocks(u) ==
  \/ writer = NoCaller /\ readers = {} /\ writer' = u /\ UNCHANGED readers
  \/ writer = u /\ UNCHANGED lockVars
Unlocks(u) ==
  IF writer = u THEN writer' = NoCaller /\ UNCHANGED readers
                ELSE readers' = readers \ {u} /\ UNCHANGED writer

-----------------------------------------------------------------------------
(* START                                                                   *)
Starting(u) == pc[u] \in {"rdlock", "scan", "wrlock", "store", "start"}

(* The constructor, make_thread, and the activator.                        *)
StartCall(u) ==
  /\ made < Starts
  /\ Orderly => \A v \in Callers : /\ ~ Starting(v)
                                   /\ pc[v] \in {"stop", "find"} => wanted[v] # ActivatorOf[made + 1]
  /\ Goto(u, "idle", "rdlock")
  /\ made' = made + 1
  /\ state' = [state EXCEPT ![made + 1] = THREAD_STATE_READY]
  /\ tpc' = [tpc EXCEPT ![made + 1] = "made"]
  /\ thread' = [thread EXCEPT ![u] = made + 1]
  /\ UNCHANGED <<lockVars, chainVars, cancelled, freed, wanted, index, polls>>

StartReadLock(u) ==
  /\ Goto(u, "rdlock", "scan")
  /\ ReadLocks(u)
  /\ UNCHANGED <<threadVars, chainVars, made, callVars>>

(* Mutant: a slot is free when its thread does not run.                    *)
FreeSlotsIdle == {i \in Slots : threads[i] = NULL \/ state[threads[i]] # THREAD_STATE_RUN}

(* The search does not look at the length: with all slots taken it ends    *)
(* somewhere beyond the array.                                             *)
FreeSlots == {i \in Slots : threads[i] = NULL}

FirstFree(i) == IF FreeSlots = {} THEN i = NTRT_MAX_THREAD_NUM
                ELSE i \in FreeSlots /\ \A j \in FreeSlots : i <= j

(* Mutant: the read lock is kept.                                          *)
ScanLocked(u) ==
  /\ Goto(u, "scan", "wrlock")
  /\ \E i \in 0 .. NTRT_MAX_THREAD_NUM :
       FirstFree(i) /\ index' = [index EXCEPT ![u] = i]
  /\ UNCHANGED <<lockVars, threadVars, chainVars, made, wanted, thread, polls>>

Scan(u) ==
  /\ Goto(u, "scan", "wrlock")
  /\ \E i \in 0 .. NTRT_MAX_THREAD_NUM :
       FirstFree(i) /\ index' = [index EXCEPT ![u] = i]
  /\ Unlocks(u)
  /\ UNCHANGED <<threadVars, chainVars, made, wanted, thread, polls>>

WriteLock(u) ==
  /\ \/ Goto(u, "wrlock", "store")
     \/ Goto(u, "stop", "find")
  /\ WriteLocks(u)
  /\ UNCHANGED <<threadVars, chainVars, made, callVars>>

Store(u) ==
  /\ Goto(u, "store", "start")
  /\ IF index[u] \in Slots
       THEN threads' = [threads EXCEPT ![index[u]] = thread[u]] /\ UNCHANGED beyond
       ELSE beyond' = beyond \cup {thread[u]} /\ UNCHANGED threads
  /\ Unlocks(u)
  /\ UNCHANGED <<threadVars, made, callVars>>

StartThread(u) ==
  /\ Goto(u, "start", "idle")
  /\ IF state[thread[u]] = THREAD_STATE_READY
       THEN /\ state' = [state EXCEPT ![thread[u]] = THREAD_STATE_STARTED]
            /\ tpc' = [tpc EXCEPT ![thread[u]] = "created"]
       ELSE UNCHANGED <<state, tpc>>
  /\ Returns(u)
  /\ UNCHANGED <<lockVars, chainVars, made, cancelled, freed>>

-----------------------------------------------------------------------------
(* STOP                                                                    *)
StopCall(u, a) ==
  /\ Orderly => \A k \in Threads : ActivatorOf[k] = a => tpc[k] \notin {"made", "created"}
  /\ Goto(u, "idle", "stop")
  /\ wanted' = [wanted EXCEPT ![u] = a]
  /\ UNCHANGED <<lockVars, threadVars, chainVars, made, thread, index, polls>>

(* The slots that hold a thread whose component has the activator.         *)
Matches(a) == {i \in Slots : threads[i] # NULL /\ ActivatorOf[threads[i]] = a}

(* Mutant: the slot is not emptied.                                        *)
FindKeepsSlot(u) ==
  /\ Matches(wanted[u]) # {}
  /\ Goto(u, "find", "halt")
  /\ \E i \in Matches(wanted[u]) :
       /\ \A j \in Matches(wanted[u]) : i <= j
       /\ thread' = [thread EXCEPT ![u] = threads[i]]
  /\ Unlocks(u)
  /\ UNCHANGED <<threadVars, made, chainVars, wanted, index, polls>>

Find(u) ==
  /\ Matches(wanted[u]) # {}
  /\ Goto(u, "find", "halt")
  /\ \E i \in Matches(wanted[u]) :
       /\ \A j \in Matches(wanted[u]) : i <= j
       /\ thread' = [thread EXCEPT ![u] = threads[i]]
       /\ threads' = [threads EXCEPT ![i] = NULL]
  /\ Unlocks(u)
  /\ UNCHANGED <<threadVars, made, beyond, wanted, index, polls>>

(* No such component: a warning, and the return keeps the write lock.      *)
FindNothing(u) ==
  /\ Matches(wanted[u]) = {}
  /\ Goto(u, "find", "idle")
  /\ Returns(u)
  /\ UNCHANGED <<lockVars, threadVars, chainVars, made>>

(* stop_thread as far as its test.                                         *)
StopThread(u) ==
  /\ pc[u] = "halt"
  /\ IF state[thread[u]] = THREAD_STATE_RUN
       THEN Goto(u, "halt", "poll") /\ state' = [state EXCEPT ![thread[u]] = THREAD_STATE_STOP]
       ELSE Goto(u, "halt", "dtor") /\ UNCHANGED state
  /\ polls' = [polls EXCEPT ![u] = 0]
  /\ UNCHANGED <<lockVars, chainVars, made, tpc, cancelled, freed, wanted, thread, index>>

Poll(u) ==
  /\ pc[u] = "poll"
  /\ state[thread[u]] # THREAD_STATE_STOPPED
  /\ polls[u] < wait_limit
  /\ polls' = [polls EXCEPT ![u] = @ + 1]
  /\ UNCHANGED <<lockVars, threadVars, chainVars, made, pc, wanted, thread, index>>

(* Mutant: stop_thread gives up without pthread_cancel.                    *)
StopEndsUncancelled(u) ==
  /\ Goto(u, "poll", "dtor")
  /\ state[thread[u]] = THREAD_STATE_STOPPED \/ polls[u] = wait_limit
  /\ state' = [state EXCEPT ![thread[u]] = THREAD_STATE_READY]
  /\ UNCHANGED <<lockVars, chainVars, made, callVars, tpc, cancelled, freed>>

StopEnds(u) ==
  /\ Goto(u, "poll", "dtor")
  /\ state[thread[u]] = THREAD_STATE_STOPPED \/ polls[u] = wait_limit
  /\ cancelled' = IF polls[u] = wait_limit THEN cancelled \cup {thread[u]} ELSE cancelled
  /\ state' = [state EXCEPT ![thread[u]] = THREAD_STATE_READY]
  /\ UNCHANGED <<lockVars, chainVars, made, callVars, tpc, freed>>

(* thread_dtor, which stops a thread that runs by now, and the destructor  *)
(* of the component.                                                       *)
Dtor(u) ==
  /\ pc[u] = "dtor"
  /\ IF state[thread[u]] = THREAD_STATE_RUN
       THEN Goto(u, "dtor", "halt") /\ UNCHANGED <<freed, callVars>>
       ELSE Goto(u, "dtor", "idle") /\ freed' = freed \cup {thread[u]} /\ Returns(u)
  /\ UNCHANGED <<lockVars, chainVars, made, state, tpc, cancelled>>

-----------------------------------------------------------------------------
(* The thread: LIB_DEF_THREAD's entry point round a main process that goes *)
(* on as long as the state is THREAD_STATE_RUN.                            *)
ThrGoto(k, from, to) == tpc[k] = from /\ tpc' = [tpc EXCEPT ![k] = to]

Entry(k) ==
  /\ ThrGoto(k, "created", "main")
  /\ state' = [state EXCEPT ![k] = THREAD_STATE_RUN]
  /\ UNCHANGED <<lockVars, chainVars, made, callVars, pc, cancelled, freed>>

Leave(k) ==
  /\ state[k] # THREAD_STATE_RUN
  /\ ThrGoto(k, "main", "left")
  /\ UNCHANGED <<lockVars, chainVars, made, callVars, pc, state, cancelled, freed>>

End(k) ==
  /\ ThrGoto(k, "left", "ended")
  /\ state' = [state EXCEPT ![k] = THREAD_STATE_STOPPED]
  /\ UNCHANGED <<lockVars, chainVars, made, callVars, pc, cancelled, freed>>

(* A cancelled thread ends where the main process waits for something.     *)
Cancelled(k) ==
  /\ k \in cancelled
  /\ ThrGoto(k, "main", "ended")
  /\ UNCHANGED <<lockVars, chainVars, made, callVars, pc, state, cancelled, freed>>

-----------------------------------------------------------------------------
Call(u) == \/ StartReadLock(u) \/ Scan(u) \/ WriteLock(u) \/ Store(u) \/ StartThread(u)
           \/ Find(u) \/ FindNothing(u) \/ StopThread(u) \/ Poll(u) \/ StopEnds(u) \/ Dtor(u)
Thread(k) == Entry(k) \/ Leave(k) \/ End(k) \/ Cancelled(k)

Next == \/ \E u \in Callers :
             Call(u) \/ StartCall(u) \/ \E a \in Activators : StopCall(u, a)
        \/ \E k \in Threads : Thread(k)

Spec == Init /\ [][Next]_vars

(* Calls go on, and a thread does once it has been created; its main       *)
(* process need not come to an end by itself.                              *)
Fairness == /\ \A u \in Callers : SF_vars(Call(u))
            /\ \A k \in Threads : WF_vars(Entry(k)) /\ WF_vars(End(k)) /\ WF_vars(Cancelled(k))

FairSpec == Spec /\ Fairness

-----------------------------------------------------------------------------
ThreadPCs == {"none", "made", "created", "main", "left", "ended"}
CallerPCs == {"idle", "rdlock", "scan", "wrlock", "store", "start",
              "stop", "find", "halt", "poll", "dtor"}

TypeOK ==
  /\ threads \in [Slots -> {NULL} \cup Threads]
  /\ made \in 0 .. Starts
  /\ state \in [Threads -> {0} \cup (THREAD_STATE_READY .. THREAD_STATE_STOPPED)]
  /\ tpc \in [Threads -> ThreadPCs]
  /\ cancelled \subseteq Threads /\ freed \subseteq Threads /\ beyond \subseteq Threads
  /\ readers \subseteq Callers /\ writer \in Callers \cup {NoCaller}
  /\ pc \in [Callers -> CallerPCs]
  /\ wanted \in [Callers -> Activators \cup {NoActivator}]
  /\ thread \in [Callers -> Threads \cup {NULL}]
  /\ index \in [Callers -> 0 .. NTRT_MAX_THREAD_NUM]
  /\ polls \in [Callers -> 0 .. wait_limit]

(* The threads that START has stored and STOP has not yet taken out.       *)
Stopping(u) == pc[u] \in {"halt", "poll", "dtor"}
Disposed    == freed \cup {thread[u] : u \in {v \in Callers : Stopping(v)}}
Kept        == {k \in 1 .. made : /\ k \notin Disposed
                                  /\ \A u \in Callers : thread[u] = k
                                       => pc[u] \notin {"rdlock", "scan", "wrlock", "store"}}

(* Every thread that was started and not stopped is in exactly one slot,   *)
(* where STOP finds it, unless it was stored beyond the array; and the     *)
(* array holds no thread that is being destroyed.                          *)
KeptOnce ==
  /\ \A k \in Kept \ beyond : \E i \in Slots : threads[i] = k
  /\ \A i \in Slots : threads[i] # NULL => threads[i] \in Kept
  /\ \A i, j \in Slots : i # j /\ threads[i] = threads[j] => threads[i] = NULL

(* No thread is destroyed twice, or by two callers at a time.              *)
DisposedOnce ==
  \A u \in Callers :
    Stopping(u) => /\ thread[u] \notin freed
                   /\ \A v \in Callers \ {u} : Stopping(v) => thread[v] # thread[u]

(* A thread is in its main process no more when thread and component are   *)
(* freed, unless it had to be cancelled.                                   *)
FreedAfterUse == \A k \in freed \ cancelled : tpc[k] = "ended"

(* A call returns, unless another one has kept the write lock.             *)
LockKept == writer # NoCaller /\ pc[writer] = "idle"
CallsReturn == \A u \in Callers : pc[u] # "idle" ~> pc[u] = "idle" \/ LockKept

(* A thread that STOP took out of the array is destroyed and comes to its  *)
(* end, by itself or by the cancellation.                                  *)
TakenOutEnds == \A k \in Threads : k \in Disposed ~> k \in freed /\ tpc[k] = "ended"
=============================================================================

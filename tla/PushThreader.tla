---------------------------- MODULE PushThreader ----------------------------
(***************************************************************************)
(* A threaded component of src/cmp/cmp_predefs.h over the life of its      *)
(* threads: the START and STOP processes of CMP_THREAD, thread_t of        *)
(* src/lib/lib_threading.c with the entry point LIB_DEF_THREAD generates,  *)
(* and the receiver and the main process of CMP_PUSH_THREADER, the one     *)
(* threaded component the repository defines.                              *)
(*                                                                         *)
(* The k-th START makes the k-th thread_t and, unless one exists, the k-th *)
(* component.  The receiver overwrites the one item of the component and   *)
(* signals; the thread waits once per round and passes on whatever item is *)
(* there, holding the mutex.  STOP polls for THREAD_STATE_STOPPED, cancels *)
(* the thread when that takes too long, and frees the component.           *)
(***************************************************************************)
EXTENDS Integers, Sequences, FiniteSets

CONSTANTS
  Clients,     (* the threads that call the receiver                       *)
  Starts,      (* a bound on the calls of START                            *)
  MaxItems,    (* a bound on the items the clients send                    *)
  MaxSpurious, (* a bound on the spurious wakeups of pthread_cond_wait     *)
  wait_limit,  (* how often stop_thread polls                              *)
  NoThread,    (* a mutex is free                                          *)
  Orderly      (* whether the callers keep to the order the state machine  *)
               (* of the program gives: START when stopped, STOP when the  *)
               (* thread has run, nothing received while STOP runs         *)

ASSUME PushThreaderAssumption ==
  /\ Starts \in Nat /\ MaxItems \in Nat /\ MaxSpurious \in Nat /\ wait_limit \in Nat
  /\ Orderly \in BOOLEAN
  /\ NoThread \notin Clients \cup (1 .. Starts)
  /\ Clients \cap (1 .. Starts) = {}

(* thread_state_t; 0 stands for a thread_t that does not exist yet.        *)
THREAD_STATE_READY   == 2
THREAD_STATE_STARTED == 3
THREAD_STATE_RUN     == 4
THREAD_STATE_STOP    == 5
THREAD_STATE_STOPPED == 6

(* The n-th thread_t, and the component the n-th START constructed.        *)
Threads    == 1 .. Starts
Components == 1 .. Starts
NULL       == 0

VARIABLES
  cmp,        (* the global _cmp_X: a component, or NULL                   *)
  thr,        (* the global _thr_X: a thread_t, or NULL                    *)
  started,    (* the calls of START so far                                 *)
  freed,      (* the components the destructor has freed                   *)
  state,      (* state[k]: thread->state                                   *)
  arg,        (* arg[k]: thread->arg, the component of thread k            *)
  tpc,        (* tpc[k]: where thread k is                                 *)
  cancelled,  (* the threads pthread_cancel was called for                 *)
  ctl,        (* where the caller of START and STOP is                     *)
  polls,      (* stop_thread's variable wait                               *)
  mutex,      (* mutex[c]: the owner of signal->mutex of component c       *)
  sleepers,   (* the threads blocked on their component's signal->cond     *)
  spurious,   (* the spurious wakeups so far                               *)
  item,       (* item[c]: this->item, items being numbered as they come    *)
  sent,       (* sent[c]: the items passed to this->send, in order         *)
  issued,     (* the items received so far                                 *)
  cpc,        (* cpc[u]: where client u is                                 *)
  this        (* this[u]: the component client u read from the global      *)

waitVars   == <<sleepers, spurious>>
threadVars == <<state, arg, tpc, cancelled, waitVars>>
ctlVars    == <<cmp, thr, started, freed, ctl, polls>>
dataVars   == <<item, sent, issued>>
clientVars == <<cpc, this>>
vars == <<threadVars, ctlVars, dataVars, clientVars, mutex>>

(* "created": before the entry point; "lock", "held": before and after     *)
(* signal_lock; "wait": in signal_wait; "send", "unlock": after it;        *)
(* "test": at the condition of the loop; "left": after it.                 *)
ThreadPCs == {"none", "created", "lock", "held", "wait", "send", "unlock", "test",
              "left", "ended"}

Init ==
  /\ cmp = NULL /\ thr = NULL /\ started = 0 /\ freed = {}
  /\ state = [k \in Threads |-> 0]
  /\ arg = [k \in Threads |-> NULL]
  /\ tpc = [k \in Threads |-> "none"]
  /\ cancelled = {} /\ sleepers = {} /\ spurious = 0
  /\ ctl = "idle" /\ polls = 0
  /\ mutex = [c \in Components |-> NoThread]
  /\ item = [c \in Components |-> NULL]
  /\ sent = [c \in Components |-> <<>>]
  /\ issued = 0
  /\ cpc = [u \in Clients |-> "idle"]
  /\ this = [u \in Clients |-> NULL]

Goto(k, from, to) == tpc[k] = from /\ tpc' = [tpc EXCEPT ![k] = to]

Locks(t, c)   == mutex[c] = NoThread /\ mutex' = [mutex EXCEPT ![c] = t]
Unlocks(t, c) == mutex' = [mutex EXCEPT ![c] = NoThread]

-----------------------------------------------------------------------------
(* START: the constructor (which leaves an existing component alone),      *)
(* make_thread and start_thread, which writes the state before it creates  *)
(* the thread.                                                             *)
Start ==
  /\ ctl = "idle"
  /\ started < Starts
  /\ Orderly => cmp = NULL
  /\ LET k == started + 1
         c == IF cmp = NULL THEN k ELSE cmp
     IN  /\ cmp' = c
         /\ thr' = k
         /\ started' = k
         /\ state' = [state EXCEPT ![k] = THREAD_STATE_STARTED]
         /\ arg' = [arg EXCEPT ![k] = c]
         /\ Goto(k, "none", "created")
  /\ UNCHANGED <<freed, ctl, polls, cancelled, waitVars, dataVars, clientVars, mutex>>

(* STOP, as far as the test of stop_thread.                                *)
StopCall ==
  /\ ctl = "idle"
  /\ thr # NULL
  /\ Orderly => state[thr] = THREAD_STATE_RUN /\ \A u \in Clients : cpc[u] = "idle"
  /\ IF state[thr] = THREAD_STATE_RUN
       THEN ctl' = "poll" /\ state' = [state EXCEPT ![thr] = THREAD_STATE_STOP]
       ELSE ctl' = "dtor" /\ UNCHANGED state
  /\ polls' = 0
  /\ UNCHANGED <<cmp, thr, started, freed, arg, tpc, cancelled, waitVars,
                 dataVars, clientVars, mutex>>

Poll ==
  /\ ctl = "poll"
  /\ state[thr] # THREAD_STATE_STOPPED
  /\ polls < wait_limit
  /\ polls' = polls + 1
  /\ UNCHANGED <<cmp, thr, started, freed, ctl, threadVars, dataVars, clientVars, mutex>>

(* Mutant: stop_thread gives up without pthread_cancel.                    *)
StopEndsUncancelled ==
  /\ ctl = "poll"
  /\ state[thr] = THREAD_STATE_STOPPED \/ polls = wait_limit
  /\ state' = [state EXCEPT ![thr] = THREAD_STATE_READY]
  /\ ctl' = "dtor"
  /\ UNCHANGED <<cmp, thr, started, freed, polls, arg, tpc, cancelled, waitVars,
                 dataVars, clientVars, mutex>>

(* The end of stop_thread: pthread_cancel if the polls are used up.        *)
StopEnds ==
  /\ ctl = "poll"
  /\ state[thr] = THREAD_STATE_STOPPED \/ polls = wait_limit
  /\ cancelled' = IF polls = wait_limit THEN cancelled \cup {thr} ELSE cancelled
  /\ state' = [state EXCEPT ![thr] = THREAD_STATE_READY]
  /\ ctl' = "dtor"
  /\ UNCHANGED <<cmp, thr, started, freed, polls, arg, tpc, waitVars,
                 dataVars, clientVars, mutex>>

(* The destructor frees the component with its signal; the thread_t stays. *)
Dtor ==
  /\ ctl = "dtor"
  /\ freed' = freed \cup {cmp}
  /\ cmp' = NULL /\ thr' = NULL
  /\ ctl' = "idle"
  /\ UNCHANGED <<started, polls, threadVars, dataVars, clientVars, mutex>>

-----------------------------------------------------------------------------
(* The thread: LIB_DEF_THREAD's entry point round the main process.        *)
Entry(k) ==
  /\ Goto(k, "created", "lock")
  /\ state' = [state EXCEPT ![k] = THREAD_STATE_RUN]
  /\ UNCHANGED <<arg, cancelled, waitVars, ctlVars, dataVars, clientVars, mutex>>

ThrLock(k) ==
  /\ Goto(k, "lock", "held")
  /\ Locks(k, arg[k])
  /\ UNCHANGED <<state, arg, cancelled, waitVars, ctlVars, dataVars, clientVars>>

(* Mutant: the thread does not wait.                                       *)
ThrWaitSkipped(k) ==
  /\ Goto(k, "held", "send")
  /\ UNCHANGED <<state, arg, cancelled, waitVars, ctlVars, dataVars, clientVars, mutex>>

ThrWait(k) ==
  /\ Goto(k, "held", "wait")
  /\ Unlocks(k, arg[k])
  /\ sleepers' = sleepers \cup {k}
  /\ UNCHANGED <<state, arg, cancelled, spurious, ctlVars, dataVars, clientVars>>

(* pthread_cond_wait may return although nobody has signalled.             *)
ThrSpurious(k) ==
  /\ k \in sleepers
  /\ spurious < MaxSpurious
  /\ spurious' = spurious + 1
  /\ sleepers' = sleepers \ {k}
  /\ UNCHANGED <<state, arg, tpc, cancelled, ctlVars, dataVars, clientVars, mutex>>

ThrWake(k) ==
  /\ k \notin sleepers
  /\ Goto(k, "wait", "send")
  /\ Locks(k, arg[k])
  /\ UNCHANGED <<state, arg, cancelled, waitVars, ctlVars, dataVars, clientVars>>

(* Mutant: a thread that is to stop passes nothing on any more.            *)
ThrSendIfRunning(k) ==
  /\ Goto(k, "send", "unlock")
  /\ sent' = IF state[k] = THREAD_STATE_RUN
                THEN [sent EXCEPT ![arg[k]] = Append(@, item[arg[k]])]
                ELSE sent
  /\ UNCHANGED <<state, arg, cancelled, waitVars, item, issued, ctlVars, clientVars, mutex>>

(* this->send(this->item), under the mutex.                                *)
ThrSend(k) ==
  /\ Goto(k, "send", "unlock")
  /\ sent' = [sent EXCEPT ![arg[k]] = Append(@, item[arg[k]])]
  /\ UNCHANGED <<state, arg, cancelled, waitVars, item, issued, ctlVars, clientVars, mutex>>

ThrUnlock(k) ==
  /\ Goto(k, "unlock", "test")
  /\ Unlocks(k, arg[k])
  /\ UNCHANGED <<state, arg, cancelled, waitVars, ctlVars, dataVars, clientVars>>

(* while(thread->state == THREAD_STATE_RUN)                                *)
ThrTest(k) ==
  /\ Goto(k, "test", IF state[k] = THREAD_STATE_RUN THEN "lock" ELSE "left")
  /\ UNCHANGED <<state, arg, cancelled, waitVars, ctlVars, dataVars, clientVars, mutex>>

ThrEnd(k) ==
  /\ Goto(k, "left", "ended")
  /\ state' = [state EXCEPT ![k] = THREAD_STATE_STOPPED]
  /\ UNCHANGED <<arg, cancelled, waitVars, ctlVars, dataVars, clientVars, mutex>>

(* A cancelled thread ends at its next cancellation point: in              *)
(* pthread_cond_wait, which takes the mutex again first, or inside send.   *)
(* Nothing gives the mutex back.                                           *)
ThrCancelled(k) ==
  /\ k \in cancelled
  /\ \/ Goto(k, "wait", "ended") /\ Locks(k, arg[k])
     \/ Goto(k, "send", "ended") /\ UNCHANGED mutex
  /\ sleepers' = sleepers \ {k}
  /\ UNCHANGED <<state, arg, cancelled, spurious, ctlVars, dataVars, clientVars>>

-----------------------------------------------------------------------------
(* The receiver, called by a client of a started component.                *)
RecvCall(u) ==
  /\ cpc[u] = "idle"
  /\ cmp # NULL
  /\ Orderly => ctl = "idle"
  /\ issued < MaxItems
  /\ cpc' = [cpc EXCEPT ![u] = "lock"]
  /\ this' = [this EXCEPT ![u] = cmp]
  /\ UNCHANGED <<threadVars, ctlVars, dataVars, mutex>>

RecvLock(u) ==
  /\ cpc[u] = "lock"
  /\ Locks(u, this[u])
  /\ cpc' = [cpc EXCEPT ![u] = "held"]
  /\ UNCHANGED <<threadVars, ctlVars, dataVars, this>>

(* this->item = item, and signal_set.                                      *)
RecvSet(u) ==
  /\ cpc[u] = "held"
  /\ issued' = issued + 1
  /\ item' = [item EXCEPT ![this[u]] = issued + 1]
  /\ LET waiting == {k \in sleepers : arg[k] = this[u]}
     IN  \/ waiting = {} /\ UNCHANGED sleepers
         \/ \E k \in waiting : sleepers' = sleepers \ {k}
  /\ cpc' = [cpc EXCEPT ![u] = "unlock"]
  /\ UNCHANGED <<state, arg, tpc, cancelled, spurious, sent, ctlVars, this, mutex>>

RecvUnlock(u) ==
  /\ cpc[u] = "unlock"
  /\ Unlocks(u, this[u])
  /\ cpc' = [cpc EXCEPT ![u] = "idle"]
  /\ UNCHANGED <<threadVars, ctlVars, dataVars, this>>

-----------------------------------------------------------------------------
Control   == StopCall \/ Poll \/ StopEnds \/ Dtor
Thread(k) == \/ Entry(k) \/ ThrLock(k) \/ ThrWait(k) \/ ThrWake(k) \/ ThrSend(k)
             \/ ThrUnlock(k) \/ ThrTest(k) \/ ThrEnd(k) \/ ThrCancelled(k)
Recv(u)   == RecvLock(u) \/ RecvSet(u) \/ RecvUnlock(u)

Next == \/ Start \/ Control
        \/ \E k \in Threads : Thread(k) \/ ThrSpurious(k)
        \/ \E u \in Clients : RecvCall(u) \/ Recv(u)

Spec == Init /\ [][Next]_vars

(* The threads and the calls go on; nobody has to call START, STOP or the  *)
(* receiver.  The items are bounded, so a mutex is not contended forever.  *)
Fairness == /\ WF_vars(Poll \/ StopEnds \/ Dtor)
            /\ \A k \in Threads : WF_vars(Thread(k))
            /\ \A u \in Clients : WF_vars(Recv(u))

FairSpec == Spec /\ Fairness

-----------------------------------------------------------------------------
TypeOK ==
  /\ cmp \in Components \cup {NULL} /\ thr \in Threads \cup {NULL}
  /\ started \in 0 .. Starts /\ freed \subseteq Components
  /\ state \in [Threads -> {0} \cup (THREAD_STATE_READY .. THREAD_STATE_STOPPED)]
  /\ arg \in [Threads -> Components \cup {NULL}]
  /\ tpc \in [Threads -> ThreadPCs]
  /\ cancelled \subseteq Threads /\ sleepers \subseteq Threads
  /\ spurious \in 0 .. MaxSpurious
  /\ ctl \in {"idle", "poll", "dtor"} /\ polls \in 0 .. wait_limit
  /\ mutex \in [Components -> {NoThread} \cup Threads \cup Clients]
  /\ item \in [Components -> Nat]
  /\ sent \in [Components -> Seq(Nat)]
  /\ issued \in Nat
  /\ cpc \in [Clients -> {"idle", "lock", "held", "unlock"}]
  /\ this \in [Clients -> Components \cup {NULL}]

(* What is passed on is in the order received, although items may be       *)
(* overwritten; an item is passed on twice, or the null pointer passed on, *)
(* only after a spurious wakeup.                                           *)
Repeats(c) == {i \in DOMAIN sent[c] :
                 sent[c][i] = IF i = 1 THEN NULL ELSE sent[c][i - 1]}

SentInOrder ==
  \A c \in Components :
    /\ \A i, j \in DOMAIN sent[c] : i < j => sent[c][i] <= sent[c][j]
    /\ Cardinality(Repeats(c)) <= spurious

(* A component whose thread did not have to be cancelled is freed only     *)
(* after that thread has used it for the last time.                        *)
FreedAfterUse ==
  \A k \in Threads : arg[k] \in freed /\ k \notin cancelled => tpc[k] = "ended"

(* STOP deactivates the thread: once it has returned, the thread comes to  *)
(* its end, by itself or by the cancellation.                              *)
StopDeactivates == \A k \in Threads : arg[k] \in freed ~> tpc[k] = "ended"

(* The signal of a receiver that found the thread waiting is not lost      *)
(* (cmp_predefs.h:600): its item is passed on, or else one that overwrote  *)
(* it, unless the thread is cancelled.  That the item itself is kept, and  *)
(* one that did not find the thread waiting, is BusyBlocks below, which    *)
(* does not hold.                                                          *)
WokenSends ==
  \A k \in Threads, c \in Components, n \in 1 .. MaxItems :
    tpc[k] = "wait" /\ k \notin sleepers /\ arg[k] = c /\ item[c] = n
      ~> (\E i \in DOMAIN sent[c] : sent[c][i] >= n) \/ k \in cancelled

(* What the component is said to do and does not.  "It doesn't contiains   *)
(* puffer, thereby if this component is already busy passing the           *)
(* previously received data to the successor thread it blocks the caller"  *)
(* (docs/components.md:248): while the thread runs, no receiver replaces   *)
(* an item that was received and has not been passed on, be it that the    *)
(* thread is on its way to send it (cmp_predefs.h:599) or was not waiting  *)
(* when it came (cmp_predefs.h:609).                                       *)
BusyBlocks ==
  [][\A k \in Threads, c \in Components :
       /\ arg[k] = c /\ state[k] = THREAD_STATE_RUN
       /\ item[c] # NULL /\ \A i \in DOMAIN sent[c] : sent[c][i] # item[c]
       => item'[c] = item[c]]_vars
=============================================================================

------------------------------ MODULE Barrier ------------------------------
(***************************************************************************)
(* barrier_t of src/lib/lib_threading.c: barrier_wait and barrier_dtor.    *)
(* One mutex, one condition variable, one counter: current counts the      *)
(* threads that have arrived while it is below BARRIER_FLAG and, above     *)
(* it, the threads that have not left yet; BARRIER_FLAG itself means empty.*)
(*                                                                         *)
(* Every thread of the program waits Rounds times.  Threads in Destroyers  *)
(* (at most one) call barrier_dtor after their last wait returned, while   *)
(* others may still be on their way out of it.                             *)
(***************************************************************************)
EXTENDS Integers, FiniteSets

CONSTANTS
  Parties,       (* the threads that use the barrier                       *)
  GateNum,       (* barrier->gatenum, set by make_barrier                  *)
  BARRIER_FLAG,  (* 2^31 in the code; any number from GateNum on does      *)
  Rounds,        (* how often each thread calls barrier_wait               *)
  Destroyers,    (* the thread that calls barrier_dtor, if any             *)
  NoParty        (* the mutex is free                                      *)

ASSUME BarrierAssumption ==
  /\ GateNum \in Nat \ {0}
  /\ BARRIER_FLAG \in Nat /\ GateNum <= BARRIER_FLAG
  /\ Rounds \in Nat
  /\ NoParty \notin Parties
  /\ Destroyers \subseteq Parties
  /\ \A d, e \in Destroyers : d = e

VARIABLES
  gateMutex,  (* the owner of barrier->mutex, or NoParty                   *)
  current,    (* barrier->current                                          *)
  gateQueue,  (* the threads blocked on barrier->cond                      *)
  bpc,        (* where each thread is                                      *)
  arrived,    (* arrived[t]: how often t has counted itself in             *)
  passed,     (* passed[t]: how often the barrier has let t through        *)
  serials,    (* how many waits returned PTHREAD_BARRIER_SERIAL_THREAD     *)
  destroyed   (* barrier_dtor has destroyed and freed the barrier          *)

barrierVars == <<gateMutex, current, gateQueue, bpc, arrived, passed, serials, destroyed>>

(* "idle": outside; "enter", "dtor": in pthread_mutex_lock; "drain",       *)
(* "gate", "close": at the test of the first and the second while of       *)
(* barrier_wait and of the one in barrier_dtor; "...Wait": blocked in the  *)
(* pthread_cond_wait of that loop; "exit", "free": at the unlock;          *)
(* "destroy": in barrier_dtor after the unlock.                            *)
BarrierPCs == {"idle", "enter", "drain", "drainWait", "gate", "gateWait", "exit",
               "dtor", "close", "closeWait", "free", "destroy", "gone"}

BarrierInit ==
  /\ gateMutex = NoParty
  /\ current = 0
  /\ gateQueue = {}
  /\ bpc = [t \in Parties |-> "idle"]
  /\ arrived = [t \in Parties |-> 0]
  /\ passed = [t \in Parties |-> 0]
  /\ serials = 0
  /\ destroyed = 0

BarrierGoto(t, from, to) == bpc[t] = from /\ bpc' = [bpc EXCEPT ![t] = to]

(* pthread_mutex_lock; "from" leads to the loop test "to".                 *)
BarrierLocks(t, from, to) ==
  /\ BarrierGoto(t, from, to)
  /\ gateMutex = NoParty
  /\ gateMutex' = t
  /\ UNCHANGED <<current, gateQueue, arrived, passed, serials, destroyed>>

(* pthread_cond_wait from the loop test "from" on.                         *)
BarrierBlocks(t, from, to) ==
  /\ BarrierGoto(t, from, to)
  /\ gateMutex' = NoParty
  /\ gateQueue' = gateQueue \cup {t}
  /\ UNCHANGED <<current, arrived, passed, serials, destroyed>>

(* ... and its return: the thread is off the queue, by a broadcast or      *)
(* spuriously, and owns the mutex again.                                   *)
Resumes(t, from, to) == t \notin gateQueue /\ BarrierLocks(t, from, to)

-----------------------------------------------------------------------------
(* barrier_wait *)
WaitCall(t) ==
  /\ arrived[t] < Rounds
  /\ BarrierGoto(t, "idle", "enter")
  /\ UNCHANGED <<gateMutex, current, gateQueue, arrived, passed, serials, destroyed>>

Enter(t) == BarrierLocks(t, "enter", "drain")

(* while(current > BARRIER_FLAG): the previous round is not yet out.       *)
DrainWait(t)   == current > BARRIER_FLAG /\ BarrierBlocks(t, "drain", "drainWait")
DrainResume(t) == Resumes(t, "drainWait", "drain")

(* Mutant: the first to enter does not reset the counter.                  *)
CountedOn == current + 1

(* The first to enter resets the counter; the thread counts itself in.     *)
CountedIn == (IF current = BARRIER_FLAG THEN 0 ELSE current) + 1

(* Not the last: on to the second loop.                                    *)
ArriveEarly(t) ==
  /\ current <= BARRIER_FLAG
  /\ CountedIn # GateNum
  /\ BarrierGoto(t, "drain", "gate")
  /\ current' = CountedIn
  /\ arrived' = [arrived EXCEPT ![t] = @ + 1]
  /\ UNCHANGED <<gateMutex, gateQueue, passed, serials, destroyed>>

(* Mutant: the last one does not broadcast.                                *)
ArriveLastQuiet(t) ==
  /\ current <= BARRIER_FLAG
  /\ CountedIn = GateNum
  /\ BarrierGoto(t, "drain", "exit")
  /\ current' = CountedIn + (BARRIER_FLAG - 1)
  /\ arrived' = [arrived EXCEPT ![t] = @ + 1]
  /\ passed' = [passed EXCEPT ![t] = @ + 1]
  /\ serials' = serials + 1
  /\ UNCHANGED <<gateMutex, gateQueue, destroyed>>

(* The last: current += BARRIER_FLAG - 1, broadcast, and out as the serial *)
(* thread.                                                                 *)
ArriveLast(t) ==
  /\ current <= BARRIER_FLAG
  /\ CountedIn = GateNum
  /\ BarrierGoto(t, "drain", "exit")
  /\ current' = CountedIn + (BARRIER_FLAG - 1)
  /\ gateQueue' = {}
  /\ arrived' = [arrived EXCEPT ![t] = @ + 1]
  /\ passed' = [passed EXCEPT ![t] = @ + 1]
  /\ serials' = serials + 1
  /\ UNCHANGED <<gateMutex, destroyed>>

(* while(current < BARRIER_FLAG): not enough threads have arrived.         *)
GateWait(t)   == current < BARRIER_FLAG /\ BarrierBlocks(t, "gate", "gateWait")
GateResume(t) == Resumes(t, "gateWait", "gate")

(* Mutant: a thread that leaves is not counted.                            *)
LeaveUncounted(t) ==
  /\ current >= BARRIER_FLAG
  /\ BarrierGoto(t, "gate", "exit")
  /\ passed' = [passed EXCEPT ![t] = @ + 1]
  /\ UNCHANGED <<gateMutex, current, gateQueue, arrived, serials, destroyed>>

(* Mutant: the last one out does not broadcast.                            *)
LeaveQuiet(t) ==
  /\ current >= BARRIER_FLAG
  /\ BarrierGoto(t, "gate", "exit")
  /\ current' = current - 1
  /\ passed' = [passed EXCEPT ![t] = @ + 1]
  /\ UNCHANGED <<gateMutex, gateQueue, arrived, serials, destroyed>>

(* --current, and the last one out wakes the threads held at the entry.    *)
LeaveGate(t) ==
  /\ current >= BARRIER_FLAG
  /\ BarrierGoto(t, "gate", "exit")
  /\ current' = current - 1
  /\ gateQueue' = IF current - 1 = BARRIER_FLAG THEN {} ELSE gateQueue
  /\ passed' = [passed EXCEPT ![t] = @ + 1]
  /\ UNCHANGED <<gateMutex, arrived, serials, destroyed>>

(* pthread_mutex_unlock, and barrier_wait returns.                         *)
Exit(t) ==
  /\ BarrierGoto(t, "exit", "idle")
  /\ gateMutex' = NoParty
  /\ UNCHANGED <<current, gateQueue, arrived, passed, serials, destroyed>>

-----------------------------------------------------------------------------
(* barrier_dtor, by a thread whose own last wait has returned.             *)
DtorCall(t) ==
  /\ t \in Destroyers
  /\ passed[t] = Rounds
  /\ BarrierGoto(t, "idle", "dtor")
  /\ UNCHANGED <<gateMutex, current, gateQueue, arrived, passed, serials, destroyed>>

DtorEnter(t) == BarrierLocks(t, "dtor", "close")

(* while(current > BARRIER_FLAG): wait until everyone exits the barrier.   *)
CloseWait(t)   == current > BARRIER_FLAG /\ BarrierBlocks(t, "close", "closeWait")
CloseResume(t) == Resumes(t, "closeWait", "close")

(* Mutant: barrier_dtor does not wait.                                     *)
CloseAtOnce(t) ==
  /\ BarrierGoto(t, "close", "free")
  /\ UNCHANGED <<gateMutex, current, gateQueue, arrived, passed, serials, destroyed>>

Close(t) ==
  /\ current <= BARRIER_FLAG
  /\ BarrierGoto(t, "close", "free")
  /\ UNCHANGED <<gateMutex, current, gateQueue, arrived, passed, serials, destroyed>>

DtorExit(t) ==
  /\ BarrierGoto(t, "free", "destroy")
  /\ gateMutex' = NoParty
  /\ UNCHANGED <<current, gateQueue, arrived, passed, serials, destroyed>>

(* mutex_dtor, pthread_cond_destroy, free                                  *)
Destroy(t) ==
  /\ BarrierGoto(t, "destroy", "gone")
  /\ destroyed' = 1
  /\ UNCHANGED <<gateMutex, current, gateQueue, arrived, passed, serials>>

-----------------------------------------------------------------------------
BarrierWakeup(t) ==
  /\ t \in gateQueue
  /\ gateQueue' = gateQueue \ {t}
  /\ UNCHANGED <<gateMutex, current, bpc, arrived, passed, serials, destroyed>>

BarrierWait(t) == \/ Enter(t) \/ DrainWait(t) \/ DrainResume(t)
                  \/ ArriveEarly(t) \/ ArriveLast(t)
                  \/ GateWait(t) \/ GateResume(t) \/ LeaveGate(t) \/ Exit(t)

BarrierDtor(t) == \/ DtorEnter(t) \/ CloseWait(t) \/ CloseResume(t)
                  \/ Close(t) \/ DtorExit(t) \/ Destroy(t)

Step(t) == WaitCall(t) \/ BarrierWait(t) \/ DtorCall(t) \/ BarrierDtor(t)

BarrierNext == \E t \in Parties : Step(t) \/ BarrierWakeup(t)

BarrierSpec == BarrierInit /\ [][BarrierNext]_barrierVars

(* A thread goes on with a call it is in, and a mutex that is released     *)
(* again and again does not pass the same thread over forever (spurious    *)
(* wakeups may make others take it again and again).  Nobody has to call.  *)
BarrierFairness == \A t \in Parties : SF_barrierVars(BarrierWait(t) \/ BarrierDtor(t))

BarrierFairSpec == BarrierSpec /\ BarrierFairness

-----------------------------------------------------------------------------
BarrierTypeOK ==
  /\ gateMutex \in Parties \cup {NoParty}
  /\ current \in 0 .. BARRIER_FLAG + GateNum - 1
  /\ gateQueue \subseteq Parties
  /\ bpc \in [Parties -> BarrierPCs]
  /\ arrived \in [Parties -> Nat]
  /\ passed \in [Parties -> Nat]
  /\ serials \in Nat
  /\ destroyed \in {0, 1}

(* The threads between the two halves of barrier_wait.                     *)
Inside == {t \in Parties : bpc[t] \in {"gate", "gateWait"}}

(* current means what the code reads it for: below the flag it counts the  *)
(* threads that have arrived and are held, from the flag on the threads    *)
(* that are released and not yet out; the two are never mixed.             *)
CurrentCounts ==
  current = IF current < BARRIER_FLAG THEN Cardinality(Inside)
                                      ELSE BARRIER_FLAG + Cardinality(Inside)

(* Nobody is let through its n-th wait before everybody has begun its n-th,*)
(* even if a fast thread comes back for the next round while slow ones are *)
(* still leaving.  (For a team of exactly GateNum threads.)                *)
NobodyPassesEarly == \A t, u \in Parties : passed[t] <= arrived[u]

(* Each round has one serial thread: there are as many as there were       *)
(* rounds opened, which is what the most advanced thread has passed.       *)
OneSerialPerRound ==
  /\ \A t \in Parties : passed[t] <= serials
  /\ \E t \in Parties : passed[t] = serials

(* Nobody is still in barrier_wait, or at the barrier's mutex, when        *)
(* barrier_dtor frees it.                                                  *)
NotFreedInUse ==
  destroyed = 1 => \A t \in Parties : bpc[t] \in {"idle", "gone"} /\ passed[t] = Rounds

(* No thread sleeps on the condition variable when its loop would let it   *)
(* go: every change that matters is broadcast.                             *)
NoLostBroadcast ==
  \A t \in gateQueue :
    /\ bpc[t] = "gateWait" => current < BARRIER_FLAG
    /\ bpc[t] \in {"drainWait", "closeWait"} => current > BARRIER_FLAG

Abstract == INSTANCE RoundBarrier WITH Team <- Parties

(* A team of GateNum threads gets the rounds of RoundBarrier: nobody       *)
(* passes early, and once all have arrived everybody passes.               *)
ImplementsRoundBarrier == Abstract!FairSpec
=============================================================================

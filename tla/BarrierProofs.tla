--------------------------- MODULE BarrierProofs ---------------------------
(***************************************************************************)
(* Theorems about the barrier, for every gate number, every number of      *)
(* rounds and every flag from the gate number on.  Spurious wakeups are    *)
(* allowed throughout.                                                     *)
(***************************************************************************)
EXTENDS Barrier, FiniteSetTheorems, TLAPS

(* The counter stays within the 32 bits of its type.                       *)
THEOREM TypeCorrect == BarrierSpec => []BarrierTypeOK
<1> USE BarrierAssumption DEF BarrierTypeOK, BarrierPCs
<1>1. BarrierInit => BarrierTypeOK
  BY DEF BarrierInit
<1>2. BarrierTypeOK /\ [BarrierNext]_barrierVars => BarrierTypeOK'
  <2> SUFFICES ASSUME BarrierTypeOK, [BarrierNext]_barrierVars PROVE BarrierTypeOK'
    OBVIOUS
  <2> USE DEF BarrierGoto, BarrierLocks, BarrierBlocks, Resumes
  <2>1. ASSUME NEW t \in Parties, WaitCall(t) \/ DtorCall(t) PROVE BarrierTypeOK'
    BY <2>1 DEF WaitCall, DtorCall
  <2>2. ASSUME NEW t \in Parties,
               Enter(t) \/ DrainResume(t) \/ GateResume(t) \/ DtorEnter(t) \/ CloseResume(t)
        PROVE  BarrierTypeOK'
    BY <2>2 DEF Enter, DrainResume, GateResume, DtorEnter, CloseResume
  <2>3. ASSUME NEW t \in Parties, DrainWait(t) \/ GateWait(t) \/ CloseWait(t)
        PROVE  BarrierTypeOK'
    BY <2>3 DEF DrainWait, GateWait, CloseWait
  <2>4. ASSUME NEW t \in Parties, ArriveEarly(t) PROVE BarrierTypeOK'
    BY <2>4 DEF ArriveEarly, CountedIn
  <2>5. ASSUME NEW t \in Parties, ArriveLast(t) PROVE BarrierTypeOK'
    BY <2>5 DEF ArriveLast, CountedIn
  <2>6. ASSUME NEW t \in Parties, LeaveGate(t) PROVE BarrierTypeOK'
    BY <2>6 DEF LeaveGate
  <2>7. ASSUME NEW t \in Parties, Exit(t) \/ Close(t) \/ DtorExit(t) \/ Destroy(t)
        PROVE  BarrierTypeOK'
    BY <2>7 DEF Exit, Close, DtorExit, Destroy
  <2>8. ASSUME NEW t \in Parties, BarrierWakeup(t) PROVE BarrierTypeOK'
    BY <2>8 DEF BarrierWakeup
  <2>9. CASE UNCHANGED barrierVars
    BY <2>9 DEF barrierVars
  <2> QED
    BY <2>1, <2>2, <2>3, <2>4, <2>5, <2>6, <2>7, <2>8, <2>9
       DEF BarrierNext, Step, BarrierWait, BarrierDtor
<1> QED BY <1>1, <1>2, PTL DEF BarrierSpec

-----------------------------------------------------------------------------
(* The steps that neither count a thread in nor out.                       *)
Quiet == /\ UNCHANGED <<current, arrived, passed, serials>>
         /\ Inside' = Inside

(* Every step is quiet, an arrival or a departure.                         *)
LEMMA StepKinds ==
  ASSUME BarrierTypeOK, [BarrierNext]_barrierVars
  PROVE  \/ Quiet
         \/ \E t \in Parties : ArriveEarly(t) \/ ArriveLast(t) \/ LeaveGate(t)
<1> USE DEF BarrierTypeOK, BarrierGoto, BarrierLocks, BarrierBlocks, Resumes, Quiet, Inside
<1>1. ASSUME NEW t \in Parties, WaitCall(t) \/ DtorCall(t) PROVE Quiet
  BY <1>1 DEF WaitCall, DtorCall
<1>2. ASSUME NEW t \in Parties,
             Enter(t) \/ DrainResume(t) \/ GateResume(t) \/ DtorEnter(t) \/ CloseResume(t)
      PROVE  Quiet
  BY <1>2 DEF Enter, DrainResume, GateResume, DtorEnter, CloseResume
<1>3. ASSUME NEW t \in Parties, DrainWait(t) \/ GateWait(t) \/ CloseWait(t)
      PROVE  Quiet
  BY <1>3 DEF DrainWait, GateWait, CloseWait
<1>4. ASSUME NEW t \in Parties, Exit(t) \/ Close(t) \/ DtorExit(t) \/ Destroy(t)
      PROVE  Quiet
  BY <1>4 DEF Exit, Close, DtorExit, Destroy
<1>5. ASSUME NEW t \in Parties, BarrierWakeup(t) PROVE Quiet
  BY <1>5 DEF BarrierWakeup
<1>6. CASE UNCHANGED barrierVars
  BY <1>6 DEF barrierVars
<1> QED
  BY <1>1, <1>2, <1>3, <1>4, <1>5, <1>6 DEF BarrierNext, Step, BarrierWait, BarrierDtor

(* What an arrival or a departure does to the threads inside.              *)
LEMMA InsideChanges ==
  ASSUME BarrierTypeOK, NEW t \in Parties
  PROVE  /\ ArriveEarly(t) => t \notin Inside /\ Inside' = Inside \cup {t}
         /\ ArriveLast(t) => t \notin Inside /\ Inside' = Inside
         /\ LeaveGate(t) => t \in Inside /\ Inside' = Inside \ {t}
  BY DEF BarrierTypeOK, BarrierGoto, Inside, ArriveEarly, ArriveLast, LeaveGate

(* The inductive form of CurrentCounts: below the flag the counter has not *)
(* reached the gate number.                                                *)
CountInv ==
  /\ IsFiniteSet(Inside)
  /\ current < BARRIER_FLAG => current = Cardinality(Inside) /\ current < GateNum
  /\ current >= BARRIER_FLAG => current = BARRIER_FLAG + Cardinality(Inside)

LEMMA CountInvInductive ==
  ASSUME BarrierTypeOK, CountInv, [BarrierNext]_barrierVars
  PROVE  CountInv'
<1> USE BarrierAssumption DEF BarrierTypeOK, CountInv
<1>1. Cardinality(Inside) \in Nat
  BY FS_CardinalityType
<1>2. CASE Quiet
  BY <1>2 DEF Quiet
<1>3. ASSUME NEW t \in Parties, ArriveEarly(t) PROVE CountInv'
  <2>1. /\ IsFiniteSet(Inside')
        /\ Cardinality(Inside') = Cardinality(Inside) + 1
    BY <1>3, InsideChanges, FS_AddElement
  <2>2. current' = Cardinality(Inside) + 1 /\ current' # GateNum
    BY <1>1, <1>3 DEF ArriveEarly, CountedIn
  <2>3. current' < GateNum
    BY <1>1, <1>3, <2>2 DEF ArriveEarly, CountedIn
  <2> QED BY <1>1, <2>1, <2>2, <2>3
<1>4. ASSUME NEW t \in Parties, ArriveLast(t) PROVE CountInv'
  <2>1. Inside' = Inside
    BY <1>4, InsideChanges
  <2>2. Cardinality(Inside) = GateNum - 1
    BY <1>1, <1>4 DEF ArriveLast, CountedIn
  <2>3. current' = GateNum + (BARRIER_FLAG - 1)
    BY <1>4 DEF ArriveLast
  <2> QED BY <2>1, <2>2, <2>3
<1>5. ASSUME NEW t \in Parties, LeaveGate(t) PROVE CountInv'
  <2>1. t \in Inside /\ Inside' = Inside \ {t}
    BY <1>5, InsideChanges
  <2>2. /\ IsFiniteSet(Inside \ {t})
        /\ Cardinality(Inside \ {t}) = Cardinality(Inside) - 1
        /\ Cardinality(Inside \ {t}) \in Nat
    BY <2>1, FS_RemoveElement, FS_CardinalityType
  <2>3. current >= BARRIER_FLAG /\ current' = current - 1
    BY <1>5 DEF LeaveGate
  <2> QED BY <1>1, <2>1, <2>2, <2>3
<1> QED BY <1>2, <1>3, <1>4, <1>5, StepKinds

(* The counter tells arrivals and departures apart for any crowd of        *)
(* threads, more than the gate number included.                            *)
THEOREM CounterCorrect == BarrierSpec => []CurrentCounts
<1>1. BarrierInit => CountInv
  <2> SUFFICES ASSUME BarrierInit PROVE CountInv
    OBVIOUS
  <2>1. Inside = {}
    BY DEF BarrierInit, Inside
  <2> QED BY <2>1, FS_EmptySet, BarrierAssumption DEF BarrierInit, CountInv
<1>2. BarrierTypeOK /\ CountInv /\ [BarrierNext]_barrierVars => CountInv'
  BY CountInvInductive
<1>3. BarrierTypeOK /\ CountInv => CurrentCounts
  BY BarrierAssumption DEF BarrierTypeOK, CountInv, CurrentCounts
<1> QED BY <1>1, <1>2, <1>3, TypeCorrect, PTL DEF BarrierSpec

(* Whatever lets a sleeping thread go is broadcast, for any crowd.         *)
LEMMA NoLostWakeupInductive ==
  ASSUME BarrierTypeOK, CountInv, NoLostBroadcast, [BarrierNext]_barrierVars
  PROVE  NoLostBroadcast'
<1> USE BarrierAssumption DEF BarrierTypeOK, BarrierGoto, NoLostBroadcast
<1>1. ASSUME NEW t \in Parties,
             \/ WaitCall(t) \/ DtorCall(t) \/ Exit(t)
             \/ Close(t) \/ DtorExit(t) \/ Destroy(t)
      PROVE  NoLostBroadcast'
  BY <1>1 DEF WaitCall, DtorCall, Exit, Close, DtorExit, Destroy
<1>2. ASSUME NEW t \in Parties,
             Enter(t) \/ DrainResume(t) \/ GateResume(t) \/ DtorEnter(t) \/ CloseResume(t)
      PROVE  NoLostBroadcast'
  BY <1>2 DEF Enter, DrainResume, GateResume, DtorEnter, CloseResume, BarrierLocks, Resumes
<1>3. ASSUME NEW t \in Parties, DrainWait(t) \/ GateWait(t) \/ CloseWait(t)
      PROVE  NoLostBroadcast'
  BY <1>3 DEF DrainWait, GateWait, CloseWait, BarrierBlocks
<1>4. ASSUME NEW t \in Parties, ArriveEarly(t) PROVE NoLostBroadcast'
  <2>1. current <= BARRIER_FLAG /\ CountedIn # GateNum /\ current' = CountedIn
    BY <1>4 DEF ArriveEarly
  <2>2. current < BARRIER_FLAG => current' < BARRIER_FLAG
    BY <2>1 DEF CountedIn, CountInv
  <2>3. gateQueue' = gateQueue /\ bpc' = [bpc EXCEPT ![t] = "gate"]
    BY <1>4 DEF ArriveEarly
  <2> QED BY <2>1, <2>2, <2>3
<1>5. ASSUME NEW t \in Parties, ArriveLast(t) PROVE NoLostBroadcast'
  BY <1>5 DEF ArriveLast
<1>6. ASSUME NEW t \in Parties, LeaveGate(t) PROVE NoLostBroadcast'
  <2>1. current >= BARRIER_FLAG /\ current' = current - 1
    BY <1>6 DEF LeaveGate
  <2>2. \/ gateQueue' = {}
        \/ current - 1 # BARRIER_FLAG /\ gateQueue' = gateQueue
    BY <1>6 DEF LeaveGate
  <2>3. bpc' = [bpc EXCEPT ![t] = "exit"]
    BY <1>6 DEF LeaveGate
  <2> QED BY <2>1, <2>2, <2>3
<1>7. ASSUME NEW t \in Parties, BarrierWakeup(t) PROVE NoLostBroadcast'
  BY <1>7 DEF BarrierWakeup
<1>8. CASE UNCHANGED barrierVars
  BY <1>8 DEF barrierVars
<1> QED
  BY <1>1, <1>2, <1>3, <1>4, <1>5, <1>6, <1>7, <1>8
     DEF BarrierNext, Step, BarrierWait, BarrierDtor

(* No thread sleeps in a loop whose condition has become false.            *)
THEOREM NobodyOversleeps == BarrierSpec => []NoLostBroadcast
<1>1. BarrierInit => CountInv
  <2> SUFFICES ASSUME BarrierInit PROVE CountInv
    OBVIOUS
  <2>1. Inside = {}
    BY DEF BarrierInit, Inside
  <2> QED BY <2>1, FS_EmptySet, BarrierAssumption DEF BarrierInit, CountInv
<1>2. BarrierInit => NoLostBroadcast
  BY DEF BarrierInit, NoLostBroadcast
<1>3. BarrierTypeOK /\ CountInv /\ [BarrierNext]_barrierVars => CountInv'
  BY CountInvInductive
<1>4. BarrierTypeOK /\ CountInv /\ NoLostBroadcast /\ [BarrierNext]_barrierVars => NoLostBroadcast'
  BY NoLostWakeupInductive
<1> QED BY <1>1, <1>2, <1>3, <1>4, TypeCorrect, PTL DEF BarrierSpec

-----------------------------------------------------------------------------
(* A team: as many threads as the gate number.                             *)
IsTeam == IsFiniteSet(Parties) /\ Cardinality(Parties) = GateNum

(* While the threads gather, everybody has passed serials rounds and the   *)
(* ones inside have begun the next; while they leave, everybody has begun  *)
(* serials rounds and the ones inside have yet to pass the last of them.   *)
TeamInv ==
  /\ current < BARRIER_FLAG =>
       \A t \in Parties : /\ passed[t] = serials
                          /\ arrived[t] = IF t \in Inside THEN serials + 1 ELSE serials
  /\ current >= BARRIER_FLAG =>
       \A t \in Parties : /\ arrived[t] = serials
                          /\ passed[t] = IF t \in Inside THEN serials - 1 ELSE serials

LEMMA TeamInvInductive ==
  ASSUME IsTeam, BarrierTypeOK, CountInv, TeamInv, [BarrierNext]_barrierVars
  PROVE  TeamInv'
<1> USE BarrierAssumption DEF BarrierTypeOK, TeamInv
<1>1. Cardinality(Inside) \in Nat
  BY FS_CardinalityType DEF CountInv
<1>2. CASE Quiet
  BY <1>2 DEF Quiet
<1>3. ASSUME NEW t \in Parties, ArriveEarly(t) PROVE TeamInv'
  <2>1. t \notin Inside /\ Inside' = Inside \cup {t}
    BY <1>3, InsideChanges
  <2>2. current' < BARRIER_FLAG /\ current' \in Nat
    BY <1>1, <1>3 DEF ArriveEarly, CountedIn, CountInv
  <2>3. current = BARRIER_FLAG => Inside = {}
    BY <1>1, FS_EmptySet DEF CountInv
  <2>4. \A u \in Parties : passed[u] = serials
    BY <1>3, <2>3 DEF ArriveEarly
  <2>5. \A u \in Parties : arrived[u] = IF u \in Inside THEN serials + 1 ELSE serials
    BY <1>3, <2>3 DEF ArriveEarly
  <2> QED BY <1>3, <2>1, <2>2, <2>4, <2>5 DEF ArriveEarly
<1>4. ASSUME NEW t \in Parties, ArriveLast(t) PROVE TeamInv'
  <2>1. t \notin Inside /\ Inside' = Inside
    BY <1>4, InsideChanges
  <2>2. Cardinality(Inside) = GateNum - 1
    BY <1>1, <1>4 DEF ArriveLast, CountedIn, CountInv
  <2>3. Inside = Parties \ {t}
    <3>1. /\ IsFiniteSet(Parties \ {t})
          /\ Cardinality(Parties \ {t}) = GateNum - 1
      BY FS_RemoveElement DEF IsTeam
    <3>2. Inside \subseteq Parties \ {t}
      BY <2>1 DEF Inside
    <3> QED BY <2>2, <3>1, <3>2, FS_Subset
  <2>4. current = BARRIER_FLAG => Inside = {}
    BY <1>1, FS_EmptySet DEF CountInv
  <2>5. /\ arrived[t] = serials /\ passed[t] = serials
        /\ \A u \in Parties \ {t} : arrived[u] = serials + 1 /\ passed[u] = serials
    BY <1>4, <2>3, <2>4 DEF ArriveLast
  <2>6. current' >= BARRIER_FLAG
    BY <1>4 DEF ArriveLast
  <2> QED BY <1>4, <2>1, <2>3, <2>5, <2>6 DEF ArriveLast
<1>5. ASSUME NEW t \in Parties, LeaveGate(t) PROVE TeamInv'
  <2>1. t \in Inside /\ Inside' = Inside \ {t}
    BY <1>5, InsideChanges
  <2>2. Cardinality(Inside) > 0
    BY <1>1, <2>1, FS_EmptySet DEF CountInv
  <2>3. current' >= BARRIER_FLAG /\ current' \in Nat
    BY <1>1, <1>5, <2>2 DEF LeaveGate, CountInv
  <2>4. /\ current >= BARRIER_FLAG /\ arrived' = arrived /\ serials' = serials
        /\ passed' = [passed EXCEPT ![t] = passed[t] + 1]
    BY <1>5 DEF LeaveGate
  <2>5. \A u \in Parties : passed'[u] = IF u \in Inside' THEN serials - 1 ELSE serials
    BY <2>1, <2>4
  <2> QED BY <2>3, <2>4, <2>5
<1> QED BY <1>2, <1>3, <1>4, <1>5, StepKinds

(* TeamInv in the words of the properties.                                 *)
LEMMA TeamInvConsequences ==
  ASSUME IsTeam, BarrierTypeOK, CountInv, TeamInv
  PROVE  NobodyPassesEarly /\ OneSerialPerRound
<1> USE BarrierAssumption DEF BarrierTypeOK, TeamInv
<1>1. NobodyPassesEarly
  BY DEF NobodyPassesEarly
<1>2. \E t \in Parties : t \notin Inside \/ current < BARRIER_FLAG
  <2>1. CASE current < BARRIER_FLAG
    <3>1. Parties # {}
      BY FS_EmptySet DEF IsTeam
    <3> QED BY <2>1, <3>1
  <2>2. CASE current >= BARRIER_FLAG
    <3>1. Cardinality(Inside) \in Nat /\ Cardinality(Inside) < GateNum
      BY <2>2, FS_CardinalityType DEF CountInv
    <3>2. Inside # Parties
      BY <3>1 DEF IsTeam
    <3> QED BY <3>2 DEF Inside
  <2> QED BY <2>1, <2>2
<1>3. OneSerialPerRound
  BY <1>2 DEF OneSerialPerRound
<1> QED BY <1>1, <1>3

LEMMA TeamInvInitial == BarrierInit => CountInv /\ TeamInv
<1> SUFFICES ASSUME BarrierInit PROVE CountInv /\ TeamInv
  OBVIOUS
<1>1. Inside = {}
  BY DEF BarrierInit, Inside
<1> QED BY <1>1, FS_EmptySet, BarrierAssumption DEF BarrierInit, CountInv, TeamInv

(* No thread waits more than Rounds times, and one that is about to count  *)
(* itself in has a wait left.                                              *)
RoundsInv ==
  \A t \in Parties :
    /\ arrived[t] <= Rounds
    /\ bpc[t] \in {"enter", "drain", "drainWait"} => arrived[t] < Rounds

LEMMA RoundsCorrect == BarrierSpec => []RoundsInv
<1> USE BarrierAssumption DEF BarrierTypeOK, RoundsInv
<1>1. BarrierInit => RoundsInv
  BY DEF BarrierInit
<1>2. BarrierTypeOK /\ RoundsInv /\ [BarrierNext]_barrierVars => RoundsInv'
  <2> SUFFICES ASSUME BarrierTypeOK, RoundsInv, [BarrierNext]_barrierVars PROVE RoundsInv'
    OBVIOUS
  <2> USE DEF BarrierGoto, BarrierLocks, BarrierBlocks, Resumes, BarrierPCs
  <2>1. ASSUME NEW t \in Parties, WaitCall(t) \/ DtorCall(t) PROVE RoundsInv'
    BY <2>1 DEF WaitCall, DtorCall
  <2>2. ASSUME NEW t \in Parties,
               Enter(t) \/ DrainResume(t) \/ GateResume(t) \/ DtorEnter(t) \/ CloseResume(t)
        PROVE  RoundsInv'
    BY <2>2 DEF Enter, DrainResume, GateResume, DtorEnter, CloseResume
  <2>3. ASSUME NEW t \in Parties, DrainWait(t) \/ GateWait(t) \/ CloseWait(t)
        PROVE  RoundsInv'
    BY <2>3 DEF DrainWait, GateWait, CloseWait
  <2>4. ASSUME NEW t \in Parties, ArriveEarly(t) PROVE RoundsInv'
    BY <2>4 DEF ArriveEarly
  <2>5. ASSUME NEW t \in Parties, ArriveLast(t) PROVE RoundsInv'
    BY <2>5 DEF ArriveLast
  <2>6. ASSUME NEW t \in Parties, LeaveGate(t) PROVE RoundsInv'
    BY <2>6 DEF LeaveGate
  <2>7. ASSUME NEW t \in Parties, Exit(t) \/ Close(t) \/ DtorExit(t) \/ Destroy(t)
        PROVE  RoundsInv'
    BY <2>7 DEF Exit, Close, DtorExit, Destroy
  <2>8. ASSUME NEW t \in Parties, BarrierWakeup(t) PROVE RoundsInv'
    BY <2>8 DEF BarrierWakeup
  <2>9. CASE UNCHANGED barrierVars
    BY <2>9 DEF barrierVars
  <2> QED
    BY <2>1, <2>2, <2>3, <2>4, <2>5, <2>6, <2>7, <2>8, <2>9
       DEF BarrierNext, Step, BarrierWait, BarrierDtor
<1> QED BY <1>1, <1>2, TypeCorrect, PTL DEF BarrierSpec

(* The mutex: one thread at a time between lock and unlock.                *)
Exclusive ==
  \A t \in Parties : bpc[t] \in {"drain", "gate", "exit", "close", "free"} <=> gateMutex = t

LEMMA ExclusionCorrect == BarrierSpec => []Exclusive
<1> USE BarrierAssumption DEF BarrierTypeOK, Exclusive
<1>1. BarrierInit => Exclusive
  BY DEF BarrierInit
<1>2. BarrierTypeOK /\ Exclusive /\ [BarrierNext]_barrierVars => Exclusive'
  <2> SUFFICES ASSUME BarrierTypeOK, Exclusive, [BarrierNext]_barrierVars PROVE Exclusive'
    OBVIOUS
  <2> USE DEF BarrierGoto, BarrierLocks, BarrierBlocks, Resumes, BarrierPCs
  <2>1. ASSUME NEW t \in Parties, WaitCall(t) \/ DtorCall(t) \/ Destroy(t)
        PROVE Exclusive'
    BY <2>1 DEF WaitCall, DtorCall, Destroy
  <2>2. ASSUME NEW t \in Parties,
               Enter(t) \/ DrainResume(t) \/ GateResume(t) \/ DtorEnter(t) \/ CloseResume(t)
        PROVE  Exclusive'
    BY <2>2 DEF Enter, DrainResume, GateResume, DtorEnter, CloseResume
  <2>3. ASSUME NEW t \in Parties, DrainWait(t) \/ GateWait(t) \/ CloseWait(t)
        PROVE  Exclusive'
    BY <2>3 DEF DrainWait, GateWait, CloseWait
  <2>4. ASSUME NEW t \in Parties, ArriveEarly(t) \/ ArriveLast(t) \/ LeaveGate(t) \/ Close(t)
        PROVE  Exclusive'
    BY <2>4 DEF ArriveEarly, ArriveLast, LeaveGate, Close
  <2>5. ASSUME NEW t \in Parties, Exit(t) \/ DtorExit(t) PROVE Exclusive'
    BY <2>5 DEF Exit, DtorExit
  <2>6. ASSUME NEW t \in Parties, BarrierWakeup(t) PROVE Exclusive'
    BY <2>6 DEF BarrierWakeup
  <2>7. CASE UNCHANGED barrierVars
    BY <2>7 DEF barrierVars
  <2> QED
    BY <2>1, <2>2, <2>3, <2>4, <2>5, <2>6, <2>7 DEF BarrierNext, Step, BarrierWait, BarrierDtor
<1> QED BY <1>1, <1>2, TypeCorrect, PTL DEF BarrierSpec

(* In a team of GateNum threads nobody gets through its n-th wait before   *)
(* everybody has begun its n-th, and every round has one serial thread.    *)
THEOREM TeamSafe ==
  ASSUME IsTeam
  PROVE  BarrierSpec => [](NobodyPassesEarly /\ OneSerialPerRound)
<1>1. BarrierInit => CountInv /\ TeamInv
  BY TeamInvInitial
<1>2. BarrierTypeOK /\ CountInv /\ TeamInv /\ [BarrierNext]_barrierVars => CountInv' /\ TeamInv'
  BY CountInvInductive, TeamInvInductive
<1>3. BarrierTypeOK /\ CountInv /\ TeamInv => NobodyPassesEarly /\ OneSerialPerRound
  BY TeamInvConsequences
<1> QED BY <1>1, <1>2, <1>3, TypeCorrect, PTL DEF BarrierSpec

(* The barrier of a team implements the abstract rounds.                   *)
THEOREM TeamImplementsRounds ==
  ASSUME IsTeam
  PROVE  BarrierSpec => Abstract!Spec
<1>1. BarrierInit => Abstract!Init
  BY DEF BarrierInit, Abstract!Init
<1>2. /\ BarrierTypeOK /\ CountInv /\ TeamInv /\ [BarrierNext]_barrierVars
      /\ (BarrierTypeOK /\ TeamInv)' /\ RoundsInv
      => [Abstract!Next]_(Abstract!vars)
  <2> SUFFICES ASSUME BarrierTypeOK, CountInv, TeamInv, [BarrierNext]_barrierVars,
                      BarrierTypeOK', TeamInv', RoundsInv
               PROVE  [Abstract!Next]_(Abstract!vars)
    OBVIOUS
  <2> USE BarrierAssumption DEF BarrierTypeOK, Abstract!vars
  <2>1. CASE Quiet
    BY <2>1 DEF Quiet
  <2>2. ASSUME NEW t \in Parties, ArriveEarly(t) PROVE Abstract!Next
    <3>1. arrived[t] = passed[t]
      BY <2>2, InsideChanges DEF TeamInv
    <3>2. arrived[t] < Rounds
      BY <2>2 DEF RoundsInv, ArriveEarly, BarrierGoto
    <3>3. Abstract!Arrive(t)
      BY <2>2, <3>1, <3>2 DEF ArriveEarly, Abstract!Arrive
    <3> QED BY <3>3 DEF Abstract!Next
  <2>3. ASSUME NEW t \in Parties, ArriveLast(t) PROVE Abstract!Next
    <3>1. arrived[t] = passed[t]
      BY <2>3, InsideChanges DEF TeamInv
    <3>2. arrived[t] < Rounds
      BY <2>3 DEF RoundsInv, ArriveLast, BarrierGoto
    <3>3. /\ arrived' = [arrived EXCEPT ![t] = arrived[t] + 1]
          /\ passed' = [passed EXCEPT ![t] = passed[t] + 1]
          /\ current' >= BARRIER_FLAG
      BY <2>3 DEF ArriveLast
    <3>4. \A u \in Parties : arrived'[u] = serials'
      BY <3>3 DEF TeamInv
    <3>5. \A u \in Parties \ {t} : passed[t] < arrived[u]
      BY <3>1, <3>3, <3>4
    <3>6. Abstract!ArriveAndPass(t)
      BY <3>1, <3>2, <3>3, <3>5 DEF Abstract!ArriveAndPass
    <3> QED BY <3>6 DEF Abstract!Next
  <2>4. ASSUME NEW t \in Parties, LeaveGate(t) PROVE Abstract!Next
    <3>1. t \in Inside /\ current >= BARRIER_FLAG
      BY <2>4, InsideChanges DEF LeaveGate
    <3>2. /\ passed[t] = serials - 1
          /\ \A u \in Parties : arrived[u] = serials
      BY <3>1 DEF TeamInv
    <3>3. Abstract!Pass(t)
      BY <2>4, <3>2 DEF LeaveGate, Abstract!Pass
    <3> QED BY <3>3 DEF Abstract!Next
  <2> QED BY <2>1, <2>2, <2>3, <2>4, StepKinds
<1>3. BarrierInit => CountInv /\ TeamInv
  BY TeamInvInitial
<1>4. BarrierTypeOK /\ CountInv /\ TeamInv /\ [BarrierNext]_barrierVars => CountInv' /\ TeamInv'
  BY CountInvInductive, TeamInvInductive
<1> QED BY <1>1, <1>2, <1>3, <1>4, TypeCorrect, RoundsCorrect, PTL DEF BarrierSpec, Abstract!Spec

-----------------------------------------------------------------------------
(* barrier_dtor.  Once it has seen the barrier empty after a team's last   *)
(* round, no thread is in barrier_wait and none will enter it again.       *)
InClose(t) == bpc[t] \in {"dtor", "close", "closeWait", "free", "destroy", "gone"}

DtorInv ==
  /\ \A t \in Parties : InClose(t) => t \in Destroyers /\ passed[t] = Rounds
  /\ \A d \in Parties : bpc[d] \in {"free", "destroy", "gone"} =>
       \A t \in Parties \ {d} : bpc[t] = "idle" /\ passed[t] = Rounds /\ arrived[t] = Rounds
  /\ destroyed = 1 => \E d \in Parties : bpc[d] = "gone"

LEMMA DtorInvInductive ==
  ASSUME IsTeam, BarrierTypeOK, CountInv, TeamInv, RoundsInv, Exclusive, DtorInv,
          [BarrierNext]_barrierVars
  PROVE  DtorInv'
<1> USE BarrierAssumption DEF BarrierTypeOK, BarrierPCs, BarrierGoto, DtorInv, InClose
<1>1. ASSUME NEW t \in Parties, WaitCall(t) PROVE DtorInv'
  BY <1>1 DEF WaitCall
<1>2. ASSUME NEW t \in Parties, Enter(t) \/ DrainResume(t) \/ GateResume(t)
      PROVE  DtorInv'
  BY <1>2 DEF Enter, DrainResume, GateResume, BarrierLocks, Resumes
<1>3. ASSUME NEW t \in Parties, DtorEnter(t) \/ CloseResume(t) PROVE DtorInv'
  BY <1>3 DEF DtorEnter, CloseResume, BarrierLocks, Resumes
<1>4. ASSUME NEW t \in Parties, DrainWait(t) \/ GateWait(t) \/ CloseWait(t)
      PROVE  DtorInv'
  BY <1>4 DEF DrainWait, GateWait, CloseWait, BarrierBlocks
<1>5. ASSUME NEW t \in Parties, ArriveEarly(t) PROVE DtorInv'
  BY <1>5 DEF ArriveEarly
<1>6. ASSUME NEW t \in Parties, ArriveLast(t) PROVE DtorInv'
  BY <1>6 DEF ArriveLast
<1>7. ASSUME NEW t \in Parties, LeaveGate(t) PROVE DtorInv'
  BY <1>7 DEF LeaveGate
<1>8. ASSUME NEW t \in Parties, Exit(t) PROVE DtorInv'
  BY <1>8 DEF Exit
<1>9. ASSUME NEW t \in Parties, DtorCall(t) PROVE DtorInv'
  BY <1>9 DEF DtorCall
<1>10. ASSUME NEW d \in Parties, Close(d) PROVE DtorInv'
  <2>1. bpc[d] = "close" /\ current <= BARRIER_FLAG /\ passed[d] = Rounds
        /\ d \in Destroyers /\ bpc' = [bpc EXCEPT ![d] = "free"]
        /\ passed' = passed /\ arrived' = arrived /\ destroyed' = destroyed
    BY <1>10 DEF Close
  <2>2. serials = Rounds /\ Inside = {}
    <3>1. CASE current = BARRIER_FLAG
      <4>1. Inside = {}
        BY <3>1, FS_EmptySet, FS_CardinalityType DEF CountInv
      <4> QED BY <2>1, <3>1, <4>1 DEF TeamInv
    <3>2. CASE current < BARRIER_FLAG
      <4>1. serials = Rounds
        BY <2>1, <3>2 DEF TeamInv
      <4>2. \A t \in Inside : FALSE
        BY <3>2, <4>1 DEF TeamInv, RoundsInv, Inside
      <4> QED BY <4>1, <4>2
    <3> QED BY <2>1, <3>1, <3>2
  <2>3. \A t \in Parties : passed[t] = Rounds /\ arrived[t] = Rounds
    BY <2>1, <2>2 DEF TeamInv
  <2>4. ASSUME NEW t \in Parties \ {d} PROVE bpc[t] = "idle"
    <3>1. bpc[t] \notin {"enter", "drain", "drainWait"}
      BY <2>3 DEF RoundsInv
    <3>2. bpc[t] \notin {"gate", "gateWait"}
      BY <2>2 DEF Inside
    <3>3. bpc[t] # "exit"
      BY <2>1 DEF Exclusive
    <3>4. ~ InClose(t)
      BY <2>1
    <3> QED BY <3>1, <3>2, <3>3, <3>4
  <2> QED BY <2>1, <2>3, <2>4
<1>11. ASSUME NEW t \in Parties, DtorExit(t) \/ Destroy(t) PROVE DtorInv'
  BY <1>11 DEF DtorExit, Destroy
<1>12. ASSUME NEW t \in Parties, BarrierWakeup(t) PROVE DtorInv'
  BY <1>12 DEF BarrierWakeup
<1>13. CASE UNCHANGED barrierVars
  BY <1>13 DEF barrierVars
<1> QED
  BY <1>1, <1>2, <1>3, <1>4, <1>5, <1>6, <1>7, <1>8, <1>9, <1>10, <1>11, <1>12, <1>13
     DEF BarrierNext, Step, BarrierWait, BarrierDtor

(* barrier_dtor never frees a barrier another thread is still using, though*)
(* it may be called while the others are on their way out.                 *)
THEOREM DtorSafe ==
  ASSUME IsTeam
  PROVE  BarrierSpec => []NotFreedInUse
<1>1. BarrierInit => DtorInv
  BY DEF BarrierInit, DtorInv, InClose
<1>2. BarrierInit => CountInv /\ TeamInv
  BY TeamInvInitial
<1>3. BarrierTypeOK /\ CountInv /\ TeamInv /\ [BarrierNext]_barrierVars => CountInv' /\ TeamInv'
  BY CountInvInductive, TeamInvInductive
<1>4. /\ BarrierTypeOK /\ CountInv /\ TeamInv /\ RoundsInv /\ Exclusive /\ DtorInv
      /\ [BarrierNext]_barrierVars
      => DtorInv'
  BY DtorInvInductive
<1>5. DtorInv => NotFreedInUse
  BY DEF DtorInv, InClose, NotFreedInUse
<1> QED
  BY <1>1, <1>2, <1>3, <1>4, <1>5, TypeCorrect, RoundsCorrect, ExclusionCorrect, PTL
     DEF BarrierSpec
=============================================================================

------------------------- MODULE ThreadChainProofs --------------------------
(***************************************************************************)
(* Theorems about ThreadChain for callers that are Orderly, with any       *)
(* number of callers, activators, slots, threads and polls.                *)
(***************************************************************************)
EXTENDS ThreadChain, TLAPS

(* Before START has stored its thread.                                     *)
Early(u) == pc[u] \in {"rdlock", "scan", "wrlock", "store"}
Fresh == {k \in Threads : \E u \in Callers : Early(u) /\ thread[u] = k}
Taken == {k \in Threads : \E u \in Callers : Stopping(u) /\ thread[u] = k}

(* There is one START at most; its thread is the last one made, in no slot *)
(* before it is stored; a slot found free stays free.                      *)
StartInv ==
  /\ \A u, v \in Callers : Starting(u) /\ Starting(v) => u = v
  /\ \A u \in Callers : Starting(u) =>
       thread[u] = made /\ tpc[made] = "made" /\ state[made] = THREAD_STATE_READY
  /\ \A u \in Callers : Early(u) => made \notin beyond /\ \A i \in Slots : threads[i] # made
  /\ \A u \in Callers :
       pc[u] \in {"wrlock", "store"} /\ index[u] \in Slots => threads[index[u]] = NULL

(* What is in the slots, and where every thread is.                        *)
SlotInv ==
  /\ \A i \in Slots : threads[i] # NULL => threads[i] \in (1 .. made) \ (freed \cup Taken)
  /\ \A i, j \in Slots : i # j /\ threads[i] = threads[j] => threads[i] = NULL
  /\ \A k \in (1 .. made) \ (freed \cup Taken \cup Fresh \cup beyond) :
       \E i \in Slots : threads[i] = k
  /\ freed \subseteq 1 .. made /\ beyond \subseteq 1 .. made

(* Each STOP has a thread of its own.                                      *)
StopInv ==
  /\ \A u \in Callers : Starting(u) \/ Stopping(u) => thread[u] \in 1 .. made
  /\ \A u \in Callers : ~ Starting(u) /\ ~ Stopping(u) => thread[u] = NULL
  /\ \A u \in Callers : Stopping(u) => thread[u] \notin freed
  /\ \A u, v \in Callers : Stopping(u) /\ Stopping(v) /\ thread[u] = thread[v] => u = v

(* How far a thread is: it runs until a STOP has taken it out, and has     *)
(* ended or been cancelled when it is destroyed.                           *)
RunsOn(k) == /\ tpc[k] \in {"made", "created", "main"} /\ k \notin cancelled
             /\ tpc[k] = "main" => state[k] = THREAD_STATE_RUN
Halts(k)  == /\ tpc[k] \in {"main", "left", "ended"} /\ k \notin cancelled
             /\ state[k] \in {THREAD_STATE_STOP, THREAD_STATE_STOPPED}
             /\ state[k] = THREAD_STATE_STOPPED => tpc[k] = "ended"
Halted(k) == /\ tpc[k] \in {"main", "left", "ended"}
             /\ state[k] # THREAD_STATE_RUN
             /\ k \in cancelled \/ tpc[k] = "ended"

LifeInv ==
  /\ \A k \in Threads : tpc[k] = "none" <=> k > made
  /\ \A k \in (1 .. made) \ (freed \cup Taken) : RunsOn(k)
  /\ \A u \in Callers, k \in Threads : thread[u] = k =>
       /\ pc[u] = "halt" => RunsOn(k) /\ tpc[k] = "main"
       /\ pc[u] = "poll" => Halts(k)
       /\ pc[u] = "dtor" => Halted(k)
  /\ \A k \in freed : Halted(k)
  /\ cancelled \subseteq freed \cup Taken

(* A STOP looks for threads that run.                                      *)
WantInv ==
  \A u \in Callers : pc[u] \in {"stop", "find"} =>
    \A k \in Threads : ActivatorOf[k] = wanted[u] => tpc[k] \notin {"made", "created"}

ChainInv == StartInv /\ SlotInv /\ StopInv /\ LifeInv /\ WantInv

-----------------------------------------------------------------------------
(* TypeOK in the groups of variables that the actions change.              *)
ThreadTypes ==
  /\ state \in [Threads -> {0} \cup (THREAD_STATE_READY .. THREAD_STATE_STOPPED)]
  /\ tpc \in [Threads -> ThreadPCs]
  /\ cancelled \subseteq Threads /\ freed \subseteq Threads
ChainTypes ==
  /\ threads \in [Slots -> {NULL} \cup Threads] /\ beyond \subseteq Threads
LockTypes ==
  /\ readers \subseteq Callers /\ writer \in Callers \cup {NoCaller}
CallTypes ==
  /\ wanted \in [Callers -> Activators \cup {NoActivator}]
  /\ thread \in [Callers -> Threads \cup {NULL}]
  /\ index \in [Callers -> 0 .. NTRT_MAX_THREAD_NUM]
  /\ polls \in [Callers -> 0 .. wait_limit]
PcType == pc \in [Callers -> CallerPCs]
MadeType == made \in 0 .. Starts

LEMMA TypeParts ==
  TypeOK <=> ThreadTypes /\ ChainTypes /\ LockTypes /\ CallTypes /\ PcType /\ MadeType
  BY DEF TypeOK, ThreadTypes, ChainTypes, LockTypes, CallTypes, PcType, MadeType

LEMMA QuietParts ==
  ASSUME TypeOK
  PROVE  /\ UNCHANGED threadVars => ThreadTypes'
         /\ UNCHANGED chainVars => ChainTypes'
         /\ UNCHANGED lockVars => LockTypes'
         /\ UNCHANGED callVars => CallTypes'
         /\ UNCHANGED pc => PcType'
         /\ UNCHANGED made => MadeType'
  BY DEF TypeOK, ThreadTypes, ChainTypes, LockTypes, CallTypes, PcType, MadeType,
         threadVars, chainVars, lockVars, callVars

(* A call keeps the types of the lock, and returns to typed variables.     *)
LEMMA LocksTyped ==
  ASSUME LockTypes, NEW u \in Callers
  PROVE  ReadLocks(u) \/ WriteLocks(u) \/ Unlocks(u) => LockTypes'
  BY DEF LockTypes, ReadLocks, WriteLocks, Unlocks, lockVars

LEMMA ReturnsTyped ==
  ASSUME CallTypes, NEW u \in Callers, Returns(u)
  PROVE  CallTypes'
  BY ChainAssumption DEF CallTypes, Returns, NULL

(* A step of thread k, or on it, keeps the types.                          *)
LEMMA StepTyped ==
  ASSUME ThreadTypes, NEW k \in Threads,
         NEW s \in THREAD_STATE_READY .. THREAD_STATE_STOPPED, NEW p \in ThreadPCs,
         state' = state \/ state' = [state EXCEPT ![k] = s],
         tpc' = tpc \/ tpc' = [tpc EXCEPT ![k] = p],
         cancelled' \subseteq cancelled \cup {k}, freed' \subseteq freed \cup {k}
  PROVE  ThreadTypes'
  BY DEF ThreadTypes

(* The thread a call works on exists.                                      *)
InUse == \A u \in Callers : Starting(u) \/ Stopping(u) => thread[u] \in Threads

LEMMA TypesInductive ==
  ASSUME TypeOK, InUse, [Next]_vars
  PROVE  TypeOK'
<1> USE ChainAssumption, TypeParts
    DEF InUse, Threads, Starting, Stopping, NULL
<1>0. /\ ThreadTypes /\ ChainTypes /\ LockTypes /\ CallTypes /\ PcType /\ MadeType
      /\ TypeOK' <=> ThreadTypes' /\ ChainTypes' /\ LockTypes' /\ CallTypes' /\ PcType' /\ MadeType'
  BY DEF TypeOK, ThreadTypes, ChainTypes, LockTypes, CallTypes, PcType, MadeType
<1>1. ASSUME NEW u \in Callers, NEW from \in CallerPCs, NEW to \in CallerPCs, Goto(u, from, to)
      PROVE  PcType'
  BY <1>0, <1>1 DEF Goto, PcType
<1>2. ASSUME NEW u \in Callers, StartCall(u) PROVE TypeOK'
  <2>1. PcType' /\ MadeType' /\ made + 1 \in Threads
    BY <1>0, <1>1, <1>2 DEF StartCall, CallerPCs, MadeType
  <2>2. ThreadTypes'
    BY <1>0, <1>2, <2>1 DEF StartCall, ThreadTypes, ThreadPCs,
       THREAD_STATE_READY, THREAD_STATE_STOPPED
  <2>3. CallTypes'
    BY <1>0, <1>2, <2>1 DEF StartCall, CallTypes
  <2> QED BY <1>0, <1>2, <2>1, <2>2, <2>3, QuietParts DEF StartCall
<1>3. ASSUME NEW u \in Callers, StartReadLock(u) \/ WriteLock(u) PROVE TypeOK'
  <2>1. PcType'
    BY <1>1, <1>3 DEF StartReadLock, WriteLock, CallerPCs
  <2> QED BY <1>0, <1>3, <2>1, LocksTyped, QuietParts DEF StartReadLock, WriteLock
<1>4. ASSUME NEW u \in Callers, Scan(u) PROVE TypeOK'
  <2>1. PcType'
    BY <1>1, <1>4 DEF Scan, CallerPCs
  <2>2. CallTypes'
    BY <1>0, <1>4 DEF Scan, CallTypes
  <2> QED BY <1>0, <1>4, <2>1, <2>2, LocksTyped, QuietParts DEF Scan
<1>5. ASSUME NEW u \in Callers, Store(u) PROVE TypeOK'
  <2>1. PcType' /\ thread[u] \in Threads
    BY <1>1, <1>5 DEF Store, Goto, CallerPCs
  <2>2. ChainTypes'
    BY <1>0, <1>5, <2>1 DEF Store, ChainTypes
  <2> QED BY <1>0, <1>5, <2>1, <2>2, LocksTyped, QuietParts DEF Store
<1>6. ASSUME NEW u \in Callers, StartThread(u) PROVE TypeOK'
  <2>1. PcType' /\ thread[u] \in Threads
    BY <1>1, <1>6 DEF StartThread, Goto, CallerPCs
  <2>2. ThreadTypes'
    <3>1. /\ state' = state \/ state' = [state EXCEPT ![thread[u]] = THREAD_STATE_STARTED]
          /\ tpc' = tpc \/ tpc' = [tpc EXCEPT ![thread[u]] = "created"]
          /\ cancelled' = cancelled /\ freed' = freed
      BY <1>6 DEF StartThread
    <3>2. /\ THREAD_STATE_STARTED \in THREAD_STATE_READY .. THREAD_STATE_STOPPED
          /\ "created" \in ThreadPCs
      BY DEF THREAD_STATE_READY, THREAD_STATE_STARTED, THREAD_STATE_STOPPED, ThreadPCs
    <3> QED BY <1>0, <2>1, <3>1, <3>2, StepTyped
  <2> QED BY <1>0, <1>6, <2>1, <2>2, ReturnsTyped, QuietParts DEF StartThread
<1>7. ASSUME NEW u \in Callers, NEW a \in Activators, StopCall(u, a) PROVE TypeOK'
  <2>1. PcType'
    BY <1>1, <1>7 DEF StopCall, CallerPCs
  <2>2. CallTypes'
    BY <1>0, <1>7 DEF StopCall, CallTypes
  <2> QED BY <1>0, <1>7, <2>1, <2>2, QuietParts DEF StopCall
<1>8. ASSUME NEW u \in Callers, Find(u) PROVE TypeOK'
  <2>1. PcType'
    BY <1>1, <1>8 DEF Find, CallerPCs
  <2>2. CallTypes' /\ ChainTypes'
    BY <1>0, <1>8 DEF Find, Matches, CallTypes, ChainTypes
  <2> QED BY <1>0, <1>8, <2>1, <2>2, LocksTyped, QuietParts DEF Find
<1>9. ASSUME NEW u \in Callers, FindNothing(u) PROVE TypeOK'
  <2>1. PcType'
    BY <1>1, <1>9 DEF FindNothing, CallerPCs
  <2> QED BY <1>0, <1>9, <2>1, ReturnsTyped, QuietParts DEF FindNothing
<1>10. ASSUME NEW u \in Callers, StopThread(u) \/ StopEnds(u) PROVE TypeOK'
  <2>1. PcType' /\ thread[u] \in Threads
    BY <1>1, <1>10 DEF StopThread, StopEnds, Goto, CallerPCs
  <2>2. ThreadTypes'
    <3>1. PICK s \in {THREAD_STATE_READY, THREAD_STATE_STOP} :
            state' = state \/ state' = [state EXCEPT ![thread[u]] = s]
      BY <1>10 DEF StopThread, StopEnds
    <3>2. tpc' = tpc /\ freed' = freed /\ cancelled' \subseteq cancelled \cup {thread[u]}
      BY <1>10 DEF StopThread, StopEnds
    <3>3. s \in THREAD_STATE_READY .. THREAD_STATE_STOPPED /\ "main" \in ThreadPCs
      BY DEF THREAD_STATE_READY, THREAD_STATE_STOP, THREAD_STATE_STOPPED, ThreadPCs
    <3> QED BY <1>0, <2>1, <3>1, <3>2, <3>3, StepTyped
  <2>3. CallTypes'
    <3>1. CASE StopThread(u)
      BY <1>0, <3>1 DEF StopThread, CallTypes
    <3>2. CASE StopEnds(u)
      BY <3>2, QuietParts DEF StopEnds
    <3> QED BY <1>10, <3>1, <3>2
  <2>4. UNCHANGED <<lockVars, chainVars, made>>
    BY <1>10 DEF StopThread, StopEnds
  <2> QED BY <1>0, <2>1, <2>2, <2>3, <2>4, QuietParts
<1>11. ASSUME NEW u \in Callers, Poll(u) PROVE TypeOK'
  <2>1. CallTypes'
    BY <1>0, <1>11 DEF Poll, CallTypes
  <2> QED BY <1>0, <1>11, <2>1, QuietParts DEF Poll
<1>12. ASSUME NEW u \in Callers, Dtor(u) PROVE TypeOK'
  <2>1. PcType' /\ thread[u] \in Threads
    BY <1>1, <1>12 DEF Dtor, Goto, CallerPCs
  <2>2. ThreadTypes'
    BY <1>0, <1>12, <2>1 DEF Dtor, ThreadTypes
  <2>3. CallTypes'
    BY <1>0, <1>12, ReturnsTyped, QuietParts DEF Dtor
  <2> QED BY <1>0, <1>12, <2>1, <2>2, <2>3, QuietParts DEF Dtor
<1>13. ASSUME NEW k \in Threads, Thread(k) PROVE TypeOK'
  <2>1. ThreadTypes'
    <3>1. PICK s \in {THREAD_STATE_RUN, THREAD_STATE_STOPPED} :
            state' = state \/ state' = [state EXCEPT ![k] = s]
      BY <1>13 DEF Thread, Entry, Leave, End, Cancelled
    <3>2. PICK p \in {"main", "left", "ended"} : tpc' = [tpc EXCEPT ![k] = p]
      BY <1>13 DEF Thread, Entry, Leave, End, Cancelled, ThrGoto
    <3>3. cancelled' = cancelled /\ freed' = freed
      BY <1>13 DEF Thread, Entry, Leave, End, Cancelled
    <3>4. s \in THREAD_STATE_READY .. THREAD_STATE_STOPPED /\ p \in ThreadPCs
      BY DEF THREAD_STATE_READY, THREAD_STATE_RUN, THREAD_STATE_STOPPED, ThreadPCs
    <3> QED BY <1>0, <3>1, <3>2, <3>3, <3>4, StepTyped
  <2>2. UNCHANGED <<lockVars, chainVars, made, callVars, pc>>
    BY <1>13 DEF Thread, Entry, Leave, End, Cancelled
  <2> QED BY <1>0, <2>1, <2>2, QuietParts
<1>14. CASE UNCHANGED vars
  BY <1>0, <1>14, QuietParts DEF vars
<1> QED
  BY <1>2, <1>3, <1>4, <1>5, <1>6, <1>7, <1>8, <1>9, <1>10, <1>11, <1>12, <1>13, <1>14
  DEF Next, Call

-----------------------------------------------------------------------------
TypedChain == TypeOK /\ ChainInv

(* One step per action; steps <1>4 and <1>13 stand for what moves a caller *)
(* only, and for what changes one thread that is started.                  *)
LEMMA ChainInductive ==
  ASSUME Orderly, TypedChain, [Next]_vars
  PROVE  ChainInv'
<1> USE ChainAssumption DEF Threads, NULL
<1>1. /\ threads \in [Slots -> {NULL} \cup Threads] /\ made \in 0 .. Starts
      /\ state \in [Threads -> {0} \cup (THREAD_STATE_READY .. THREAD_STATE_STOPPED)]
      /\ tpc \in [Threads -> ThreadPCs] /\ pc \in [Callers -> CallerPCs]
      /\ thread \in [Callers -> Threads \cup {NULL}]
      /\ wanted \in [Callers -> Activators \cup {NoActivator}]
      /\ index \in [Callers -> 0 .. NTRT_MAX_THREAD_NUM]
      /\ Starts \in Nat /\ freed \subseteq Threads /\ cancelled \subseteq Threads
  BY DEF TypedChain, TypeOK
<1>2. StartInv /\ SlotInv /\ StopInv /\ LifeInv /\ WantInv
  BY DEF TypedChain, ChainInv
<1>3. ASSUME NEW u \in Callers, StartCall(u) PROVE ChainInv'
  <2>1. /\ made < Starts /\ made' = made + 1 /\ made + 1 \in Threads
        /\ pc[u] = "idle" /\ pc' = [pc EXCEPT ![u] = "rdlock"]
        /\ thread' = [thread EXCEPT ![u] = made + 1]
        /\ state' = [state EXCEPT ![made + 1] = THREAD_STATE_READY]
        /\ tpc' = [tpc EXCEPT ![made + 1] = "made"]
        /\ \A v \in Callers : ~ Starting(v)
        /\ \A v \in Callers : pc[v] \in {"stop", "find"} => wanted[v] # ActivatorOf[made + 1]
        /\ UNCHANGED <<threads, beyond, cancelled, freed, wanted, index>>
    BY <1>1, <1>3 DEF StartCall, Goto, chainVars
  <2>2. /\ pc'[u] = "rdlock" /\ thread'[u] = made + 1
        /\ \A v \in Callers : v # u => pc'[v] = pc[v] /\ thread'[v] = thread[v]
    BY <1>1, <2>1
  <2>3. /\ state'[made + 1] = THREAD_STATE_READY /\ tpc'[made + 1] = "made"
        /\ \A k \in Threads : k # made + 1 => state'[k] = state[k] /\ tpc'[k] = tpc[k]
    BY <1>1, <2>1
  <2>4. /\ Starting(u)' /\ Early(u)' /\ ~ Stopping(u)' /\ ~ Stopping(u) /\ ~ Starting(u)
        /\ \A v \in Callers : v # u => ~ Starting(v)' /\ ~ Early(v)' /\ (Stopping(v)' <=> Stopping(v))
        /\ \A v \in Callers : ~ Early(v)
    BY <2>1, <2>2 DEF Starting, Early, Stopping
  <2>5. Taken' = Taken /\ Fresh' = {made + 1}
    BY <1>1, <2>1, <2>2, <2>4 DEF Taken, Fresh
  <2>6. \A i \in Slots : threads[i] \in 0 .. made
    BY <1>1, <1>2 DEF SlotInv
  <2>7. StartInv'
    <3>1. /\ \A i \in Slots : threads'[i] # made'
          /\ made' \notin beyond'
      BY <1>1, <1>2, <2>1, <2>6 DEF SlotInv
    <3>2. \A v \in Callers : pc'[v] \notin {"wrlock", "store"}
      BY <2>2, <2>4 DEF Early
    <3> QED BY <2>1, <2>2, <2>3, <2>4, <3>1, <3>2 DEF StartInv
  <2>8. SlotInv'
    <3>1. Fresh = {}
      BY <2>4 DEF Fresh
    <3> QED BY <1>1, <1>2, <2>1, <2>5, <3>1 DEF SlotInv
  <2>9. StopInv'
    BY <1>1, <1>2, <2>1, <2>2, <2>4 DEF StopInv, SlotInv
  <2>10. LifeInv'
    <3>1. \A k \in Threads : tpc'[k] = "none" <=> k > made'
      BY <1>1, <1>2, <2>1, <2>3 DEF LifeInv
    <3>2. \A k \in 1 .. made : /\ RunsOn(k)' <=> RunsOn(k)
                               /\ Halts(k)' <=> Halts(k)
                               /\ Halted(k)' <=> Halted(k)
                               /\ tpc'[k] = tpc[k]
      BY <1>1, <2>1, <2>3 DEF RunsOn, Halts, Halted
    <3>3. \A k \in Threads : k = made + 1 => RunsOn(k)'
      <4>1. made + 1 \notin cancelled
        BY <1>1, <1>2, <2>4 DEF LifeInv, SlotInv, StopInv, Taken
      <4> QED BY <2>1, <2>3, <4>1 DEF RunsOn
    <3>4. \A v \in Callers : Stopping(v) => thread[v] \in 1 .. made
      BY <1>2 DEF StopInv
    <3>5. ASSUME NEW v \in Callers, NEW k \in Threads, thread'[v] = k
          PROVE  /\ pc'[v] = "halt" => RunsOn(k)' /\ tpc'[k] = "main"
                 /\ pc'[v] = "poll" => Halts(k)'
                 /\ pc'[v] = "dtor" => Halted(k)'
      BY <1>2, <2>2, <3>2, <3>4, <3>5 DEF LifeInv, Stopping
    <3>6. \A k \in freed' : Halted(k)'
      BY <1>2, <2>1, <3>2 DEF LifeInv, SlotInv
    <3>7. \A k \in (1 .. made') \ (freed' \cup Taken') : RunsOn(k)'
      <4>1. \A k \in 1 .. made' : k \in Threads /\ (k \in 1 .. made \/ k = made + 1)
        BY <1>1, <2>1
      <4>2. \A k \in (1 .. made) \ (freed \cup Taken) : RunsOn(k)
        BY <1>2 DEF LifeInv
      <4> QED BY <2>1, <2>5, <3>2, <3>3, <4>1, <4>2
    <3>8. cancelled' \subseteq freed' \cup Taken'
      BY <1>2, <2>1, <2>5 DEF LifeInv
    <3> QED BY <3>1, <3>5, <3>6, <3>7, <3>8 DEF LifeInv
  <2>11. WantInv'
    <3> SUFFICES ASSUME NEW v \in Callers, pc'[v] \in {"stop", "find"},
                        NEW k \in Threads, ActivatorOf[k] = wanted'[v]
                 PROVE  tpc'[k] \notin {"made", "created"}
      BY DEF WantInv
    <3>1. v # u /\ pc[v] \in {"stop", "find"} /\ wanted[v] = ActivatorOf[k]
      BY <2>1, <2>2
    <3>2. k # made + 1
      BY <2>1, <3>1
    <3> QED BY <1>2, <2>3, <3>1, <3>2 DEF WantInv
  <2> QED BY <2>7, <2>8, <2>9, <2>10, <2>11 DEF ChainInv
(* A step that moves a caller and no thread.                               *)
<1>4. ASSUME UNCHANGED <<threads, beyond, made, state, tpc, cancelled, freed, thread>>,
             \A v \in Callers : /\ Starting(v)' <=> Starting(v)
                                /\ Early(v)' <=> Early(v)
                                /\ Stopping(v)' <=> Stopping(v)
                                /\ Stopping(v) => pc'[v] = pc[v],
             \A v \in Callers : pc'[v] \in {"wrlock", "store"} /\ index'[v] \in Slots
                                  => threads[index'[v]] = NULL,
             \A v \in Callers : pc'[v] \in {"stop", "find"} =>
               \A k \in Threads : ActivatorOf[k] = wanted'[v] => tpc[k] \notin {"made", "created"}
      PROVE  ChainInv'
  <2>1. Taken' = Taken /\ Fresh' = Fresh
    BY <1>4 DEF Taken, Fresh
  <2>2. \A k \in Threads : /\ RunsOn(k)' <=> RunsOn(k)
                           /\ Halts(k)' <=> Halts(k)
                           /\ Halted(k)' <=> Halted(k)
    BY <1>4 DEF RunsOn, Halts, Halted
  <2>3. StartInv'
    BY <1>2, <1>4 DEF StartInv
  <2>4. SlotInv'
    BY <1>2, <1>4, <2>1 DEF SlotInv
  <2>5. StopInv'
    BY <1>2, <1>4 DEF StopInv
  <2>6. LifeInv'
    <3>1. \A v \in Callers : pc'[v] \in {"halt", "poll", "dtor"} => pc'[v] = pc[v]
      BY <1>4 DEF Stopping
    <3>2. (\A k \in freed : k \in Threads) /\ \A k \in 1 .. made : k \in Threads
      BY <1>1
    <3>3. \A k \in Threads : tpc'[k] = "none" <=> k > made'
      BY <1>2, <1>4 DEF LifeInv
    <3>4. \A k \in (1 .. made') \ (freed' \cup Taken') : RunsOn(k)'
      BY <1>2, <1>4, <2>1, <2>2, <3>2 DEF LifeInv
    <3>5. \A v \in Callers, k \in Threads : thread'[v] = k =>
            /\ pc'[v] = "halt" => RunsOn(k)' /\ tpc'[k] = "main"
            /\ pc'[v] = "poll" => Halts(k)'
            /\ pc'[v] = "dtor" => Halted(k)'
      BY <1>2, <1>4, <2>2, <3>1 DEF LifeInv
    <3>6. (\A k \in freed' : Halted(k)') /\ cancelled' \subseteq freed' \cup Taken'
      BY <1>2, <1>4, <2>1, <2>2, <3>2 DEF LifeInv
    <3> QED BY <3>3, <3>4, <3>5, <3>6 DEF LifeInv
  <2>7. WantInv'
    BY <1>4 DEF WantInv
  <2> QED BY <2>3, <2>4, <2>5, <2>6, <2>7 DEF ChainInv
<1>5. ASSUME NEW u \in Callers, StartReadLock(u) \/ Scan(u) PROVE ChainInv'
  <2>1. PICK from \in {"rdlock", "scan"}, to \in {"scan", "wrlock"} :
          pc[u] = from /\ pc' = [pc EXCEPT ![u] = to]
    BY <1>5 DEF StartReadLock, Scan, Goto
  <2>2. pc'[u] = to /\ \A v \in Callers : v # u => pc'[v] = pc[v]
    BY <1>1, <2>1
  <2>3. UNCHANGED <<threads, beyond, made, state, tpc, cancelled, freed, thread, wanted>>
    BY <1>5 DEF StartReadLock, Scan, threadVars, chainVars, callVars
  <2>4. \A v \in Callers : pc'[v] \in {"wrlock", "store"} /\ index'[v] \in Slots
                             => threads[index'[v]] = NULL
    <3>1. CASE StartReadLock(u)
      <4>1. pc'[u] = "scan" /\ index' = index
        BY <1>1, <3>1 DEF StartReadLock, Goto, callVars
      <4> QED BY <1>2, <2>2, <4>1 DEF StartInv
    <3>2. CASE Scan(u)
      <4>1. PICK i \in 0 .. NTRT_MAX_THREAD_NUM :
              FirstFree(i) /\ index' = [index EXCEPT ![u] = i]
        BY <3>2 DEF Scan
      <4>2. i \in Slots => threads[i] = NULL
        BY <4>1 DEF FirstFree, FreeSlots, Slots
      <4>3. index'[u] = i /\ \A v \in Callers : v # u => index'[v] = index[v]
        BY <1>1, <4>1
      <4> QED BY <1>2, <2>2, <4>2, <4>3 DEF StartInv
    <3> QED BY <1>5, <3>1, <3>2
  <2> QED BY <1>2, <1>4, <2>1, <2>2, <2>3, <2>4 DEF WantInv, Starting, Early, Stopping
<1>6. ASSUME NEW u \in Callers, WriteLock(u) PROVE ChainInv'
  <2>1. \/ pc[u] = "wrlock" /\ pc' = [pc EXCEPT ![u] = "store"]
        \/ pc[u] = "stop" /\ pc' = [pc EXCEPT ![u] = "find"]
    BY <1>6 DEF WriteLock, Goto
  <2>2. /\ \/ pc[u] = "wrlock" /\ pc'[u] = "store"
           \/ pc[u] = "stop" /\ pc'[u] = "find"
        /\ \A v \in Callers : v # u => pc'[v] = pc[v]
    <3>1. CASE pc[u] = "wrlock" /\ pc' = [pc EXCEPT ![u] = "store"]
      BY <1>1, <3>1
    <3>2. CASE pc[u] = "stop" /\ pc' = [pc EXCEPT ![u] = "find"]
      BY <1>1, <3>2
    <3> QED BY <2>1, <3>1, <3>2
  <2>3. /\ UNCHANGED <<threads, beyond, made, state, tpc, cancelled, freed, thread>>
        /\ UNCHANGED <<wanted, index>>
    BY <1>6 DEF WriteLock, threadVars, chainVars, callVars
  <2>4. \A v \in Callers : pc'[v] \in {"wrlock", "store"} /\ index'[v] \in Slots
                             => threads[index'[v]] = NULL
    BY <1>2, <2>2, <2>3 DEF StartInv
  <2>5. \A v \in Callers : pc'[v] \in {"stop", "find"} => pc[v] \in {"stop", "find"}
    BY <2>2
  <2> QED BY <1>2, <1>4, <2>2, <2>3, <2>4, <2>5 DEF WantInv, Starting, Early, Stopping
<1>7. ASSUME NEW u \in Callers, NEW a \in Activators, StopCall(u, a) PROVE ChainInv'
  <2>1. /\ pc[u] = "idle" /\ pc' = [pc EXCEPT ![u] = "stop"]
        /\ wanted' = [wanted EXCEPT ![u] = a]
        /\ \A k \in Threads : ActivatorOf[k] = a => tpc[k] \notin {"made", "created"}
        /\ UNCHANGED <<threads, beyond, made, state, tpc, cancelled, freed, thread, index>>
    BY <1>7 DEF StopCall, Goto, threadVars, chainVars
  <2>2. /\ pc'[u] = "stop" /\ wanted'[u] = a
        /\ \A v \in Callers : v # u => pc'[v] = pc[v] /\ wanted'[v] = wanted[v]
    BY <1>1, <2>1
  <2>3. \A v \in Callers : pc'[v] \in {"wrlock", "store"} /\ index'[v] \in Slots
                             => threads[index'[v]] = NULL
    BY <1>2, <2>1, <2>2 DEF StartInv
  <2>4. \A v \in Callers : pc'[v] \in {"stop", "find"} =>
          \A k \in Threads : ActivatorOf[k] = wanted'[v] => tpc[k] \notin {"made", "created"}
    BY <1>2, <2>1, <2>2 DEF WantInv
  <2> QED BY <1>4, <2>1, <2>2, <2>3, <2>4 DEF Starting, Early, Stopping
<1>8. ASSUME NEW u \in Callers, FindNothing(u) PROVE ChainInv'
  <2>1. /\ pc[u] = "find" /\ pc' = [pc EXCEPT ![u] = "idle"]
        /\ wanted' = [wanted EXCEPT ![u] = NoActivator]
        /\ thread' = [thread EXCEPT ![u] = NULL]
        /\ index' = [index EXCEPT ![u] = 0]
        /\ UNCHANGED <<threads, beyond, made, state, tpc, cancelled, freed>>
    BY <1>8 DEF FindNothing, Goto, Returns, threadVars, chainVars
  <2>2. thread' = thread
    <3>1. thread[u] = NULL
      BY <1>2, <2>1 DEF StopInv, Starting, Stopping
    <3> QED BY <1>1, <2>1, <3>1
  <2>3. /\ pc'[u] = "idle"
        /\ \A v \in Callers : v # u => /\ pc'[v] = pc[v] /\ wanted'[v] = wanted[v]
                                       /\ index'[v] = index[v]
    BY <1>1, <2>1
  <2>4. \A v \in Callers : pc'[v] \in {"wrlock", "store"} /\ index'[v] \in Slots
                             => threads[index'[v]] = NULL
    BY <1>2, <2>3 DEF StartInv
  <2>5. \A v \in Callers : pc'[v] \in {"stop", "find"} =>
          \A k \in Threads : ActivatorOf[k] = wanted'[v] => tpc[k] \notin {"made", "created"}
    BY <1>2, <2>3 DEF WantInv
  <2> QED BY <1>4, <2>1, <2>2, <2>3, <2>4, <2>5 DEF Starting, Early, Stopping
<1>9. ASSUME NEW u \in Callers, Store(u) PROVE ChainInv'
  <2>1. /\ pc[u] = "store" /\ pc' = [pc EXCEPT ![u] = "start"]
        /\ \/ /\ index[u] \in Slots /\ beyond' = beyond
              /\ threads' = [threads EXCEPT ![index[u]] = thread[u]]
           \/ threads' = threads /\ beyond' = beyond \cup {thread[u]}
        /\ UNCHANGED <<made, state, tpc, cancelled, freed, thread, index, wanted>>
    BY <1>9 DEF Store, Goto, threadVars, callVars
  <2>2. pc'[u] = "start" /\ \A v \in Callers : v # u => pc'[v] = pc[v]
    BY <1>1, <2>1
  <2>3. /\ Starting(u) /\ Early(u) /\ Starting(u)' /\ ~ Early(u)' /\ ~ Stopping(u) /\ ~ Stopping(u)'
        /\ \A v \in Callers : v # u => /\ ~ Starting(v) /\ ~ Starting(v)' /\ ~ Early(v) /\ ~ Early(v)'
                                       /\ Stopping(v)' <=> Stopping(v)
        /\ thread[u] = made
    <3>1. Starting(u) /\ Early(u) /\ Starting(u)' /\ ~ Early(u)' /\ ~ Stopping(u) /\ ~ Stopping(u)'
      BY <2>1, <2>2 DEF Starting, Early, Stopping
    <3>2. thread[u] = made /\ \A v \in Callers : v # u => ~ Starting(v)
      BY <1>2, <3>1 DEF StartInv
    <3>3. \A v \in Callers : v # u => /\ ~ Starting(v)' /\ ~ Early(v) /\ ~ Early(v)'
                                      /\ Stopping(v)' <=> Stopping(v)
      BY <2>2, <3>2 DEF Starting, Early, Stopping
    <3> QED BY <3>1, <3>2, <3>3
  <2>4. /\ made \in 1 .. made /\ made \in Threads /\ made \notin beyond
        /\ \A i \in Slots : threads[i] # made
        /\ made \notin freed /\ made \notin Taken
    <3>1. made \in 1 .. made /\ made \in Threads
      BY <1>1, <1>2, <2>3 DEF StopInv
    <3>2. made \notin beyond /\ \A i \in Slots : threads[i] # made
      BY <1>2, <2>3 DEF StartInv
    <3>3. tpc[made] = "made"
      BY <1>2, <2>3 DEF StartInv
    <3>4. made \notin freed
      BY <1>2, <3>3 DEF LifeInv, Halted
    <3>5. made \notin Taken
      <4>1. SUFFICES ASSUME NEW v \in Callers, Stopping(v), thread[v] = made PROVE FALSE
        BY DEF Taken
      <4> QED BY <1>2, <3>1, <3>3, <4>1 DEF LifeInv, Stopping, RunsOn, Halts, Halted
    <3> QED BY <3>1, <3>2, <3>4, <3>5
  <2>5. Taken' = Taken /\ Fresh = {made} /\ Fresh' = {}
    BY <2>1, <2>3, <2>4 DEF Taken, Fresh
  <2>6. /\ \A i \in Slots : threads'[i] = threads[i] \/ (threads[i] = NULL /\ threads'[i] = made)
        /\ \A i, j \in Slots : threads'[i] = made /\ threads'[j] = made => i = j
        /\ made \in beyond' \/ \E i \in Slots : threads'[i] = made
    <3>1. CASE threads' = threads /\ beyond' = beyond \cup {thread[u]}
      BY <2>3, <2>4, <3>1
    <3>2. CASE index[u] \in Slots /\ threads' = [threads EXCEPT ![index[u]] = thread[u]]
      <4>1. threads[index[u]] = NULL
        BY <1>2, <2>1, <3>2 DEF StartInv
      <4>2. /\ threads'[index[u]] = made
            /\ \A i \in Slots : i # index[u] => threads'[i] = threads[i]
        BY <1>1, <2>3, <3>2
      <4> QED BY <2>4, <3>2, <4>1, <4>2
    <3> QED BY <2>1, <3>1, <3>2
  <2>7. StartInv'
    <3>1. \A v \in Callers : pc'[v] \notin {"wrlock", "store"}
      BY <2>2, <2>3 DEF Early
    <3> QED BY <1>2, <2>1, <2>3, <3>1 DEF StartInv
  <2>8. SlotInv'
    <3>1. \A i, j \in Slots : i # j /\ threads'[i] = threads'[j] => threads'[i] = NULL
      BY <1>2, <2>4, <2>6 DEF SlotInv
    <3>2. \A i \in Slots : threads'[i] # NULL => threads'[i] \in (1 .. made') \ (freed' \cup Taken')
      BY <1>2, <2>1, <2>4, <2>5, <2>6 DEF SlotInv
    <3>3. \A k \in (1 .. made') \ (freed' \cup Taken' \cup Fresh' \cup beyond') :
            \E i \in Slots : threads'[i] = k
      <4> SUFFICES ASSUME NEW k \in (1 .. made) \ (freed \cup Taken \cup beyond'), k # made
                   PROVE  \E i \in Slots : threads'[i] = k
        BY <2>1, <2>5, <2>6
      <4>1. beyond \subseteq beyond'
        BY <2>1
      <4>2. PICK i \in Slots : threads[i] = k
        BY <1>2, <2>5, <4>1 DEF SlotInv
      <4>3. k # NULL
        BY <1>1
      <4> QED BY <2>6, <4>2, <4>3
    <3>4. freed' \subseteq 1 .. made' /\ beyond' \subseteq 1 .. made'
      BY <1>2, <2>1, <2>3, <2>4 DEF SlotInv
    <3> QED BY <3>1, <3>2, <3>3, <3>4 DEF SlotInv
  <2>9. StopInv'
    BY <1>2, <2>1, <2>3 DEF StopInv
  <2>10. LifeInv'
    <3>1. \A v \in Callers : pc'[v] \in {"halt", "poll", "dtor"} => pc'[v] = pc[v]
      BY <2>2
    <3>2. \A k \in Threads : /\ RunsOn(k)' <=> RunsOn(k)
                             /\ Halts(k)' <=> Halts(k)
                             /\ Halted(k)' <=> Halted(k)
      BY <2>1 DEF RunsOn, Halts, Halted
    <3> HIDE DEF Threads, NULL
    <3>3. freed \subseteq Threads /\ 1 .. made \subseteq Threads
      BY <1>1 DEF Threads
    <3> QED BY <1>2, <2>1, <2>5, <3>1, <3>2, <3>3 DEF LifeInv
  <2>11. WantInv'
    BY <1>2, <2>1, <2>2 DEF WantInv
  <2> QED BY <2>7, <2>8, <2>9, <2>10, <2>11 DEF ChainInv
<1>10. ASSUME NEW u \in Callers, StartThread(u) PROVE ChainInv'
  <2>1. /\ pc[u] = "start" /\ Starting(u) /\ ~ Early(u) /\ ~ Stopping(u)
        /\ thread[u] = made /\ tpc[made] = "made" /\ state[made] = THREAD_STATE_READY
        /\ made \in Threads /\ made \in 1 .. made
        /\ \A v \in Callers : v # u => ~ Starting(v)
    <3>1. pc[u] = "start" /\ Starting(u) /\ ~ Early(u) /\ ~ Stopping(u)
      BY <1>10 DEF StartThread, Goto, Starting, Early, Stopping
    <3>2. thread[u] = made /\ thread[u] \in 1 .. made
      BY <1>2, <3>1 DEF StartInv, StopInv
    <3> QED BY <1>1, <1>2, <3>1, <3>2 DEF StartInv
  <2>2. /\ pc' = [pc EXCEPT ![u] = "idle"]
        /\ state' = [state EXCEPT ![made] = THREAD_STATE_STARTED]
        /\ tpc' = [tpc EXCEPT ![made] = "created"]
        /\ thread' = [thread EXCEPT ![u] = NULL]
        /\ wanted' = [wanted EXCEPT ![u] = NoActivator]
        /\ index' = [index EXCEPT ![u] = 0]
        /\ UNCHANGED <<threads, beyond, made, cancelled, freed>>
    BY <1>10, <2>1 DEF StartThread, Goto, Returns, chainVars
  <2>3. /\ pc'[u] = "idle" /\ thread'[u] = NULL
        /\ \A v \in Callers : v # u => /\ pc'[v] = pc[v] /\ thread'[v] = thread[v]
                                       /\ wanted'[v] = wanted[v]
    BY <1>1, <2>2
  <2>4. /\ tpc'[made] = "created"
        /\ \A k \in Threads : k # made => tpc'[k] = tpc[k] /\ state'[k] = state[k]
    BY <1>1, <2>1, <2>2
  <2>5. \A v \in Callers : /\ ~ Starting(v)' /\ ~ Early(v)' /\ ~ Early(v)
                           /\ Stopping(v)' <=> Stopping(v)
    BY <2>1, <2>3 DEF Starting, Early, Stopping
  <2>6. Taken' = Taken /\ Fresh' = {} /\ Fresh = {}
    BY <2>1, <2>3, <2>5 DEF Taken, Fresh
  <2>7. \A v \in Callers : Stopping(v) => thread[v] # made
    BY <1>2, <2>1 DEF LifeInv, Stopping, RunsOn, Halts, Halted
  <2>8. StartInv'
    <3>1. \A v \in Callers : pc'[v] \notin {"wrlock", "store"}
      BY <2>5 DEF Early
    <3> QED BY <2>5, <3>1 DEF StartInv
  <2>9. SlotInv'
    BY <1>2, <2>2, <2>6 DEF SlotInv
  <2>10. StopInv'
    BY <1>2, <2>1, <2>2, <2>3, <2>5 DEF StopInv
  <2>11. LifeInv'
    <3>1. \A k \in Threads : tpc'[k] = "none" <=> k > made'
      BY <1>1, <1>2, <2>1, <2>2, <2>4 DEF LifeInv
    <3>2. \A k \in Threads : k # made => /\ RunsOn(k)' <=> RunsOn(k)
                                         /\ Halts(k)' <=> Halts(k)
                                         /\ Halted(k)' <=> Halted(k)
      BY <2>2, <2>4 DEF RunsOn, Halts, Halted
    <3>3. made \notin freed /\ made \notin Taken
      BY <1>2, <2>1, <2>7 DEF LifeInv, Halted, Taken
    <3>4. \A k \in Threads : k = made => RunsOn(k)'
      BY <1>2, <2>2, <2>4, <3>3 DEF LifeInv, RunsOn
    <3>5. \A v \in Callers, k \in Threads : thread'[v] = k =>
            /\ pc'[v] = "halt" => RunsOn(k)' /\ tpc'[k] = "main"
            /\ pc'[v] = "poll" => Halts(k)'
            /\ pc'[v] = "dtor" => Halted(k)'
      BY <1>2, <2>3, <2>4, <2>7, <3>2 DEF LifeInv, Stopping
    <3> HIDE DEF Threads, NULL
    <3>6. freed \subseteq Threads /\ 1 .. made \subseteq Threads
      BY <1>1 DEF Threads
    <3> QED BY <1>2, <2>2, <2>6, <3>1, <3>2, <3>3, <3>4, <3>5, <3>6 DEF LifeInv
  <2>12. WantInv'
    <3> SUFFICES ASSUME NEW v \in Callers, pc'[v] \in {"stop", "find"},
                        NEW k \in Threads, ActivatorOf[k] = wanted'[v]
                 PROVE  tpc'[k] \notin {"made", "created"}
      BY DEF WantInv
    <3>1. v # u /\ pc[v] \in {"stop", "find"} /\ wanted[v] = ActivatorOf[k]
      BY <2>3
    <3>2. tpc[k] \notin {"made", "created"}
      BY <1>2, <3>1 DEF WantInv
    <3> QED BY <2>1, <2>4, <3>2
  <2> QED BY <2>8, <2>9, <2>10, <2>11, <2>12 DEF ChainInv
<1>11. ASSUME NEW u \in Callers, Find(u) PROVE ChainInv'
  <2>1. PICK i \in Matches(wanted[u]) : /\ thread' = [thread EXCEPT ![u] = threads[i]]
                                        /\ threads' = [threads EXCEPT ![i] = NULL]
    BY <1>11 DEF Find
  <2>2. /\ pc[u] = "find" /\ pc' = [pc EXCEPT ![u] = "halt"]
        /\ UNCHANGED <<beyond, made, state, tpc, cancelled, freed, wanted, index>>
    BY <1>11 DEF Find, Goto, threadVars
  <2>3. PICK n \in (1 .. made) \ (freed \cup Taken) :
          i \in Slots /\ threads[i] = n /\ ActivatorOf[n] = wanted[u]
    BY <1>2, <2>1 DEF Matches, SlotInv
  <2>4. n \in Threads /\ n # NULL /\ RunsOn(n) /\ tpc[n] = "main"
    BY <1>1, <1>2, <2>2, <2>3 DEF LifeInv, WantInv, RunsOn
  <2>5. /\ pc'[u] = "halt" /\ thread'[u] = n
        /\ \A v \in Callers : v # u => pc'[v] = pc[v] /\ thread'[v] = thread[v]
        /\ threads'[i] = NULL /\ \A j \in Slots : j # i => threads'[j] = threads[j] /\ threads[j] # n
    BY <1>1, <1>2, <2>1, <2>2, <2>3, <2>4 DEF SlotInv
  <2>6. /\ ~ Starting(u) /\ ~ Early(u) /\ ~ Stopping(u)
        /\ ~ Starting(u)' /\ ~ Early(u)' /\ Stopping(u)'
        /\ \A v \in Callers : v # u => /\ Starting(v)' <=> Starting(v)
                                       /\ Early(v)' <=> Early(v)
                                       /\ Stopping(v)' <=> Stopping(v)
    BY <2>2, <2>5 DEF Starting, Early, Stopping
  <2>7. Taken' = Taken \cup {n} /\ Fresh' = Fresh
    BY <2>4, <2>5, <2>6 DEF Taken, Fresh
  <2>8. StartInv'
    <3>1. \A j \in Slots : threads'[j] = threads[j] \/ threads'[j] = NULL
      BY <2>5
    <3>2. \A v \in Callers : Starting(v)' => v # u /\ Starting(v) /\ thread'[v] = made /\ made \in 1 .. made
      BY <1>2, <2>5, <2>6 DEF StartInv, StopInv
    <3>3. \A v \in Callers : pc'[v] \in {"wrlock", "store"} => pc[v] \in {"wrlock", "store"}
      BY <2>5
    <3>4. \A v \in Callers : Early(v)' => Early(v) /\ Starting(v)'
      BY <2>6 DEF Early, Starting
    <3>5. \A v \in Callers : Early(v)' => \A j \in Slots : threads'[j] # made
      BY <1>1, <1>2, <3>1, <3>2, <3>4 DEF StartInv
    <3>6. \A v \in Callers : pc'[v] \in {"wrlock", "store"} /\ index[v] \in Slots
                               => threads'[index[v]] = NULL
      BY <1>2, <3>1, <3>3 DEF StartInv
    <3> QED BY <1>2, <2>2, <3>2, <3>4, <3>5, <3>6 DEF StartInv
  <2>9. SlotInv'
    <3>1. \A j \in Slots : threads'[j] # NULL =>
            threads'[j] \in (1 .. made') \ (freed' \cup Taken')
      BY <1>2, <2>2, <2>5, <2>7 DEF SlotInv
    <3>2. \A j, m \in Slots : j # m /\ threads'[j] = threads'[m] => threads'[j] = NULL
      BY <1>2, <2>5 DEF SlotInv
    <3>3. \A k \in (1 .. made') \ (freed' \cup Taken' \cup Fresh' \cup beyond') :
            \E j \in Slots : threads'[j] = k
      <4> SUFFICES ASSUME NEW k \in (1 .. made) \ (freed \cup Taken \cup Fresh \cup beyond), k # n
                   PROVE  \E j \in Slots : threads'[j] = k
        BY <2>2, <2>7
      <4>1. PICK j \in Slots : threads[j] = k
        BY <1>2 DEF SlotInv
      <4> QED BY <2>3, <2>5, <4>1
    <3> QED BY <1>2, <2>2, <3>1, <3>2, <3>3 DEF SlotInv
  <2>10. StopInv'
    <3>1. \A v \in Callers : v # u /\ Stopping(v) => thread[v] # n
      BY <2>3, <2>4 DEF Taken
    <3> QED BY <1>2, <2>2, <2>3, <2>5, <2>6, <3>1 DEF StopInv
  <2>11. LifeInv'
    <3>1. \A k \in Threads : /\ RunsOn(k)' <=> RunsOn(k)
                             /\ Halts(k)' <=> Halts(k)
                             /\ Halted(k)' <=> Halted(k)
      BY <2>2 DEF RunsOn, Halts, Halted
    <3>2. \A v \in Callers, k \in Threads : thread'[v] = k =>
            /\ pc'[v] = "halt" => RunsOn(k)' /\ tpc'[k] = "main"
            /\ pc'[v] = "poll" => Halts(k)'
            /\ pc'[v] = "dtor" => Halted(k)'
      BY <1>2, <2>2, <2>4, <2>5, <3>1 DEF LifeInv
    <3> HIDE DEF Threads, NULL
    <3>3. freed \subseteq Threads /\ 1 .. made \subseteq Threads
      BY <1>1 DEF Threads
    <3> QED BY <1>2, <2>2, <2>7, <3>1, <3>2, <3>3 DEF LifeInv
  <2>12. WantInv'
    BY <1>2, <2>2, <2>5 DEF WantInv
  <2> QED BY <2>8, <2>9, <2>10, <2>11, <2>12 DEF ChainInv
<1>12. ASSUME NEW u \in Callers, Poll(u) PROVE ChainInv'
  <2>1. UNCHANGED <<threads, beyond, made, state, tpc, cancelled, freed, pc, wanted, thread, index>>
    BY <1>12 DEF Poll, threadVars, chainVars
  <2> QED BY <1>2, <1>4, <2>1 DEF StartInv, WantInv, Starting, Early, Stopping
(* A step that changes thread k, started before, and the STOP of k.        *)
<1>13. ASSUME NEW k \in Threads, tpc[k] \notin {"none", "made"},
              tpc'[k] # "none", tpc'[k] = tpc[k] \/ tpc'[k] \notin {"made", "created"},
              UNCHANGED <<threads, beyond, made, freed, thread, wanted, index>>,
              \A m \in Threads : m # k => state'[m] = state[m] /\ tpc'[m] = tpc[m],
              cancelled \subseteq cancelled', cancelled' \subseteq cancelled \cup {k},
              k \in cancelled' => k \in freed \cup Taken,
              \A v \in Callers : pc'[v] = pc[v] \/ (Stopping(v) /\ Stopping(v)'),
              \A v \in Callers : thread[v] # k => pc'[v] = pc[v],
              k \in (1 .. made) \ (freed \cup Taken) => RunsOn(k)',
              k \in freed => Halted(k)',
              \A v \in Callers : thread[v] = k =>
                /\ pc'[v] = "halt" => RunsOn(k)' /\ tpc'[k] = "main"
                /\ pc'[v] = "poll" => Halts(k)'
                /\ pc'[v] = "dtor" => Halted(k)'
       PROVE  ChainInv'
  <2>1. \A v \in Callers : /\ Starting(v)' <=> Starting(v)
                           /\ Early(v)' <=> Early(v)
                           /\ Stopping(v)' <=> Stopping(v)
                           /\ pc'[v] \in {"wrlock", "store", "stop", "find"} => pc'[v] = pc[v]
    BY <1>13 DEF Starting, Early, Stopping
  <2>2. Taken' = Taken /\ Fresh' = Fresh
    BY <1>13, <2>1 DEF Taken, Fresh
  <2>3. StartInv'
    <3>1. \A v \in Callers : Starting(v)' => /\ thread'[v] = made' /\ made \in Threads /\ made # k
                                             /\ tpc'[made] = "made" /\ state'[made] = THREAD_STATE_READY
      BY <1>1, <1>2, <1>13, <2>1 DEF StartInv, StopInv
    <3>2. \A v \in Callers : Early(v)' => made' \notin beyond' /\ \A i \in Slots : threads'[i] # made'
      BY <1>2, <1>13, <2>1 DEF StartInv
    <3>3. \A v \in Callers : pc'[v] \in {"wrlock", "store"} /\ index'[v] \in Slots
                               => threads'[index'[v]] = NULL
      BY <1>2, <1>13, <2>1 DEF StartInv
    <3>4. \A v, w \in Callers : Starting(v)' /\ Starting(w)' => v = w
      BY <1>2, <2>1 DEF StartInv
    <3> QED BY <1>13, <3>1, <3>2, <3>3, <3>4 DEF StartInv
  <2>4. SlotInv'
    BY <1>2, <1>13, <2>2 DEF SlotInv
  <2>5. StopInv'
    BY <1>2, <1>13, <2>1 DEF StopInv
  <2>6. LifeInv'
    <3>1. \A m \in Threads : tpc'[m] = "none" <=> m > made'
      BY <1>2, <1>13 DEF LifeInv
    <3>2. \A m \in Threads : m # k => /\ RunsOn(m)' <=> RunsOn(m)
                                      /\ Halts(m)' <=> Halts(m)
                                      /\ Halted(m)' <=> Halted(m)
                                      /\ tpc'[m] = tpc[m]
      BY <1>13 DEF RunsOn, Halts, Halted
    <3> HIDE DEF Threads, NULL
    <3>3. freed \subseteq Threads /\ 1 .. made \subseteq Threads
      BY <1>1 DEF Threads
    <3>4. \A m \in (1 .. made') \ (freed' \cup Taken') : RunsOn(m)'
      BY <1>2, <1>13, <2>2, <3>2, <3>3 DEF LifeInv
    <3>5. \A v \in Callers, m \in Threads : thread'[v] = m =>
            /\ pc'[v] = "halt" => RunsOn(m)' /\ tpc'[m] = "main"
            /\ pc'[v] = "poll" => Halts(m)'
            /\ pc'[v] = "dtor" => Halted(m)'
      <4> SUFFICES ASSUME NEW v \in Callers, NEW m \in Threads, thread[v] = m
                   PROVE  /\ pc'[v] = "halt" => RunsOn(m)' /\ tpc'[m] = "main"
                          /\ pc'[v] = "poll" => Halts(m)'
                          /\ pc'[v] = "dtor" => Halted(m)'
        BY <1>13
      <4>1. CASE m = k
        BY <1>13, <4>1
      <4>2. CASE m # k
        BY <1>2, <1>13, <3>2, <4>2 DEF LifeInv
      <4> QED BY <4>1, <4>2
    <3>6. \A m \in freed' : Halted(m)'
      BY <1>2, <1>13, <3>2, <3>3 DEF LifeInv
    <3>7. cancelled' \subseteq freed' \cup Taken'
      BY <1>2, <1>13, <2>2 DEF LifeInv
    <3> QED BY <3>1, <3>4, <3>5, <3>6, <3>7 DEF LifeInv
  <2>7. WantInv'
    BY <1>2, <1>13, <2>1 DEF WantInv
  <2> QED BY <2>3, <2>4, <2>5, <2>6, <2>7 DEF ChainInv
<1>14. ASSUME NEW u \in Callers, Stopping(u)
       PROVE  /\ thread[u] \in (1 .. made) /\ thread[u] \in Threads
              /\ thread[u] \in Taken /\ thread[u] \notin freed
              /\ tpc[thread[u]] \in {"main", "left", "ended"}
              /\ \A v \in Callers : thread[v] = thread[u] => v = u
  <2>1. thread[u] \in (1 .. made) /\ thread[u] \notin freed /\ thread[u] \in Threads
    BY <1>1, <1>2, <1>14 DEF StopInv
  <2>2. thread[u] \in Taken
    BY <1>14, <2>1 DEF Taken
  <2>3. tpc[thread[u]] \in {"main", "left", "ended"}
    BY <1>2, <1>14, <2>1 DEF LifeInv, Stopping, RunsOn, Halts, Halted
  <2>4. ASSUME NEW v \in Callers, thread[v] = thread[u] PROVE v = u
    <3>1. CASE Starting(v)
      BY <1>2, <2>3, <2>4, <3>1 DEF StartInv
    <3>2. CASE Stopping(v)
      BY <1>2, <1>14, <2>4, <3>2 DEF StopInv
    <3>3. CASE ~ Starting(v) /\ ~ Stopping(v)
      BY <1>2, <2>1, <2>4, <3>3 DEF StopInv
    <3> QED BY <3>1, <3>2, <3>3
  <2> QED BY <2>1, <2>2, <2>3, <2>4
<1>15. ASSUME NEW u \in Callers, StopThread(u) PROVE ChainInv'
  <2>1. pc[u] = "halt" /\ Stopping(u)
    BY <1>15 DEF StopThread, Stopping
  <2>2. RunsOn(thread[u]) /\ tpc[thread[u]] = "main" /\ state[thread[u]] = THREAD_STATE_RUN
    BY <1>2, <1>14, <2>1 DEF LifeInv, RunsOn
  <2>3. /\ pc' = [pc EXCEPT ![u] = "poll"]
        /\ state' = [state EXCEPT ![thread[u]] = THREAD_STATE_STOP]
        /\ UNCHANGED <<threads, beyond, made, tpc, cancelled, freed, wanted, thread, index>>
    BY <1>15, <2>2 DEF StopThread, Goto, chainVars
  <2>4. /\ pc'[u] = "poll" /\ Stopping(u)' /\ \A v \in Callers : v # u => pc'[v] = pc[v]
        /\ state'[thread[u]] = THREAD_STATE_STOP
        /\ \A m \in Threads : m # thread[u] => state'[m] = state[m]
    BY <1>1, <1>14, <2>1, <2>3 DEF Stopping
  <2>5. Halts(thread[u])'
    BY <2>2, <2>3, <2>4 DEF Halts, RunsOn, THREAD_STATE_STOP, THREAD_STATE_STOPPED
  <2> HIDE DEF Threads, NULL
  <2>6. PICK k \in Threads : k = thread[u]
    BY <1>14, <2>1
  <2>7. k \in Taken /\ k \notin freed /\ \A v \in Callers : thread[v] = k => v = u
    BY <1>14, <2>1, <2>6
  <2>8. Halts(k)' /\ tpc[k] = "main" /\ \A m \in Threads : m # k => state'[m] = state[m]
    BY <2>2, <2>3, <2>4, <2>6
    DEF Halts, RunsOn, THREAD_STATE_STOP, THREAD_STATE_STOPPED
  <2>9. /\ \A v \in Callers : thread[v] = k => pc'[v] = "poll"
        /\ \A v \in Callers : thread[v] # k => pc'[v] = pc[v]
        /\ \A v \in Callers : pc'[v] = pc[v] \/ (Stopping(v) /\ Stopping(v)')
    BY <2>1, <2>4, <2>6, <2>7
  <2>10. /\ UNCHANGED <<threads, beyond, made, freed, thread, wanted, index>>
         /\ cancelled' = cancelled /\ tpc' = tpc /\ k \notin cancelled
    BY <2>2, <2>3, <2>6 DEF RunsOn
  <2> QED BY <1>13, <2>7, <2>8, <2>9, <2>10
<1>16. ASSUME NEW u \in Callers, StopEnds(u) PROVE ChainInv'
  <2>1. pc[u] = "poll" /\ Stopping(u)
    BY <1>16 DEF StopEnds, Goto, Stopping
  <2>2. Halts(thread[u])
    BY <1>2, <1>14, <2>1 DEF LifeInv
  <2>3. /\ pc' = [pc EXCEPT ![u] = "dtor"]
        /\ state' = [state EXCEPT ![thread[u]] = THREAD_STATE_READY]
        /\ \/ cancelled' = cancelled \cup {thread[u]}
           \/ state[thread[u]] = THREAD_STATE_STOPPED /\ cancelled' = cancelled
        /\ UNCHANGED <<threads, beyond, made, tpc, freed, wanted, thread, index>>
    BY <1>16 DEF StopEnds, Goto, chainVars, callVars
  <2>4. /\ pc'[u] = "dtor" /\ Stopping(u)' /\ \A v \in Callers : v # u => pc'[v] = pc[v]
        /\ state'[thread[u]] = THREAD_STATE_READY
        /\ \A m \in Threads : m # thread[u] => state'[m] = state[m]
    BY <1>1, <1>14, <2>1, <2>3 DEF Stopping
  <2> HIDE DEF Threads, NULL
  <2>5. PICK k \in Threads : k = thread[u]
    BY <1>14, <2>1
  <2>6. /\ k \in Taken /\ k \in 1 .. made /\ k \notin freed
        /\ tpc[k] \in {"main", "left", "ended"}
        /\ \A v \in Callers : thread[v] = k => v = u
    BY <1>14, <2>1, <2>5
  <2>7. Halted(k)' /\ \A m \in Threads : m # k => state'[m] = state[m]
    BY <2>2, <2>3, <2>4, <2>5
    DEF Halts, Halted, THREAD_STATE_READY, THREAD_STATE_RUN
  <2>8. /\ \A v \in Callers : thread[v] = k => pc'[v] = "dtor"
        /\ \A v \in Callers : thread[v] # k => pc'[v] = pc[v]
        /\ \A v \in Callers : pc'[v] = pc[v] \/ (Stopping(v) /\ Stopping(v)')
    BY <2>1, <2>4, <2>5, <2>6
  <2>9. cancelled \subseteq cancelled' /\ cancelled' \subseteq cancelled \cup {k}
    BY <2>3, <2>5
  <2> QED BY <1>13, <2>3, <2>6, <2>7, <2>8, <2>9
<1>17. ASSUME NEW u \in Callers, Dtor(u) PROVE ChainInv'
  <2>1. pc[u] = "dtor" /\ Stopping(u) /\ ~ Starting(u) /\ ~ Early(u)
    BY <1>17 DEF Dtor, Goto, Stopping, Starting, Early
  <2>2. PICK k \in Threads : k = thread[u]
    BY <1>14, <2>1
  <2>3. /\ k \in Taken /\ k \in 1 .. made /\ k \notin freed /\ k # NULL
        /\ \A v \in Callers : thread[v] = k => v = u
        /\ Halted(k)
    <3>1. k \in Taken /\ k \in 1 .. made /\ k \notin freed /\ \A v \in Callers : thread[v] = k => v = u
      BY <1>14, <2>1, <2>2
    <3>2. Halted(k)
      BY <1>2, <2>1, <2>2 DEF LifeInv
    <3> QED BY <3>1, <3>2
  <2>4. /\ pc' = [pc EXCEPT ![u] = "idle"] /\ freed' = freed \cup {k}
        /\ thread' = [thread EXCEPT ![u] = NULL]
        /\ wanted' = [wanted EXCEPT ![u] = NoActivator]
        /\ index' = [index EXCEPT ![u] = 0]
        /\ UNCHANGED <<threads, beyond, made, state, tpc, cancelled>>
    BY <1>17, <2>2, <2>3 DEF Dtor, Goto, Returns, chainVars, Halted
  <2>5. /\ pc'[u] = "idle" /\ thread'[u] = NULL
        /\ \A v \in Callers : v # u => /\ pc'[v] = pc[v] /\ thread'[v] = thread[v]
                                       /\ wanted'[v] = wanted[v] /\ index'[v] = index[v]
    BY <1>1, <2>4
  <2>6. /\ ~ Starting(u)' /\ ~ Early(u)' /\ ~ Stopping(u)'
        /\ \A v \in Callers : v # u => /\ Starting(v)' <=> Starting(v)
                                       /\ Early(v)' <=> Early(v)
                                       /\ Stopping(v)' <=> Stopping(v)
    BY <2>5 DEF Starting, Early, Stopping
  <2>7. Taken' = Taken \ {k} /\ Fresh' = Fresh
    BY <2>1, <2>2, <2>3, <2>5, <2>6 DEF Taken, Fresh
  <2>8. freed' \cup Taken' = freed \cup Taken
    BY <2>3, <2>4, <2>7
  <2>9. StartInv'
    <3>1. \A v \in Callers : pc'[v] \in {"wrlock", "store"} => v # u /\ pc[v] = pc'[v]
      BY <2>5
    <3> QED BY <1>2, <2>4, <2>5, <2>6, <3>1 DEF StartInv
  <2>10. SlotInv'
    BY <1>2, <2>3, <2>4, <2>7, <2>8 DEF SlotInv
  <2>11. StopInv'
    <3>1. \A v \in Callers : Stopping(v)' => v # u /\ thread[v] # k
      BY <2>3, <2>6
    <3> QED BY <1>2, <2>4, <2>5, <2>6, <3>1 DEF StopInv
  <2>12. LifeInv'
    <3>1. \A m \in Threads : /\ RunsOn(m)' <=> RunsOn(m)
                             /\ Halts(m)' <=> Halts(m)
                             /\ Halted(m)' <=> Halted(m)
      BY <2>4 DEF RunsOn, Halts, Halted
    <3> HIDE DEF Threads, NULL
    <3>2. freed \subseteq Threads /\ 1 .. made \subseteq Threads
      BY <1>1 DEF Threads
    <3>3. \A v \in Callers, m \in Threads : thread'[v] = m =>
            /\ pc'[v] = "halt" => RunsOn(m)' /\ tpc'[m] = "main"
            /\ pc'[v] = "poll" => Halts(m)'
            /\ pc'[v] = "dtor" => Halted(m)'
      BY <1>2, <2>4, <2>5, <3>1 DEF LifeInv
    <3> QED BY <1>2, <2>3, <2>4, <2>8, <3>1, <3>2, <3>3 DEF LifeInv
  <2>13. WantInv'
    BY <1>2, <2>4, <2>5 DEF WantInv
  <2> QED BY <2>9, <2>10, <2>11, <2>12, <2>13 DEF ChainInv
<1>18. ASSUME NEW k \in Threads, Thread(k) PROVE ChainInv'
  <2>1. /\ UNCHANGED <<threads, beyond, made, freed, cancelled, thread, wanted, index, pc>>
        /\ \A m \in Threads : m # k => state'[m] = state[m] /\ tpc'[m] = tpc[m]
        /\ \/ tpc[k] = "created" /\ tpc'[k] = "main" /\ state'[k] = THREAD_STATE_RUN
           \/ tpc[k] = "main" /\ tpc'[k] = "left" /\ state'[k] = state[k]
              /\ state[k] # THREAD_STATE_RUN
           \/ tpc[k] = "left" /\ tpc'[k] = "ended" /\ state'[k] = THREAD_STATE_STOPPED
           \/ tpc[k] = "main" /\ tpc'[k] = "ended" /\ state'[k] = state[k] /\ k \in cancelled
    BY <1>1, <1>18
    DEF Thread, Entry, Leave, End, Cancelled, ThrGoto, chainVars, callVars
  <2>2. tpc[k] \notin {"none", "made"} /\ tpc'[k] \notin {"none", "made", "created"}
    BY <2>1
  <2>3. RunsOn(k) => RunsOn(k)' /\ (tpc[k] = "main" => tpc'[k] = "main")
    BY <2>1 DEF RunsOn
  <2>4. Halts(k) => Halts(k)'
    BY <2>1 DEF Halts, THREAD_STATE_STOPPED
  <2>5. Halted(k) => Halted(k)'
    BY <2>1 DEF Halted, THREAD_STATE_RUN, THREAD_STATE_STOPPED
  <2> HIDE DEF Threads, NULL
  <2>6. /\ k \in (1 .. made) \ (freed \cup Taken) => RunsOn(k)
        /\ k \in freed => Halted(k)
        /\ k \in cancelled => k \in freed \cup Taken
        /\ \A v \in Callers : thread[v] = k =>
             /\ pc[v] = "halt" => RunsOn(k) /\ tpc[k] = "main"
             /\ pc[v] = "poll" => Halts(k)
             /\ pc[v] = "dtor" => Halted(k)
    BY <1>2 DEF LifeInv
  <2> QED BY <1>13, <2>1, <2>2, <2>3, <2>4, <2>5, <2>6
<1>19. CASE UNCHANGED vars
  <2>1. UNCHANGED <<threads, beyond, made, state, tpc, cancelled, freed, pc, wanted, thread, index>>
    BY <1>19 DEF vars, threadVars, chainVars, callVars
  <2> QED BY <1>2, <1>4, <2>1 DEF StartInv, WantInv, Starting, Early, Stopping
<1> QED
  BY <1>3, <1>5, <1>6, <1>7, <1>8, <1>9, <1>10, <1>11, <1>12, <1>15, <1>16, <1>17, <1>18, <1>19
  DEF Next, Call

(* What the properties need from the start on.                             *)
LEMMA ChainInvariant ==
  ASSUME Orderly
  PROVE  Spec => []TypedChain
<1> USE ChainAssumption
<1>1. Init => TypedChain
  <2> SUFFICES ASSUME Init PROVE TypedChain
    OBVIOUS
  <2>1. TypeOK
    BY DEF Init, TypeOK, Threads, Slots, NULL, ThreadPCs, CallerPCs,
       THREAD_STATE_READY, THREAD_STATE_STOPPED
  <2>2. /\ \A u \in Callers : ~ Starting(u) /\ ~ Early(u) /\ ~ Stopping(u) /\ thread[u] = NULL
        /\ \A u \in Callers : pc[u] = "idle"
        /\ made = 0 /\ freed = {} /\ cancelled = {} /\ beyond = {}
        /\ \A i \in Slots : threads[i] = NULL
        /\ \A k \in Threads : tpc[k] = "none" /\ k > made
        /\ 1 .. made = {}
    BY DEF Init, Starting, Early, Stopping, Threads
  <2>3. Taken = {} /\ Fresh = {}
    BY <2>2 DEF Taken, Fresh
  <2>4. StartInv /\ StopInv /\ WantInv
    BY <2>2 DEF StartInv, StopInv, WantInv
  <2>5. SlotInv /\ LifeInv
    BY <2>2, <2>3 DEF SlotInv, LifeInv
  <2> QED BY <2>1, <2>4, <2>5 DEF TypedChain, ChainInv
<1>2. ASSUME TypedChain, [Next]_vars PROVE TypedChain'
  <2>1. InUse
    BY <1>2 DEF TypedChain, ChainInv, StopInv, InUse, TypeOK, Threads
  <2> QED BY <1>2, <2>1, TypesInductive, ChainInductive DEF TypedChain
<1> QED BY <1>1, <1>2, PTL DEF Spec

-----------------------------------------------------------------------------
(* The type invariant, in which every slot, START and STOP has a thread    *)
(* that was made: that needs the whole of ChainInv.                        *)
THEOREM TypeCorrect ==
  ASSUME Orderly
  PROVE  Spec => []TypeOK
<1>1. TypedChain => TypeOK
  BY DEF TypedChain
<1> QED BY <1>1, ChainInvariant, PTL

(* However STARTs and STOPs of any number of callers alternate: a thread   *)
(* that START has stored within the array stays in exactly one slot until  *)
(* a STOP takes it out, and no slot holds a thread that is destroyed.      *)
THEOREM AlwaysKeptOnce ==
  ASSUME Orderly
  PROVE  Spec => []KeptOnce
<1>1. TypedChain => KeptOnce
  <2> SUFFICES ASSUME TypedChain PROVE KeptOnce
    OBVIOUS
  <2> USE ChainAssumption
  <2>1. /\ SlotInv /\ StartInv /\ StopInv /\ made \in 0 .. Starts
        /\ thread \in [Callers -> Threads \cup {NULL}]
    BY DEF TypedChain, ChainInv, TypeOK
  <2>2. 1 .. made \subseteq Threads
    BY <2>1 DEF Threads
  <2>3. \A k \in 1 .. made : k \in Disposed <=> k \in freed \cup Taken
    BY <2>2 DEF Disposed, Taken
  <2>4. \A k \in 1 .. made : k \in Kept <=> k \notin freed \cup Taken \cup Fresh
    BY <2>2, <2>3 DEF Kept, Fresh, Early
  <2>5. Kept \subseteq 1 .. made
    BY DEF Kept
  <2>6. \A i \in Slots : threads[i] \notin Fresh
    BY <2>1 DEF StartInv, Fresh, Early, Starting
  <2> QED BY <2>1, <2>4, <2>5, <2>6 DEF KeptOnce, SlotInv
<1> QED BY <1>1, ChainInvariant, PTL

(* However many callers STOP at the same time, no thread and component are *)
(* destroyed twice or by two of them.                                      *)
THEOREM NeverDisposedTwice ==
  ASSUME Orderly
  PROVE  Spec => []DisposedOnce
<1>1. TypedChain => DisposedOnce
  BY DEF TypedChain, ChainInv, StopInv, DisposedOnce
<1> QED BY <1>1, ChainInvariant, PTL

(* A thread whose thread_t and component are freed has ended or has been   *)
(* cancelled, whatever the number of polls.                                *)
THEOREM AlwaysFreedAfterUse ==
  ASSUME Orderly
  PROVE  Spec => []FreedAfterUse
<1>1. TypedChain => FreedAfterUse
  BY DEF TypedChain, ChainInv, LifeInv, Halted, FreedAfterUse
<1> QED BY <1>1, ChainInvariant, PTL
=============================================================================

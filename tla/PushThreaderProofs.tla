------------------------- MODULE PushThreaderProofs -------------------------
(***************************************************************************)
(* Theorems about PushThreader for callers that are Orderly, with any      *)
(* number of lives, clients, items, polls and spurious wakeups.            *)
(***************************************************************************)
EXTENDS PushThreader, FiniteSetTheorems, TLAPS

(* The lives of the component follow each other: there is at most one      *)
(* component, made by the last START together with its thread; of all      *)
(* other threads those that were not cancelled have ended.                 *)
LifeInv ==
  /\ cmp = thr
  /\ cmp \in {NULL, started}
  /\ ctl # "idle" => cmp # NULL
  /\ freed \subseteq 1 .. started /\ cmp \notin freed
  /\ \A u \in Clients : cpc[u] # "idle" => this[u] \in Components
  /\ \A k \in Threads : k <= started => arg[k] = k
  /\ \A k \in Threads : k > started => tpc[k] = "none" /\ arg[k] = NULL
  /\ \A k \in Threads : state[k] = THREAD_STATE_STOPPED => tpc[k] = "ended"
  /\ \A k \in Threads :
       /\ k <= started /\ k \notin cancelled
       /\ k # cmp \/ ctl = "dtor"
       => tpc[k] = "ended"

TypedLife == TypeOK /\ LifeInv

-----------------------------------------------------------------------------
(* TypeOK in the groups of variables that the actions change.              *)
ThreadTypes ==
  /\ state \in [Threads -> {0} \cup (THREAD_STATE_READY .. THREAD_STATE_STOPPED)]
  /\ arg \in [Threads -> Components \cup {NULL}]
  /\ tpc \in [Threads -> ThreadPCs]
  /\ cancelled \subseteq Threads
WaitTypes == sleepers \subseteq Threads /\ spurious \in 0 .. MaxSpurious
CtlTypes ==
  /\ cmp \in Components \cup {NULL} /\ thr \in Threads \cup {NULL}
  /\ started \in 0 .. Starts /\ freed \subseteq Components
  /\ ctl \in {"idle", "poll", "dtor"} /\ polls \in 0 .. wait_limit
DataTypes ==
  /\ item \in [Components -> Nat]
  /\ sent \in [Components -> Seq(Nat)]
  /\ issued \in Nat
ClientTypes ==
  /\ cpc \in [Clients -> {"idle", "lock", "held", "unlock"}]
  /\ this \in [Clients -> Components \cup {NULL}]
MutexType == mutex \in [Components -> {NoThread} \cup Threads \cup Clients]

LEMMA TypeParts ==
  TypeOK <=> /\ ThreadTypes /\ WaitTypes /\ CtlTypes
             /\ DataTypes /\ ClientTypes /\ MutexType
  BY DEF TypeOK, ThreadTypes, WaitTypes, CtlTypes, DataTypes, ClientTypes, MutexType

LEMMA QuietParts ==
  ASSUME TypeOK
  PROVE  /\ UNCHANGED <<state, arg, tpc, cancelled>> => ThreadTypes'
         /\ UNCHANGED waitVars => WaitTypes'
         /\ UNCHANGED ctlVars => CtlTypes'
         /\ UNCHANGED dataVars => DataTypes'
         /\ UNCHANGED clientVars => ClientTypes'
         /\ UNCHANGED mutex => MutexType'
  BY DEF TypeOK, ThreadTypes, WaitTypes, CtlTypes, DataTypes, ClientTypes, MutexType,
         waitVars, ctlVars, dataVars, clientVars

(* What the types rely on: threads and components that are used exist.     *)
InUse ==
  /\ \A k \in Threads : tpc[k] # "none" => arg[k] \in Components
  /\ ctl # "idle" => thr \in Threads /\ cmp \in Components
  /\ \A u \in Clients : cpc[u] # "idle" => this[u] \in Components

LEMMA TypesInductive ==
  ASSUME TypeOK, InUse, [Next]_vars
  PROVE  TypeOK'
<1> USE PushThreaderAssumption, TypeParts
    DEF InUse, Threads, Components, NULL,
        THREAD_STATE_READY, THREAD_STATE_STARTED, THREAD_STATE_RUN,
        THREAD_STATE_STOP, THREAD_STATE_STOPPED
<1>0. TypeOK' <=> /\ ThreadTypes' /\ WaitTypes' /\ CtlTypes'
                  /\ DataTypes' /\ ClientTypes' /\ MutexType'
  BY DEF TypeOK, ThreadTypes, WaitTypes, CtlTypes, DataTypes, ClientTypes, MutexType
<1>1. CASE Start
  <2>1. ThreadTypes'
    BY <1>1 DEF Start, Goto, ThreadPCs, ThreadTypes, CtlTypes
  <2>2. CtlTypes'
    BY <1>1 DEF Start, CtlTypes
  <2> QED BY <1>0, <1>1, <2>1, <2>2, QuietParts DEF Start
<1>2. CASE Control
  <2>1. ThreadTypes'
    <3>1. CASE StopCall
      BY <3>1 DEF StopCall, ThreadTypes
    <3>2. CASE StopEnds
      BY <3>2 DEF StopEnds, ThreadTypes
    <3>3. CASE Poll \/ Dtor
      BY <3>3, QuietParts DEF Poll, Dtor, threadVars
    <3> QED BY <1>2, <3>1, <3>2, <3>3 DEF Control
  <2>2. CtlTypes'
    BY <1>2 DEF Control, StopCall, Poll, StopEnds, Dtor, ThreadTypes, CtlTypes
  <2> QED
    BY <1>0, <1>2, <2>1, <2>2, QuietParts DEF Control, StopCall, Poll, StopEnds, Dtor, threadVars
<1>3. ASSUME NEW k \in Threads, Thread(k) PROVE TypeOK'
  <2>1. /\ arg[k] \in Components
        /\ UNCHANGED <<ctlVars, clientVars>>
    BY <1>3 DEF Thread, Entry, ThrLock, ThrWait, ThrWake, ThrSend, ThrUnlock, ThrTest,
                ThrEnd, ThrCancelled, Goto
  <2>2. ThreadTypes' /\ WaitTypes'
    <3>1. tpc' \in [Threads -> ThreadPCs]
      <4>1. PICK from \in ThreadPCs, to \in ThreadPCs : Goto(k, from, to)
        BY <1>3 DEF Thread, Entry, ThrLock, ThrWait, ThrWake, ThrSend, ThrUnlock, ThrTest,
                    ThrEnd, ThrCancelled, ThreadPCs
      <4> QED BY <4>1 DEF Goto, ThreadTypes
    <3>2. CASE Entry(k) \/ ThrEnd(k)
      <4>1. WaitTypes'
        BY <3>2, QuietParts DEF Entry, ThrEnd
      <4>2. ThreadTypes'
        <5>1. PICK new \in {THREAD_STATE_RUN, THREAD_STATE_STOPPED} :
                 state' = [state EXCEPT ![k] = new]
          BY <3>2 DEF Entry, ThrEnd
        <5>2. UNCHANGED <<arg, cancelled>>
          BY <3>2 DEF Entry, ThrEnd
        <5> QED BY <3>1, <5>1, <5>2 DEF ThreadTypes
      <4> QED BY <4>1, <4>2
    <3>3. CASE ThrLock(k) \/ ThrWake(k) \/ ThrSend(k) \/ ThrUnlock(k) \/ ThrTest(k)
      BY <3>1, <3>3, QuietParts DEF ThrLock, ThrWake, ThrSend, ThrUnlock, ThrTest, ThreadTypes
    <3>4. CASE ThrWait(k) \/ ThrCancelled(k)
      <4>1. /\ UNCHANGED <<state, arg, cancelled, spurious>>
            /\ sleepers' \subseteq sleepers \cup {k}
        BY <3>4 DEF ThrWait, ThrCancelled
      <4> QED BY <3>1, <4>1 DEF ThreadTypes, WaitTypes
    <3> QED BY <1>3, <3>2, <3>3, <3>4 DEF Thread
  <2>3. MutexType'
    BY <1>3, <2>1 DEF Thread, Entry, ThrLock, ThrWait, ThrWake, ThrSend, ThrUnlock,
                ThrTest, ThrEnd, ThrCancelled, Locks, Unlocks, MutexType
  <2>4. DataTypes'
    <3>1. CASE ThrSend(k)
      BY <2>1, <3>1 DEF ThrSend, DataTypes
    <3>2. CASE ~ ThrSend(k)
      BY <1>3, <3>2, QuietParts DEF Thread, Entry, ThrLock, ThrWait, ThrWake, ThrUnlock,
                ThrTest, ThrEnd, ThrCancelled
    <3> QED BY <3>1, <3>2
  <2> QED BY <1>0, <2>1, <2>2, <2>3, <2>4, QuietParts
<1>4. ASSUME NEW k \in Threads, ThrSpurious(k) PROVE TypeOK'
  <2>1. WaitTypes'
    BY <1>4 DEF ThrSpurious, WaitTypes
  <2> QED BY <1>0, <1>4, <2>1, QuietParts DEF ThrSpurious
<1>5. ASSUME NEW u \in Clients, RecvCall(u) \/ Recv(u) PROVE TypeOK'
  <2>1. ThreadTypes' /\ WaitTypes' /\ CtlTypes'
    <3>1. CASE RecvSet(u)
      BY <3>1, QuietParts DEF RecvSet, WaitTypes
    <3>2. CASE ~ RecvSet(u)
      BY <1>5, <3>2, QuietParts DEF Recv, RecvCall, RecvLock, RecvUnlock, threadVars
    <3> QED BY <3>1, <3>2
  <2>2. DataTypes'
    <3>1. CASE RecvSet(u)
      <4>1. issued' \in Nat /\ sent' \in [Components -> Seq(Nat)]
        BY <3>1 DEF RecvSet, DataTypes
      <4>2. item \in [Components -> Nat] /\ issued + 1 \in Nat
        BY DEF DataTypes
      <4>3. item' \in [Components -> Nat]
        BY <3>1, <4>2 DEF RecvSet
      <4> QED BY <4>1, <4>3 DEF DataTypes
    <3>2. CASE ~ RecvSet(u)
      BY <1>5, <3>2, QuietParts DEF Recv, RecvCall, RecvLock, RecvUnlock
    <3> QED BY <3>1, <3>2
  <2>3. ClientTypes' /\ MutexType'
    <3>1. CASE RecvCall(u)
      BY <3>1, QuietParts DEF RecvCall, ClientTypes, CtlTypes
    <3>2. CASE RecvSet(u)
      BY <3>2, QuietParts DEF RecvSet, ClientTypes
    <3>3. CASE RecvLock(u) \/ RecvUnlock(u)
      <4>1. ClientTypes'
        BY <3>3 DEF RecvLock, RecvUnlock, ClientTypes
      <4>2. MutexType'
        BY <3>3 DEF RecvLock, RecvUnlock, Locks, Unlocks, MutexType
      <4> QED BY <4>1, <4>2
    <3> QED BY <1>5, <3>1, <3>2, <3>3 DEF Recv
  <2> QED BY <1>0, <2>1, <2>2, <2>3
<1>6. CASE UNCHANGED vars
  BY <1>0, <1>6, QuietParts DEF vars, threadVars
<1> QED
  BY <1>1, <1>2, <1>3, <1>4, <1>5, <1>6 DEF Next

-----------------------------------------------------------------------------
LEMMA LifeInvInductive ==
  ASSUME Orderly, TypedLife, [Next]_vars
  PROVE  LifeInv'
<1> USE PushThreaderAssumption DEF Threads, Components, NULL
<1>1. TypeOK /\ ThreadTypes /\ CtlTypes /\ ClientTypes
  BY TypeParts DEF TypedLife
<1> USE DEF TypedLife, LifeInv
<1>2. CASE Start
  <2>1. /\ cmp = NULL /\ ctl = "idle" /\ cmp' = started + 1 /\ thr' = started + 1
        /\ started' = started + 1 /\ started < Starts
        /\ started + 1 \in Threads /\ started \in Nat
        /\ UNCHANGED <<freed, ctl, cancelled, clientVars>>
    BY <1>1, <1>2 DEF Start, CtlTypes
  <2>2. /\ state' = [state EXCEPT ![started + 1] = THREAD_STATE_STARTED]
        /\ arg' = [arg EXCEPT ![started + 1] = started + 1]
        /\ tpc' = [tpc EXCEPT ![started + 1] = "created"]
    BY <1>1, <1>2 DEF Start, CtlTypes, Goto
  <2> QED
    BY <1>1, <2>1, <2>2
    DEF ThreadTypes, CtlTypes, ClientTypes, clientVars, THREAD_STATE_STARTED, THREAD_STATE_STOPPED
<1>3. CASE StopCall
  <2>1. /\ cmp # NULL /\ ctl = "idle" /\ ctl' = "poll"
        /\ state' = [state EXCEPT ![cmp] = THREAD_STATE_STOP]
        /\ UNCHANGED <<cmp, thr, started, freed, arg, tpc, cancelled, cpc, this>>
    BY <1>3 DEF StopCall, clientVars
  <2> QED
    BY <1>1, <2>1 DEF ThreadTypes, CtlTypes, THREAD_STATE_STOP, THREAD_STATE_STOPPED
<1>4. CASE Poll
  BY <1>4 DEF Poll, threadVars, clientVars
<1>5. CASE StopEnds
  <2>1. /\ ctl = "poll" /\ ctl' = "dtor"
        /\ state' = [state EXCEPT ![cmp] = THREAD_STATE_READY]
        /\ \/ state[cmp] = THREAD_STATE_STOPPED /\ cancelled' = cancelled
           \/ cancelled' = cancelled \cup {cmp}
        /\ UNCHANGED <<cmp, thr, started, freed, arg, tpc, cpc, this>>
    BY <1>5 DEF StopEnds, clientVars
  <2> QED
    BY <1>1, <2>1 DEF ThreadTypes, CtlTypes, THREAD_STATE_READY, THREAD_STATE_STOPPED
<1>6. CASE Dtor
  BY <1>1, <1>6 DEF Dtor, CtlTypes, threadVars, clientVars
<1>7. ASSUME NEW k \in Threads, Thread(k) PROVE LifeInv'
  <2>1. /\ tpc[k] \notin {"none", "ended"}
        /\ UNCHANGED <<cmp, thr, started, freed, ctl, arg, cancelled, cpc, this>>
    BY <1>7 DEF Thread, Entry, ThrLock, ThrWait, ThrWake, ThrSend, ThrUnlock, ThrTest,
                ThrEnd, ThrCancelled, Goto, ctlVars, clientVars
  <2>2. \A j \in Threads : j # k => tpc'[j] = tpc[j]
    BY <1>1, <1>7 DEF Thread, Entry, ThrLock, ThrWait, ThrWake, ThrSend, ThrUnlock,
                ThrTest, ThrEnd, ThrCancelled, Goto, ThreadTypes
  <2>3. \A j \in Threads : state'[j] = THREAD_STATE_STOPPED
                            => state[j] = THREAD_STATE_STOPPED \/ tpc'[j] = "ended"
    BY <1>1, <1>7 DEF Thread, Entry, ThrLock, ThrWait, ThrWake, ThrSend, ThrUnlock,
                ThrTest, ThrEnd, ThrCancelled, Goto, ThreadTypes, THREAD_STATE_RUN,
                THREAD_STATE_STOPPED
  <2> QED BY <1>1, <2>1, <2>2, <2>3 DEF CtlTypes, ThreadTypes
<1>8. ASSUME NEW k \in Threads, ThrSpurious(k) PROVE LifeInv'
  BY <1>8 DEF ThrSpurious, ctlVars, clientVars
<1>9. ASSUME NEW u \in Clients, RecvCall(u) \/ Recv(u) PROVE LifeInv'
  <2>1. UNCHANGED <<cmp, thr, started, freed, ctl, arg, tpc, state, cancelled>>
    BY <1>9 DEF Recv, RecvCall, RecvLock, RecvSet, RecvUnlock, threadVars, ctlVars
  <2>2. \A v \in Clients : cpc'[v] # "idle" => this'[v] \in Components
    <3>1. CASE RecvCall(u)
      BY <1>1, <3>1 DEF RecvCall, ClientTypes, CtlTypes
    <3>2. CASE Recv(u)
      BY <1>1, <3>2 DEF Recv, RecvLock, RecvSet, RecvUnlock, ClientTypes
    <3> QED BY <1>9, <3>1, <3>2
  <2> QED BY <2>1, <2>2
<1>10. CASE UNCHANGED vars
  BY <1>10 DEF vars, threadVars, ctlVars, clientVars
<1> QED
  BY <1>2, <1>3, <1>4, <1>5, <1>6, <1>7, <1>8, <1>9, <1>10 DEF Next, Control

LEMMA LivesFollow ==
  ASSUME Orderly
  PROVE  Spec => []TypedLife
<1>1. Init => TypedLife
  <2> USE PushThreaderAssumption
  <2>1. Init => TypeOK
    BY DEF Init, TypeOK, Threads, Components, NULL, ThreadPCs,
           THREAD_STATE_READY, THREAD_STATE_STOPPED
  <2>2. Init => LifeInv
    BY DEF Init, LifeInv, Threads, Components, NULL, THREAD_STATE_STOPPED
  <2> QED BY <2>1, <2>2 DEF TypedLife
<1>2. TypedLife /\ [Next]_vars => TypedLife'
  <2> SUFFICES ASSUME TypedLife, [Next]_vars PROVE TypedLife'
    OBVIOUS
  <2>1. InUse
    BY PushThreaderAssumption
    DEF TypedLife, TypeOK, LifeInv, InUse, Threads, Components, NULL
  <2> QED BY <2>1, TypesInductive, LifeInvInductive DEF TypedLife
<1> QED BY <1>1, <1>2, PTL DEF Spec

(* Every variable keeps its type over all lives of the component.          *)
THEOREM TypeCorrect ==
  ASSUME Orderly
  PROVE  Spec => []TypeOK
<1>1. TypedLife => TypeOK
  BY DEF TypedLife
<1> QED BY <1>1, LivesFollow, PTL

(* STOP frees a component only after its thread has ended, unless the      *)
(* thread had to be cancelled.                                             *)
THEOREM NoUseAfterFree ==
  ASSUME Orderly
  PROVE  Spec => []FreedAfterUse
<1>1. TypedLife => FreedAfterUse
  BY PushThreaderAssumption
  DEF TypedLife, TypeOK, LifeInv, FreedAfterUse, Threads, Components, NULL
<1> QED BY <1>1, LivesFollow, PTL

-----------------------------------------------------------------------------
(* SentInOrder: repeats are paid for by spurious wakeups.                  *)
RepeatsIn(s) == {i \in DOMAIN s : s[i] = IF i = 1 THEN NULL ELSE s[i - 1]}
LastOf(s)    == IF s = <<>> THEN NULL ELSE s[Len(s)]

LEMMA RepeatsFinite ==
  ASSUME NEW s \in Seq(Nat)
  PROVE  IsFiniteSet(RepeatsIn(s)) /\ Cardinality(RepeatsIn(s)) \in Nat
<1>1. Len(s) \in Nat /\ DOMAIN s = 1 .. Len(s)
  OBVIOUS
<1>2. IsFiniteSet(1 .. Len(s)) /\ RepeatsIn(s) \subseteq 1 .. Len(s)
  BY <1>1, FS_Interval DEF RepeatsIn
<1> QED BY <1>2, FS_Subset, FS_CardinalityType

LEMMA AppendRepeats ==
  ASSUME NEW s \in Seq(Nat), NEW x \in Nat
  PROVE  /\ x = LastOf(s)
              => Cardinality(RepeatsIn(Append(s, x))) = Cardinality(RepeatsIn(s)) + 1
         /\ x # LastOf(s) => RepeatsIn(Append(s, x)) = RepeatsIn(s)
<1> DEFINE n == Len(s)
           t == Append(s, x)
<1>1. /\ n \in Nat /\ DOMAIN s = 1 .. n /\ DOMAIN t = 1 .. n + 1
      /\ t[n + 1] = x /\ \A i \in 1 .. n : t[i] = s[i]
      /\ s = <<>> <=> n = 0
  OBVIOUS
<1> HIDE DEF n, t
<1>2. n + 1 \notin RepeatsIn(s)
  BY <1>1 DEF RepeatsIn
<1>3. \A i \in 1 .. n : i \in RepeatsIn(t) <=> i \in RepeatsIn(s)
  BY <1>1 DEF RepeatsIn
<1>4. n + 1 \in RepeatsIn(t) <=> x = LastOf(s)
  BY <1>1 DEF RepeatsIn, LastOf, NULL, n
<1>5. RepeatsIn(t) \subseteq 1 .. n + 1 /\ RepeatsIn(s) \subseteq 1 .. n
  BY <1>1 DEF RepeatsIn
<1>6. CASE x = LastOf(s)
  <2>1. RepeatsIn(t) = RepeatsIn(s) \cup {n + 1}
    BY <1>1, <1>3, <1>4, <1>5, <1>6
  <2>2. Cardinality(RepeatsIn(s) \cup {n + 1}) = Cardinality(RepeatsIn(s)) + 1
    BY <1>2, RepeatsFinite, FS_AddElement
  <2>3. Cardinality(RepeatsIn(t)) = Cardinality(RepeatsIn(s)) + 1
    BY <2>1, <2>2
  <2> QED BY <1>6, <2>3 DEF t
<1>7. CASE x # LastOf(s)
  <2>1. RepeatsIn(t) \subseteq 1 .. n
    BY <1>1, <1>4, <1>5, <1>7
  <2>2. RepeatsIn(t) = RepeatsIn(s)
    BY <1>3, <1>5, <2>1
  <2> QED BY <1>7, <2>2 DEF t
<1> QED BY <1>6, <1>7

(* A thread about to pass on an item that it has passed on before.         *)
Owed(k) == /\ tpc[k] = "send" \/ (tpc[k] = "wait" /\ k \notin sleepers)
           /\ item[k] = LastOf(sent[k])

SentInv ==
  \A k \in Threads :
    /\ item[k] <= issued
    /\ \A i \in DOMAIN sent[k] : sent[k][i] <= item[k]
    /\ \A i, j \in DOMAIN sent[k] : i < j => sent[k][i] <= sent[k][j]
    /\ Cardinality(RepeatsIn(sent[k])) <= spurious
    /\ Owed(k) => Cardinality(RepeatsIn(sent[k])) < spurious

LEMMA SentInvInductive ==
  ASSUME TypedLife, TypedLife', SentInv, [Next]_vars
  PROVE  SentInv'
<1> USE PushThreaderAssumption DEF Threads, Components, NULL
<1>1. /\ item \in [Threads -> Nat] /\ sent \in [Threads -> Seq(Nat)] /\ issued \in Nat
      /\ spurious \in Nat /\ tpc \in [Threads -> ThreadPCs]
      /\ \A k \in Threads : tpc[k] # "none" => arg[k] = k
      /\ \A k \in Threads : arg[k] = NULL \/ arg[k] = k
      /\ \A u \in Clients : cpc[u] # "idle" => this[u] \in Threads
  <2>1. TypeOK /\ LifeInv
    BY DEF TypedLife
  <2>2. started \in Nat /\ \A k \in Threads : k <= started \/ k > started
    BY <2>1 DEF TypeOK
  <2>3. \A k \in Threads : \/ arg[k] = k
                           \/ tpc[k] = "none" /\ arg[k] = NULL
    BY <2>1, <2>2 DEF LifeInv
  <2>4. \A u \in Clients : cpc[u] # "idle" => this[u] \in Threads
    BY <2>1 DEF LifeInv
  <2>5. /\ item \in [Threads -> Nat] /\ sent \in [Threads -> Seq(Nat)] /\ issued \in Nat
        /\ spurious \in Nat /\ tpc \in [Threads -> ThreadPCs]
    BY <2>1 DEF TypeOK
  <2> QED BY <2>3, <2>4, <2>5
<1>2. \A k \in Threads : Cardinality(RepeatsIn(sent[k])) \in Nat
  BY <1>1, RepeatsFinite
(* A step that sends nothing and wakes only threads that owe nothing.      *)
<1>3. ASSUME UNCHANGED dataVars, spurious' = spurious,
             \A k \in Threads : Owed(k)' => Owed(k)
      PROVE  SentInv'
  <2>1. item' = item /\ sent' = sent /\ issued' = issued
    BY <1>3 DEF dataVars
  <2>2. ASSUME NEW k \in Threads, Owed(k)'
        PROVE  Cardinality(RepeatsIn(sent[k])) < spurious
    BY <1>3, <2>2 DEF SentInv
  <2> QED BY <1>3, <2>1, <2>2 DEF SentInv
<1>4. CASE Start
  <2>1. tpc' = [tpc EXCEPT ![started + 1] = "created"]
    BY <1>4 DEF Start, Goto
  <2>2. \A k \in Threads : Owed(k)' => Owed(k)
    BY <1>1, <1>4, <2>1 DEF Start, Owed, waitVars, dataVars
  <2> QED BY <1>3, <1>4, <2>2 DEF Start, waitVars
<1>5. CASE Control
  BY <1>3, <1>5
  DEF Control, StopCall, Poll, StopEnds, Dtor, threadVars, waitVars, dataVars, Owed
<1>6. ASSUME NEW k \in Threads, Thread(k) PROVE SentInv'
  <2>1. tpc[k] # "none" /\ arg[k] = k /\ \A j \in Threads : j # k => tpc'[j] = tpc[j]
    BY <1>1, <1>6 DEF Thread, Entry, ThrLock, ThrWait, ThrWake, ThrSend, ThrUnlock,
                ThrTest, ThrEnd, ThrCancelled, Goto
  <2>2. CASE ThrSend(k)
    <3>1. /\ sent' = [sent EXCEPT ![k] = Append(sent[k], item[k])]
          /\ UNCHANGED <<item, issued, sleepers, spurious>>
          /\ tpc[k] = "send" /\ tpc'[k] = "unlock"
      BY <1>1, <2>1, <2>2 DEF ThrSend, Goto, waitVars
    <3>2. ASSUME NEW j \in Threads, j # k
          PROVE  sent'[j] = sent[j] /\ (Owed(j)' <=> Owed(j))
      BY <1>1, <2>1, <3>1, <3>2 DEF Owed
    <3>3. sent'[k] = Append(sent[k], item[k]) /\ ~ Owed(k)'
      BY <1>1, <3>1 DEF Owed
    <3>4. /\ \A i \in DOMAIN sent'[k] : sent'[k][i] <= item[k]
          /\ \A i, j \in DOMAIN sent'[k] : i < j => sent'[k][i] <= sent'[k][j]
      <4>1. PICK s \in Seq(Nat) : s = sent[k]
        BY <1>1
      <4>2. PICK x \in Nat : x = item[k]
        BY <1>1
      <4>3. /\ Len(s) \in Nat /\ DOMAIN s = 1 .. Len(s)
            /\ DOMAIN Append(s, x) = 1 .. Len(s) + 1
            /\ Append(s, x)[Len(s) + 1] = x
            /\ \A i \in 1 .. Len(s) : Append(s, x)[i] = s[i] /\ s[i] \in Nat
        OBVIOUS
      <4>4. /\ \A i \in DOMAIN s : s[i] <= x
            /\ \A i, j \in DOMAIN s : i < j => s[i] <= s[j]
        BY <4>1, <4>2 DEF SentInv
      <4>5. sent'[k] = Append(s, x)
        BY <3>3, <4>1, <4>2
      <4> HIDE DEF Threads, Components, NULL
      <4>6. \A i \in DOMAIN Append(s, x) : Append(s, x)[i] <= x
        BY <4>3, <4>4
      <4>7. \A i, j \in DOMAIN Append(s, x) : i < j => Append(s, x)[i] <= Append(s, x)[j]
        BY <4>3, <4>4, <4>6
      <4> QED BY <4>2, <4>5, <4>6, <4>7
    <3>5. Cardinality(RepeatsIn(sent'[k])) <= spurious
      <4>1. CASE item[k] = LastOf(sent[k])
        <5>1. Cardinality(RepeatsIn(sent[k])) < spurious
          BY <3>1, <4>1 DEF SentInv, Owed
        <5>2. Cardinality(RepeatsIn(sent'[k])) = Cardinality(RepeatsIn(sent[k])) + 1
          BY <1>1, <3>3, <4>1, AppendRepeats
        <5> QED BY <1>1, <1>2, <5>1, <5>2
      <4>2. CASE item[k] # LastOf(sent[k])
        <5>1. RepeatsIn(sent'[k]) = RepeatsIn(sent[k])
          BY <1>1, <3>3, <4>2, AppendRepeats
        <5> QED BY <5>1 DEF SentInv
      <4> QED BY <4>1, <4>2
    <3>6. ASSUME NEW j \in Threads
          PROVE  /\ item'[j] <= issued'
                 /\ \A i \in DOMAIN sent'[j] : sent'[j][i] <= item'[j]
                 /\ \A i, m \in DOMAIN sent'[j] : i < m => sent'[j][i] <= sent'[j][m]
                 /\ Cardinality(RepeatsIn(sent'[j])) <= spurious'
                 /\ Owed(j)' => Cardinality(RepeatsIn(sent'[j])) < spurious'
      <4>1. CASE j = k
        BY <3>1, <3>3, <3>4, <3>5, <4>1 DEF SentInv
      <4>2. CASE j # k
        BY <3>1, <3>2, <4>2 DEF SentInv
      <4> QED BY <4>1, <4>2
    <3> QED BY <3>6 DEF SentInv
  <2>3. CASE ~ ThrSend(k)
    <3>1. /\ UNCHANGED dataVars /\ spurious' = spurious
          /\ sleepers' = sleepers \/ sleepers' = sleepers \cup {k} \/ sleepers' = sleepers \ {k}
      BY <1>6, <2>3 DEF Thread, Entry, ThrLock, ThrWait, ThrWake, ThrUnlock,
                ThrTest, ThrEnd, ThrCancelled, waitVars
    <3>2. Owed(k)' => Owed(k)
      <4>1. CASE ThrWake(k)
        BY <1>1, <3>1, <4>1 DEF ThrWake, Goto, Owed, dataVars, waitVars
      <4>2. CASE ThrWait(k)
        BY <1>1, <4>2 DEF ThrWait, Goto, Owed
      <4>3. CASE \/ Entry(k) \/ ThrLock(k) \/ ThrUnlock(k) \/ ThrTest(k) \/ ThrEnd(k)
                 \/ ThrCancelled(k)
        BY <1>1, <4>3 DEF Entry, ThrLock, ThrUnlock, ThrTest, ThrEnd, ThrCancelled, Goto, Owed
      <4> QED BY <1>6, <2>3, <4>1, <4>2, <4>3 DEF Thread
    <3>3. \A j \in Threads : j # k => (Owed(j)' => Owed(j))
      BY <2>1, <3>1 DEF Owed, dataVars
    <3> QED BY <1>3, <3>1, <3>2, <3>3
  <2> QED BY <2>2, <2>3
<1>7. ASSUME NEW k \in Threads, ThrSpurious(k) PROVE SentInv'
  <2>1. /\ spurious' = spurious + 1 /\ UNCHANGED dataVars
    BY <1>7 DEF ThrSpurious
  <2> QED BY <1>1, <1>2, <2>1 DEF SentInv, dataVars
<1>8. ASSUME NEW u \in Clients, RecvCall(u) \/ Recv(u) PROVE SentInv'
  <2>1. CASE RecvSet(u)
    <3>1. PICK c \in Threads : c = this[u]
      BY <1>1, <2>1 DEF RecvSet
    <3>2. /\ issued' = issued + 1 /\ item' = [item EXCEPT ![c] = issued + 1]
          /\ UNCHANGED <<tpc, sent, spurious>>
          /\ \A k \in Threads : k # c /\ k \in sleepers => k \in sleepers'
      BY <1>1, <2>1, <3>1 DEF RecvSet
    <3>3. ASSUME NEW j \in Threads
          PROVE  /\ item'[j] <= issued'
                 /\ \A i \in DOMAIN sent[j] : sent[j][i] <= item'[j]
                 /\ Owed(j)' => Owed(j)
      <4>0. \A i \in DOMAIN sent[j] : sent[j][i] \in Nat /\ sent[j][i] <= item[j]
        BY <1>1 DEF SentInv
      <4>1. item[j] \in Nat /\ item[j] <= issued
        BY <1>1 DEF SentInv
      <4>2. CASE j = c
        <5>1. item'[j] = issued + 1
          BY <1>1, <3>2, <4>2
        <5>2. LastOf(sent[j]) # issued + 1
          <6>1. sent[j] # <<>> => Len(sent[j]) \in DOMAIN sent[j]
            BY <1>1
          <6> QED BY <1>1, <4>0, <4>1, <6>1 DEF LastOf
        <5>3. ~ Owed(j)'
          BY <3>2, <5>1, <5>2 DEF Owed
        <5> QED BY <1>1, <3>2, <4>0, <4>1, <5>1, <5>3
      <4>3. CASE j # c
        <5>1. item'[j] = item[j]
          BY <1>1, <3>2, <4>3
        <5>2. Owed(j)' => Owed(j)
          BY <3>2, <4>3, <5>1 DEF Owed
        <5> QED BY <1>1, <3>2, <4>0, <4>1, <5>1, <5>2
      <4> QED BY <4>2, <4>3
    <3> QED BY <3>2, <3>3 DEF SentInv
  <2>2. CASE ~ RecvSet(u)
    BY <1>3, <1>8, <2>2 DEF Recv, RecvCall, RecvLock, RecvUnlock, threadVars, waitVars,
                dataVars, Owed
  <2> QED BY <2>1, <2>2
<1>9. CASE UNCHANGED vars
  BY <1>3, <1>9 DEF vars, threadVars, waitVars, dataVars, Owed
<1> QED
  BY <1>4, <1>5, <1>6, <1>7, <1>8, <1>9 DEF Next

(* What the main process passes on is in the order received; repeats and   *)
(* null pointers are no more than the spurious wakeups.                    *)
THEOREM OrderKept ==
  ASSUME Orderly
  PROVE  Spec => []SentInOrder
<1>1. Init => SentInv
  <2> SUFFICES ASSUME Init PROVE SentInv
    OBVIOUS
  <2>1. RepeatsIn(<<>>) = {} /\ Cardinality({}) = 0
    BY FS_EmptySet DEF RepeatsIn
  <2>2. /\ issued = 0 /\ spurious = 0
        /\ \A k \in Threads : item[k] = 0 /\ sent[k] = <<>> /\ ~ Owed(k)
    BY DEF Init, Owed, Threads, Components, NULL
  <2>3. DOMAIN <<>> = {} /\ 0 <= 0
    OBVIOUS
  <2> QED BY <2>1, <2>2, <2>3 DEF SentInv
<1>2. TypedLife /\ TypedLife' /\ SentInv /\ [Next]_vars => SentInv'
  BY SentInvInductive
<1>3. SentInv => SentInOrder
  BY DEF SentInv, SentInOrder, RepeatsIn, Repeats, Threads, Components
<1> QED BY <1>1, <1>2, <1>3, LivesFollow, PTL DEF Spec
=============================================================================

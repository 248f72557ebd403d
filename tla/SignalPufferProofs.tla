------------------------ MODULE SignalPufferProofs ------------------------
(***************************************************************************)
(* Theorems about the signalized puffer, for every length and every set of *)
(* items.  Type correctness and mutual exclusion hold for any set of       *)
(* threads; that no wait is betrayed, and that the puffer implements the   *)
(* bounded channel, for one producer and one consumer whose waits do not   *)
(* return spuriously.                                                      *)
(***************************************************************************)
EXTENDS SignalPuffer, Sequences, SequenceTheorems, FiniteSetTheorems, TLAPS

-----------------------------------------------------------------------------
(* What the operations of the ring do to the sequence it stands for, for   *)
(* every length: a write with room appends, a read with an item inside     *)
(* removes the head, and both leave an intact ring.                        *)

(* The operations keep the type of the puffer.                             *)
LEMMA PufferTypes ==
  ASSUME NEW puf \in DataPuffers
  PROVE  /\ EmptyPuffer \in DataPuffers
         /\ \A x \in Items \cup {NULL} : Written(puf, x) \in DataPuffers
         /\ AfterRead(puf) \in DataPuffers
         /\ FirstItem(puf) \in Items \cup {NULL}
  BY PufferAssumption
     DEF DataPuffers, RingSlots, EmptyPuffer, Written, AfterRead, FirstItem, After

(* The freshly constructed ring is intact and empty.                       *)
LEMMA EmptyRing == RingOK(EmptyPuffer) /\ Contents(EmptyPuffer) = <<>>
<1>1. RingOK(EmptyPuffer)
  BY PufferAssumption DEF RingOK, EmptyPuffer, RingSlots, SlotAt
<1>2. Contents(EmptyPuffer) = <<>>
  BY DEF Contents, EmptyPuffer
<1> QED BY <1>1, <1>2

(* An intact ring stands for a sequence of count items.                    *)
LEMMA ContentsType ==
  ASSUME NEW puf \in DataPuffers, RingOK(puf)
  PROVE  /\ Contents(puf) \in Seq(Items)
         /\ Len(Contents(puf)) = puf.count
<1>1. puf.count \in Nat
  BY DEF RingOK
<1>2. ASSUME NEW k \in 1 .. puf.count PROVE puf.items[SlotAt(puf, k - 1)] \in Items
  <2>1. k - 1 \in RingSlots /\ k - 1 < puf.count
    BY PufferAssumption, <1>1 DEF RingOK, RingSlots
  <2>2. SlotAt(puf, k - 1) \in RingSlots
    BY PufferAssumption, <2>1 DEF SlotAt, RingSlots, DataPuffers
  <2> QED BY <2>1, <2>2 DEF RingOK, DataPuffers
<1> QED BY <1>1, <1>2 DEF Contents

(* datapuffer_write with room appends.                                     *)
LEMMA WriteAppends ==
  ASSUME NEW puf \in DataPuffers, RingOK(puf), ~ IsFull(puf), NEW x \in Items
  PROVE  /\ RingOK(Written(puf, x))
         /\ Contents(Written(puf, x)) = Append(Contents(puf), x)
<1> DEFINE new == Written(puf, x)
<1>1. puf.count \in Nat /\ puf.count < PufferLength /\ puf.start \in RingSlots
  BY PufferAssumption DEF RingOK, IsFull, DataPuffers
<1>2. puf.end = SlotAt(puf, puf.count)
  BY DEF RingOK, SlotAt
<1>3. ASSUME NEW k \in RingSlots PROVE SlotAt(puf, k) = puf.end <=> k = puf.count
  BY PufferAssumption, <1>1, <1>2 DEF SlotAt, RingSlots
<1>4. ASSUME NEW k \in RingSlots
      PROVE  /\ SlotAt(new, k) = SlotAt(puf, k)
             /\ SlotAt(puf, k) \in RingSlots
  BY PufferAssumption, <1>1 DEF SlotAt, RingSlots, Written
<1>5. ASSUME NEW k \in RingSlots
      PROVE  new.items[SlotAt(new, k)]
               = IF k = puf.count THEN x ELSE puf.items[SlotAt(puf, k)]
  BY <1>3, <1>4, <1>1 DEF Written, DataPuffers
<1>6. RingOK(new)
  <2>1. new.count \in 0 .. PufferLength
    BY <1>1, PufferAssumption DEF Written
  <2>2. new.end = IF new.start + new.count < PufferLength
                    THEN new.start + new.count
                    ELSE new.start + new.count - PufferLength
    BY <1>1, <1>2, PufferAssumption DEF Written, After, SlotAt, RingSlots
  <2>3. ASSUME NEW k \in RingSlots
        PROVE  new.items[SlotAt(new, k)] # NULL <=> k < new.count
    <3>1. new.count = puf.count + 1
      BY DEF Written
    <3>2. puf.items[SlotAt(puf, k)] # NULL <=> k < puf.count
      BY DEF RingOK
    <3> QED BY <1>5, <1>1, <3>1, <3>2, PufferAssumption DEF RingSlots
  <2> QED BY <2>1, <2>2, <2>3 DEF RingOK
<1>7. Contents(new) = Append(Contents(puf), x)
  <2>1. new.count = puf.count + 1
    BY DEF Written
  <2>2. Len(Contents(puf)) = puf.count /\ Contents(puf) \in Seq(Items)
    BY ContentsType
  <2>3. ASSUME NEW k \in 1 .. puf.count + 1
        PROVE  new.items[SlotAt(new, k - 1)] = Append(Contents(puf), x)[k]
    <3>1. k - 1 \in RingSlots
      BY <1>1, PufferAssumption DEF RingSlots
    <3>2. CASE k = puf.count + 1
      BY <3>1, <3>2, <1>1, <1>5, <2>2
    <3>3. CASE k \in 1 .. puf.count
      <4>1. Append(Contents(puf), x)[k] = Contents(puf)[k]
        BY <3>3, <2>2
      <4>2. Contents(puf)[k] = puf.items[SlotAt(puf, k - 1)]
        BY <3>3 DEF Contents
      <4>3. new.items[SlotAt(new, k - 1)] = puf.items[SlotAt(puf, k - 1)]
        BY <3>1, <3>3, <1>1, <1>5
      <4> HIDE DEF new
      <4> QED BY <4>1, <4>2, <4>3, Zenon
    <3>4. k = puf.count + 1 \/ k \in 1 .. puf.count
      BY <1>1
    <3> QED BY <3>2, <3>3, <3>4, Zenon
  <2>4. ASSUME NEW k \in 1 .. puf.count + 1
        PROVE  Contents(new)[k] = Append(Contents(puf), x)[k]
    <3>1. Contents(new)[k] = new.items[SlotAt(new, k - 1)]
      BY <2>1 DEF Contents
    <3> HIDE DEF new
    <3> QED BY <2>3, <3>1, Zenon
  <2>5. /\ Contents(new) \in Seq(Items)
        /\ Len(Contents(new)) = puf.count + 1
    BY <1>6, <2>1, ContentsType, PufferTypes
  <2>6. /\ Append(Contents(puf), x) \in Seq(Items)
        /\ Len(Append(Contents(puf), x)) = puf.count + 1
    BY <2>2
  <2> HIDE DEF new
  <2> QED BY <2>4, <2>5, <2>6, SeqEqual
<1> QED BY <1>6, <1>7

(* datapuffer_read with an item inside takes the head off.                 *)
LEMMA ReadTakesHead ==
  ASSUME NEW puf \in DataPuffers, RingOK(puf), ~ IsEmpty(puf)
  PROVE  /\ RingOK(AfterRead(puf))
         /\ Contents(puf) # <<>>
         /\ FirstItem(puf) = Head(Contents(puf))
         /\ FirstItem(puf) \in Items
         /\ Contents(AfterRead(puf)) = Tail(Contents(puf))
<1> DEFINE new == AfterRead(puf)
<1>1. puf.count \in Nat /\ puf.count > 0 /\ puf.count <= PufferLength /\ puf.start \in RingSlots
  BY PufferAssumption DEF RingOK, IsEmpty, DataPuffers
<1>2. /\ Contents(puf) \in Seq(Items)
      /\ Len(Contents(puf)) = puf.count
  BY ContentsType
<1>3. FirstItem(puf) = Contents(puf)[1]
  BY <1>1, PufferAssumption DEF Contents, FirstItem, SlotAt, RingSlots
<1>4. new.count = puf.count - 1 /\ new.start = After(puf.start) /\ new.end = puf.end
  BY DEF AfterRead
<1>5. ASSUME NEW k \in RingSlots
      PROVE  SlotAt(new, k) = IF k + 1 < PufferLength THEN SlotAt(puf, k + 1)
                                                      ELSE puf.start
  BY <1>1, <1>4, PufferAssumption DEF SlotAt, RingSlots, After
<1>6. ASSUME NEW k \in RingSlots
      PROVE  new.items[SlotAt(new, k)]
               = IF k + 1 < PufferLength THEN puf.items[SlotAt(puf, k + 1)] ELSE NULL
  <2>1. CASE k + 1 < PufferLength
    <3>1. SlotAt(new, k) = SlotAt(puf, k + 1)
      BY <2>1, <1>5
    <3>2. SlotAt(puf, k + 1) \in RingSlots /\ SlotAt(puf, k + 1) # puf.start
      BY <2>1, <1>1, PufferAssumption DEF SlotAt, RingSlots
    <3> QED BY <2>1, <3>1, <3>2 DEF AfterRead, DataPuffers
  <2>2. CASE ~ (k + 1 < PufferLength)
    <3>1. SlotAt(new, k) = puf.start
      BY <2>2, <1>5
    <3> QED BY <2>2, <3>1, <1>1 DEF AfterRead, DataPuffers
  <2> QED BY <2>1, <2>2
<1>7. RingOK(new)
  <2>1. new.count \in 0 .. PufferLength
    BY <1>1, <1>4, PufferAssumption
  <2>2. new.end = IF new.start + new.count < PufferLength
                    THEN new.start + new.count
                    ELSE new.start + new.count - PufferLength
    BY <1>1, <1>4, PufferAssumption DEF RingOK, After, RingSlots
  <2>3. ASSUME NEW k \in RingSlots
        PROVE  new.items[SlotAt(new, k)] # NULL <=> k < new.count
    <3>1. CASE k + 1 < PufferLength
      <4>1. puf.items[SlotAt(puf, k + 1)] # NULL <=> k + 1 < puf.count
        BY <3>1, PufferAssumption DEF RingOK, RingSlots
      <4> QED BY <4>1, <3>1, <1>6, <1>4, <1>1 DEF RingSlots
    <3>2. CASE ~ (k + 1 < PufferLength)
      BY <3>2, <1>6, <1>4, <1>1, PufferAssumption DEF RingSlots
    <3> QED BY <3>1, <3>2
  <2> QED BY <2>1, <2>2, <2>3 DEF RingOK
<1>8. Contents(puf) # <<>> /\ Head(Contents(puf)) = Contents(puf)[1]
  BY <1>1, <1>2
<1>9. Contents(new) = Tail(Contents(puf))
  <2>1. ASSUME NEW k \in 1 .. puf.count - 1
        PROVE  new.items[SlotAt(new, k - 1)] = Tail(Contents(puf))[k]
    <3>1. k - 1 \in RingSlots /\ (k - 1) + 1 < PufferLength /\ (k - 1) + 1 = k
      BY <1>1, PufferAssumption DEF RingSlots
    <3>2. Tail(Contents(puf))[k] = Contents(puf)[k + 1]
      BY <1>1, <1>2
    <3>3. Contents(puf)[k + 1] = puf.items[SlotAt(puf, k)]
      BY <1>1 DEF Contents
    <3> QED BY <3>1, <3>2, <3>3, <1>6
  <2>2. ASSUME NEW k \in 1 .. puf.count - 1
        PROVE  Contents(new)[k] = Tail(Contents(puf))[k]
    <3>1. Contents(new)[k] = new.items[SlotAt(new, k - 1)]
      BY <1>4 DEF Contents
    <3> HIDE DEF new
    <3> QED BY <2>1, <3>1, Zenon
  <2>3. /\ Contents(new) \in Seq(Items)
        /\ Len(Contents(new)) = puf.count - 1
    BY <1>4, <1>7, ContentsType, PufferTypes
  <2>4. /\ Tail(Contents(puf)) \in Seq(Items)
        /\ Len(Tail(Contents(puf))) = puf.count - 1
    BY <1>1, <1>2, <1>8
  <2> HIDE DEF new
  <2> QED BY <2>2, <2>3, <2>4, SeqEqual
<1>10. Contents(puf)[1] \in Items
  BY <1>1, <1>2
<1> QED BY <1>3, <1>7, <1>8, <1>9, <1>10

-----------------------------------------------------------------------------
USE DEF Threads

(* Every variable keeps its type, whatever the number of threads.          *)
THEOREM TypeCorrect == Spec => []TypeOK
<1>1. Init => TypeOK
  <2>1. EmptyPuffer \in DataPuffers
    BY PufferAssumption DEF EmptyPuffer, DataPuffers, RingSlots
  <2> QED BY <2>1 DEF Init, TypeOK, PCs, BOOL_FALSE
<1>2. TypeOK /\ [Next]_vars => TypeOK'
  <2> SUFFICES ASSUME TypeOK, [Next]_vars PROVE TypeOK'
    OBVIOUS
  <2> USE ThreadAssumption DEF TypeOK, PCs, Goto, Locks, Unlocks, BOOL_FALSE, BOOL_TRUE
  <2>1. ASSUME NEW p \in Producers, NEW x \in Items, RecvCall(p, x) PROVE TypeOK'
    BY <2>1 DEF RecvCall
  <2>2. ASSUME NEW c \in Consumers, SupplyCall(c) PROVE TypeOK'
    BY <2>2 DEF SupplyCall
  <2>3. ASSUME NEW t \in Threads, Lock(t) PROVE TypeOK'
    BY <2>3 DEF Lock
  <2>4. ASSUME NEW t \in Threads, Proceed(t) PROVE TypeOK'
    BY <2>4 DEF Proceed
  <2>5. ASSUME NEW t \in Threads, Wait(t) PROVE TypeOK'
    BY <2>5 DEF Wait, Blocks
  <2>6. ASSUME NEW t \in Threads, Resume(t) PROVE TypeOK'
    BY <2>6 DEF Resume
  <2>7. ASSUME NEW t \in Threads, Unlock(t) PROVE TypeOK'
    BY <2>7 DEF Unlock
  <2>8. ASSUME NEW p \in Producers, Store(p) PROVE TypeOK'
    <3>1. puffer' \in DataPuffers
      BY <2>8, PufferTypes DEF Store
    <3>2. condQueue' \subseteq Threads
      BY <2>8 DEF Store, Signals
    <3> QED BY <2>8, <3>1, <3>2 DEF Store
  <2>9. ASSUME NEW c \in Consumers, Fetch(c) PROVE TypeOK'
    <3>1. puffer' \in DataPuffers /\ FirstItem(puffer) \in Items \cup {NULL}
      BY <2>9, PufferTypes DEF Fetch
    <3>2. condQueue' \subseteq Threads
      BY <2>9 DEF Fetch, Signals
    <3> QED BY <2>9, <3>1, <3>2 DEF Fetch
  <2>10. ASSUME NEW t \in Threads, SpuriousWakeup(t) PROVE TypeOK'
    BY <2>10 DEF SpuriousWakeup
  <2>11. CASE UNCHANGED vars
    BY <2>11 DEF vars
  <2> QED
    BY <2>1, <2>2, <2>3, <2>4, <2>5, <2>6, <2>7, <2>8, <2>9, <2>10, <2>11
       DEF Next, Recv, Supply, Sync
<1> QED BY <1>1, <1>2, PTL DEF Spec

(* The mutex is owned by the thread inside the critical section, and by    *)
(* nobody when there is none; whatever the number of threads.              *)
THEOREM Exclusion == Spec => []MutualExclusion
<1> USE DEF MutualExclusion, InSection
<1>1. Init => MutualExclusion
  BY ThreadAssumption DEF Init
<1>2. TypeOK /\ MutualExclusion /\ [Next]_vars => MutualExclusion'
  <2> SUFFICES ASSUME TypeOK, MutualExclusion, [Next]_vars PROVE MutualExclusion'
    OBVIOUS
  <2> USE ThreadAssumption DEF TypeOK, PCs, Goto, Locks, Unlocks
  <2>1. ASSUME NEW p \in Producers, NEW x \in Items, RecvCall(p, x)
        PROVE MutualExclusion'
    BY <2>1 DEF RecvCall
  <2>2. ASSUME NEW c \in Consumers, SupplyCall(c) PROVE MutualExclusion'
    BY <2>2 DEF SupplyCall
  <2>3. ASSUME NEW t \in Threads, Sync(t) PROVE MutualExclusion'
    <3>1. CASE Lock(t) \/ Resume(t)
      BY <3>1 DEF Lock, Resume
    <3>2. CASE Proceed(t)
      BY <3>2 DEF Proceed
    <3>3. CASE Wait(t) \/ Unlock(t)
      BY <3>3 DEF Wait, Blocks, Unlock
    <3> QED BY <2>3, <3>1, <3>2, <3>3 DEF Sync
  <2>4. ASSUME NEW p \in Producers, Store(p) PROVE MutualExclusion'
    BY <2>4 DEF Store
  <2>5. ASSUME NEW c \in Consumers, Fetch(c) PROVE MutualExclusion'
    BY <2>5 DEF Fetch
  <2>6. ASSUME NEW t \in Threads, SpuriousWakeup(t) PROVE MutualExclusion'
    BY <2>6 DEF SpuriousWakeup
  <2>7. CASE UNCHANGED vars
    BY <2>7 DEF vars
  <2> QED
    BY <2>1, <2>2, <2>3, <2>4, <2>5, <2>6, <2>7 DEF Next, Recv, Supply
<1> QED BY <1>1, <1>2, TypeCorrect, PTL DEF Spec

-----------------------------------------------------------------------------
(* One producer and one consumer, and a pthread_cond_wait that returns only*)
(* when it was signalled.                                                  *)
OneToOne == /\ \A p, q \in Producers : p = q
            /\ \A c, d \in Consumers : c = d
            /\ ~ SpuriousWakeups

(* The inductive invariant.  A blocked thread's guard holds; a thread that *)
(* was woken, or that passed its test, finds its guard false.  The second  *)
(* part is what the missing re-test relies on: nobody but the thread itself*)
(* can make its guard true again.                                          *)
PairInv ==
  /\ RingOK(puffer)
  /\ \A t \in condQueue : pc[t] = "wait" /\ MustWait(t)
  /\ \A t \in Threads : pc[t] = "wait" /\ t \notin condQueue => ~ MustWait(t)
  /\ \A t \in Threads : pc[t] = "transfer" => ~ MustWait(t)
  /\ \A p \in Producers :
       item[p] # NULL <=> pc[p] \in {"enter", "test", "wait", "transfer"}
  /\ \A c \in Consumers :
       pc[c] \in {"enter", "test", "wait", "transfer"} => result[c] = NULL

(* PairInv in the words of the properties.                                 *)
LEMMA PairInvConsequences ==
  ASSUME TypeOK, PairInv
  PROVE  GuardStillHolds /\ RingIntact /\ NoLostWakeup
  BY DEF PairInv, GuardStillHolds, RingIntact, NoLostWakeup

(* The step that stores an item: it appends, and wakes the consumer if     *)
(* that one is blocked.                                                    *)
LEMMA StoreKeepsPairInv ==
  ASSUME OneToOne, TypeOK, PairInv, NEW p \in Producers, Store(p)
  PROVE  PairInv' /\ Contents(puffer)' = Append(Contents(puffer), item[p])
<1> USE DEF TypeOK, Goto
<1>1. pc[p] = "transfer" /\ ~ IsFull(puffer) /\ item[p] \in Items
  BY ThreadAssumption DEF Store, PairInv, MustWait
<1>2. RingOK(puffer)' /\ Contents(puffer)' = Append(Contents(puffer), item[p])
  BY <1>1, WriteAppends DEF Store, PairInv
<1>3. puffer.count \in Nat /\ puffer.count < PufferLength /\ puffer'.count = puffer.count + 1
  BY <1>1, PufferAssumption DEF Store, PairInv, RingOK, IsFull, Written
<1>4. ~ IsEmpty(puffer')
  BY <1>3 DEF IsEmpty
<1>5. condQueue' = {}
  <2>1. \A t \in condQueue : t \in Consumers /\ IsEmpty(puffer)
    BY <1>1 DEF PairInv, MustWait, OneToOne
  <2> QED BY <2>1 DEF Store, Signals, OneToOne
<1>6. \A t \in Threads : pc'[t] \in {"wait", "transfer"} => t \in Consumers
  BY <1>1 DEF Store, OneToOne
<1>7. \A t \in Threads : pc'[t] \in {"wait", "transfer"} => ~ MustWait(t)'
  BY <1>4, <1>6, ThreadAssumption DEF MustWait
<1>8. \A q \in Producers :
        item'[q] # NULL <=> pc'[q] \in {"enter", "test", "wait", "transfer"}
  BY <1>1, PufferAssumption DEF Store, OneToOne
<1>9. \A c \in Consumers :
        pc'[c] \in {"enter", "test", "wait", "transfer"} => result'[c] = NULL
  BY <1>1, ThreadAssumption DEF Store, PairInv
<1> QED BY <1>2, <1>5, <1>7, <1>8, <1>9 DEF PairInv

(* The step that fetches an item: it takes the head, and wakes the producer*)
(* if that one is blocked.                                                 *)
LEMMA FetchKeepsPairInv ==
  ASSUME OneToOne, TypeOK, PairInv, NEW c \in Consumers, Fetch(c)
  PROVE  /\ PairInv'
         /\ Contents(puffer) # <<>>
         /\ Contents(puffer)' = Tail(Contents(puffer))
         /\ result' = [result EXCEPT ![c] = Head(Contents(puffer))]
<1> USE DEF TypeOK, Goto
<1>1. pc[c] = "transfer" /\ ~ IsEmpty(puffer)
  BY ThreadAssumption DEF Fetch, PairInv, MustWait
<1>2. /\ RingOK(puffer)'
      /\ Contents(puffer) # <<>>
      /\ Contents(puffer)' = Tail(Contents(puffer))
      /\ FirstItem(puffer) = Head(Contents(puffer))
  BY <1>1, ReadTakesHead DEF Fetch, PairInv
<1>3. puffer.count \in Nat /\ puffer.count <= PufferLength /\ puffer'.count = puffer.count - 1
  BY <1>1, PufferAssumption DEF Fetch, PairInv, RingOK, AfterRead
<1>4. ~ IsFull(puffer')
  BY <1>3, PufferAssumption DEF IsFull
<1>5. condQueue' = {}
  <2>1. \A t \in condQueue : t \in Producers /\ IsFull(puffer)
    BY <1>1, ThreadAssumption DEF PairInv, MustWait, OneToOne
  <2> QED BY <2>1 DEF Fetch, Signals, OneToOne
<1>6. \A t \in Threads : pc'[t] \in {"wait", "transfer"} => t \in Producers
  BY <1>1 DEF Fetch, OneToOne
<1>7. \A t \in Threads : pc'[t] \in {"wait", "transfer"} => ~ MustWait(t)'
  BY <1>4, <1>6 DEF MustWait
<1>8. \A q \in Producers :
        item'[q] # NULL <=> pc'[q] \in {"enter", "test", "wait", "transfer"}
  BY <1>1, ThreadAssumption DEF Fetch, PairInv
<1>9. \A d \in Consumers :
        pc'[d] \in {"enter", "test", "wait", "transfer"} => result'[d] = NULL
  BY <1>1 DEF Fetch, OneToOne
<1> QED BY <1>2, <1>5, <1>7, <1>8, <1>9 DEF Fetch, PairInv

(* Every other step leaves the puffer alone.                               *)
LEMMA PairInvInductive ==
  ASSUME OneToOne, TypeOK, PairInv, [Next]_vars
  PROVE  PairInv'
<1> USE DEF TypeOK, PCs, Goto, Locks, Unlocks, PairInv, MustWait
<1>1. ASSUME NEW p \in Producers, NEW x \in Items, RecvCall(p, x) PROVE PairInv'
  BY <1>1, PufferAssumption, ThreadAssumption DEF RecvCall
<1>2. ASSUME NEW c \in Consumers, SupplyCall(c) PROVE PairInv'
  BY <1>2, ThreadAssumption DEF SupplyCall
<1>3. ASSUME NEW t \in Threads, Sync(t) PROVE PairInv'
  <2>1. CASE Lock(t) \/ Unlock(t)
    BY <1>3, <2>1, ThreadAssumption DEF Lock, Unlock
  <2>2. CASE Proceed(t)
    BY <2>2, ThreadAssumption DEF Proceed
  <2>3. CASE Wait(t)
    BY <2>3, ThreadAssumption DEF Wait, Blocks
  <2>4. CASE Resume(t)
    BY <2>4, ThreadAssumption DEF Resume
  <2> QED BY <1>3, <2>1, <2>2, <2>3, <2>4 DEF Sync
<1>4. ASSUME NEW p \in Producers, Store(p) PROVE PairInv'
  BY <1>4, StoreKeepsPairInv
<1>5. ASSUME NEW c \in Consumers, Fetch(c) PROVE PairInv'
  BY <1>5, FetchKeepsPairInv
<1>6. ASSUME NEW t \in Threads, SpuriousWakeup(t) PROVE PairInv'
  BY <1>6 DEF SpuriousWakeup, OneToOne
<1>7. CASE UNCHANGED vars
  BY <1>7 DEF vars
<1> QED
  BY <1>1, <1>2, <1>3, <1>4, <1>5, <1>6, <1>7 DEF Next, Recv, Supply

(* Between one producer and one consumer the puffer is never under- or     *)
(* overrun, no item in it is lost, and no thread sleeps through its wakeup.*)
THEOREM PairSafe ==
  ASSUME OneToOne
  PROVE  Spec => [](GuardStillHolds /\ RingIntact /\ NoLostWakeup)
<1>1. Init => PairInv
  BY EmptyRing, PufferAssumption DEF Init, PairInv
<1>2. TypeOK /\ PairInv /\ [Next]_vars => PairInv'
  BY PairInvInductive
<1>3. TypeOK /\ PairInv => GuardStillHolds /\ RingIntact /\ NoLostWakeup
  BY PairInvConsequences
<1> QED BY <1>1, <1>2, <1>3, TypeCorrect, PTL DEF Spec

(* One producer and one consumer never sleep through a wakeup, although     *)
(* both wait on one condition variable that is signalled only at the edges *)
(* (cmp_predefs.h:130,157).                                                *)
THEOREM PairNeverOversleeps ==
  ASSUME OneToOne
  PROVE  Spec => []NoLostWakeup
<1>1. GuardStillHolds /\ RingIntact /\ NoLostWakeup => NoLostWakeup
  OBVIOUS
<1> QED BY <1>1, PairSafe, PTL

(* Between one producer and one consumer the puffer implements the bounded *)
(* first-in first-out channel: a store is a put, a fetch a take.           *)
THEOREM PairImplementsFifo ==
  ASSUME OneToOne
  PROVE  Spec => ImplementsFifo
<1>1. Init => Fifo!Init
  BY EmptyRing DEF Init, Fifo!Init
<1>2. TypeOK /\ PairInv /\ [Next]_vars => [Fifo!Next]_(Fifo!vars)
  <2> SUFFICES ASSUME TypeOK, PairInv, [Next]_vars
               PROVE  [Fifo!Next]_(Fifo!vars)
    OBVIOUS
  <2> USE DEF TypeOK, Goto, Fifo!vars
  <2>1. ASSUME NEW p \in Producers, NEW x \in Items, RecvCall(p, x)
        PROVE  Fifo!Next
    <3>1. Fifo!Offer(p, x)
      BY <2>1 DEF RecvCall, PairInv, Fifo!Offer
    <3> QED BY <2>1, <3>1 DEF Fifo!Next
  <2>2. ASSUME NEW c \in Consumers, SupplyCall(c)
        PROVE  [Fifo!Next]_(Fifo!vars)
    <3>1. CASE result[c] = NULL
      BY <2>2, <3>1 DEF SupplyCall
    <3>2. CASE result[c] # NULL
      <4>1. Fifo!Ask(c)
        BY <2>2, <3>2 DEF SupplyCall, Fifo!Ask
      <4> QED BY <4>1 DEF Fifo!Next
    <3> QED BY <3>1, <3>2
  <2>3. ASSUME NEW t \in Threads, Sync(t)
        PROVE  UNCHANGED Fifo!vars
    BY <2>3 DEF Sync, Lock, Proceed, Wait, Resume, Unlock
  <2>4. ASSUME NEW p \in Producers, Store(p)
        PROVE  Fifo!Next
    <3>1. Contents(puffer)' = Append(Contents(puffer), item[p])
      BY <2>4, StoreKeepsPairInv
    <3>2. item[p] # NULL
      BY <2>4 DEF Store, PairInv
    <3>3. Len(Contents(puffer)) < PufferLength
      <4>1. ~ IsFull(puffer) /\ RingOK(puffer)
        BY <2>4, ThreadAssumption DEF Store, PairInv, MustWait
      <4> QED BY <4>1, ContentsType, PufferAssumption DEF RingOK, IsFull
    <3>4. Fifo!Put(p)
      BY <2>4, <3>1, <3>2, <3>3 DEF Store, Fifo!Put
    <3> QED BY <3>4 DEF Fifo!Next
  <2>5. ASSUME NEW c \in Consumers, Fetch(c)
        PROVE  Fifo!Next
    <3>1. result[c] = NULL
      BY <2>5 DEF Fetch, PairInv
    <3>2. Fifo!Take(c)
      BY <2>5, <3>1, FetchKeepsPairInv DEF Fetch, Fifo!Take
    <3> QED BY <3>2 DEF Fifo!Next
  <2>6. ASSUME NEW t \in Threads, SpuriousWakeup(t)
        PROVE  UNCHANGED Fifo!vars
    BY <2>6 DEF SpuriousWakeup
  <2>7. CASE UNCHANGED vars
    BY <2>7 DEF vars
  <2> QED
    BY <2>1, <2>2, <2>3, <2>4, <2>5, <2>6, <2>7 DEF Next, Recv, Supply
<1>3. Init => PairInv
  BY EmptyRing, PufferAssumption DEF Init, PairInv
<1>4. TypeOK /\ PairInv /\ [Next]_vars => PairInv'
  BY PairInvInductive
<1> QED BY <1>1, <1>2, <1>3, <1>4, TypeCorrect, PTL DEF Spec, ImplementsFifo, Fifo!Spec

(* signal->waiters counts the threads in signal_wait, however many call.   *)
THEOREM WaitersExact == Spec => []WaitersCounted
<1> DEFINE InWait == {t \in Threads : pc[t] = "wait"}
           Counted == IsFiniteSet(InWait) /\ waiters = Cardinality(InWait)
<1>1. Init => Counted
  <2> SUFFICES ASSUME Init PROVE Counted
    OBVIOUS
  <2>1. InWait = {}
    BY DEF Init
  <2> QED BY <2>1, FS_EmptySet DEF Init
<1>2. TypeOK /\ Counted /\ [Next]_vars => Counted'
  <2> SUFFICES ASSUME TypeOK, Counted, [Next]_vars PROVE Counted'
    OBVIOUS
  <2> USE DEF TypeOK, PCs, Goto
  <2>1. ASSUME NEW t \in Threads, Wait(t) PROVE Counted'
    <3>1. InWait' = InWait \cup {t} /\ t \notin InWait
      BY <2>1 DEF Wait
    <3>2. waiters' = waiters + 1
      BY <2>1 DEF Wait, Blocks
    <3> QED BY <3>1, <3>2, FS_AddElement
  <2>2. ASSUME NEW t \in Threads, Resume(t) PROVE Counted'
    <3>1. InWait' = InWait \ {t} /\ t \in InWait
      BY <2>2 DEF Resume
    <3>2. waiters' = waiters - 1
      BY <2>2 DEF Resume
    <3>3. IsFiniteSet(InWait \ {t}) /\ Cardinality(InWait \ {t}) = Cardinality(InWait) - 1
      BY <3>1, FS_RemoveElement
    <3> QED BY <3>1, <3>2, <3>3
  <2>3. ASSUME InWait' = InWait, waiters' = waiters PROVE Counted'
    BY <2>3
  <2>4. ASSUME NEW p \in Producers, NEW x \in Items, RecvCall(p, x)
        PROVE  InWait' = InWait /\ waiters' = waiters
    BY <2>4 DEF RecvCall
  <2>5. ASSUME NEW c \in Consumers, SupplyCall(c)
        PROVE  InWait' = InWait /\ waiters' = waiters
    BY <2>5 DEF SupplyCall
  <2>6. ASSUME NEW t \in Threads, Lock(t) \/ Proceed(t) \/ Unlock(t)
        PROVE  InWait' = InWait /\ waiters' = waiters
    BY <2>6 DEF Lock, Proceed, Unlock
  <2>7. ASSUME NEW p \in Producers, Store(p)
        PROVE  InWait' = InWait /\ waiters' = waiters
    BY <2>7 DEF Store
  <2>8. ASSUME NEW c \in Consumers, Fetch(c)
        PROVE  InWait' = InWait /\ waiters' = waiters
    BY <2>8 DEF Fetch
  <2>9. ASSUME NEW t \in Threads, SpuriousWakeup(t)
        PROVE  InWait' = InWait /\ waiters' = waiters
    BY <2>9 DEF SpuriousWakeup
  <2>10. CASE UNCHANGED vars
    BY <2>10 DEF vars
  <2> HIDE DEF Counted
  <2> QED
    BY <2>1, <2>2, <2>3, <2>4, <2>5, <2>6, <2>7, <2>8, <2>9, <2>10
       DEF Next, Recv, Supply, Sync
<1>3. Counted => WaitersCounted
  BY DEF WaitersCounted
<1> HIDE DEF Counted
<1> QED BY <1>1, <1>2, <1>3, TypeCorrect, PTL DEF Spec
=============================================================================

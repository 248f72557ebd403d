------------------------ MODULE RecyclePufferProofs ------------------------
(***************************************************************************)
(* Theorems about the recycle puffer, for every length of the pool and any *)
(* number of threads and items.                                            *)
(***************************************************************************)
EXTENDS RecyclePuffer, TLAPS

(* Which steps have an item in hand.                                       *)
HandInv == \A t \in Clients :
  hand[t] # NULL <=> ppc[t] \in {"sUnlock", "rLock", "rTest", "dtor"}

(* OneOwner in two halves: no item is stored twice ...                     *)
Distinct(puf) ==
  \A i, j \in RingSlots : puf.items[i] = puf.items[j] => i = j \/ puf.items[i] = NULL

(* ... and none has two owners otherwise.                                  *)
Disjoint ==
  \A t \in Clients :
    /\ held[t] \cap Stored = {}
    /\ hand[t] \notin Stored
    /\ \A u \in Clients : hand[t] \notin held[u]
    /\ \A u \in Clients \ {t} :
         held[t] \cap held[u] = {} /\ (hand[t] = hand[u] => hand[t] = NULL)

(* NothingLost, item by item.                                              *)
LiveInv == \A x \in Items :
  x \in live
    <=>
  x \in Stored \/ \E t \in Clients : x \in held[t] \/ x = hand[t]

StoredClean == \A x \in Stored : x \notin dirty

(* The part of the invariant that types need: an item is only returned or  *)
(* stored where there is one, because the ring is never underrun.          *)
HandsAndRing == PoolTypeOK /\ RingOK(pool) /\ HandInv

(* The part that says who owns an item, and in what state it is.           *)
OwnerInv == /\ Distinct(pool)
            /\ Disjoint
            /\ LiveInv
            /\ StoredClean
            /\ SuppliedClean

StoredIn(puf) == {puf.items[i] : i \in RingSlots} \ {NULL}

(* The operations of the ring keep its type.                               *)
LEMMA PufferTypes ==
  ASSUME NEW puf \in DataPuffers
  PROVE  /\ EmptyPuffer \in DataPuffers
         /\ \A x \in Items \cup {NULL} : Written(puf, x) \in DataPuffers
         /\ AfterRead(puf) \in DataPuffers
         /\ FirstItem(puf) \in Items \cup {NULL}
  BY PufferAssumption
     DEF DataPuffers, RingSlots, EmptyPuffer, Written, AfterRead, FirstItem, After

(* The freshly constructed ring is intact.                                 *)
LEMMA EmptyRing == RingOK(EmptyPuffer)
  BY PufferAssumption DEF RingOK, EmptyPuffer, RingSlots, SlotAt

(* datapuffer_write with room leaves an intact ring ...                    *)
LEMMA WriteKeepsRing ==
  ASSUME NEW puf \in DataPuffers, RingOK(puf), ~ IsFull(puf), NEW x \in Items
  PROVE  RingOK(Written(puf, x))
<1> DEFINE new == Written(puf, x)
<1>1. puf.count \in Nat /\ puf.count < PufferLength /\ puf.start \in RingSlots
  BY PufferAssumption DEF RingOK, IsFull, DataPuffers
<1>2. puf.end = SlotAt(puf, puf.count)
  BY DEF RingOK, SlotAt
<1>3. ASSUME NEW k \in RingSlots PROVE SlotAt(puf, k) = puf.end <=> k = puf.count
  BY PufferAssumption, <1>1, <1>2 DEF SlotAt, RingSlots
<1>4. ASSUME NEW k \in RingSlots
      PROVE  /\ SlotAt(new, k) = SlotAt(puf, k)
             /\ SlotAt(puf, k) \in RingSlots
  BY PufferAssumption, <1>1 DEF SlotAt, RingSlots, Written
<1>5. ASSUME NEW k \in RingSlots
      PROVE  new.items[SlotAt(new, k)]
               = IF k = puf.count THEN x ELSE puf.items[SlotAt(puf, k)]
  BY <1>3, <1>4, <1>1 DEF Written, DataPuffers
<1>6. RingOK(new)
  <2>1. new.count \in 0 .. PufferLength
    BY <1>1, PufferAssumption DEF Written
  <2>2. new.end = IF new.start + new.count < PufferLength
                    THEN new.start + new.count
                    ELSE new.start + new.count - PufferLength
    BY <1>1, <1>2, PufferAssumption DEF Written, After, SlotAt, RingSlots
  <2>3. ASSUME NEW k \in RingSlots
        PROVE  new.items[SlotAt(new, k)] # NULL <=> k < new.count
    <3>1. new.count = puf.count + 1
      BY DEF Written
    <3>2. puf.items[SlotAt(puf, k)] # NULL <=> k < puf.count
      BY DEF RingOK
    <3> QED BY <1>5, <1>1, <3>1, <3>2, PufferAssumption DEF RingSlots
  <2> QED BY <2>1, <2>2, <2>3 DEF RingOK
<1> QED BY <1>6

(* ... and so does datapuffer_read with an item inside, which it returns.  *)
LEMMA ReadKeepsRing ==
  ASSUME NEW puf \in DataPuffers, RingOK(puf), ~ IsEmpty(puf)
  PROVE  RingOK(AfterRead(puf)) /\ FirstItem(puf) \in Items
<1> DEFINE new == AfterRead(puf)
<1>1. puf.count \in Nat /\ puf.count > 0 /\ puf.count <= PufferLength /\ puf.start \in RingSlots
  BY PufferAssumption DEF RingOK, IsEmpty, DataPuffers
<1>2. new.count = puf.count - 1 /\ new.start = After(puf.start) /\ new.end = puf.end
  BY DEF AfterRead
<1>3. ASSUME NEW k \in RingSlots
      PROVE  SlotAt(new, k) = IF k + 1 < PufferLength THEN SlotAt(puf, k + 1)
                                                      ELSE puf.start
  BY <1>1, <1>2, PufferAssumption DEF SlotAt, RingSlots, After
<1>4. ASSUME NEW k \in RingSlots
      PROVE  new.items[SlotAt(new, k)]
               = IF k + 1 < PufferLength THEN puf.items[SlotAt(puf, k + 1)] ELSE NULL
  <2>1. CASE k + 1 < PufferLength
    <3>1. SlotAt(new, k) = SlotAt(puf, k + 1)
      BY <2>1, <1>3
    <3>2. SlotAt(puf, k + 1) \in RingSlots /\ SlotAt(puf, k + 1) # puf.start
      BY <2>1, <1>1, PufferAssumption DEF SlotAt, RingSlots
    <3> QED BY <2>1, <3>1, <3>2 DEF AfterRead, DataPuffers
  <2>2. CASE ~ (k + 1 < PufferLength)
    <3>1. SlotAt(new, k) = puf.start
      BY <2>2, <1>3
    <3> QED BY <2>2, <3>1, <1>1 DEF AfterRead, DataPuffers
  <2> QED BY <2>1, <2>2
<1>5. RingOK(new)
  <2>1. new.count \in 0 .. PufferLength
    BY <1>1, <1>2, PufferAssumption
  <2>2. new.end = IF new.start + new.count < PufferLength
                    THEN new.start + new.count
                    ELSE new.start + new.count - PufferLength
    BY <1>1, <1>2, PufferAssumption DEF RingOK, After, RingSlots
  <2>3. ASSUME NEW k \in RingSlots
        PROVE  new.items[SlotAt(new, k)] # NULL <=> k < new.count
    <3>1. CASE k + 1 < PufferLength
      <4>1. puf.items[SlotAt(puf, k + 1)] # NULL <=> k + 1 < puf.count
        BY <3>1, PufferAssumption DEF RingOK, RingSlots
      <4> QED BY <4>1, <3>1, <1>4, <1>2, <1>1 DEF RingSlots
    <3>2. CASE ~ (k + 1 < PufferLength)
      BY <3>2, <1>4, <1>2, <1>1, PufferAssumption DEF RingSlots
    <3> QED BY <3>1, <3>2
  <2> QED BY <2>1, <2>2, <2>3 DEF RingOK
<1>6. FirstItem(puf) \in Items
  <2>1. 0 \in RingSlots /\ SlotAt(puf, 0) = puf.start
    BY <1>1, PufferAssumption DEF RingSlots, SlotAt
  <2> QED BY <2>1, <1>1 DEF RingOK, FirstItem, DataPuffers
<1> QED BY <1>5, <1>6

(* datapuffer_write with room overwrites a NULL slot, so it adds the item  *)
(* to the stored ones and drops none.                                      *)
LEMMA WriteStores ==
  ASSUME NEW puf \in DataPuffers, RingOK(puf), ~ IsFull(puf), NEW x \in Items
  PROVE  /\ StoredIn(Written(puf, x)) = StoredIn(puf) \cup {x}
         /\ Distinct(puf) /\ x \notin StoredIn(puf) => Distinct(Written(puf, x))
<1>1. puf.end \in RingSlots /\ puf.items[puf.end] = NULL
  <2>1. puf.count \in RingSlots /\ puf.end = SlotAt(puf, puf.count)
    BY PufferAssumption DEF RingOK, IsFull, RingSlots, SlotAt, DataPuffers
  <2>2. puf.items[SlotAt(puf, puf.count)] # NULL <=> puf.count < puf.count
    BY <2>1 DEF RingOK
  <2>3. ~ (puf.count < puf.count)
    BY <2>1 DEF RingSlots
  <2> QED BY <2>1, <2>2, <2>3 DEF DataPuffers
<1>2. \A i \in RingSlots : Written(puf, x).items[i] = IF i = puf.end THEN x ELSE puf.items[i]
  BY <1>1 DEF Written, DataPuffers
<1>3. x # NULL
  BY PufferAssumption
<1>4. StoredIn(Written(puf, x)) = StoredIn(puf) \cup {x}
  BY <1>1, <1>2, <1>3 DEF StoredIn
<1>5. ASSUME Distinct(puf), x \notin StoredIn(puf) PROVE Distinct(Written(puf, x))
  <2>1. \A i \in RingSlots : puf.items[i] # x
    BY <1>3, <1>5 DEF StoredIn
  <2> QED BY <1>2, <1>5, <2>1 DEF Distinct
<1> QED BY <1>4, <1>5

(* datapuffer_read nulls the one slot that holds the item it returns.      *)
LEMMA ReadUnstores ==
  ASSUME NEW puf \in DataPuffers, RingOK(puf), ~ IsEmpty(puf), Distinct(puf)
  PROVE  /\ StoredIn(AfterRead(puf)) = StoredIn(puf) \ {FirstItem(puf)}
         /\ FirstItem(puf) \in StoredIn(puf)
         /\ Distinct(AfterRead(puf))
<1>1. FirstItem(puf) \in Items /\ FirstItem(puf) # NULL
  BY ReadKeepsRing, PufferAssumption
<1>2. puf.start \in RingSlots
  BY DEF DataPuffers
<1>3. \A i \in RingSlots : AfterRead(puf).items[i] = IF i = puf.start THEN NULL ELSE puf.items[i]
  BY <1>2 DEF AfterRead, DataPuffers
<1>4. FirstItem(puf) \in StoredIn(puf)
  BY <1>1, <1>2 DEF StoredIn, FirstItem
<1>5. \A i \in RingSlots : puf.items[i] = FirstItem(puf) => i = puf.start
  BY <1>1, <1>2 DEF Distinct, FirstItem
<1>6. StoredIn(AfterRead(puf)) = StoredIn(puf) \ {FirstItem(puf)}
  BY <1>2, <1>3, <1>5 DEF StoredIn, FirstItem
<1>7. Distinct(AfterRead(puf))
  BY <1>3 DEF Distinct
<1> QED BY <1>4, <1>6, <1>7

(* The emptied pool stores nothing.                                        *)
LEMMA EmptyStores == StoredIn(EmptyPuffer) = {} /\ Distinct(EmptyPuffer)
  BY DEF StoredIn, Distinct, EmptyPuffer

(* HandsAndRing holds forever.                                             *)
LEMMA HandsAndRingHold == PoolSpec => []HandsAndRing
<1> USE NoClientAssumption DEF HandsAndRing, PoolTypeOK, PoolPCs, HandInv
<1>1. PoolInit => HandsAndRing
  <2>1. EmptyPuffer \in DataPuffers
    BY PufferAssumption DEF EmptyPuffer, DataPuffers, RingSlots
  <2> QED BY <2>1, EmptyRing DEF PoolInit
<1>2. HandsAndRing /\ [PoolNext]_poolVars => HandsAndRing'
  <2> SUFFICES ASSUME HandsAndRing, [PoolNext]_poolVars PROVE HandsAndRing'
    OBVIOUS
  <2> USE DEF PoolGoto, SpinLocks, SpinUnlocks, PoolReturns
  <2>1. ASSUME NEW t \in Clients, PoolSupplyCall(t) \/ SupplyLock(t) \/ SupplyEmpty(t)
        PROVE  HandsAndRing'
    BY <2>1 DEF PoolSupplyCall, SupplyLock, SupplyEmpty
  <2>2. ASSUME NEW t \in Clients, Construct(t) PROVE HandsAndRing'
    BY <2>2 DEF Construct
  <2>3. ASSUME NEW t \in Clients, SupplyRead(t) PROVE HandsAndRing'
    <3>1. AfterRead(pool) \in DataPuffers
      BY PufferTypes
    <3>2. RingOK(AfterRead(pool)) /\ FirstItem(pool) \in Items
      BY <2>3, ReadKeepsRing DEF SupplyRead
    <3> QED BY <2>3, <3>1, <3>2, PufferAssumption DEF SupplyRead
  <2>4. ASSUME NEW t \in Clients, SupplyReturn(t) PROVE HandsAndRing'
    <3>1. hand[t] \in Items
      BY <2>4 DEF SupplyReturn
    <3> QED BY <2>4, <3>1 DEF SupplyReturn
  <2>5. ASSUME NEW t \in Clients, NEW x \in Items, PoolRecvCall(t, x) PROVE HandsAndRing'
    BY <2>5, PufferAssumption DEF PoolRecvCall
  <2>6. ASSUME NEW t \in Clients, RecvLock(t) \/ RecvFull(t) \/ RecvReturn(t)
        PROVE  HandsAndRing'
    BY <2>6 DEF RecvLock, RecvFull, RecvReturn
  <2>7. ASSUME NEW t \in Clients, Dispose(t) PROVE HandsAndRing'
    BY <2>7 DEF Dispose
  <2>8. ASSUME NEW t \in Clients, RecvStore(t) PROVE HandsAndRing'
    <3>1. hand[t] \in Items
      BY <2>8 DEF RecvStore
    <3>2. Written(pool, hand[t]) \in DataPuffers
      BY <3>1, PufferTypes
    <3>3. RingOK(Written(pool, hand[t]))
      BY <2>8, <3>1, WriteKeepsRing DEF RecvStore
    <3> QED BY <2>8, <3>2, <3>3 DEF RecvStore
  <2>9. ASSUME NEW t \in Clients, NEW x \in Items, Use(t, x) PROVE HandsAndRing'
    BY <2>9 DEF Use
  <2>10. ASSUME NEW t \in Clients, NEW u \in Clients, NEW x \in Items, PassOn(t, u, x)
         PROVE  HandsAndRing'
    BY <2>10 DEF PassOn
  <2>11. CASE Deinit
    <3>1. EmptyPuffer \in DataPuffers
      BY PufferTypes
    <3> QED BY <2>11, <3>1, EmptyRing DEF Deinit
  <2>12. CASE UNCHANGED poolVars
    BY <2>12 DEF poolVars
  <2> QED
    BY <2>1, <2>2, <2>3, <2>4, <2>5, <2>6, <2>7, <2>8, <2>9, <2>10, <2>11, <2>12
       DEF PoolNext, PoolSupply, PoolRecv
<1> QED BY <1>1, <1>2, PTL DEF PoolSpec

(* The variables keep their types.                                         *)
THEOREM TypeCorrect == PoolSpec => []PoolTypeOK
<1>1. HandsAndRing => PoolTypeOK
  BY DEF HandsAndRing
<1> QED BY <1>1, HandsAndRingHold, PTL

(* The ring is never over- or underrun, whatever the threads do.           *)
THEOREM RingCorrect == PoolSpec => []PoolIntact
<1>1. HandsAndRing => PoolIntact
  BY DEF HandsAndRing, PoolIntact
<1> QED BY <1>1, HandsAndRingHold, PTL

(* The ownership part, from what the ring operations do to the set of the  *)
(* stored items.  Only SupplyRead, RecvStore and Deinit change that set.   *)
LEMMA OwnerInvInitially == PoolInit => OwnerInv
<1> SUFFICES ASSUME PoolInit PROVE OwnerInv
  OBVIOUS
<1>1. Stored = {} /\ Distinct(pool)
  BY EmptyStores DEF PoolInit, Stored, StoredIn
<1> QED BY <1>1, PufferAssumption
        DEF PoolInit, OwnerInv, Disjoint, LiveInv, StoredClean, SuppliedClean

LEMMA OwnerInvStep ==
  ASSUME HandsAndRing, HandsAndRing', OwnerInv, [PoolNext]_poolVars
  PROVE  OwnerInv'
<1> USE DEF HandsAndRing, PoolTypeOK, HandInv, OwnerInv, Disjoint, LiveInv,
            StoredClean, SuppliedClean, PoolGoto, SpinLocks, SpinUnlocks, PoolReturns
<1>1. Stored = StoredIn(pool) /\ Stored' = StoredIn(pool')
  BY DEF Stored, StoredIn
<1>2. Stored \subseteq Items /\ NULL \notin Stored
  BY DEF Stored, DataPuffers
<1>3. ASSUME pool' = pool PROVE Stored' = Stored /\ Distinct(pool')
  BY <1>1, <1>3
<1>4. ASSUME NEW t \in Clients,
             \/ PoolSupplyCall(t) \/ SupplyLock(t) \/ SupplyEmpty(t)
             \/ RecvLock(t) \/ RecvFull(t) \/ RecvReturn(t)
      PROVE  OwnerInv'
  <2>1. Stored' = Stored /\ Distinct(pool')
    BY <1>3, <1>4
       DEF PoolSupplyCall, SupplyLock, SupplyEmpty, RecvLock, RecvFull, RecvReturn
  <2> QED BY <1>4, <2>1
          DEF PoolSupplyCall, SupplyLock, SupplyEmpty, RecvLock, RecvFull, RecvReturn
<1>5. ASSUME NEW t \in Clients, Construct(t) PROVE OwnerInv'
  <2>1. Stored' = Stored /\ Distinct(pool')
    BY <1>3, <1>5 DEF Construct
  <2>2. PICK x \in Items \ live :
          /\ live' = live \cup {x}
          /\ dirty' = dirty \ {x}
          /\ held' = [held EXCEPT ![t] = @ \cup {x}]
          /\ hand' = [hand EXCEPT ![t] = NULL]
    BY <1>5 DEF Construct
  <2>3. hand[t] = NULL /\ hand' = hand
    BY <1>5, <2>2 DEF Construct
  <2>4. x \notin Stored /\ x # NULL /\ \A u \in Clients : x \notin held[u] /\ x # hand[u]
    BY PufferAssumption
  <2>5. Disjoint'
    BY <2>1, <2>2, <2>3, <2>4
  <2>6. LiveInv'
    BY <2>1, <2>2, <2>3
  <2> QED BY <1>5, <2>1, <2>2, <2>3, <2>5, <2>6 DEF Construct
<1>6. ASSUME NEW t \in Clients, SupplyRead(t) PROVE OwnerInv'
  <2>1. /\ Stored' = Stored \ {FirstItem(pool)}
        /\ FirstItem(pool) \in Stored
        /\ Distinct(pool')
    BY <1>1, <1>6, ReadUnstores DEF SupplyRead
  <2>2. hand[t] = NULL
    BY <1>6 DEF SupplyRead
  <2>3. Disjoint'
    BY <1>2, <1>6, <2>1, <2>2 DEF SupplyRead
  <2>4. LiveInv'
    BY <1>2, <1>6, <2>1, <2>2, PufferAssumption DEF SupplyRead
  <2> QED BY <1>6, <2>1, <2>3, <2>4 DEF SupplyRead
<1>7. ASSUME NEW t \in Clients, SupplyReturn(t) PROVE OwnerInv'
  <2>1. Stored' = Stored /\ Distinct(pool')
    BY <1>3, <1>7 DEF SupplyReturn
  <2>2. hand[t] # NULL
    BY <1>7 DEF SupplyReturn
  <2>3. Disjoint'
    <3>1. /\ \A u \in Clients : hand'[u] = IF u = t THEN NULL ELSE hand[u]
          /\ \A u \in Clients : held'[u] = IF u = t THEN held[t] \cup {hand[t]} ELSE held[u]
      BY <1>7 DEF SupplyReturn
    <3>2. \A u \in Clients : NULL \notin held[u]
      BY PufferAssumption
    <3> QED BY <1>2, <2>1, <2>2, <3>1, <3>2
  <2>4. LiveInv'
    BY <1>7, <2>1, PufferAssumption DEF SupplyReturn
  <2> QED BY <1>7, <2>1, <2>3, <2>4 DEF SupplyReturn
<1>8. ASSUME NEW t \in Clients, NEW x \in Items, PoolRecvCall(t, x) PROVE OwnerInv'
  <2>1. Stored' = Stored /\ Distinct(pool')
    BY <1>3, <1>8 DEF PoolRecvCall
  <2>2. hand[t] = NULL
    BY <1>8 DEF PoolRecvCall
  <2>3. Disjoint'
    BY <1>2, <1>8, <2>1, <2>2, PufferAssumption DEF PoolRecvCall
  <2>4. LiveInv'
    BY <1>8, <2>1, <2>2, PufferAssumption DEF PoolRecvCall
  <2> QED BY <1>8, <2>1, <2>3, <2>4 DEF PoolRecvCall
<1>9. ASSUME NEW t \in Clients, Dispose(t) PROVE OwnerInv'
  <2>1. Stored' = Stored /\ Distinct(pool')
    BY <1>3, <1>9 DEF Dispose
  <2>2. hand[t] # NULL
    BY <1>9 DEF Dispose
  <2>3. Disjoint'
    <3>1. /\ \A u \in Clients : hand'[u] = IF u = t THEN NULL ELSE hand[u]
          /\ \A u \in Clients : held'[u] = held[u]
      BY <1>9 DEF Dispose
    <3>2. \A u \in Clients : NULL \notin held[u]
      BY PufferAssumption
    <3> QED BY <1>2, <2>1, <2>2, <3>1, <3>2
  <2>4. LiveInv'
    BY <1>9, <2>1, <2>2, PufferAssumption DEF Dispose
  <2> QED BY <1>9, <2>1, <2>3, <2>4 DEF Dispose
<1>10. ASSUME NEW t \in Clients, RecvStore(t) PROVE OwnerInv'
  <2>1. hand[t] \in Items /\ hand[t] \notin Stored
    BY <1>10 DEF RecvStore
  <2>2. Stored' = Stored \cup {hand[t]} /\ Distinct(pool')
    BY <1>1, <1>10, <2>1, WriteStores DEF RecvStore
  <2>3. Disjoint'
    BY <1>2, <1>10, <2>1, <2>2, PufferAssumption DEF RecvStore
  <2>4. LiveInv'
    BY <1>10, <2>1, <2>2, PufferAssumption DEF RecvStore
  <2> QED BY <1>10, <2>1, <2>2, <2>3, <2>4 DEF RecvStore
<1>11. ASSUME NEW t \in Clients, NEW x \in Items, Use(t, x) PROVE OwnerInv'
  <2>1. Stored' = Stored /\ Distinct(pool')
    BY <1>3, <1>11 DEF Use
  <2> QED BY <1>11, <2>1 DEF Use
<1>12. ASSUME NEW t \in Clients, NEW u \in Clients, NEW x \in Items, PassOn(t, u, x)
       PROVE  OwnerInv'
  <2>1. Stored' = Stored /\ Distinct(pool')
    BY <1>3, <1>12 DEF PassOn
  <2>2. Disjoint'
    BY <1>12, <2>1 DEF PassOn
  <2>3. LiveInv'
    BY <1>12, <2>1 DEF PassOn
  <2> QED BY <1>12, <2>1, <2>2, <2>3 DEF PassOn
<1>13. CASE Deinit
  <2>1. Stored' = {} /\ Distinct(pool')
    BY <1>1, <1>13, EmptyStores DEF Deinit
  <2>2. LiveInv'
    BY <1>13, <2>1 DEF Deinit
  <2> QED BY <1>13, <2>1, <2>2 DEF Deinit
<1>14. CASE UNCHANGED poolVars
  <2>1. Stored' = Stored /\ Distinct(pool')
    BY <1>3, <1>14 DEF poolVars
  <2> QED BY <1>14, <2>1 DEF poolVars
<1> QED
  BY <1>4, <1>5, <1>6, <1>7, <1>8, <1>9, <1>10, <1>11, <1>12, <1>13, <1>14
     DEF PoolNext, PoolSupply, PoolRecv

LEMMA OwnerInvHolds == PoolSpec => []OwnerInv
<1>1. HandsAndRing /\ HandsAndRing' /\ OwnerInv /\ [PoolNext]_poolVars => OwnerInv'
  BY OwnerInvStep
<1> QED BY <1>1, OwnerInvInitially, HandsAndRingHold, PTL DEF PoolSpec

(* No item ever has two owners.                                            *)
THEOREM Ownership == PoolSpec => []OneOwner
<1>1. OwnerInv => OneOwner
  BY DEF OwnerInv, Distinct, Disjoint, OneOwner
<1> QED BY <1>1, OwnerInvHolds, PTL

(* What is alive is exactly what is stored, in a call or with a client: no *)
(* item leaks and none is destroyed while somebody has it.                 *)
THEOREM Conservation == PoolSpec => []NothingLost
<1>1. HandsAndRing /\ OwnerInv => NothingLost
  <2> SUFFICES ASSUME HandsAndRing, OwnerInv PROVE live = Stored \cup Owned
    BY DEF NothingLost
  <2>1. Stored \subseteq Items
    BY DEF HandsAndRing, PoolTypeOK, Stored, DataPuffers
  <2>2. Owned \subseteq Items
    BY DEF HandsAndRing, PoolTypeOK, Owned
  <2>3. \A x \in Items : x \in Owned <=> \E t \in Clients : x \in held[t] \/ x = hand[t]
    BY PufferAssumption DEF Owned
  <2> QED BY <2>1, <2>2, <2>3 DEF OwnerInv, LiveInv, HandsAndRing, PoolTypeOK
<1> QED BY <1>1, HandsAndRingHold, OwnerInvHolds, PTL

(* The supplier hands out clean items only.                                *)
THEOREM HandsOutClean == PoolSpec => []SuppliedClean
<1>1. OwnerInv => SuppliedClean
  BY DEF OwnerInv
<1> QED BY <1>1, OwnerInvHolds, PTL
=============================================================================

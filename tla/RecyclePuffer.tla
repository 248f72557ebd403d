---------------------------- MODULE RecyclePuffer ----------------------------
(***************************************************************************)
(* The recycle puffer (object pool) that CMP_DEF_RECPUFFER of              *)
(* src/cmp/cmp_predefs.h generates.  Its supplier hands out a stored item  *)
(* or constructs one, its receiver cleans and stores an item or destroys   *)
(* it; a spin lock guards the datapuffer_t, and is released before         *)
(* ITEM_CTOR and ITEM_DTOR are called.                                     *)
(*                                                                         *)
(* Client threads take items, write into them, pass them on to each other  *)
(* and give them back, any number of times; then the component is          *)
(* destructed.                                                             *)
(***************************************************************************)
EXTENDS DataPuffer, FiniteSets

CONSTANTS
  Clients,       (* the threads that use the pool                          *)
  NoClient       (* the spin lock is free                                  *)

ASSUME NoClientAssumption == NoClient \notin Clients

VARIABLES
  pool,     (* this->puffer                                                *)
  spin,     (* the thread that owns this->spin, or NoClient                *)
  ppc,      (* where each thread is                                        *)
  hand,     (* hand[t]: the receiver's item or the supplier's result       *)
  held,     (* held[t]: the items the client code of t owns                *)
  live,     (* the items constructed and not destroyed                     *)
  dirty,    (* the items a client has written into since they were clean   *)
  deinited  (* the component's deinit has run                              *)

poolVars == <<pool, spin, ppc, hand, held, live, dirty, deinited>>

(* "s..." in the supplier, "r..." in the receiver: "Lock" in spin_lock,    *)
(* "Test" at the test of the counter, "Unlock" at the last spin_unlock;    *)
(* "ctor" and "dtor" in ITEM_CTOR and ITEM_DTOR, without the lock.         *)
PoolPCs == {"idle", "sLock", "sTest", "sUnlock", "ctor",
            "rLock", "rTest", "rUnlock", "dtor"}

PoolInit ==
  /\ pool = EmptyPuffer
  /\ spin = NoClient
  /\ ppc = [t \in Clients |-> "idle"]
  /\ hand = [t \in Clients |-> NULL]
  /\ held = [t \in Clients |-> {}]
  /\ live = {}
  /\ dirty = {}
  /\ deinited = 0

PoolGoto(t, from, to) == ppc[t] = from /\ ppc' = [ppc EXCEPT ![t] = to]
SpinLocks(t)          == spin = NoClient /\ spin' = t
SpinUnlocks(t)        == spin' = NoClient

(* The process returns: a supplier's result is the client's from now on.   *)
PoolReturns(t, items) == /\ held' = [held EXCEPT ![t] = @ \cup items]
                         /\ hand' = [hand EXCEPT ![t] = NULL]

(* What is out of the pool, or about to be.                                *)
Owned == (UNION {held[t] : t \in Clients}) \cup ({hand[t] : t \in Clients} \ {NULL})
Asking == {t \in Clients : ppc[t] \in {"sLock", "sTest", "ctor"}}

-----------------------------------------------------------------------------
(* CMP_VAR##_process_supplier.  Items bounds the items alive at a time: a  *)
(* supplier is only called while ITEM_CTOR is sure to find a free one.     *)
PoolSupplyCall(t) ==
  /\ deinited = 0
  /\ Cardinality(live) + Cardinality(Asking) < Cardinality(Items)
  /\ PoolGoto(t, "idle", "sLock")
  /\ UNCHANGED <<pool, spin, hand, held, live, dirty, deinited>>

SupplyLock(t) ==
  /\ PoolGoto(t, "sLock", "sTest")
  /\ SpinLocks(t)
  /\ UNCHANGED <<pool, hand, held, live, dirty, deinited>>

(* Empty: spin_unlock, then ITEM_CTOR.                                     *)
SupplyEmpty(t) ==
  /\ IsEmpty(pool)
  /\ PoolGoto(t, "sTest", "ctor")
  /\ SpinUnlocks(t)
  /\ UNCHANGED <<pool, hand, held, live, dirty, deinited>>

Construct(t) ==
  /\ PoolGoto(t, "ctor", "idle")
  /\ \E x \in Items \ live :
       /\ live' = live \cup {x}
       /\ dirty' = dirty \ {x}
       /\ PoolReturns(t, {x})
  /\ UNCHANGED <<pool, spin, deinited>>

(* Mutant: the item handed out stays in the ring.                          *)
SupplyPeek(t) ==
  /\ ~ IsEmpty(pool)
  /\ PoolGoto(t, "sTest", "sUnlock")
  /\ hand' = [hand EXCEPT ![t] = FirstItem(pool)]
  /\ UNCHANGED <<pool, spin, held, live, dirty, deinited>>

SupplyRead(t) ==
  /\ ~ IsEmpty(pool)
  /\ PoolGoto(t, "sTest", "sUnlock")
  /\ hand' = [hand EXCEPT ![t] = FirstItem(pool)]
  /\ pool' = AfterRead(pool)
  /\ UNCHANGED <<spin, held, live, dirty, deinited>>

SupplyReturn(t) ==
  /\ PoolGoto(t, "sUnlock", "idle")
  /\ SpinUnlocks(t)
  /\ PoolReturns(t, {hand[t]})
  /\ UNCHANGED <<pool, live, dirty, deinited>>

-----------------------------------------------------------------------------
(* CMP_VAR##_process_receiver                                              *)
PoolRecvCall(t, x) ==
  /\ deinited = 0
  /\ x \in held[t]
  /\ PoolGoto(t, "idle", "rLock")
  /\ hand' = [hand EXCEPT ![t] = x]
  /\ held' = [held EXCEPT ![t] = @ \ {x}]
  /\ UNCHANGED <<pool, spin, live, dirty, deinited>>

RecvLock(t) ==
  /\ PoolGoto(t, "rLock", "rTest")
  /\ SpinLocks(t)
  /\ UNCHANGED <<pool, hand, held, live, dirty, deinited>>

(* Mutant: an item that finds no room is dropped.                          *)
RecvFullDrops(t) ==
  /\ IsFull(pool)
  /\ PoolGoto(t, "rTest", "rUnlock")
  /\ hand' = [hand EXCEPT ![t] = NULL]
  /\ UNCHANGED <<pool, spin, held, live, dirty, deinited>>

(* Mutant: the spin lock is kept on the way to ITEM_DTOR.                  *)
RecvFullLocked(t) ==
  /\ IsFull(pool)
  /\ PoolGoto(t, "rTest", "dtor")
  /\ UNCHANGED <<pool, spin, hand, held, live, dirty, deinited>>

(* Full: spin_unlock, then ITEM_DTOR.                                      *)
RecvFull(t) ==
  /\ IsFull(pool)
  /\ PoolGoto(t, "rTest", "dtor")
  /\ SpinUnlocks(t)
  /\ UNCHANGED <<pool, hand, held, live, dirty, deinited>>

Dispose(t) ==
  /\ PoolGoto(t, "dtor", "idle")
  /\ live' = live \ {hand[t]}
  /\ PoolReturns(t, {})
  /\ UNCHANGED <<pool, spin, dirty, deinited>>

(* Mutant: ITEM_CLEAN is not called.                                       *)
RecvStoreUnclean(t) ==
  /\ ~ IsFull(pool)
  /\ PoolGoto(t, "rTest", "rUnlock")
  /\ pool' = Written(pool, hand[t])
  /\ hand' = [hand EXCEPT ![t] = NULL]
  /\ UNCHANGED <<spin, held, live, dirty, deinited>>

(* ITEM_CLEAN and datapuffer_write.                                        *)
RecvStore(t) ==
  /\ ~ IsFull(pool)
  /\ PoolGoto(t, "rTest", "rUnlock")
  /\ dirty' = dirty \ {hand[t]}
  /\ pool' = Written(pool, hand[t])
  /\ hand' = [hand EXCEPT ![t] = NULL]
  /\ UNCHANGED <<spin, held, live, deinited>>

RecvReturn(t) ==
  /\ PoolGoto(t, "rUnlock", "idle")
  /\ SpinUnlocks(t)
  /\ UNCHANGED <<pool, hand, held, live, dirty, deinited>>

-----------------------------------------------------------------------------
(* The clients: a thread writes into an item it owns, and passes one on    *)
(* (through some other component).                                         *)
Use(t, x) ==
  /\ x \in held[t]
  /\ dirty' = dirty \cup {x}
  /\ UNCHANGED <<pool, spin, ppc, hand, held, live, deinited>>

PassOn(t, u, x) ==
  /\ x \in held[t]
  /\ t # u
  /\ held' = [held EXCEPT ![t] = @ \ {x}, ![u] = @ \cup {x}]
  /\ UNCHANGED <<pool, spin, ppc, hand, live, dirty, deinited>>

Stored == {pool.items[i] : i \in RingSlots} \ {NULL}

(* CMP_VAR##_deinit, once no thread is in a call: GEN_PUFF_CLEAR_PROC      *)
(* destroys every stored item.                                             *)
Deinit ==
  /\ deinited = 0
  /\ \A t \in Clients : ppc[t] = "idle"
  /\ live' = live \ Stored
  /\ pool' = EmptyPuffer
  /\ deinited' = 1
  /\ UNCHANGED <<spin, ppc, hand, held, dirty>>

-----------------------------------------------------------------------------
PoolSupply(t) == SupplyLock(t) \/ SupplyEmpty(t) \/ Construct(t) \/ SupplyRead(t) \/ SupplyReturn(t)
PoolRecv(t)   == RecvLock(t) \/ RecvFull(t) \/ Dispose(t) \/ RecvStore(t) \/ RecvReturn(t)

PoolNext == \/ \E t \in Clients : PoolSupply(t) \/ PoolRecv(t) \/ PoolSupplyCall(t)
            \/ \E t \in Clients, x \in Items : PoolRecvCall(t, x) \/ Use(t, x)
            \/ \E t, u \in Clients, x \in Items : PassOn(t, u, x)
            \/ Deinit

PoolSpec == PoolInit /\ [][PoolNext]_poolVars

(* A call goes on, and a spin lock that is released again and again is     *)
(* obtained in the end.                                                    *)
PoolFairness == \A t \in Clients : SF_poolVars(PoolSupply(t)) /\ SF_poolVars(PoolRecv(t))

PoolFairSpec == PoolSpec /\ PoolFairness

-----------------------------------------------------------------------------
PoolTypeOK ==
  /\ pool \in DataPuffers
  /\ spin \in Clients \cup {NoClient}
  /\ ppc \in [Clients -> PoolPCs]
  /\ hand \in [Clients -> Items \cup {NULL}]
  /\ held \in [Clients -> SUBSET Items]
  /\ live \subseteq Items
  /\ dirty \subseteq Items
  /\ deinited \in {0, 1}

(* The pool never over- or underruns its ring, whatever the threads do.    *)
PoolIntact == RingOK(pool)

(* No item has two owners: it is stored at most once, and not stored while *)
(* a client or a call has it, and no two clients or calls have it.         *)
OneOwner ==
  /\ \A i, j \in RingSlots :
       pool.items[i] = pool.items[j] => i = j \/ pool.items[i] = NULL
  /\ \A t \in Clients :
       /\ held[t] \cap Stored = {}
       /\ hand[t] \notin Stored
       /\ \A u \in Clients : hand[t] \notin held[u]
       /\ \A u \in Clients \ {t} :
            held[t] \cap held[u] = {} /\ (hand[t] = hand[u] => hand[t] = NULL)

(* No item is lost and none is used after its destructor: what is alive is *)
(* exactly what is stored, in a call, or with a client.                    *)
NothingLost ==
  live = Stored \cup Owned

(* The supplier hands out clean items only: what is stored has been        *)
(* cleaned, and nobody writes into it while it is stored.                  *)
SuppliedClean == \A t \in Clients : ppc[t] = "sUnlock" => hand[t] \notin dirty

(* Neither process waits for an item or for room: every call returns.      *)
PoolCallsReturn == \A t \in Clients : ppc[t] # "idle" ~> ppc[t] = "idle"
=============================================================================

----------------------------- MODULE DataPuffer -----------------------------
(***************************************************************************)
(* datapuffer_t of src/lib/lib_puffers.c: a ring of PufferLength slots     *)
(* with a read position, a write position and a counter.  Neither          *)
(* datapuffer_read nor datapuffer_write looks at the counter; the callers  *)
(* (the signalized and the recycle puffers) guard them.  The module is a   *)
(* library of operators over the record that holds one puffer.             *)
(***************************************************************************)
EXTENDS Integers

CONSTANTS
  PufferLength,   (* abs_length, the argument of datapuffer_ctor           *)
  Items,          (* the pointers a client may store                       *)
  NULL            (* the null pointer                                      *)

ASSUME PufferAssumption ==
  /\ PufferLength \in Nat \ {0}
  /\ NULL \notin Items

RingSlots == 0 .. PufferLength - 1

DataPuffers == [items : [RingSlots -> Items \cup {NULL}],
                start : RingSlots,
                end   : RingSlots,
                count : Int]

(* datapuffer_ctor *)
EmptyPuffer == [items |-> [i \in RingSlots |-> NULL],
                start |-> 0, end |-> 0, count |-> 0]

(* The step of a position: "if(abs_length <= ++pos) pos = 0".              *)
After(pos) == IF PufferLength <= pos + 1 THEN 0 ELSE pos + 1

(* Mutant: the write position is not moved.                                *)
WrittenInPlace(puffer, item) ==
  [puffer EXCEPT !.items[puffer.end] = item, !.count = @ + 1]

(* datapuffer_write: no test for room, the slot is overwritten.            *)
Written(puffer, item) ==
  [items |-> [puffer.items EXCEPT ![puffer.end] = item],
   start |-> puffer.start,
   end   |-> After(puffer.end),
   count |-> puffer.count + 1]

(* What datapuffer_read returns, and the puffer it leaves behind: no test  *)
(* for an item, the slot is nulled and the counter falls.                  *)
FirstItem(puffer) == puffer.items[puffer.start]

AfterRead(puffer) ==
  [items |-> [puffer.items EXCEPT ![puffer.start] = NULL],
   start |-> After(puffer.start),
   end   |-> puffer.end,
   count |-> puffer.count - 1]

(* datapuffer_isfull, datapuffer_isempty                                   *)
IsFull(puffer)  == puffer.count = PufferLength
IsEmpty(puffer) == puffer.count = 0

-----------------------------------------------------------------------------
(* The k-th slot after the read position, for k in RingSlots.              *)
SlotAt(puffer, k) ==
  IF puffer.start + k < PufferLength THEN puffer.start + k
                                     ELSE puffer.start + k - PufferLength

(* The stored items, oldest first: what the ring stands for.               *)
Contents(puffer) ==
  [k \in 1 .. puffer.count |-> puffer.items[SlotAt(puffer, k - 1)]]

(* A ring no operation has over- or underrun: the counter is in range, the *)
(* write position is count slots after the read position, the slots in     *)
(* between hold items, and all the others are NULL.                        *)
RingOK(puffer) ==
  /\ puffer.count \in 0 .. PufferLength
  /\ puffer.end = IF puffer.start + puffer.count < PufferLength
                    THEN puffer.start + puffer.count
                    ELSE puffer.start + puffer.count - PufferLength
  /\ \A k \in RingSlots : puffer.items[SlotAt(puffer, k)] # NULL <=> k < puffer.count
=============================================================================

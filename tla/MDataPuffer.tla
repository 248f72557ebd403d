---------------------------- MODULE MDataPuffer ----------------------------
(***************************************************************************)
(* mdatapuffer_t of src/lib/lib_puffers.c: a ring whose reader may leave   *)
(* the oldest _plus items behind, so that it gets holes.  The caller asks  *)
(* for the capacity before it writes or reads; items are numbered in the   *)
(* order they are written, 0 is the null pointer.                          *)
(***************************************************************************)
EXTENDS Integers, Sequences, SequencesExt

CONSTANTS
  RingLength,   (* items_num                                               *)
  MaxItems      (* a bound on the items written                            *)

ASSUME RingAssumption == RingLength \in Nat \ {0} /\ MaxItems \in Nat

Ring == 0 .. RingLength - 1

VARIABLES
  ring,      (* the mdatapuffer_t                                          *)
  written,   (* the items written so far                                   *)
  unread,    (* the ones that were not read, in the order written          *)
  offer,     (* how many more the caller may write of the capacity it got  *)
  writes,    (* how many it has written of that                            *)
  given,     (* what mdatapuffer_read returned last                        *)
  awaited,   (* and what it should have returned                           *)
  settled,   (* 1 while the caller reads: from mdatapuffer_setreadindex,   *)
             (* if that has set the index, until the read capacity is 0    *)
  passed     (* 1 once a write went on to where the items start, over the  *)
             (* oldest one or over a start that is out of date             *)

ringVars == <<ring, written, unread, offer, writes, given, awaited, settled, passed>>

(* mdatapuffer_ctor, which leaves _plus uninitialised.                     *)
RingInit ==
  /\ \E plus \in Ring :
       ring = [items |-> [i \in Ring |-> 0], count |-> 0, read_index |-> 0,
               start |-> 0, end |-> 0, plus |-> plus]
  /\ written = 0 /\ unread = <<>>
  /\ offer = 0 /\ writes = 0
  /\ given = 0 /\ awaited = 0 /\ settled = 0 /\ passed = 0

Step(i) == IF i + 1 = RingLength THEN 0 ELSE i + 1

(* The first position from i on, around the ring, that holds an item; the  *)
(* ring holds one.                                                         *)
Occupied(R, i) ==
  LET d == CHOOSE k \in Ring : /\ R.items[(i + k) % RingLength] # 0
                               /\ \A j \in 0 .. k - 1 : R.items[(i + j) % RingLength] = 0
  IN  (i + d) % RingLength

(* mdatapuffer_setreadindex: start moves to the first item; unless there   *)
(* is an item after the first "plus" ones the read index stays.            *)
Past(R, i, plus) ==
  LET at[n \in 0 .. plus] == IF n = 0 THEN i ELSE Occupied(R, Step(at[n - 1]))
  IN  at[plus]

SetIndex(R, plus) ==
  LET S == [R EXCEPT !.plus = plus,
                     !.start = IF R.count = 0 THEN @ ELSE Occupied(R, @)]
  IN  IF R.count - plus < 1 THEN S ELSE [S EXCEPT !.read_index = Past(S, S.start, plus)]

ReadCapacity(R) == R.count - R.plus

(* mdatapuffer_read: the next item from read_index on, which may stand at  *)
(* length; holes are passed over until the write position.                 *)
Stops(R, at) == R.items[at] # 0 \/ at + 1 = R.end
NextItem(R, i) ==
  LET d == CHOOSE k \in Ring : /\ Stops(R, (i + k) % RingLength)
                               /\ \A j \in 0 .. k - 1 : ~ Stops(R, (i + j) % RingLength)
  IN  (i + d) % RingLength

Given(R)    == R.items[NextItem(R, R.read_index)]
TakenOut(R) == LET i == NextItem(R, R.read_index) IN
                 [R EXCEPT !.items[i] = 0, !.read_index = i + 1, !.count = @ - 1]

(* Mutant: an empty ring is not told from a full one.                      *)
WriteCapacityEmpty(R) ==
  IF R.start = R.end THEN RingLength
  ELSE IF R.start < R.end THEN RingLength - R.end + R.start + 1
  ELSE R.start - R.end

(* mdatapuffer_writecapacity: one too many when start is before end.       *)
WriteCapacity(R) ==
  IF R.count = 0 THEN RingLength
  ELSE IF R.start = R.end THEN 0
  ELSE IF R.start < R.end THEN RingLength - R.end + R.start + 1
  ELSE R.start - R.end

Kept == passed = 0

AskWriteCapacity ==
  /\ Kept
  /\ offer' = WriteCapacity(ring) /\ writes' = 0
  /\ UNCHANGED <<ring, written, unread, given, awaited, settled, passed>>

(* mdatapuffer_write looks at nothing.                                     *)
WriteItem ==
  /\ Kept /\ offer > 0 /\ written < MaxItems
  /\ passed' = IF ring.count > 0 /\ ring.end = ring.start THEN 1 ELSE 0
  /\ ring' = [ring EXCEPT !.items[ring.end] = written + 1, !.end = Step(@), !.count = @ + 1]
  /\ written' = written + 1 /\ unread' = Append(unread, written + 1)
  /\ offer' = offer - 1 /\ writes' = writes + 1
  /\ UNCHANGED <<given, awaited, settled>>

SetReadIndex(plus) ==
  /\ Kept
  /\ ring' = SetIndex(ring, plus)
  /\ settled' = IF ring.count - plus < 1 THEN 0 ELSE 1
  /\ UNCHANGED <<written, unread, offer, writes, given, awaited, passed>>

ReadItem ==
  /\ Kept /\ settled = 1 /\ ReadCapacity(ring) > 0
  /\ given' = Given(ring) /\ ring' = TakenOut(ring)
  /\ awaited' = unread[ring.plus + 1]
  /\ unread' = RemoveAt(unread, ring.plus + 1)
  /\ settled' = IF ReadCapacity(ring') > 0 THEN 1 ELSE 0
  /\ UNCHANGED <<written, offer, writes, passed>>

(* mdatapuffer_clear; mdatapuffer_reset goes on to the ring as it was made. *)
Emptied(R, n) ==
  LET left[k \in 0 .. n] == IF k = 0 THEN R ELSE TakenOut(left[k - 1])
  IN  left[n]
Cleared(R) == LET S == SetIndex(R, 0) IN
                [Emptied(S, ReadCapacity(S)) EXCEPT !.read_index = S.start]

ClearRing ==
  /\ Kept /\ ring.count > 0
  /\ \/ ring' = Cleared(ring)
     \/ ring' = [Cleared(ring) EXCEPT !.read_index = 0, !.start = 0, !.end = 0, !.count = 0,
                                      !.items = [i \in Ring |-> 0]]
  /\ unread' = <<>> /\ settled' = 0
  /\ UNCHANGED <<written, offer, writes, given, awaited, passed>>

RingNext == \/ AskWriteCapacity \/ WriteItem \/ ReadItem \/ ClearRing
            \/ \E plus \in Ring : SetReadIndex(plus)

RingSpec == RingInit /\ [][RingNext]_ringVars

-----------------------------------------------------------------------------
(* The ring holds the unread items and no other, counts them, gives each   *)
(* of them once, in order but for the ones left behind, and one that asks  *)
(* for the capacity before each item it writes never writes past start: of *)
(* several items written on one answer the last ones may (its answer is    *)
(* one too many, or start is out of date; lib_puffers.c:59-171).           *)
RingKeepsUnread ==
  /\ given = awaited
  /\ Kept => /\ ring.count = Len(unread)
             /\ {ring.items[i] : i \in Ring} \ {0} = ToSet(unread)
  /\ passed = 1 => writes > 1
=============================================================================

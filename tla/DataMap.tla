------------------------------ MODULE DataMap ------------------------------
(***************************************************************************)
(* A data map: a table defined by DMAP_DEF_SPECT_TABLE of                  *)
(* src/dmap/dmap_predefs.h over the functions of src/dmap/dmap.c, used by  *)
(* several callers.  The functions take no lock: the callers do, in the    *)
(* way README.md section 2.3 shows (rdlock, iterate, rdunlock; wrlock,     *)
(* get, write, wrunlock).  An item belongs to the caller that constructed  *)
(* it until it is added; the table destroys it when it is removed.         *)
(*                                                                         *)
(* dmap_rem_[NAME] (by address) destroys a row and leaves the pointer to   *)
(* it in its slot; whoever reads the slot next reads freed memory, so the  *)
(* model goes no further than such a removal.                              *)
(***************************************************************************)
EXTENDS MapTable, FiniteSets

CONSTANTS MapItems, MapCallers

ASSUME NoItemAssumption == NoItem \notin MapItems

VARIABLES
  rows,     (* table->rows, every row standing for its item                *)
  stale,    (* the slots that point to a freed row                         *)
  rd, wr,   (* the callers that hold the rwmutex for reading, for writing  *)
  at,       (* at[c]: the dmap_index of c's iteration                      *)
  seen,     (* seen[c]: the <<index, item>> pairs c's iteration returned   *)
  got,      (* got[c]: the item dmap_get returned to c                     *)
  hands,    (* hands[c]: the items c constructed and could not add         *)
  alive,    (* the items constructed and not destroyed                     *)
  opened    (* 1 between the table's init and its deinit                   *)

mapVars == <<rows, stale, rd, wr, at, seen, got, hands, alive, opened>>

MapInit ==
  /\ rows = EmptyTable
  /\ stale = {}
  /\ rd = {} /\ wr = {}
  /\ at = [c \in MapCallers |-> 0]
  /\ seen = [c \in MapCallers |-> {}]
  /\ got = [c \in MapCallers |-> NoItem]
  /\ hands = [c \in MapCallers |-> {}]
  /\ alive = {}
  /\ opened = 1

Used(from, to) == {i \in Slots : from <= i /\ i < to /\ rows[i] # NoItem}
Inside == rd \cup wr
Sound  == stale = {} /\ opened = 1

(* Mutant: the read lock does not wait for a writer.                       *)
RdLockUnawaited(c) ==
  /\ Sound /\ c \notin Inside
  /\ rd' = rd \cup {c}
  /\ UNCHANGED <<rows, stale, wr, at, seen, got, hands, alive, opened>>

(* rwmutex_read_lock and rwmutex_write_lock, and the caller's index = 0.   *)
RdLock(c) ==
  /\ Sound /\ c \notin Inside
  /\ wr = {}
  /\ rd' = rd \cup {c}
  /\ UNCHANGED <<rows, stale, wr, at, seen, got, hands, alive, opened>>

WrLock(c) ==
  /\ Sound /\ c \notin Inside
  /\ Inside = {}
  /\ wr' = {c}
  /\ UNCHANGED <<rows, stale, rd, at, seen, got, hands, alive, opened>>

(* Either unlock; what the caller knows of the table it forgets.           *)
MapUnlock(c) ==
  /\ Sound /\ c \in Inside
  /\ rd' = rd \ {c}
  /\ wr' = wr \ {c}
  /\ at' = [at EXCEPT ![c] = 0]
  /\ seen' = [seen EXCEPT ![c] = {}]
  /\ got' = [got EXCEPT ![c] = NoItem]
  /\ UNCHANGED <<rows, stale, hands, alive, opened>>

(* One call of dmap_itr and the ++index after a call that returned TRUE.   *)
Itr(c) ==
  /\ Sound /\ c \in rd /\ at[c] < MapSize
  /\ LET i == ItrTable(rows, at[c]) IN
       IF i < MapSize
         THEN /\ at' = [at EXCEPT ![c] = i + 1]
              /\ seen' = [seen EXCEPT ![c] = @ \cup {<<i, rows[i]>>}]
         ELSE at' = [at EXCEPT ![c] = MapSize] /\ UNCHANGED seen
  /\ UNCHANGED <<rows, stale, rd, wr, got, hands, alive, opened>>

Get(c, i) ==
  /\ Sound /\ c \in Inside
  /\ got' = [got EXCEPT ![c] = GetItem(rows, i)]
  /\ UNCHANGED <<rows, stale, rd, wr, at, seen, hands, alive, opened>>

(* dmap_add of a new item or of one an earlier call had no room for (the   *)
(* row made for it is then lost, the item is still the caller's).          *)
Add(c, x) ==
  /\ Sound /\ c \in wr
  /\ x \in hands[c] \/ x \notin alive
  /\ alive' = alive \cup {x}
  /\ LET i == AddRow(rows) IN
       IF i = MapSize
         THEN /\ hands' = [hands EXCEPT ![c] = @ \cup {x}]
              /\ UNCHANGED rows
         ELSE /\ hands' = [hands EXCEPT ![c] = @ \ {x}]
              /\ rows' = [rows EXCEPT ![i] = x]
  /\ UNCHANGED <<stale, rd, wr, at, seen, got, opened>>

(* _dmap_row_dtor: the item of the row is destroyed with the row.  The     *)
(* caller does not keep a pointer to what it has removed.                  *)
Destroys(c, i) ==
  /\ alive' = alive \ {rows[i]}
  /\ got' = [got EXCEPT ![c] = IF @ = rows[i] THEN NoItem ELSE @]

(* Mutant: the slot keeps its pointer.                                     *)
RemByIndexLeaves(c, i) ==
  /\ Sound /\ c \in wr
  /\ rows[i] # NoItem
  /\ Destroys(c, i)
  /\ UNCHANGED <<rows, stale, rd, wr, at, seen, hands, opened>>

(* dmap_rem_[NAME]_byindex; elsewhere than at a row it only warns.         *)
RemByIndex(c, i) ==
  /\ Sound /\ c \in wr
  /\ rows[i] # NoItem
  /\ Destroys(c, i)
  /\ rows' = [rows EXCEPT ![i] = NoItem]
  /\ UNCHANGED <<stale, rd, wr, at, seen, hands, opened>>

(* dmap_rem_[NAME]; it only warns when no row holds another item.          *)
RemItem(c, x) ==
  /\ Sound /\ c \in wr
  /\ LET i == RemItemIndex(rows, x) IN
       /\ i < MapSize
       /\ Destroys(c, i)
       /\ stale' = stale \cup {i}
  /\ UNCHANGED <<rows, rd, wr, at, seen, hands, opened>>

(* _dmap_table_deinit, once no caller is left inside: removes every row it *)
(* iterates over and destroys the rwmutex.                                 *)
Deinit ==
  /\ Sound /\ Inside = {}
  /\ alive' = alive \ {rows[i] : i \in Used(0, MapSize)}
  /\ rows' = EmptyTable
  /\ opened' = 0
  /\ UNCHANGED <<stale, rd, wr, at, seen, got, hands>>

MapNext ==
  \/ \E c \in MapCallers :
       \/ RdLock(c) \/ WrLock(c) \/ MapUnlock(c) \/ Itr(c)
       \/ \E i \in -1 .. MapSize : Get(c, i)
       \/ \E i \in Slots : RemByIndex(c, i)
       \/ \E x \in MapItems : Add(c, x) \/ RemItem(c, x)
  \/ Deinit

MapSpec == MapInit /\ [][MapNext]_mapVars

-----------------------------------------------------------------------------
MapTypeOK ==
  /\ rows \in [Slots -> MapItems \cup {NoItem}]
  /\ stale \subseteq Slots
  /\ rd \subseteq MapCallers /\ wr \subseteq MapCallers
  /\ at \in [MapCallers -> 0 .. MapSize]
  /\ seen \in [MapCallers -> SUBSET (Slots \X MapItems)]
  /\ got \in [MapCallers -> MapItems \cup {NoItem}]
  /\ hands \in [MapCallers -> SUBSET MapItems]
  /\ alive \subseteq MapItems
  /\ opened \in {0, 1}

(* What a reader's iteration has returned so far is what the table holds   *)
(* now below its index: no row missed, none returned that is gone, however *)
(* writers come and go between its calls of dmap_itr (dmap.c:173).         *)
IterationIsSnapshot ==
  Sound => \A c \in rd : seen[c] = {<<i, rows[i]>> : i \in Used(0, at[c])}

(* Nobody holds a pointer, from dmap_get or from the iteration, to an item *)
(* the table has destroyed: an item dies only under the write lock.        *)
LockedItemsLive ==
  Sound => \A c \in MapCallers :
             /\ got[c] # NoItem => got[c] \in alive
             /\ \A s \in seen[c] : s[2] \in alive

(* Both: a caller inside the lock sees the table as it is.                 *)
ReadersSeeTable == IterationIsSnapshot /\ LockedItemsLive

(* An item that lives is in one slot or in one caller's hands, and only    *)
(* there, and every row holds an item that lives: none is lost by a full   *)
(* table, destroyed twice, or destroyed and still found (dmap.c:216,232).  *)
ItemsOnce ==
  stale = {} =>
    /\ \A i \in Used(0, MapSize) : rows[i] \in alive
    /\ \A c \in MapCallers : hands[c] \subseteq alive
    /\ \A x \in alive :
         \/ /\ \E i \in Slots : rows[i] = x /\ \A j \in Slots \ {i} : rows[j] # x
            /\ \A c \in MapCallers : x \notin hands[c]
         \/ /\ \A i \in Slots : rows[i] # x
            /\ \E c \in MapCallers : x \in hands[c]
                 /\ \A d \in MapCallers \ {c} : x \notin hands[d]

(* A removal by address, given an item of the table, destroys that item    *)
(* and no other one (docs/datamaps.md:39 says this of dmap_rem_[NAME]).    *)
RemovesItsItem ==
  [][\A c \in MapCallers, x \in MapItems :
       /\ \E i \in Slots : rows[i] = x
       /\ RemItem(c, x)
       => alive' = alive \ {x}]_mapVars
=============================================================================

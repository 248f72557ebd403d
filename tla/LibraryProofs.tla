---------------------------- MODULE LibraryProofs ----------------------------
(***************************************************************************)
(* Theorems about the sequential parts of the library and about the data   *)
(* map under its lock, for tables of every size, any number of callers and *)
(* any items.                                                              *)
(***************************************************************************)
EXTENDS DataMap, Vector, Queue, Lists, Heap, MDataPuffer, Config,
        WellFoundedInduction, SequenceTheorems, FiniteSetTheorems, TLAPS

(* Every set of natural numbers has a least one: the induction of all      *)
(* proofs below, since a rule of induction takes a predicate as parameter. *)
LEMMA LeastNat ==
  ASSUME NEW T, T \subseteq Nat, T # {}
  PROVE  \E n \in T : \A m \in T : n <= m
<1> DEFINE R == OpToRel(<, Nat)
<1>1. IsWellFoundedOn(R, Nat)
  BY NatLessThanWellFounded, Zenon
<1>2. \A x, y \in Nat : x < y => <<x, y>> \in R
  <2> SUFFICES ASSUME NEW x \in Nat, NEW y \in Nat, x < y PROVE <<x, y>> \in R
    OBVIOUS
  <2> QED BY Zenon DEF OpToRel
<1> HIDE DEF R
<1>3. PICK n \in T : \A y \in T : ~ (<<y, n>> \in R)
  BY <1>1, WFMin, Zenon
<1>4. \A y \in T : ~ (y < n)
  BY <1>2, <1>3, Zenon
<1>5. \A y \in T : n <= y
  BY <1>4
<1> QED BY <1>5, Zenon

-----------------------------------------------------------------------------
(* The searches over the slots of a table.                                 *)
LEMMA FirstFound ==
  ASSUME NEW S \in SUBSET Slots
  PROVE  /\ S = {} => First(S) = MapSize
         /\ S # {} => First(S) \in S /\ \A j \in S : First(S) <= j
<1>1. S \subseteq Nat
  BY MapSizeAssumption DEF Slots
<1>2. ASSUME S # {} PROVE First(S) \in S /\ \A j \in S : First(S) <= j
  <2>1. \E i \in S : \A j \in S : i <= j
    BY <1>1, <1>2, LeastNat
  <2> QED BY <1>2, <2>1, Zenon DEF First
<1> QED BY <1>2 DEF First

(* A search ends at a slot it looks for, or at table->size.                *)
LEMMA FirstInTable ==
  ASSUME NEW S \in SUBSET Slots
  PROVE  /\ First(S) \in 0 .. MapSize
         /\ First(S) = MapSize <=> S = {}
         /\ First(S) # MapSize => First(S) \in S /\ First(S) \in Slots
         /\ First(S) < MapSize <=> First(S) # MapSize
<1>1. CASE S = {}
  BY <1>1, FirstFound, MapSizeAssumption
<1>2. CASE S # {}
  <2>1. First(S) \in S /\ First(S) \in Slots
    BY <1>2, FirstFound
  <2> QED BY <1>2, <2>1, MapSizeAssumption DEF Slots
<1> QED BY <1>1, <1>2

(* _dmap_itr_table: from the given index on the next row, with no row      *)
(* between (dmap.c:173-182).                                               *)
LEMMA ItrTableFinds ==
  ASSUME NEW table, NEW from \in 0 .. MapSize
  PROVE  LET i == ItrTable(table, from) IN
           /\ i \in 0 .. MapSize
           /\ i < MapSize => /\ i \in Slots /\ from <= i /\ table[i] # NoItem
                             /\ \A j \in Slots : from <= j /\ j < i => table[j] = NoItem
           /\ ~ (i < MapSize) => \A j \in Slots : from <= j => table[j] = NoItem
<1> DEFINE S == {j \in Slots : from <= j /\ table[j] # NoItem}
           i == First(S)
<1>1. S \in SUBSET Slots
  OBVIOUS
<1>2. /\ i \in 0 .. MapSize
      /\ i = MapSize <=> S = {}
      /\ i # MapSize => i \in S /\ i \in Slots
      /\ i < MapSize <=> i # MapSize
  BY <1>1, FirstInTable
<1>3. S # {} => \A j \in S : i <= j
  BY <1>1, FirstFound
<1>4. ItrTable(table, from) = i
  BY DEF ItrTable
<1>5. \A j \in Slots : from <= j => (j \in S <=> table[j] # NoItem)
  OBVIOUS
<1>6. i \in S => from <= i /\ table[i] # NoItem
  OBVIOUS
<1>7. Slots \subseteq Int /\ MapSize \in Int
  BY MapSizeAssumption DEF Slots
<1> HIDE DEF i, S
<1>8. ASSUME i < MapSize, NEW j \in Slots, from <= j, j < i PROVE table[j] = NoItem
  <2>1. S # {}
    BY <1>2, <1>8
  <2>2. j \notin S
    BY <1>2, <1>3, <1>7, <1>8, <2>1
  <2> QED BY <1>5, <1>8, <2>2
<1>9. ASSUME i < MapSize PROVE i \in Slots /\ from <= i /\ table[i] # NoItem
  BY <1>2, <1>6, <1>9
<1>10. ASSUME ~ (i < MapSize), NEW j \in Slots, from <= j PROVE table[j] = NoItem
  BY <1>2, <1>5, <1>10
<1>11. i \in 0 .. MapSize
  BY <1>2
<1> QED BY <1>4, <1>8, <1>9, <1>10, <1>11

(* _dmap_add_row: a slot without a row, or the table has none.             *)
LEMMA AddRowFinds ==
  ASSUME NEW table
  PROVE  LET i == AddRow(table) IN
           /\ i \in 0 .. MapSize
           /\ i # MapSize => i \in Slots /\ table[i] = NoItem
           /\ i = MapSize => \A j \in Slots : table[j] # NoItem
<1> DEFINE S == {j \in Slots : table[j] = NoItem}
<1>1. S \in SUBSET Slots
  OBVIOUS
<1> QED BY <1>1, FirstInTable DEF AddRow

-----------------------------------------------------------------------------
(* The data map.  Its lock is held by one writer or by readers ...         *)
LockInv ==
  /\ wr = {} \/ rd = {}
  /\ \A c, d \in wr : c = d

(* ... what a caller knows of the table it knows inside the lock ...       *)
OutsideInv ==
  \A c \in MapCallers :
    /\ c \notin Inside => got[c] = NoItem
    /\ c \notin rd => at[c] = 0 /\ seen[c] = {}

(* ... and, until a row is removed by address, a row holds an item that    *)
(* lives and that no other row holds, ...                                  *)
RowsInv ==
  /\ \A i \in Slots : rows[i] # NoItem => rows[i] \in alive
  /\ \A i, j \in Slots : rows[i] = rows[j] => i = j \/ rows[i] = NoItem

(* ... what a caller could not add lives, in its hands only, ...           *)
HandsInv ==
  /\ \A c \in MapCallers : hands[c] \subseteq alive
  /\ \A c \in MapCallers, i \in Slots : rows[i] \notin hands[c]
  /\ \A c, d \in MapCallers, x \in MapItems : x \in hands[c] /\ x \in hands[d] => c = d

(* ... nothing else lives, ...                                             *)
AliveInv ==
  \A x \in alive : (\E i \in Slots : rows[i] = x) \/ (\E c \in MapCallers : x \in hands[c])

(* ... and what the callers know is true.                                  *)
SeenInv ==
  /\ \A c \in MapCallers : got[c] # NoItem => got[c] \in alive
  /\ \A c \in rd : seen[c] = {<<i, rows[i]>> : i \in Used(0, at[c])}

TableInv == stale = {} => RowsInv /\ HandsInv /\ AliveInv /\ SeenInv

MapInv == MapTypeOK /\ LockInv /\ OutsideInv /\ TableInv

LEMMA MapInitInv == MapInit => MapInv
<1> SUFFICES ASSUME MapInit PROVE MapInv
  OBVIOUS
<1>1. MapTypeOK
  BY MapSizeAssumption DEF MapInit, MapTypeOK, EmptyTable
<1>2. LockInv /\ OutsideInv
  BY DEF MapInit, LockInv, OutsideInv
<1>3. RowsInv /\ HandsInv /\ AliveInv
  BY NoItemAssumption DEF MapInit, RowsInv, HandsInv, AliveInv, EmptyTable
<1>4. SeenInv
  BY DEF MapInit, SeenInv
<1> QED BY <1>1, <1>2, <1>3, <1>4 DEF MapInv, TableInv

LEMMA MapTypesKept ==
  ASSUME MapTypeOK, MapNext
  PROVE  MapTypeOK'
<1> USE DEF MapTypeOK
<1>1. ASSUME NEW c \in MapCallers, RdLock(c) \/ WrLock(c) \/ MapUnlock(c) PROVE MapTypeOK'
  BY <1>1, MapSizeAssumption DEF RdLock, WrLock, MapUnlock
<1>2. ASSUME NEW c \in MapCallers, Itr(c) PROVE MapTypeOK'
  <2> DEFINE i == ItrTable(rows, at[c])
  <2>1. at[c] \in 0 .. MapSize
    OBVIOUS
  <2>2. i < MapSize => i \in Slots /\ i + 1 \in 0 .. MapSize /\ rows[i] \in MapItems
    <3>1. i < MapSize => i \in Slots /\ rows[i] # NoItem
      BY <2>1, ItrTableFinds
    <3> QED BY <3>1, MapSizeAssumption DEF Slots
  <2> HIDE DEF i
  <2>3. CASE i < MapSize
    <3>1. at' = [at EXCEPT ![c] = i + 1] /\ seen' = [seen EXCEPT ![c] = @ \cup {<<i, rows[i]>>}]
      BY <1>2, <2>3 DEF Itr, i
    <3>2. at' \in [MapCallers -> 0 .. MapSize]
      BY <2>2, <2>3, <3>1
    <3>3. seen' \in [MapCallers -> SUBSET (Slots \X MapItems)]
      BY <2>2, <2>3, <3>1
    <3> QED BY <1>2, <3>2, <3>3 DEF Itr
  <2>4. CASE ~ (i < MapSize)
    BY <1>2, <2>4, MapSizeAssumption DEF Itr, i
  <2> QED BY <2>3, <2>4
<1>3. ASSUME NEW c \in MapCallers, NEW i \in -1 .. MapSize, Get(c, i) PROVE MapTypeOK'
  BY <1>3 DEF Get, GetItem
<1>4. ASSUME NEW c \in MapCallers, NEW i \in Slots, RemByIndex(c, i) PROVE MapTypeOK'
  BY <1>4 DEF RemByIndex, Destroys
<1>5. ASSUME NEW c \in MapCallers, NEW x \in MapItems, Add(c, x) PROVE MapTypeOK'
  BY <1>5, AddRowFinds DEF Add
<1>6. ASSUME NEW c \in MapCallers, NEW x \in MapItems, RemItem(c, x) PROVE MapTypeOK'
  <2> DEFINE i == RemItemIndex(rows, x)
  <2>1. i < MapSize => i \in Slots
    BY FirstInTable DEF RemItemIndex
  <2> HIDE DEF i
  <2>2. i \in Slots /\ stale' = stale \cup {i} /\ alive' = alive \ {rows[i]}
    BY <1>6, <2>1 DEF RemItem, Destroys, i
  <2>3. got' = [got EXCEPT ![c] = IF @ = rows[i] THEN NoItem ELSE @]
    BY <1>6 DEF RemItem, Destroys, i
  <2> QED BY <1>6, <2>2, <2>3 DEF RemItem
<1>7. CASE Deinit
  BY <1>7 DEF Deinit, EmptyTable
<1> QED BY <1>1, <1>2, <1>3, <1>4, <1>5, <1>6, <1>7 DEF MapNext

(* Only the one who holds the lock changes what a caller knows.            *)
LEMMA LockKept ==
  ASSUME MapTypeOK, LockInv, OutsideInv, MapNext
  PROVE  LockInv' /\ OutsideInv'
<1> USE DEF MapTypeOK, LockInv, OutsideInv, Inside
<1>1. ASSUME NEW c \in MapCallers, RdLock(c) PROVE LockInv' /\ OutsideInv'
  BY <1>1 DEF RdLock
<1>2. ASSUME NEW c \in MapCallers, WrLock(c) PROVE LockInv' /\ OutsideInv'
  BY <1>2 DEF WrLock
<1>3. ASSUME NEW c \in MapCallers, MapUnlock(c) PROVE LockInv' /\ OutsideInv'
  BY <1>3 DEF MapUnlock
<1>4. ASSUME NEW c \in MapCallers, Itr(c) PROVE LockInv' /\ OutsideInv'
  <2>1. \A d \in MapCallers : d # c => at'[d] = at[d] /\ seen'[d] = seen[d]
    BY <1>4 DEF Itr
  <2> QED BY <1>4, <2>1 DEF Itr
<1>5. ASSUME NEW c \in MapCallers, NEW i \in -1 .. MapSize, Get(c, i)
      PROVE  LockInv' /\ OutsideInv'
  BY <1>5 DEF Get
<1>6. ASSUME NEW c \in MapCallers, NEW i \in Slots, RemByIndex(c, i)
      PROVE  LockInv' /\ OutsideInv'
  BY <1>6 DEF RemByIndex, Destroys
<1>7. ASSUME NEW c \in MapCallers, NEW x \in MapItems, Add(c, x)
      PROVE  LockInv' /\ OutsideInv'
  BY <1>7 DEF Add
<1>8. ASSUME NEW c \in MapCallers, NEW x \in MapItems, RemItem(c, x)
      PROVE  LockInv' /\ OutsideInv'
  <2>1. UNCHANGED <<rd, wr, at, seen>> /\ \A d \in MapCallers : got[d] = NoItem => got'[d] = NoItem
    BY <1>8 DEF RemItem, Destroys
  <2> QED BY <2>1
<1>9. CASE Deinit
  BY <1>9 DEF Deinit
<1> QED BY <1>1, <1>2, <1>3, <1>4, <1>5, <1>6, <1>7, <1>8, <1>9 DEF MapNext

(* A removal by index takes one row and its item.                          *)
LEMMA RemoveKept ==
  ASSUME MapInv, stale = {}, NEW c \in MapCallers, NEW i \in Slots, RemByIndex(c, i)
  PROVE  RowsInv' /\ HandsInv' /\ AliveInv' /\ SeenInv'
<1> DEFINE x == rows[i]
<1>1. /\ MapTypeOK /\ LockInv /\ OutsideInv
      /\ RowsInv /\ HandsInv /\ AliveInv /\ SeenInv
  BY DEF MapInv, TableInv
<1>2. /\ alive' = alive \ {x} /\ UNCHANGED <<hands, rd, at, seen>>
      /\ c \in wr /\ x # NoItem
      /\ \A j \in Slots : rows'[j] = IF j = i THEN NoItem ELSE rows[j]
      /\ \A d \in MapCallers : got'[d] = IF d = c /\ got[d] = x THEN NoItem ELSE got[d]
  BY <1>1 DEF RemByIndex, Destroys, MapTypeOK
<1>3. \A j \in Slots : j # i => rows[j] # x
  BY <1>1, <1>2 DEF RowsInv
<1> HIDE DEF x
<1>4. RowsInv'
  BY <1>1, <1>2, <1>3 DEF RowsInv
<1>5. \A d \in MapCallers : x \notin hands[d]
  BY <1>1 DEF HandsInv, x
<1>6. HandsInv'
  <2>1. \A d \in MapCallers : NoItem \notin hands[d]
    BY <1>1, NoItemAssumption DEF MapTypeOK
  <2> QED BY <1>1, <1>2, <1>5, <2>1 DEF HandsInv
<1>7. AliveInv'
  <2> SUFFICES ASSUME NEW y \in alive, y # x
               PROVE  \/ \E j \in Slots : rows'[j] = y
                      \/ \E d \in MapCallers : y \in hands'[d]
    BY <1>2 DEF AliveInv
  <2>1. CASE \E j \in Slots : rows[j] = y
    <3>1. PICK j \in Slots : rows[j] = y
      BY <2>1
    <3>2. rows'[j] = y
      BY <1>2, <3>1 DEF x
    <3> QED BY <3>2
  <2>2. CASE \E d \in MapCallers : y \in hands[d]
    BY <1>2, <2>2
  <2> QED BY <1>1, <2>1, <2>2 DEF AliveInv
<1>8. SeenInv'
  <2>1. rd = {}
    BY <1>1, <1>2 DEF LockInv
  <2>2. \A d \in MapCallers : d # c => got[d] = NoItem
    BY <1>1, <1>2, <2>1 DEF LockInv, OutsideInv, Inside
  <2>3. \A d \in MapCallers : got'[d] # NoItem => got'[d] \in alive'
    BY <1>1, <1>2, <2>2 DEF SeenInv
  <2> QED BY <1>2, <2>1, <2>3 DEF SeenInv
<1> QED BY <1>4, <1>6, <1>7, <1>8

(* An addition puts an item that had no row into a slot that had none, or  *)
(* leaves it with its caller.                                              *)
LEMMA AddKept ==
  ASSUME MapInv, stale = {}, NEW c \in MapCallers, NEW x \in MapItems, Add(c, x)
  PROVE  RowsInv' /\ HandsInv' /\ AliveInv' /\ SeenInv'
<1> DEFINE i == AddRow(rows)
<1>1. /\ MapTypeOK /\ LockInv /\ OutsideInv
      /\ RowsInv /\ HandsInv /\ AliveInv /\ SeenInv
  BY DEF MapInv, TableInv
<1>2. i # MapSize => i \in Slots /\ rows[i] = NoItem
  BY AddRowFinds
<1>3. /\ alive' = alive \cup {x} /\ UNCHANGED <<rd, at, seen, got>>
      /\ c \in wr /\ x # NoItem
      /\ x \in hands[c] \/ x \notin alive
  BY NoItemAssumption DEF Add
<1>4. i = MapSize => /\ rows' = rows
                     /\ \A d \in MapCallers : hands'[d] = IF d = c THEN hands[d] \cup {x}
                                                                  ELSE hands[d]
  BY <1>1 DEF Add, MapTypeOK
<1>5. i # MapSize => /\ \A j \in Slots : rows'[j] = IF j = i THEN x ELSE rows[j]
                     /\ \A d \in MapCallers : hands'[d] = IF d = c THEN hands[d] \ {x}
                                                                  ELSE hands[d]
  BY <1>1, <1>2 DEF Add, MapTypeOK
<1> HIDE DEF i
<1>6. \A j \in Slots : rows[j] # x
  BY <1>1, <1>3 DEF RowsInv, HandsInv
<1>7. \A d \in MapCallers : d # c => x \notin hands[d]
  BY <1>1, <1>3 DEF HandsInv
<1>8. RowsInv'
  BY <1>1, <1>2, <1>3, <1>4, <1>5, <1>6 DEF RowsInv
<1>9. HandsInv'
  <2>1. CASE i = MapSize
    BY <1>1, <1>3, <1>4, <1>6, <1>7, <2>1, Zenon DEF HandsInv
  <2>2. CASE i # MapSize
    BY <1>1, <1>3, <1>5, <1>7, <2>2, Zenon DEF HandsInv
  <2> QED BY <2>1, <2>2
<1>10. AliveInv'
  <2> SUFFICES ASSUME NEW y \in alive'
               PROVE  \/ \E j \in Slots : rows'[j] = y
                      \/ \E d \in MapCallers : y \in hands'[d]
    BY DEF AliveInv
  <2>1. CASE y = x
    <3>1. i = MapSize => x \in hands'[c]
      BY <1>4
    <3>2. i # MapSize => i \in Slots /\ rows'[i] = x
      BY <1>2, <1>5
    <3> QED BY <2>1, <3>1, <3>2
  <2>2. CASE y # x
    <3>1. (\E j \in Slots : rows[j] = y) \/ (\E d \in MapCallers : y \in hands[d])
      BY <1>1, <1>3, <2>2 DEF AliveInv
    <3>2. ASSUME NEW j \in Slots, rows[j] = y PROVE \E k \in Slots : rows'[k] = y
      <4>1. rows'[j] = y
        BY <1>1, <1>2, <1>3, <1>4, <1>5, <2>2, <3>2, NoItemAssumption DEF MapTypeOK
      <4> QED BY <4>1
    <3>3. ASSUME NEW d \in MapCallers, y \in hands[d] PROVE y \in hands'[d]
      BY <1>4, <1>5, <2>2, <3>3
    <3> QED BY <3>1, <3>2, <3>3
  <2> QED BY <2>1, <2>2
<1>11. SeenInv'
  <2>1. rd = {}
    BY <1>1, <1>3 DEF LockInv
  <2> QED BY <1>1, <1>3, <2>1 DEF SeenInv
<1> QED BY <1>8, <1>9, <1>10, <1>11

(* A call of dmap_itr returns the next row there is, and passes none by.   *)
LEMMA ItrKept ==
  ASSUME MapInv, stale = {}, NEW c \in MapCallers, Itr(c)
  PROVE  RowsInv' /\ HandsInv' /\ AliveInv' /\ SeenInv'
<1> DEFINE i == ItrTable(rows, at[c])
           Below(n) == {<<j, rows[j]>> : j \in Used(0, n)}
<1>1. /\ MapTypeOK /\ RowsInv /\ HandsInv /\ AliveInv /\ SeenInv
      /\ at[c] \in 0 .. MapSize /\ c \in rd
  BY DEF MapInv, TableInv, MapTypeOK, Itr
<1>2. /\ i \in 0 .. MapSize
      /\ i < MapSize => /\ i \in Slots /\ at[c] <= i /\ rows[i] # NoItem
                        /\ \A j \in Slots : at[c] <= j /\ j < i => rows[j] = NoItem
      /\ ~ (i < MapSize) => \A j \in Slots : at[c] <= j => rows[j] = NoItem
  BY <1>1, ItrTableFinds
<1>3. UNCHANGED <<rows, rd, got, hands, alive>>
  BY DEF Itr
<1>4. i < MapSize => /\ at' = [at EXCEPT ![c] = i + 1]
                     /\ seen' = [seen EXCEPT ![c] = @ \cup {<<i, rows[i]>>}]
  BY DEF Itr
<1>5. ~ (i < MapSize) => at' = [at EXCEPT ![c] = MapSize] /\ seen' = seen
  BY DEF Itr
<1>6. Slots \subseteq Int /\ MapSize \in Nat /\ \A j \in Slots : j < MapSize
  BY MapSizeAssumption DEF Slots
<1> HIDE DEF i
<1>7. RowsInv' /\ HandsInv' /\ AliveInv'
  BY <1>1, <1>3 DEF RowsInv, HandsInv, AliveInv
<1>8. seen[c] = Below(at[c])
  BY <1>1 DEF SeenInv
<1>9. seen'[c] = Below(at'[c])
  <2>1. CASE i < MapSize
    <3>1. at'[c] = i + 1 /\ seen'[c] = seen[c] \cup {<<i, rows[i]>>}
      BY <1>1, <1>4, <2>1 DEF MapTypeOK
    <3>2. Used(0, i + 1) = Used(0, at[c]) \cup {i}
      <4>1. \A j \in Slots : (0 <= j /\ j < i + 1 /\ rows[j] # NoItem)
                              <=> ((0 <= j /\ j < at[c] /\ rows[j] # NoItem) \/ j = i)
        BY <1>1, <1>2, <1>6, <2>1 DEF Slots
      <4> QED BY <1>2, <2>1, <4>1 DEF Used
    <3> QED BY <1>8, <3>1, <3>2
  <2>2. CASE ~ (i < MapSize)
    <3>1. at'[c] = MapSize /\ seen'[c] = seen[c]
      BY <1>1, <1>5, <2>2 DEF MapTypeOK
    <3>2. Used(0, MapSize) = Used(0, at[c])
      <4>1. \A j \in Slots : (0 <= j /\ j < MapSize /\ rows[j] # NoItem)
                              <=> (0 <= j /\ j < at[c] /\ rows[j] # NoItem)
        BY <1>1, <1>2, <1>6, <2>2 DEF Slots
      <4> QED BY <4>1 DEF Used
    <3> QED BY <1>8, <3>1, <3>2
  <2> QED BY <2>1, <2>2
<1>10. \A d \in MapCallers : d # c => at'[d] = at[d] /\ seen'[d] = seen[d]
  BY <1>1, <1>4, <1>5 DEF MapTypeOK
<1>11. SeenInv'
  <2> SUFFICES ASSUME NEW d \in rd
               PROVE  seen'[d] = {<<j, rows'[j]>> : j \in Used(0, at[d])'}
    BY <1>1, <1>3 DEF SeenInv
  <2>1. seen'[d] = Below(at'[d])
    BY <1>1, <1>9, <1>10 DEF SeenInv, MapTypeOK
  <2> QED BY <1>3, <2>1 DEF Used
<1> QED BY <1>7, <1>11

(* The deinit takes every row and the items in them.                       *)
LEMMA DeinitKept ==
  ASSUME MapInv, stale = {}, Deinit
  PROVE  RowsInv' /\ HandsInv' /\ AliveInv' /\ SeenInv'
<1>1. /\ MapTypeOK /\ OutsideInv /\ RowsInv /\ HandsInv /\ AliveInv /\ SeenInv
  BY DEF MapInv, TableInv
<1>2. /\ rd = {} /\ Inside = {} /\ UNCHANGED <<rd, at, seen, got, hands>>
      /\ \A j \in Slots : rows'[j] = NoItem
  BY DEF Deinit, Inside, EmptyTable
<1>3. Used(0, MapSize) = {i \in Slots : rows[i] # NoItem}
  BY MapSizeAssumption DEF Used, Slots
<1>4. \A y : y \in alive' <=> y \in alive /\ \A i \in Slots : rows[i] # y
  <2>1. NoItem \notin alive
    BY <1>1, NoItemAssumption DEF MapTypeOK
  <2> QED BY <1>3, <2>1 DEF Deinit
<1>5. RowsInv'
  BY <1>2 DEF RowsInv
<1>6. HandsInv'
  BY <1>1, <1>2, <1>4, NoItemAssumption DEF HandsInv, MapTypeOK
<1>7. AliveInv'
  BY <1>1, <1>2, <1>4 DEF AliveInv
<1>8. SeenInv'
  BY <1>1, <1>2 DEF SeenInv, OutsideInv
<1> QED BY <1>5, <1>6, <1>7, <1>8

LEMMA MapInvKept ==
  ASSUME MapInv, [MapNext]_mapVars
  PROVE  MapInv'
<1>1. CASE UNCHANGED mapVars
  BY <1>1 DEF mapVars, MapInv, MapTypeOK, LockInv, OutsideInv, Inside, TableInv, RowsInv,
              HandsInv, AliveInv, SeenInv, Used
<1>2. CASE MapNext
  <2>1. MapTypeOK' /\ LockInv' /\ OutsideInv'
    BY <1>2, MapTypesKept, LockKept DEF MapInv
  <2>2. stale = {}
    BY <1>2 DEF MapNext, RdLock, WrLock, MapUnlock, Itr, Get, RemByIndex, Add, RemItem, Deinit,
                Sound
  <2>3. MapTypeOK /\ OutsideInv /\ RowsInv /\ HandsInv /\ AliveInv /\ SeenInv
    BY <2>2 DEF MapInv, TableInv
  <2>4. TableInv'
    <3> USE DEF TableInv
    <3>1. ASSUME NEW c \in MapCallers, RdLock(c) PROVE TableInv'
      <4>1. UNCHANGED <<rows, at, seen, got, hands, alive>> /\ rd' = rd \cup {c}
        BY <3>1 DEF RdLock
      <4>2. RowsInv' /\ HandsInv' /\ AliveInv'
        BY <2>3, <4>1 DEF RowsInv, HandsInv, AliveInv
      <4>3. seen[c] = {<<i, rows[i]>> : i \in Used(0, at[c])}
        <5>1. at[c] = 0 /\ seen[c] = {}
          BY <2>3, <3>1 DEF RdLock, OutsideInv, Inside
        <5>2. Used(0, 0) = {}
          BY MapSizeAssumption DEF Used, Slots
        <5> QED BY <5>1, <5>2
      <4>4. SeenInv'
        BY <2>3, <4>1, <4>3 DEF SeenInv, Used
      <4> QED BY <4>2, <4>4
    <3>2. ASSUME NEW c \in MapCallers, WrLock(c) PROVE TableInv'
      BY <2>3, <3>2 DEF WrLock, RowsInv, HandsInv, AliveInv, SeenInv, Used
    <3>3. ASSUME NEW c \in MapCallers, MapUnlock(c) PROVE TableInv'
      <4>1. /\ UNCHANGED <<rows, hands, alive>> /\ rd' = rd \ {c}
            /\ \A d \in MapCallers : d # c => at'[d] = at[d] /\ seen'[d] = seen[d]
                                                           /\ got'[d] = got[d]
            /\ got'[c] = NoItem
        BY <2>3, <3>3 DEF MapUnlock, MapTypeOK
      <4>2. RowsInv' /\ HandsInv' /\ AliveInv'
        BY <2>3, <4>1 DEF RowsInv, HandsInv, AliveInv
      <4>3. SeenInv'
        BY <2>3, <4>1 DEF SeenInv, Used, MapTypeOK
      <4> QED BY <4>2, <4>3
    <3>4. ASSUME NEW c \in MapCallers, NEW i \in -1 .. MapSize, Get(c, i) PROVE TableInv'
      <4>1. GetItem(rows, i) # NoItem => GetItem(rows, i) \in alive
        BY <2>3 DEF GetItem, RowsInv
      <4>2. UNCHANGED <<rows, rd, at, seen, hands, alive>>
        BY <3>4 DEF Get
      <4>3. \A d \in MapCallers : got'[d] # NoItem => got'[d] \in alive
        BY <2>3, <3>4, <4>1 DEF Get, MapTypeOK, SeenInv
      <4> QED BY <2>3, <4>2, <4>3 DEF RowsInv, HandsInv, AliveInv, SeenInv, Used
    <3>5. ASSUME NEW c \in MapCallers, NEW x \in MapItems, RemItem(c, x) PROVE TableInv'
      BY <3>5 DEF RemItem
    <3> QED BY <1>2, <2>2, <3>1, <3>2, <3>3, <3>4, <3>5, ItrKept, RemoveKept, AddKept, DeinitKept
            DEF MapNext
  <2> QED BY <2>1, <2>4 DEF MapInv
<1> QED BY <1>1, <1>2

(* The values of the table, of its lock and of the callers are always of   *)
(* their kinds: an iteration's index never passes the table's size and     *)
(* dmap_get returns an item or NULL (dmap.c:173-232).                      *)
THEOREM MapTypesHold == MapSpec => []MapTypeOK
<1>1. MapInv => MapTypeOK
  BY DEF MapInv
<1> QED BY <1>1, MapInitInv, MapInvKept, PTL DEF MapSpec

(* For tables of every size and any number of callers: a reader's          *)
(* iteration has returned what the table holds below its index, and nobody *)
(* inside the lock has a pointer to an item that was destroyed.            *)
THEOREM ReadersSeeTableHolds == MapSpec => []ReadersSeeTable
<1>1. MapInv => ReadersSeeTable
  <2> SUFFICES ASSUME MapInv PROVE ReadersSeeTable
    OBVIOUS
  <2>1. IterationIsSnapshot
    BY DEF MapInv, TableInv, SeenInv, IterationIsSnapshot, Sound
  <2>2. LockedItemsLive
    <3> SUFFICES ASSUME Sound, NEW c \in MapCallers
                 PROVE  /\ got[c] # NoItem => got[c] \in alive
                        /\ \A s \in seen[c] : s[2] \in alive
      BY DEF LockedItemsLive
    <3>1. OutsideInv /\ RowsInv /\ SeenInv
      BY DEF MapInv, TableInv, Sound
    <3>2. c \in rd => seen[c] = {<<i, rows[i]>> : i \in Used(0, at[c])}
      BY <3>1 DEF SeenInv
    <3>3. \A i \in Used(0, at[c]) : rows[i] \in alive
      BY <3>1 DEF Used, RowsInv
    <3>4. \A s \in seen[c] : s[2] \in alive
      BY <3>1, <3>2, <3>3 DEF OutsideInv
    <3> QED BY <3>1, <3>4 DEF SeenInv
  <2> QED BY <2>1, <2>2 DEF ReadersSeeTable
<1> QED BY <1>1, MapInitInv, MapInvKept, PTL DEF MapSpec

(* For tables of every size and any number of callers: an item that lives  *)
(* is in one row or in the hands of one caller, and every row's item lives.*)
THEOREM ItemsOnceHolds == MapSpec => []ItemsOnce
<1>1. MapInv => ItemsOnce
  <2> SUFFICES ASSUME MapInv, stale = {} PROVE ItemsOnce
    BY DEF ItemsOnce
  <2>1. MapTypeOK /\ RowsInv /\ HandsInv /\ AliveInv
    BY DEF MapInv, TableInv
  <2>2. \A i \in Used(0, MapSize) : rows[i] \in alive
    BY <2>1 DEF Used, RowsInv
  <2>3. \A c \in MapCallers : hands[c] \subseteq alive
    BY <2>1 DEF HandsInv
  <2>4. ASSUME NEW x \in alive, NEW i \in Slots, rows[i] = x
        PROVE  /\ \A j \in Slots \ {i} : rows[j] # x
               /\ \A c \in MapCallers : x \notin hands[c]
    BY <2>1, <2>4, NoItemAssumption DEF MapTypeOK, RowsInv, HandsInv
  <2>5. ASSUME NEW x \in alive, NEW c \in MapCallers, x \in hands[c]
        PROVE  \A d \in MapCallers \ {c} : x \notin hands[d]
    BY <2>1, <2>5 DEF HandsInv, MapTypeOK
  <2>6. ASSUME NEW x \in alive
        PROVE  \/ /\ \E i \in Slots : rows[i] = x /\ \A j \in Slots \ {i} : rows[j] # x
                  /\ \A c \in MapCallers : x \notin hands[c]
               \/ /\ \A i \in Slots : rows[i] # x
                  /\ \E c \in MapCallers : x \in hands[c]
                       /\ \A d \in MapCallers \ {c} : x \notin hands[d]
    <3>1. CASE \E i \in Slots : rows[i] = x
      BY <2>4, <3>1, Zenon
    <3>2. CASE \A i \in Slots : rows[i] # x
      <4>1. PICK c \in MapCallers : x \in hands[c]
        BY <2>1, <3>2 DEF AliveInv
      <4> QED BY <2>5, <3>2, <4>1, Zenon
    <3> QED BY <3>1, <3>2
  <2> QED BY <2>2, <2>3, <2>6, Zenon DEF ItemsOnce
<1> QED BY <1>1, MapInitInv, MapInvKept, PTL DEF MapSpec

-----------------------------------------------------------------------------
(* What the memory of the vector holds: elements, or Junk.                 *)
Contents == Elems \cup {Junk}

LEMMA Tabulated ==
  ASSUME NEW S, NEW n \in Nat, NEW f \in [1 .. n -> S]
  PROVE  f \in Seq(S) /\ Len(f) = n /\ DOMAIN f = 1 .. n
OBVIOUS

(* memmove leaves the memory as long as it was (lib_vector.c:70).          *)
LEMMA MovedIs ==
  ASSUME NEW M \in Seq(Contents), NEW d \in Int, NEW s \in Int, NEW n \in Int
  PROVE  /\ Moved(M, d, s, n) \in Seq(Contents)
         /\ Len(Moved(M, d, s, n)) = Len(M)
         /\ \A i \in 1 .. Len(M) :
              Moved(M, d, s, n)[i] = IF i \in d .. d + n - 1 THEN At(M, i - d + s) ELSE M[i]
<1>1. \A i \in Int : At(M, i) \in Contents
  BY DEF At, Contents
<1>2. Moved(M, d, s, n) \in [1 .. Len(M) -> Contents]
  BY <1>1 DEF Moved
<1>3. \A i \in 1 .. Len(M) :
        Moved(M, d, s, n)[i] = IF i \in d .. d + n - 1 THEN At(M, i - d + s) ELSE M[i]
  BY DEF Moved
<1> QED BY <1>2, <1>3, Tabulated

LEMMA ReallocIs ==
  ASSUME NEW M \in Seq(Contents), NEW n \in Nat
  PROVE  /\ Realloc(M, n) \in Seq(Contents)
         /\ Len(Realloc(M, n)) = n
         /\ \A i \in 1 .. n : Realloc(M, n)[i] = At(M, i)
<1>1. \A i \in Int : At(M, i) \in Contents
  BY DEF At, Contents
<1>2. Realloc(M, n) \in [1 .. n -> Contents]
  BY <1>1 DEF Realloc
<1>3. \A i \in 1 .. n : Realloc(M, n)[i] = At(M, i)
  BY DEF Realloc
<1> QED BY <1>2, <1>3, Tabulated

-----------------------------------------------------------------------------
VectorTypeOK ==
  /\ items \in Seq(Contents) /\ list \in Seq(Elems)
  /\ itemsNum \in 0 .. VectorMax /\ allocNum \in Nat \ {0}
  /\ skewed \in {0, 1} /\ emptied \in {0, 1} /\ overrun \in {0, 1}

(* The memory starts with the list, and is as large as the code believes   *)
(* but after vector_remove_all.                                            *)
StartsWithList ==
  /\ itemsNum = Len(list) /\ itemsNum <= Len(items) /\ itemsNum <= allocNum
  /\ \A i \in 1 .. itemsNum : items[i] = list[i]
  /\ out = due
  /\ emptied = 0 => Len(items) = allocNum

VectorInv ==
  /\ VectorTypeOK
  /\ Sane => StartsWithList
  /\ overrun = 1 => emptied = 1

LEMMA VectorInitInv == VectorInit => VectorInv
<1> SUFFICES ASSUME VectorInit PROVE VectorInv
  OBVIOUS
<1>1. items \in Seq(Contents) /\ Len(items) = InitSize
  <2>1. items \in [1 .. InitSize -> Contents]
    BY DEF VectorInit, Cells0, Contents
  <2> QED BY <2>1, Tabulated, VectorAssumption
<1>2. VectorTypeOK
  BY <1>1, VectorAssumption DEF VectorInit, VectorTypeOK
<1>3. StartsWithList /\ overrun = 0
  BY <1>1, VectorAssumption DEF VectorInit, StartsWithList
<1> QED BY <1>2, <1>3 DEF VectorInv

(* What vector_grow gives has room for one more element, unless the memory *)
(* had been cut short by vector_remove_all, and keeps what was there.      *)
LEMMA GrownIs ==
  ASSUME VectorInv, Sane, NEW sz \in {0, itemsNum + 1}
  PROVE  /\ Grown(sz).mem \in Seq(Contents) /\ Grown(sz).num \in Nat \ {0}
         /\ itemsNum <= Len(Grown(sz).mem) /\ itemsNum + 1 <= Grown(sz).num
         /\ allocNum <= Grown(sz).num
         /\ \A i \in 1 .. itemsNum : Grown(sz).mem[i] = list[i]
         /\ IF emptied = 0 \/ Grown(sz).num > allocNum
              THEN Len(Grown(sz).mem) = Grown(sz).num
              ELSE Grown(sz).mem = items
<1> USE DEF VectorInv, VectorTypeOK, StartsWithList
<1>1. CASE HasSpace
  <2>1. Grown(sz) = [mem |-> items, num |-> allocNum]
    BY <1>1 DEF Grown
  <2> QED BY <1>1, <2>1 DEF HasSpace
<1>2. CASE ~ HasSpace
  <2> DEFINE n == IF sz > allocNum THEN sz ELSE 2 * allocNum
  <2>1. n \in Nat /\ n >= itemsNum + 1 /\ n > allocNum
    BY <1>2 DEF HasSpace
  <2>2. Grown(sz) = [mem |-> Realloc(items, n), num |-> n]
    BY <1>2 DEF Grown
  <2> HIDE DEF n
  <2>3. /\ Realloc(items, n) \in Seq(Contents) /\ Len(Realloc(items, n)) = n
        /\ \A i \in 1 .. n : Realloc(items, n)[i] = At(items, i)
    BY <2>1, ReallocIs
  <2>4. \A i \in 1 .. itemsNum : Realloc(items, n)[i] = list[i]
    BY <2>1, <2>3 DEF At
  <2> QED BY <2>1, <2>2, <2>3, <2>4
<1> QED BY <1>1, <1>2

(* An insertion keeps the invariant if it writes the cell the list says.   *)
LEMMA WritesKept ==
  ASSUME VectorInv, Sane, itemsNum < VectorMax, NEW sz \in {0, itemsNum + 1},
         NEW M \in Seq(Contents), Len(M) = Len(Grown(sz).mem),
         NEW w \in {0, itemsNum + 1}, Writes(Grown(sz), M, itemsNum + 1, w),
         UNCHANGED <<out, due>>, skewed' \in {0, 1}, list' \in Seq(Elems),
         skewed' = 0 => /\ w = itemsNum + 1 /\ Len(list') = w
                        /\ w <= Len(M) => \A i \in 1 .. w : M[i] = list'[i]
  PROVE  VectorInv'
<1> USE DEF VectorInv, VectorTypeOK, Writes
<1> DEFINE G == Grown(sz)
<1>1. /\ G.num \in Nat \ {0} /\ itemsNum + 1 <= G.num /\ allocNum <= G.num
      /\ IF emptied = 0 \/ G.num > allocNum THEN Len(G.mem) = G.num ELSE G.mem = items
  BY GrownIs
<1> HIDE DEF G
<1>2. /\ items' = M /\ itemsNum' = itemsNum + 1 /\ allocNum' = G.num
      /\ overrun' = IF w <= Len(M) THEN 0 ELSE 1
      /\ emptied' = IF G.num > allocNum THEN 0 ELSE emptied
  BY DEF G
<1>3. VectorTypeOK'
  BY <1>1, <1>2, VectorAssumption
<1>4. ASSUME overrun' = 1 PROVE emptied' = 1
  BY <1>1, <1>2, <1>4 DEF G
<1>5. ASSUME Sane' PROVE StartsWithList'
  BY <1>1, <1>2, <1>5 DEF G, Sane, StartsWithList
<1> QED BY <1>3, <1>4, <1>5

LEMMA PushKept ==
  ASSUME VectorInv, NEW e \in Elems, Push(e)
  PROVE  VectorInv'
<1> DEFINE G == Grown(0)
           w == itemsNum + 1
           M == [i \in 1 .. Len(G.mem) |-> IF i = w THEN e ELSE G.mem[i]]
<1>1. Sane /\ itemsNum < VectorMax
  BY DEF Push
<1>2. /\ G.mem \in Seq(Contents) /\ \A i \in 1 .. itemsNum : G.mem[i] = list[i]
      /\ itemsNum \in Nat /\ list \in Seq(Elems) /\ itemsNum = Len(list) /\ skewed = 0
  BY <1>1, GrownIs DEF VectorInv, VectorTypeOK, StartsWithList, Sane
<1>3. Writes(G, M, w, w) /\ UNCHANGED <<out, due, skewed>> /\ list' = Append(list, e)
  BY DEF Push
<1> HIDE DEF G
<1>4. M \in [1 .. Len(G.mem) -> Contents]
  BY <1>2 DEF Contents
<1>5. M \in Seq(Contents) /\ Len(M) = Len(G.mem)
  BY <1>2, <1>4, Tabulated
<1>6. w <= Len(M) => \A i \in 1 .. w : M[i] = list'[i]
  BY <1>2, <1>3, <1>5
<1>7. list' \in Seq(Elems) /\ Len(list') = w
  BY <1>2, <1>3
<1> HIDE DEF M
<1> QED BY <1>1, <1>2, <1>3, <1>5, <1>6, <1>7, WritesKept DEF G

LEMMA UnshiftKept ==
  ASSUME VectorInv, NEW e \in Elems, Unshift(e)
  PROVE  VectorInv'
<1> DEFINE G == Grown(itemsNum + 1)
           w == itemsNum + 1
           N == Moved(G.mem, 2, 1, itemsNum)
           M == [i \in 1 .. Len(N) |-> IF i = 1 THEN e ELSE N[i]]
<1>1. Sane /\ itemsNum < VectorMax
  BY DEF Unshift
<1>2. /\ G.mem \in Seq(Contents) /\ \A i \in 1 .. itemsNum : G.mem[i] = list[i]
      /\ itemsNum <= Len(G.mem)
      /\ itemsNum \in Nat /\ list \in Seq(Elems) /\ itemsNum = Len(list) /\ skewed = 0
  BY <1>1, GrownIs DEF VectorInv, VectorTypeOK, StartsWithList, Sane
<1>3. Writes(G, M, w, w) /\ UNCHANGED <<out, due, skewed>> /\ list' = <<e>> \o list
  BY DEF Unshift
<1> HIDE DEF G
<1>4. /\ N \in Seq(Contents) /\ Len(N) = Len(G.mem)
      /\ \A i \in 1 .. Len(G.mem) :
           N[i] = IF i \in 2 .. 2 + itemsNum - 1 THEN At(G.mem, i - 2 + 1) ELSE G.mem[i]
  <2>1. G.mem \in Seq(Contents) /\ itemsNum \in Int /\ 1 \in Int /\ 2 \in Int
    BY <1>2
  <2> DEFINE Shifts(Q, d, s, k) ==
        /\ Moved(Q, d, s, k) \in Seq(Contents)
        /\ Len(Moved(Q, d, s, k)) = Len(Q)
        /\ \A i \in 1 .. Len(Q) : Moved(Q, d, s, k)[i] =
             IF i \in d .. d + k - 1 THEN At(Q, i - d + s) ELSE Q[i]
  <2>2. \A Q \in Seq(Contents) : \A d \in Int : \A s \in Int : \A k \in Int : Shifts(Q, d, s, k)
    BY MovedIs
  <2> HIDE DEF Shifts
  <2>3. Shifts(G.mem, 2, 1, itemsNum)
    BY <2>1, <2>2, Zenon
  <2> QED BY <2>3 DEF Shifts
<1> HIDE DEF N
<1>5. M \in [1 .. Len(N) -> Contents]
  BY <1>4 DEF Contents
<1>6. M \in Seq(Contents) /\ Len(M) = Len(G.mem)
  BY <1>2, <1>4, <1>5, Tabulated
<1>7. <<e>> \o list \in Seq(Elems) /\ Len(<<e>> \o list) = w
      /\ \A i \in 1 .. w : (<<e>> \o list)[i] = IF i = 1 THEN e ELSE list[i - 1]
  BY <1>2
<1>8. ASSUME w <= Len(M), NEW i \in 1 .. w PROVE M[i] = list'[i]
  <2>1. CASE i = 1
    BY <1>3, <1>4, <1>6, <1>7, <1>8, <2>1
  <2>2. CASE i # 1
    <3>1. M[i] = N[i] /\ N[i] = At(G.mem, i - 1) /\ list'[i] = list[i - 1]
      BY <1>2, <1>3, <1>4, <1>6, <1>7, <1>8, <2>2
    <3>2. At(G.mem, i - 1) = list[i - 1]
      BY <1>2, <2>2 DEF At
    <3> QED BY <3>1, <3>2
  <2> QED BY <2>1, <2>2
<1> HIDE DEF M
<1> QED BY <1>1, <1>2, <1>3, <1>6, <1>7, <1>8, WritesKept DEF G

LEMMA OverwriteKept ==
  ASSUME VectorInv, NEW e \in Elems, NEW index \in 0 .. VectorMax, Overwrite(e, index)
  PROVE  VectorInv'
<1> USE DEF VectorInv, VectorTypeOK, Overwrite
<1>1. /\ index + 1 \in 1 .. itemsNum /\ index + 1 \in 1 .. Len(items)
      /\ index + 1 \in 1 .. Len(list) /\ StartsWithList
  BY DEF StartsWithList
<1>2. /\ items' \in Seq(Contents) /\ Len(items') = Len(items)
      /\ \A i \in 1 .. Len(items) : items'[i] = IF i = index + 1 THEN e ELSE items[i]
  BY <1>1 DEF Contents
<1>3. /\ list' \in Seq(Elems) /\ Len(list') = Len(list)
      /\ \A i \in 1 .. Len(list) : list'[i] = IF i = index + 1 THEN e ELSE list[i]
  BY <1>1
<1>4. VectorTypeOK'
  BY <1>2, <1>3
<1>5. StartsWithList'
  <2>1. ASSUME NEW i \in 1 .. itemsNum PROVE items'[i] = list'[i]
    <3>1. i \in 1 .. Len(items) /\ i \in 1 .. Len(list) /\ items[i] = list[i]
      BY <1>1, VectorAssumption DEF StartsWithList
    <3> QED BY <1>2, <1>3, <3>1
  <2> QED BY <1>1, <1>2, <1>3, <2>1 DEF StartsWithList
<1> QED BY <1>4, <1>5

-----------------------------------------------------------------------------
(* Inserting into a sequence, and removing from it.                        *)
LEMMA InsertAtIs ==
  ASSUME NEW S, NEW s \in Seq(S), NEW i \in 1 .. Len(s) + 1, NEW e \in S
  PROVE  /\ InsertAt(s, i, e) \in Seq(S) /\ Len(InsertAt(s, i, e)) = Len(s) + 1
         /\ \A j \in 1 .. Len(s) + 1 :
              InsertAt(s, i, e)[j] = IF j < i THEN s[j] ELSE IF j = i THEN e ELSE s[j - 1]
<1> DEFINE a == SubSeq(s, 1, i - 1)
           b == SubSeq(s, i, Len(s))
<1>1. a \in Seq(S) /\ Len(a) = i - 1 /\ \A j \in 1 .. i - 1 : a[j] = s[j]
  OBVIOUS
<1>2. b \in Seq(S) /\ Len(b) = Len(s) + 1 - i /\ \A j \in 1 .. Len(s) + 1 - i : b[j] = s[j + i - 1]
  OBVIOUS
<1>3. InsertAt(s, i, e) = a \o <<e>> \o b
  BY DEF InsertAt
<1> HIDE DEF a, b
<1> DEFINE c == a \o <<e>>
<1>4. c \in Seq(S) /\ Len(c) = i /\ \A j \in 1 .. i : c[j] = IF j = i THEN e ELSE s[j]
  BY <1>1
<1>5. InsertAt(s, i, e) = c \o b
  BY <1>3
<1> HIDE DEF c
<1>6. /\ c \o b \in Seq(S) /\ Len(c \o b) = Len(s) + 1
      /\ \A j \in 1 .. Len(s) + 1 : (c \o b)[j] = IF j <= i THEN c[j] ELSE b[j - i]
  <2>1. c \o b \in Seq(S) /\ Len(c \o b) = Len(c) + Len(b)
    BY <1>2, <1>4, ConcatProperties
  <2>2. \A j \in 1 .. Len(c) + Len(b) :
          (c \o b)[j] = IF j <= Len(c) THEN c[j] ELSE b[j - Len(c)]
    BY <1>2, <1>4, ConcatProperties
  <2>3. Len(c) = i /\ Len(c) + Len(b) = Len(s) + 1
    BY <1>2, <1>4
  <2> QED BY <2>1, <2>2, <2>3
<1>7. ASSUME NEW j \in 1 .. Len(s) + 1
      PROVE  (c \o b)[j] = IF j < i THEN s[j] ELSE IF j = i THEN e ELSE s[j - 1]
  <2>0. i \in Int /\ j \in Int
    OBVIOUS
  <2>1. CASE j <= i
    BY <1>4, <1>6, <2>1
  <2>2. CASE j > i
    <3>1. j - i \in 1 .. Len(s) + 1 - i /\ (j - i) + i - 1 = j - 1
      BY <2>2
    <3>2. b[j - i] = s[(j - i) + i - 1]
      BY <1>2, <3>1
    <3> QED BY <1>6, <2>2, <3>1, <3>2
  <2>3. j <= i \/ j > i
    BY <2>0
  <2> QED BY <2>1, <2>2, <2>3, Zenon
<1> QED BY <1>5, <1>6, <1>7

LEMMA RemoveAtIs ==
  ASSUME NEW S, NEW s \in Seq(S), NEW i \in 1 .. Len(s)
  PROVE  /\ RemoveAt(s, i) \in Seq(S) /\ Len(RemoveAt(s, i)) = Len(s) - 1
         /\ \A j \in 1 .. Len(s) - 1 :
              RemoveAt(s, i)[j] = IF j < i THEN s[j] ELSE s[j + 1]
<1> DEFINE a == SubSeq(s, 1, i - 1)
           b == SubSeq(s, i + 1, Len(s))
<1>1. a \in Seq(S) /\ Len(a) = i - 1 /\ \A j \in 1 .. i - 1 : a[j] = s[j]
  OBVIOUS
<1>2. b \in Seq(S) /\ Len(b) = Len(s) - i /\ \A j \in 1 .. Len(s) - i : b[j] = s[j + i]
  OBVIOUS
<1>3. RemoveAt(s, i) = a \o b
  BY DEF RemoveAt
<1> HIDE DEF a, b
<1>4. /\ a \o b \in Seq(S) /\ Len(a \o b) = Len(s) - 1
      /\ \A j \in 1 .. Len(s) - 1 : (a \o b)[j] = IF j <= i - 1 THEN a[j] ELSE b[j - (i - 1)]
  <2>1. a \o b \in Seq(S) /\ Len(a \o b) = Len(a) + Len(b)
    BY <1>1, <1>2, ConcatProperties, Zenon
  <2>2. Len(a) + Len(b) = Len(s) - 1
    BY <1>1, <1>2
  <2>3. \A j \in 1 .. Len(a) + Len(b) : (a \o b)[j] = IF j <= Len(a) THEN a[j] ELSE b[j - Len(a)]
    BY <1>1, <1>2, ConcatProperties, Zenon
  <2> QED BY <1>1, <2>1, <2>2, <2>3
<1>5. ASSUME NEW j \in 1 .. Len(s) - 1
      PROVE  (a \o b)[j] = IF j < i THEN s[j] ELSE s[j + 1]
  <2>0. i \in Int /\ j \in Int
    OBVIOUS
  <2>1. CASE j < i
    BY <1>1, <1>4, <2>1
  <2>2. CASE j >= i
    <3>1. j - (i - 1) \in 1 .. Len(s) - i /\ (j - (i - 1)) + i = j + 1
      BY <2>2
    <3>2. b[j - (i - 1)] = s[(j - (i - 1)) + i]
      BY <1>2, <3>1
    <3> QED BY <1>4, <2>2, <3>1, <3>2
  <2>3. j < i \/ j >= i
    BY <2>0
  <2> QED BY <2>1, <2>2, <2>3, Zenon
<1> QED BY <1>3, <1>4, <1>5

LEMMA FrontIs ==
  ASSUME NEW S, NEW s \in Seq(S), s # <<>>
  PROVE  /\ Front(s) \in Seq(S) /\ Len(Front(s)) = Len(s) - 1
         /\ \A j \in 1 .. Len(s) - 1 : Front(s)[j] = s[j]
<1>1. Len(s) \in Nat \ {0}
  BY EmptySeq
<1>2. PICK n \in Nat : n = Len(s) - 1
  BY <1>1
<1>3. /\ SubSeq(s, 1, n) \in Seq(S) /\ Len(SubSeq(s, 1, n)) = n
      /\ \A j \in 1 .. n : SubSeq(s, 1, n)[j] = s[j]
  BY <1>1, <1>2
<1> QED BY <1>2, <1>3 DEF Front

LEMMA InsertKept ==
  ASSUME VectorInv, NEW e \in Elems, NEW index \in 0 .. VectorMax, InsertAtIndex(e, index)
  PROVE  VectorInv'
<1> DEFINE G == Grown(0)
           n == itemsNum + 1
           N == IF index < itemsNum
                  THEN Moved(G.mem, index + 2, index + 1, itemsNum - index) ELSE G.mem
           M == [i \in 1 .. Len(N) |-> IF i = index + 1 /\ index < n THEN e ELSE N[i]]
           w == IF index < n THEN n ELSE 0
<1>1. Sane /\ itemsNum < VectorMax
  BY DEF InsertAtIndex
<1>2. /\ G.mem \in Seq(Contents) /\ \A i \in 1 .. itemsNum : G.mem[i] = list[i]
      /\ itemsNum <= Len(G.mem) /\ Len(G.mem) \in Nat
      /\ itemsNum \in Nat /\ list \in Seq(Elems) /\ itemsNum = Len(list)
      /\ index \in Nat
  BY <1>1, GrownIs, VectorAssumption DEF VectorInv, VectorTypeOK, StartsWithList
<1>3. /\ Writes(G, M, n, w) /\ UNCHANGED <<out, due>>
      /\ skewed' = IF index > itemsNum THEN 1 ELSE 0
      /\ list' = IF index > itemsNum THEN <<>> ELSE InsertAt(list, index + 1, e)
  BY DEF InsertAtIndex
<1> HIDE DEF G
<1>4. /\ N \in Seq(Contents) /\ Len(N) = Len(G.mem)
      /\ \A i \in 1 .. Len(G.mem) :
           N[i] = IF index < itemsNum /\ i \in index + 2 .. n
                    THEN At(G.mem, i - 1) ELSE G.mem[i]
  <2>1. CASE index < itemsNum
    <3> DEFINE V == Moved(G.mem, index + 2, index + 1, itemsNum - index)
    <3>1. /\ V \in Seq(Contents) /\ Len(V) = Len(G.mem)
          /\ \A i \in 1 .. Len(G.mem) :
               V[i] = IF i \in index + 2 .. index + 2 + (itemsNum - index) - 1
                        THEN At(G.mem, i - (index + 2) + (index + 1)) ELSE G.mem[i]
      <4>1. index + 2 \in Int /\ index + 1 \in Int /\ itemsNum - index \in Int
        BY <1>2
      <4>2. PICK d, s, k, Q : /\ d = index + 2 /\ s = index + 1 /\ k = itemsNum - index
                              /\ Q = G.mem
        OBVIOUS
      <4>3. d \in Int /\ s \in Int /\ k \in Int /\ Q \in Seq(Contents)
        BY <1>2, <4>1, <4>2
      <4> DEFINE Shifts(P, x, y, z) ==
            /\ Moved(P, x, y, z) \in Seq(Contents)
            /\ Len(Moved(P, x, y, z)) = Len(P)
            /\ \A i \in 1 .. Len(P) : Moved(P, x, y, z)[i] =
                 IF i \in x .. x + z - 1 THEN At(P, i - x + y) ELSE P[i]
      <4>4. \A P \in Seq(Contents) : \A x \in Int : \A y \in Int : \A z \in Int : Shifts(P, x, y, z)
        BY MovedIs
      <4> HIDE DEF Shifts
      <4>5. Shifts(Q, d, s, k)
        BY <4>3, <4>4, Zenon
      <4>6. /\ Moved(Q, d, s, k) \in Seq(Contents)
            /\ Len(Moved(Q, d, s, k)) = Len(Q)
            /\ \A i \in 1 .. Len(Q) :
                 Moved(Q, d, s, k)[i] = IF i \in d .. d + k - 1 THEN At(Q, i - d + s) ELSE Q[i]
        BY <4>5 DEF Shifts
      <4> QED BY <4>2, <4>6, Zenon
    <3> HIDE DEF V
    <3>2. N = V
      BY <2>1 DEF V
    <3>3. ASSUME NEW i \in 1 .. Len(G.mem)
          PROVE  V[i] = IF index < itemsNum /\ i \in index + 2 .. n
                          THEN At(G.mem, i - 1) ELSE G.mem[i]
      <4>1. index + 2 + (itemsNum - index) - 1 = n /\ i - (index + 2) + (index + 1) = i - 1
        BY <1>2
      <4> QED BY <2>1, <3>1, <4>1
    <3> QED BY <3>1, <3>2, <3>3
  <2>2. CASE ~ (index < itemsNum)
    BY <1>2, <2>2
  <2> QED BY <2>1, <2>2
<1> HIDE DEF N
<1>5. M \in [1 .. Len(N) -> Contents]
  BY <1>4 DEF Contents
<1>6. M \in Seq(Contents) /\ Len(M) = Len(G.mem)
  <2>1. Len(N) \in Nat
    BY <1>4
  <2> QED BY <1>4, <1>5, <2>1, Tabulated
<1>7. w \in {0, n}
  OBVIOUS
<1>8. list' \in Seq(Elems) /\ skewed' \in {0, 1}
  <2>1. CASE index > itemsNum
    BY <1>3, <2>1
  <2>2. CASE ~ (index > itemsNum)
    <3>0. index + 1 \in 1 .. Len(list) + 1
      BY <1>2, <2>2
    <3>1. InsertAt(list, index + 1, e) \in Seq(Elems)
      BY <1>2, <3>0, InsertAtIs
    <3> QED BY <1>3, <2>2, <3>1
  <2> QED BY <2>1, <2>2
<1>9. ASSUME skewed' = 0
      PROVE  w = n /\ Len(list') = w /\ (w <= Len(M) => \A i \in 1 .. w : M[i] = list'[i])
  <2>1. index <= itemsNum
    BY <1>2, <1>3, <1>9
  <2>2. w = n
    BY <1>2, <2>1
  <2>3. /\ Len(list') = n
        /\ \A j \in 1 .. n :
             list'[j] = IF j < index + 1 THEN list[j] ELSE IF j = index + 1 THEN e ELSE list[j - 1]
    <3>1. index + 1 \in 1 .. Len(list) + 1
      BY <1>2, <2>1
    <3>2. list' = InsertAt(list, index + 1, e)
      BY <1>2, <1>3, <2>1
    <3>3. /\ Len(InsertAt(list, index + 1, e)) = Len(list) + 1
          /\ \A j \in 1 .. Len(list) + 1 : InsertAt(list, index + 1, e)[j] =
               IF j < index + 1 THEN list[j] ELSE IF j = index + 1 THEN e ELSE list[j - 1]
      <4>1. PICK p \in 1 .. Len(list) + 1 : p = index + 1
        BY <3>1
      <4>2. list \in Seq(Elems)
        BY <1>2
      <4>3. /\ Len(InsertAt(list, p, e)) = Len(list) + 1
            /\ \A j \in 1 .. Len(list) + 1 : InsertAt(list, p, e)[j] =
                 IF j < p THEN list[j] ELSE IF j = p THEN e ELSE list[j - 1]
        <5> DEFINE SitsIn(s, i, x) ==
                     /\ Len(InsertAt(s, i, x)) = Len(s) + 1
                     /\ \A j \in 1 .. Len(s) + 1 : InsertAt(s, i, x)[j] =
                          IF j < i THEN s[j] ELSE IF j = i THEN x ELSE s[j - 1]
        <5>1. \A T : \A s \in Seq(T) : \A i \in 1 .. Len(s) + 1 : \A x \in T : SitsIn(s, i, x)
          BY InsertAtIs
        <5> HIDE DEF SitsIn
        <5>2. SitsIn(list, p, e)
          BY <4>1, <4>2, <5>1, Zenon
        <5> QED BY <5>2 DEF SitsIn
      <4> QED BY <4>1, <4>3, Zenon
    <3>4. PICK l : l = InsertAt(list, index + 1, e)
      OBVIOUS
    <3>5. list' = l /\ Len(l) = Len(list) + 1
      BY <3>2, <3>3, <3>4, Zenon
    <3>6. \A j \in 1 .. Len(list) + 1 :
            l[j] = IF j < index + 1 THEN list[j] ELSE IF j = index + 1 THEN e ELSE list[j - 1]
      BY <3>3, <3>4, Zenon
    <3> QED BY <1>2, <3>5, <3>6
  <2>4. ASSUME n <= Len(M), NEW i \in 1 .. n PROVE M[i] = list'[i]
    <3>1. i \in 1 .. Len(N) /\ i \in 1 .. Len(G.mem)
      BY <1>2, <1>4, <1>6, <2>4
    <3>2. CASE i = index + 1
      BY <1>2, <2>1, <2>3, <3>1, <3>2
    <3>3. CASE i < index + 1
      <4>1. M[i] = N[i] /\ N[i] = G.mem[i]
        BY <1>2, <1>4, <3>1, <3>3
      <4>2. i \in 1 .. itemsNum
        BY <1>2, <2>1, <3>3
      <4> QED BY <1>2, <2>3, <3>3, <4>1, <4>2
    <3>4. CASE i > index + 1
      <4>1. i - 1 \in 1 .. itemsNum /\ index < itemsNum /\ i \in index + 2 .. n
        BY <1>2, <2>1, <3>4
      <4>2. M[i] = N[i] /\ N[i] = At(G.mem, i - 1)
        BY <1>2, <1>4, <3>1, <3>4, <4>1
      <4>3. At(G.mem, i - 1) = list[i - 1]
        BY <1>2, <4>1 DEF At
      <4> QED BY <1>2, <2>3, <3>4, <4>2, <4>3
    <3> QED BY <1>2, <3>2, <3>3, <3>4
  <2> QED BY <2>2, <2>3, <2>4
<1> HIDE DEF M, w
<1> QED BY <1>1, <1>3, <1>6, <1>7, <1>8, <1>9, WritesKept DEF G

LEMMA PopLastKept ==
  ASSUME VectorInv, PopLast
  PROVE  VectorInv'
<1> USE DEF VectorInv, VectorTypeOK, PopLast, Keeps
<1>1. /\ StartsWithList /\ itemsNum \in 1 .. Len(list) /\ itemsNum \in 1 .. Len(items)
      /\ list # <<>> /\ overrun = 0
  BY VectorAssumption DEF StartsWithList, Sane
<1>2. /\ list' \in Seq(Elems) /\ Len(list') = Len(list) - 1
      /\ \A i \in 1 .. Len(list) - 1 : list'[i] = list[i]
  <2>1. list' = Front(list) /\ list \in Seq(Elems) /\ list # <<>>
    BY <1>1
  <2> QED BY <2>1, FrontIs
<1>3. VectorTypeOK'
  BY <1>1, <1>2, VectorAssumption
<1>4. out' = due'
  BY <1>1 DEF StartsWithList, At, Last
<1>5. \A i \in 1 .. itemsNum' : items'[i] = list'[i]
  BY <1>1, <1>2, VectorAssumption DEF StartsWithList
<1>6. StartsWithList'
  BY <1>1, <1>2, <1>4, <1>5, VectorAssumption DEF StartsWithList
<1> QED BY <1>1, <1>3, <1>6

LEMMA ShiftKept ==
  ASSUME VectorInv, Shift
  PROVE  VectorInv'
<1> USE DEF VectorInv, VectorTypeOK, Shift, Keeps
<1>1. /\ StartsWithList /\ itemsNum \in 1 .. Len(list) /\ itemsNum \in 1 .. Len(items)
      /\ list # <<>> /\ overrun = 0
  BY VectorAssumption DEF StartsWithList, Sane
<1>2. /\ list' \in Seq(Elems) /\ Len(list') = Len(list) - 1
      /\ \A i \in 1 .. Len(list) - 1 : list'[i] = list[i + 1]
  BY <1>1
<1>3. /\ items' \in Seq(Contents) /\ Len(items') = Len(items)
      /\ \A i \in 1 .. Len(items) :
           items'[i] = IF i \in 1 .. 1 + itemsNum - 1 THEN At(items, i - 1 + 2) ELSE items[i]
  <2>1. items' = Moved(items, 1, 2, itemsNum) /\ items \in Seq(Contents) /\ itemsNum \in Int
    BY VectorAssumption
  <2> QED BY <2>1, MovedIs
<1>4. VectorTypeOK'
  BY <1>1, <1>2, <1>3, VectorAssumption
<1>5. out' = due'
  BY <1>1 DEF StartsWithList, At
<1>6. ASSUME NEW i \in 1 .. itemsNum - 1 PROVE items'[i] = list'[i]
  <2>1. /\ i \in 1 .. Len(items) /\ i + 1 \in 1 .. Len(items) /\ i - 1 + 2 = i + 1
        /\ i \in 1 .. 1 + itemsNum - 1 /\ i + 1 \in 1 .. itemsNum
    BY <1>1, VectorAssumption
  <2>2. items'[i] = At(items, i + 1)
    BY <1>3, <2>1
  <2>3. At(items, i + 1) = list[i + 1]
    BY <1>1, <2>1 DEF At, StartsWithList
  <2>4. i \in 1 .. Len(list) - 1
    BY <1>1, VectorAssumption DEF StartsWithList
  <2> QED BY <1>2, <2>2, <2>3, <2>4
<1>7. StartsWithList'
  BY <1>1, <1>2, <1>3, <1>5, <1>6, VectorAssumption DEF StartsWithList
<1> QED BY <1>1, <1>4, <1>7

LEMMA RemoveIndexKept ==
  ASSUME VectorInv, NEW index \in 1 .. VectorMax, RemoveIndex(index)
  PROVE  VectorInv'
<1> USE DEF VectorInv, VectorTypeOK, RemoveIndex
<1>1. /\ StartsWithList /\ itemsNum \in 1 .. Len(list) /\ itemsNum \in 1 .. Len(items)
      /\ index \in 1 .. itemsNum - 1 /\ overrun = 0 /\ list \in Seq(Elems)
  BY VectorAssumption DEF StartsWithList, Sane
<1>2. /\ items' \in Seq(Contents) /\ Len(items') = Len(items)
      /\ \A i \in 1 .. Len(items) :
           items'[i] = IF i = index + 1 THEN At(items, index + 2) ELSE items[i]
  <2>1. /\ items' = Moved(items, index + 1, index + 2, 1)
        /\ items \in Seq(Contents) /\ index + 1 \in Int /\ index + 2 \in Int
    BY <1>1
  <2>2. /\ items' \in Seq(Contents) /\ Len(items') = Len(items)
        /\ \A i \in 1 .. Len(items) :
             items'[i] = IF i \in index + 1 .. index + 1 + 1 - 1
                           THEN At(items, i - (index + 1) + (index + 2)) ELSE items[i]
    BY <2>1, MovedIs
  <2>3. ASSUME NEW i \in 1 .. Len(items)
        PROVE  items'[i] = IF i = index + 1 THEN At(items, index + 2) ELSE items[i]
    <3>1. /\ i \in index + 1 .. index + 1 + 1 - 1 <=> i = index + 1
          /\ i = index + 1 => i - (index + 1) + (index + 2) = index + 2
      BY <1>1
    <3> QED BY <2>2, <3>1
  <2> QED BY <2>2, <2>3
<1>3. CASE index < itemsNum - 2
  <2>1. skewed' = 1 /\ list' = <<>>
    BY <1>3
  <2> QED BY <1>1, <1>2, <2>1, VectorAssumption DEF Sane
<1>4. CASE ~ (index < itemsNum - 2)
  <2>1. skewed' = 0 /\ list' = RemoveAt(list, index + 1)
    BY <1>4 DEF Sane
  <2>2. PICK p \in 1 .. Len(list) : p = index + 1
    BY <1>1 DEF StartsWithList
  <2>3. /\ RemoveAt(list, p) \in Seq(Elems) /\ Len(RemoveAt(list, p)) = Len(list) - 1
        /\ \A j \in 1 .. Len(list) - 1 :
             RemoveAt(list, p)[j] = IF j < p THEN list[j] ELSE list[j + 1]
    BY <1>1, RemoveAtIs
  <2>4. /\ list' \in Seq(Elems) /\ Len(list') = Len(list) - 1
        /\ \A j \in 1 .. Len(list) - 1 : list'[j] = IF j < index + 1 THEN list[j] ELSE list[j + 1]
    BY <2>1, <2>2, <2>3
  <2>5. VectorTypeOK'
    BY <1>1, <1>2, <2>1, <2>4, VectorAssumption
  <2>6. ASSUME NEW i \in 1 .. itemsNum - 1 PROVE items'[i] = list'[i]
    <3>1. i \in 1 .. Len(items) /\ i \in 1 .. Len(list) - 1 /\ i \in 1 .. itemsNum
      BY <1>1, VectorAssumption DEF StartsWithList
    <3>2. CASE i < index + 1
      BY <1>1, <1>2, <2>4, <3>1, <3>2 DEF StartsWithList
    <3>3. CASE ~ (i < index + 1)
      <4>1. i = index + 1 /\ index + 2 = itemsNum
        BY <1>1, <1>4, <3>1, <3>3
      <4>2. items'[i] = items[itemsNum]
        BY <1>1, <1>2, <3>1, <4>1 DEF At
      <4>3. list'[i] = list[itemsNum]
        BY <2>4, <3>1, <3>3, <4>1
      <4> QED BY <1>1, <4>2, <4>3 DEF StartsWithList
    <3> QED BY <3>2, <3>3
  <2>7. /\ itemsNum' = Len(list') /\ itemsNum' <= Len(items') /\ itemsNum' <= allocNum'
        /\ out' = due' /\ (emptied' = 0 => Len(items') = allocNum')
    <3>1. /\ itemsNum' = itemsNum - 1 /\ allocNum' = allocNum /\ out' = out /\ due' = due
          /\ emptied' = emptied
      OBVIOUS
    <3>2. /\ itemsNum = Len(list) /\ itemsNum <= Len(items) /\ itemsNum <= allocNum
          /\ out = due /\ (emptied = 0 => Len(items) = allocNum)
      BY <1>1 DEF StartsWithList
    <3>3. itemsNum \in Nat /\ allocNum \in Nat /\ Len(items) \in Nat
      BY VectorAssumption
    <3> HIDE DEF VectorInv, VectorTypeOK, RemoveIndex
    <3>4. itemsNum - 1 <= Len(items) /\ itemsNum - 1 <= allocNum
      BY <3>2, <3>3
    <3> QED BY <1>2, <2>4, <3>1, <3>2, <3>4, Zenon
  <2>8. \A i \in 1 .. itemsNum' : items'[i] = list'[i]
    BY <1>1, <2>6
  <2>9. StartsWithList'
    BY <2>7, <2>8, Zenon DEF StartsWithList
  <2> QED BY <1>1, <2>5, <2>9
<1> QED BY <1>3, <1>4

LEMMA RemoveAllKept ==
  ASSUME VectorInv, RemoveAll
  PROVE  VectorInv'
<1> USE DEF VectorInv, VectorTypeOK, RemoveAll
<1>1. allocNum \div ItemSize \in Nat
  BY VectorAssumption
<1>2. items' \in Seq(Contents) /\ Len(items') \in Nat
  BY <1>1, ReallocIs
<1>3. VectorTypeOK'
  BY <1>2, VectorAssumption
<1>4. StartsWithList' /\ overrun' = 0
  BY <1>2 DEF StartsWithList, Sane
<1> QED BY <1>3, <1>4

LEMMA TransposeKept ==
  ASSUME VectorInv, NEW i \in 1 .. VectorMax, NEW j \in 1 .. VectorMax, Transpose(i, j)
  PROVE  VectorInv'
<1> USE DEF VectorInv, VectorTypeOK, Transpose, Keeps
<1>1. /\ StartsWithList /\ i \in 1 .. itemsNum /\ j \in 1 .. itemsNum /\ overrun = 0
      /\ i \in 1 .. Len(items) /\ j \in 1 .. Len(items)
      /\ i \in 1 .. Len(list) /\ j \in 1 .. Len(list)
      /\ items[i] = list[i] /\ items[j] = list[j]
  BY VectorAssumption DEF StartsWithList, Sane
<1>2. /\ items' \in Seq(Contents) /\ Len(items') = Len(items)
      /\ \A k \in 1 .. Len(items) :
           items'[k] = IF k = j THEN items[i] ELSE IF k = i THEN items[j] ELSE items[k]
  BY <1>1
<1>3. /\ list' \in Seq(Elems) /\ Len(list') = Len(list)
      /\ \A k \in 1 .. Len(list) :
           list'[k] = IF k = j THEN list[i] ELSE IF k = i THEN list[j] ELSE list[k]
  BY <1>1
<1>4. VectorTypeOK'
  BY <1>2, <1>3
<1>5. ASSUME NEW k \in 1 .. itemsNum PROVE items'[k] = list'[k]
  <2>1. k \in 1 .. Len(items) /\ k \in 1 .. Len(list) /\ items[k] = list[k]
    BY <1>1, VectorAssumption DEF StartsWithList
  <2> QED BY <1>1, <1>2, <1>3, <2>1
<1>6. StartsWithList'
  BY <1>1, <1>2, <1>3, <1>5 DEF StartsWithList
<1> QED BY <1>1, <1>4, <1>6

LEMMA CopyKept ==
  ASSUME VectorInv, Copy
  PROVE  VectorInv'
<1> USE DEF VectorInv, VectorTypeOK, Copy
<1>1. StartsWithList /\ overrun = 0
  BY DEF Sane
<1>2. items' \in [1 .. allocNum -> Contents]
  BY <1>1 DEF Contents, At
<1>3. items' \in Seq(Contents) /\ Len(items') = allocNum
  BY <1>2, Tabulated
<1>4. VectorTypeOK'
  BY <1>3
<1>5. \A i \in 1 .. itemsNum : items'[i] = items[i]
  BY <1>1, VectorAssumption DEF StartsWithList, At
<1>6. StartsWithList'
  BY <1>1, <1>3, <1>5 DEF StartsWithList
<1> QED BY <1>1, <1>4, <1>6

LEMMA VectorInvKept == VectorInv /\ [VectorNext]_vectorVars => VectorInv'
<1> SUFFICES ASSUME VectorInv, [VectorNext]_vectorVars PROVE VectorInv'
  OBVIOUS
<1>1. CASE UNCHANGED vectorVars
  BY <1>1 DEF vectorVars, VectorInv, VectorTypeOK, StartsWithList, Sane
<1>2. ASSUME NEW e \in Elems, Push(e) PROVE VectorInv'
  BY <1>2, PushKept
<1>3. ASSUME NEW e \in Elems, Unshift(e) PROVE VectorInv'
  BY <1>3, UnshiftKept
<1>4. ASSUME NEW e \in Elems, NEW i \in 0 .. VectorMax, Overwrite(e, i) PROVE VectorInv'
  BY <1>4, OverwriteKept
<1>5. ASSUME NEW e \in Elems, NEW i \in 0 .. VectorMax, InsertAtIndex(e, i) PROVE VectorInv'
  BY <1>5, InsertKept
<1>6. ASSUME NEW i \in 1 .. VectorMax, RemoveIndex(i) PROVE VectorInv'
  BY <1>6, RemoveIndexKept
<1>7. ASSUME NEW i \in 1 .. VectorMax, NEW j \in 1 .. VectorMax, Transpose(i, j)
      PROVE  VectorInv'
  BY <1>7, TransposeKept
<1> QED
  BY <1>1, <1>2, <1>3, <1>4, <1>5, <1>6, <1>7,
     PopLastKept, ShiftKept, RemoveAllKept, CopyKept, Zenon DEF VectorNext

(* vector_cmp_all looks at the elements one after the other and keeps the  *)
(* greatest (lib_vector.c): there is one function CmpAll describes, and it *)
(* gives an index of the first n that no element of the first n exceeds.   *)
LEMMA CmpAllDefined ==
  \A n \in 1 .. VectorMax :
    CmpAll[n] = IF n = 1 THEN 1
                ELSE IF items[n] > items[CmpAll[n - 1]] THEN n ELSE CmpAll[n - 1]
<1> DEFINE Rule(g, n) == IF n = 1 THEN 1 ELSE IF items[n] > items[g[n - 1]] THEN n ELSE g[n - 1]
           Upto(m) == \E g : g = [n \in 1 .. m |-> Rule(g, n)]
           Bad == {m \in Nat : ~ Upto(m)}
<1>1. Bad = {}
  <2> SUFFICES ASSUME Bad # {} PROVE FALSE
    OBVIOUS
  <2> HIDE DEF Upto
  <2>1. PICK m \in Bad : \A k \in Bad : m <= k
    BY LeastNat
  <2>0. m \in Nat /\ ~ Upto(m) /\ (m > 0 => Upto(m - 1))
    BY <2>1
  <2> USE DEF Upto
  <2> HIDE DEF Bad
  <2>2. CASE m = 0
    <3> DEFINE g == [n \in 1 .. 0 |-> 1]
    <3>1. g = [n \in 1 .. 0 |-> Rule(g, n)]
      OBVIOUS
    <3> QED BY <2>0, <2>2, <3>1
  <2>3. CASE m > 0
    <3>2. PICK g : g = [n \in 1 .. m - 1 |-> Rule(g, n)]
      BY <2>0, <2>3
    <3> DEFINE h == [n \in 1 .. m |-> IF n = m THEN Rule(g, m) ELSE g[n]]
    <3>3. ASSUME NEW n \in 1 .. m PROVE h[n] = Rule(h, n)
      <4>1. CASE n = 1
        BY <2>0, <2>3, <3>2, <4>1
      <4>2. CASE n # 1
        <5>1. n - 1 \in 1 .. m - 1 /\ h[n - 1] = g[n - 1]
          BY <2>0, <2>3, <4>2
        <5>2. Rule(h, n) = Rule(g, n)
          BY <5>1
        <5>3. h[n] = Rule(g, n)
          <6>1. CASE n = m
            BY <6>1
          <6>2. CASE n # m
            BY <2>0, <3>2, <6>2
          <6> QED BY <6>1, <6>2
        <5> QED BY <5>2, <5>3
      <4> QED BY <4>1, <4>2
    <3>4. h = [n \in 1 .. m |-> Rule(h, n)]
      <4>1. h = [n \in 1 .. m |-> h[n]]
        OBVIOUS
      <4> HIDE DEF h, Rule
      <4> QED BY <3>3, <4>1
    <3> HIDE DEF h
    <3> QED BY <2>0, <3>4
  <2> QED BY <2>0, <2>2, <2>3
<1>2. \E g : g = [n \in 1 .. VectorMax |-> Rule(g, n)]
  <2> HIDE DEF Upto
  <2>1. Upto(VectorMax)
    BY <1>1, VectorAssumption
  <2> QED BY <2>1 DEF Upto
<1>3. CmpAll = CHOOSE g : g = [n \in 1 .. VectorMax |-> Rule(g, n)]
  BY DEF CmpAll
<1>4. CmpAll = [n \in 1 .. VectorMax |-> Rule(CmpAll, n)]
  BY <1>2, <1>3, Zenon
<1> HIDE DEF Rule
<1>5. \A n \in 1 .. VectorMax : CmpAll[n] = Rule(CmpAll, n)
  BY <1>4
<1> QED BY <1>5 DEF Rule

LEMMA CmpAllIsGreatest ==
  ASSUME VectorInv, NEW n \in 1 .. itemsNum, itemsNum <= Len(items),
         \A i \in 1 .. itemsNum : items[i] \in Int
  PROVE  CmpAll[n] \in 1 .. n /\ \A i \in 1 .. n : items[i] <= items[CmpAll[n]]
<1> DEFINE Good(k) == CmpAll[k] \in 1 .. k /\ \A i \in 1 .. k : items[i] <= items[CmpAll[k]]
           Bad == {k \in 1 .. itemsNum : ~ Good(k)}
<1>1. itemsNum \in Nat /\ itemsNum <= VectorMax
  BY VectorAssumption DEF VectorInv, VectorTypeOK
<1>2. \A k \in 1 .. itemsNum :
        CmpAll[k] = IF k = 1 THEN 1
                    ELSE IF items[k] > items[CmpAll[k - 1]] THEN k ELSE CmpAll[k - 1]
  BY <1>1, CmpAllDefined, VectorAssumption
<1>3. Bad = {}
  <2> SUFFICES ASSUME Bad # {} PROVE FALSE
    OBVIOUS
  <2> HIDE DEF Good
  <2>1. PICK k \in Bad : \A j \in Bad : k <= j
    <3>1. Bad \subseteq Nat
      BY <1>1
    <3> HIDE DEF Bad
    <3> QED BY <3>1, LeastNat
  <2>2. k \in 1 .. itemsNum /\ ~ Good(k) /\ (k > 1 => Good(k - 1))
    BY <1>1, <2>1
  <2> HIDE DEF Bad
  <2> USE DEF Good
  <2>3. CASE k = 1
    BY <1>1, <1>2, <2>2, <2>3
  <2>4. CASE k > 1
    <3>1. PICK c \in 1 .. k - 1 : c = CmpAll[k - 1] /\ \A i \in 1 .. k - 1 : items[i] <= items[c]
      BY <1>1, <2>2, <2>4
    <3>2. c \in 1 .. itemsNum
      BY <1>1, <2>2
    <3>3. CmpAll[k] = IF items[k] > items[c] THEN k ELSE c
      BY <1>1, <1>2, <2>2, <2>4, <3>1
    <3>4. CASE items[k] > items[c]
      <4>1. ASSUME NEW i \in 1 .. k PROVE items[i] <= items[k]
        <5>1. CASE i = k
          BY <1>1, <2>2, <5>1
        <5>2. CASE i # k
          <6>1. i \in 1 .. k - 1 /\ i \in 1 .. itemsNum
            BY <1>1, <2>2, <5>2
          <6> QED BY <2>2, <3>1, <3>2, <3>4, <6>1
        <5> QED BY <5>1, <5>2
      <4> QED BY <2>2, <3>3, <3>4, <4>1
    <3>5. CASE ~ (items[k] > items[c])
      <4>1. items[k] <= items[c]
        BY <2>2, <3>2, <3>5
      <4>2. ASSUME NEW i \in 1 .. k PROVE items[i] <= items[c]
        <5>1. CASE i = k
          BY <4>1, <5>1
        <5>2. CASE i # k
          BY <1>1, <2>2, <3>1, <5>2
        <5> QED BY <5>1, <5>2
      <4> QED BY <1>1, <2>2, <3>2, <3>3, <3>5, <4>2
    <3> QED BY <3>4, <3>5
  <2> QED BY <1>1, <2>2, <2>3, <2>4
<1> HIDE DEF Good
<1>4. Good(n)
  BY <1>3
<1> QED BY <1>4 DEF Good

LEMMA VectorInvHolds == VectorInv => VectorIsList
<1> SUFFICES ASSUME VectorInv PROVE VectorIsList
  OBVIOUS
<1>1. overrun = 1 => emptied = 1
  BY DEF VectorInv
<1>2. ASSUME skewed = 0, overrun = 0
      PROVE  /\ itemsNum = Len(list) /\ SubSeq(items, 1, itemsNum) = list /\ out = due
             /\ itemsNum > 0 => \A i \in 1 .. itemsNum : list[i] <= items[CmpAll[itemsNum]]
  <2>1. /\ itemsNum = Len(list) /\ itemsNum <= Len(items) /\ out = due
        /\ \A i \in 1 .. itemsNum : items[i] = list[i]
        /\ items \in Seq(Contents) /\ list \in Seq(Elems)
    BY <1>2 DEF VectorInv, VectorTypeOK, StartsWithList, Sane
  <2>2. PICK n \in Nat : n = itemsNum
    BY <2>1
  <2>3. /\ SubSeq(items, 1, n) \in Seq(Contents) /\ Len(SubSeq(items, 1, n)) = n
        /\ \A i \in 1 .. n : SubSeq(items, 1, n)[i] = items[i]
    BY <2>1, <2>2
  <2>4. list \in Seq(Contents)
    BY <2>1 DEF Contents
  <2>5. SubSeq(items, 1, n) = list
    <3>1. PICK t : t = SubSeq(items, 1, n)
      OBVIOUS
    <3>2. t \in Seq(Contents) /\ Len(t) = Len(list) /\ \A i \in 1 .. Len(t) : t[i] = list[i]
      BY <2>1, <2>2, <2>3, <3>1
    <3>3. t = list
      BY <2>4, <3>2, SeqEqual
    <3> QED BY <3>1, <3>3
  <2>6. ASSUME NEW i \in 1 .. itemsNum PROVE items[i] \in Int
    <3>1. i \in 1 .. Len(list)
      BY <2>1
    <3>2. list[i] \in Elems
      BY <2>1, <3>1, ElementOfSeq
    <3> QED BY <2>1, <3>2, VectorAssumption
  <2>7. ASSUME n > 0, NEW i \in 1 .. n PROVE list[i] <= items[CmpAll[n]]
    <3>1. n \in 1 .. itemsNum
      BY <2>2, <2>7
    <3>2. items[i] <= items[CmpAll[n]]
      BY <2>1, <2>6, <3>1, CmpAllIsGreatest
    <3> QED BY <2>1, <2>2, <3>2
  <2> QED BY <2>1, <2>2, <2>5, <2>7
<1> QED BY <1>1, <1>2 DEF VectorIsList

(* Whatever is pushed, inserted, shifted, removed, swapped and copied, the *)
(* vector holds the elements of the list its calls make while its memory   *)
(* grows, unless one was inserted beyond the end or removed before the     *)
(* last two; its search finds a greatest one, and nothing is written       *)
(* outside of the memory before vector_remove_all (lib_vector.c:43-180).   *)
THEOREM VectorIsListHolds == VectorSpec => []VectorIsList
<1> USE VectorAssumption
<1> QED BY VectorInitInv, VectorInvKept, VectorInvHolds, PTL DEF VectorSpec

-----------------------------------------------------------------------------
NodeIds  == 1 .. QueueMax + 1
NodeType == [data : QueueData, next : NodeIds \cup {Null}, prev : NodeIds \cup {Null}]

(* The nodes ns, from head to tail, are all there are in D, each once, and *)
(* they carry the elements of d and point to each other.                   *)
Chain(D, d, ns) ==
  /\ D \in [DOMAIN D -> NodeType]
  /\ ns \in [1 .. Len(d) -> NodeIds]
  /\ \A i, j \in 1 .. Len(d) : ns[i] = ns[j] => i = j
  /\ DOMAIN D = {ns[i] : i \in 1 .. Len(d)}
  /\ \A i \in 1 .. Len(d) : D[ns[i]].data = d[i]
  /\ \A i \in 1 .. Len(d) : D[ns[i]].next = IF i = Len(d) THEN Null ELSE ns[i + 1]
  /\ \A i \in 1 .. Len(d) : D[ns[i]].prev = IF i = 1 THEN Null ELSE ns[i - 1]

(* One field of one node is set.                                           *)
LEMMA SetPrevIs ==
  ASSUME NEW D, D \in [DOMAIN D -> NodeType], NEW n \in DOMAIN D,
         NEW m \in NodeIds \cup {Null}
  PROVE  /\ DOMAIN [D EXCEPT ![n].prev = m] = DOMAIN D
         /\ [D EXCEPT ![n].prev = m] \in [DOMAIN D -> NodeType]
         /\ [D EXCEPT ![n].prev = m][n].data = D[n].data
         /\ [D EXCEPT ![n].prev = m][n].next = D[n].next
         /\ [D EXCEPT ![n].prev = m][n].prev = m
         /\ \A k \in DOMAIN D \ {n} : [D EXCEPT ![n].prev = m][k] = D[k]
BY DEF NodeType

LEMMA SetNextIs ==
  ASSUME NEW D, D \in [DOMAIN D -> NodeType], NEW n \in DOMAIN D,
         NEW m \in NodeIds \cup {Null}
  PROVE  /\ DOMAIN [D EXCEPT ![n].next = m] = DOMAIN D
         /\ [D EXCEPT ![n].next = m] \in [DOMAIN D -> NodeType]
         /\ [D EXCEPT ![n].next = m][n].data = D[n].data
         /\ [D EXCEPT ![n].next = m][n].next = m
         /\ [D EXCEPT ![n].next = m][n].prev = D[n].prev
         /\ \A k \in DOMAIN D \ {n} : [D EXCEPT ![n].next = m][k] = D[k]
BY DEF NodeType

LEMMA LinkIs ==
  ASSUME NEW D, D \in [DOMAIN D -> NodeType], NEW m \in NodeIds, m \notin DOMAIN D,
         NEW node \in NodeType
  PROVE  /\ DOMAIN Link(D, m, node) = DOMAIN D \cup {m}
         /\ Link(D, m, node) \in [DOMAIN D \cup {m} -> NodeType]
         /\ Link(D, m, node)[m] = node
         /\ \A k \in DOMAIN D : k # m /\ Link(D, m, node)[k] = D[k]
BY DEF Link

LEMMA DropIs ==
  ASSUME NEW D, D \in [DOMAIN D -> NodeType], NEW m
  PROVE  /\ DOMAIN Drop(D, m) = DOMAIN D \ {m}
         /\ Drop(D, m) \in [DOMAIN D \ {m} -> NodeType]
         /\ \A k \in DOMAIN D \ {m} : Drop(D, m)[k] = D[k]
BY DEF Drop

(* A node linked in front of the first one (lib_queue.c:111).              *)
LEMMA ChainPushHead ==
  ASSUME NEW D, NEW d \in Seq(QueueData), NEW ns, Chain(D, d, ns), Len(d) > 0,
         NEW x \in QueueData, NEW m \in NodeIds, m \notin DOMAIN D
  PROVE  \E ms :
           /\ ms[1] = m /\ ms[Len(d) + 1] = ns[Len(d)]
           /\ Chain(Link([D EXCEPT ![ns[1]].prev = m], m,
                         [data |-> x, next |-> ns[1], prev |-> Null]), <<x>> \o d, ms)
<1>1. PICK L \in Nat : L = Len(d) /\ L > 0
  OBVIOUS
<1>2. PICK h \in NodeIds : h = ns[1] /\ h \in DOMAIN D
  BY <1>1 DEF Chain
<1>3. PICK E : E = [D EXCEPT ![h].prev = m]
  OBVIOUS
<1>4. PICK node \in NodeType : node = [data |-> x, next |-> h, prev |-> Null]
  BY <1>2 DEF NodeType
<1>5. PICK F : F = Link(E, m, node)
  OBVIOUS
<1>6. PICK e \in Seq(QueueData) : e = <<x>> \o d
  <2>1. <<x>> \o d \in Seq(QueueData)
    OBVIOUS
  <2> QED BY <2>1, Zenon
<1>7. Len(e) = L + 1 /\ \A i \in 1 .. L + 1 : e[i] = IF i = 1 THEN x ELSE d[i - 1]
  BY <1>1, <1>6
<1>8. PICK ms : ms = [i \in 1 .. L + 1 |-> IF i = 1 THEN m ELSE ns[i - 1]]
  OBVIOUS
<1>9. /\ ns \in [1 .. L -> NodeIds]
      /\ \A i, j \in 1 .. L : ns[i] = ns[j] => i = j
      /\ DOMAIN D = {ns[i] : i \in 1 .. L}
      /\ \A i \in 1 .. L : D[ns[i]].data = d[i]
      /\ \A i \in 1 .. L : D[ns[i]].next = IF i = L THEN Null ELSE ns[i + 1]
      /\ \A i \in 1 .. L : D[ns[i]].prev = IF i = 1 THEN Null ELSE ns[i - 1]
      /\ D \in [DOMAIN D -> NodeType]
  BY <1>1 DEF Chain
<1>10. /\ DOMAIN E = DOMAIN D /\ E \in [DOMAIN D -> NodeType]
       /\ E[h].data = D[h].data /\ E[h].next = D[h].next /\ E[h].prev = m
       /\ \A k \in DOMAIN D \ {h} : E[k] = D[k]
  <2>1. m \in NodeIds \cup {Null} /\ h \in DOMAIN D
    BY <1>2
  <2>2. D \in [DOMAIN D -> NodeType]
    BY <1>9
  <2>3. /\ DOMAIN [D EXCEPT ![h].prev = m] = DOMAIN D
        /\ [D EXCEPT ![h].prev = m] \in [DOMAIN D -> NodeType]
        /\ [D EXCEPT ![h].prev = m][h].data = D[h].data
        /\ [D EXCEPT ![h].prev = m][h].next = D[h].next
        /\ [D EXCEPT ![h].prev = m][h].prev = m
        /\ \A k \in DOMAIN D \ {h} : [D EXCEPT ![h].prev = m][k] = D[k]
    BY <2>1, <2>2, SetPrevIs, Zenon
  <2> QED BY <1>3, <2>3, Zenon
<1>11. /\ DOMAIN F = DOMAIN D \cup {m} /\ F \in [DOMAIN F -> NodeType]
       /\ F[m] = node /\ \A k \in DOMAIN D : k # m /\ F[k] = E[k]
  <2>1. E \in [DOMAIN E -> NodeType] /\ m \notin DOMAIN E
    BY <1>10
  <2>2. /\ DOMAIN F = DOMAIN E \cup {m} /\ F \in [DOMAIN E \cup {m} -> NodeType]
        /\ F[m] = node /\ \A k \in DOMAIN E : k # m /\ F[k] = E[k]
    <3>1. /\ DOMAIN Link(E, m, node) = DOMAIN E \cup {m}
          /\ Link(E, m, node) \in [DOMAIN E \cup {m} -> NodeType]
          /\ Link(E, m, node)[m] = node
          /\ \A k \in DOMAIN E : k # m /\ Link(E, m, node)[k] = E[k]
      BY <2>1 DEF Link
    <3> QED BY <1>5, <3>1, Zenon
  <2> QED BY <1>10, <2>2
<1>12. /\ ms \in [1 .. L + 1 -> NodeIds] /\ ms[1] = m
       /\ \A i \in 2 .. L + 1 : ms[i] = ns[i - 1]
       /\ \A i \in 1 .. L : ms[i + 1] = ns[i]
  BY <1>1, <1>8, <1>9
<1>13. \A i \in 1 .. L : ns[i] \in DOMAIN D /\ ns[i] # m
  BY <1>9
<1>14. ASSUME NEW i \in 1 .. L + 1, NEW j \in 1 .. L + 1, ms[i] = ms[j] PROVE i = j
  <2>1. CASE i = 1 /\ j = 1
    BY <2>1
  <2>2. CASE i = 1 /\ j # 1
    <3>1. j - 1 \in 1 .. L /\ j \in 2 .. L + 1
      BY <2>2
    <3> QED BY <1>12, <1>13, <1>14, <2>2, <3>1
  <2>3. CASE i # 1 /\ j = 1
    <3>1. i - 1 \in 1 .. L /\ i \in 2 .. L + 1
      BY <2>3
    <3> QED BY <1>12, <1>13, <1>14, <2>3, <3>1
  <2>4. CASE i # 1 /\ j # 1
    <3>1. i - 1 \in 1 .. L /\ j - 1 \in 1 .. L /\ i \in 2 .. L + 1 /\ j \in 2 .. L + 1
      BY <2>4
    <3>2. i - 1 = j - 1
      BY <1>9, <1>12, <1>14, <3>1
    <3> QED BY <3>1, <3>2
  <2> QED BY <2>1, <2>2, <2>3, <2>4
<1>15. DOMAIN F = {ms[i] : i \in 1 .. L + 1}
  <2>1. ASSUME NEW n \in DOMAIN F PROVE \E i \in 1 .. L + 1 : n = ms[i]
    <3>1. CASE n = m
      <4>1. 1 \in 1 .. L + 1
        OBVIOUS
      <4> QED BY <1>12, <3>1, <4>1
    <3>2. CASE n # m
      <4>1. PICK i \in 1 .. L : n = ns[i]
        BY <1>9, <1>11, <3>2
      <4>2. i + 1 \in 1 .. L + 1 /\ ms[i + 1] = n
        BY <1>12, <4>1
      <4> QED BY <4>2
    <3> QED BY <3>1, <3>2
  <2>2. ASSUME NEW i \in 1 .. L + 1 PROVE ms[i] \in DOMAIN F
    <3>1. CASE i = 1
      BY <1>11, <1>12, <3>1
    <3>2. CASE i # 1
      <4>1. i \in 2 .. L + 1 /\ i - 1 \in 1 .. L
        BY <3>2
      <4> QED BY <1>11, <1>12, <1>13, <4>1
    <3> QED BY <3>1, <3>2
  <2> QED BY <2>1, <2>2
<1>16. ASSUME NEW i \in 1 .. L + 1
       PROVE  /\ F[ms[i]].data = e[i]
              /\ F[ms[i]].next = IF i = L + 1 THEN Null ELSE ms[i + 1]
              /\ F[ms[i]].prev = IF i = 1 THEN Null ELSE ms[i - 1]
  <2>1. CASE i = 1
    <3>1. F[ms[i]] = node /\ ms[i + 1] = h /\ i # L + 1
      BY <1>1, <1>2, <1>11, <1>12, <2>1
    <3> QED BY <1>4, <1>7, <2>1, <3>1
  <2>2. CASE i # 1
    <3>1. PICK k \in 1 .. L : k = i - 1 /\ ms[i] = ns[k] /\ e[i] = d[k]
      <4>1. i \in 2 .. L + 1 /\ i - 1 \in 1 .. L
        BY <2>2
      <4>2. ms[i] = ns[i - 1] /\ e[i] = d[i - 1]
        BY <1>7, <1>12, <2>2, <4>1
      <4> QED BY <4>1, <4>2
    <3>2. F[ms[i]] = E[ns[k]] /\ ns[k] \in DOMAIN D
      BY <1>11, <1>13, <3>1
    <3>3. E[ns[k]].data = d[k] /\ E[ns[k]].next = IF k = L THEN Null ELSE ns[k + 1]
      <4>1. D[ns[k]].data = d[k] /\ D[ns[k]].next = IF k = L THEN Null ELSE ns[k + 1]
        BY <1>9, Zenon
      <4>2. CASE ns[k] = h
        <5>1. E[ns[k]].data = D[ns[k]].data /\ E[ns[k]].next = D[ns[k]].next
          BY <1>10, <4>2, Zenon
        <5> QED BY <4>1, <5>1, Zenon
      <4>3. CASE ns[k] # h
        <5>1. E[ns[k]] = D[ns[k]]
          BY <1>10, <3>2, <4>3
        <5> QED BY <4>1, <5>1, Zenon
      <4> QED BY <4>2, <4>3
    <3>4. k = L <=> i = L + 1
      BY <3>1
    <3>5. k # L => ns[k + 1] = ms[i + 1]
      <4> SUFFICES ASSUME k # L PROVE ns[k + 1] = ms[i + 1]
        OBVIOUS
      <4>1. k + 1 \in 1 .. L /\ (k + 1) + 1 = i + 1
        BY <3>1
      <4> QED BY <1>12, <4>1
    <3>6. E[ns[k]].prev = ms[k]
      <4>1. CASE k = 1
        BY <1>2, <1>10, <1>12, <4>1
      <4>2. CASE k # 1
        <5>1. k \in 2 .. L + 1 /\ 1 \in 1 .. L
          BY <4>2
        <5>2. ns[k] # h /\ ms[k] = ns[k - 1]
          BY <1>2, <1>9, <1>12, <4>2, <5>1
        <5>3. E[ns[k]] = D[ns[k]]
          BY <1>10, <3>2, <5>2
        <5>4. D[ns[k]].prev = ns[k - 1]
          BY <1>9, <4>2
        <5> QED BY <5>2, <5>3, <5>4, Zenon
      <4> QED BY <4>1, <4>2
    <3>7. i - 1 = k
      BY <3>1
    <3> QED BY <2>2, <3>1, <3>2, <3>3, <3>4, <3>5, <3>6, <3>7, Zenon
  <2> QED BY <2>1, <2>2
<1>17. Chain(F, e, ms)
  <2>1. F \in [DOMAIN F -> NodeType] /\ ms \in [1 .. Len(e) -> NodeIds]
    BY <1>7, <1>11, <1>12
  <2>2. /\ \A i, j \in 1 .. Len(e) : ms[i] = ms[j] => i = j
        /\ DOMAIN F = {ms[i] : i \in 1 .. Len(e)}
    BY <1>7, <1>14, <1>15
  <2>3. /\ \A i \in 1 .. Len(e) : F[ms[i]].data = e[i]
        /\ \A i \in 1 .. Len(e) : F[ms[i]].next = IF i = Len(e) THEN Null ELSE ms[i + 1]
        /\ \A i \in 1 .. Len(e) : F[ms[i]].prev = IF i = 1 THEN Null ELSE ms[i - 1]
    BY <1>7, <1>16
  <2> QED BY <2>1, <2>2, <2>3, Zenon DEF Chain
<1>18. ms[1] = m /\ ms[L + 1] = ns[L]
  BY <1>1, <1>12
<1> QED BY <1>1, <1>2, <1>3, <1>4, <1>5, <1>6, <1>17, <1>18

(* A node linked behind the last one (lib_queue.c:154).                    *)
LEMMA ChainPushTail ==
  ASSUME NEW D, NEW d \in Seq(QueueData), NEW ns, Chain(D, d, ns), Len(d) > 0,
         NEW x \in QueueData, NEW m \in NodeIds, m \notin DOMAIN D
  PROVE  \E ms :
           /\ ms[1] = ns[1] /\ ms[Len(d) + 1] = m
           /\ Chain(Link([D EXCEPT ![ns[Len(d)]].next = m], m,
                         [data |-> x, next |-> Null, prev |-> ns[Len(d)]]), Append(d, x), ms)
<1>1. PICK L \in Nat : L = Len(d) /\ L > 0
  OBVIOUS
<1>2. PICK t \in NodeIds : t = ns[L] /\ t \in DOMAIN D
  BY <1>1 DEF Chain
<1>3. PICK node \in NodeType : node = [data |-> x, next |-> Null, prev |-> t]
  BY <1>2 DEF NodeType
<1>4. PICK e \in Seq(QueueData) : e = Append(d, x)
  <2>1. Append(d, x) \in Seq(QueueData)
    OBVIOUS
  <2> QED BY <2>1, Zenon
<1>5. Len(e) = L + 1 /\ \A i \in 1 .. L + 1 : e[i] = IF i = L + 1 THEN x ELSE d[i]
  BY <1>1, <1>4
<1>6. /\ ns \in [1 .. L -> NodeIds]
      /\ \A i, j \in 1 .. L : ns[i] = ns[j] => i = j
      /\ DOMAIN D = {ns[i] : i \in 1 .. L}
      /\ \A i \in 1 .. L : D[ns[i]].data = d[i]
      /\ \A i \in 1 .. L : D[ns[i]].next = IF i = L THEN Null ELSE ns[i + 1]
      /\ \A i \in 1 .. L : D[ns[i]].prev = IF i = 1 THEN Null ELSE ns[i - 1]
      /\ D \in [DOMAIN D -> NodeType]
  BY <1>1 DEF Chain
<1>7. PICK E : /\ E = [D EXCEPT ![t].next = m]
               /\ DOMAIN E = DOMAIN D /\ E \in [DOMAIN E -> NodeType]
               /\ E[t].data = D[t].data /\ E[t].next = m /\ E[t].prev = D[t].prev
               /\ \A k \in DOMAIN D \ {t} : E[k] = D[k]
  <2>1. m \in NodeIds \cup {Null} /\ t \in DOMAIN D
    BY <1>2
  <2>2. D \in [DOMAIN D -> NodeType]
    BY <1>6
  <2>3. /\ DOMAIN [D EXCEPT ![t].next = m] = DOMAIN D
        /\ [D EXCEPT ![t].next = m] \in [DOMAIN D -> NodeType]
        /\ [D EXCEPT ![t].next = m][t].data = D[t].data
        /\ [D EXCEPT ![t].next = m][t].next = m
        /\ [D EXCEPT ![t].next = m][t].prev = D[t].prev
        /\ \A k \in DOMAIN D \ {t} : [D EXCEPT ![t].next = m][k] = D[k]
    BY <2>1, <2>2, SetNextIs, Zenon
  <2> QED BY <2>3
<1>8. PICK F : /\ F = Link(E, m, node)
               /\ DOMAIN F = DOMAIN D \cup {m} /\ F \in [DOMAIN F -> NodeType]
               /\ F[m] = node /\ \A k \in DOMAIN D : k # m /\ F[k] = E[k]
  <2> DEFINE G == Link(E, m, node)
  <2>1. /\ DOMAIN G = DOMAIN D \cup {m} /\ G \in [DOMAIN G -> NodeType]
        /\ G[m] = node /\ \A k \in DOMAIN D : k # m /\ G[k] = E[k]
    BY <1>7 DEF Link
  <2> QED BY <2>1
<1>9. PICK ms : /\ ms = [i \in 1 .. L + 1 |-> IF i = L + 1 THEN m ELSE ns[i]]
                /\ ms \in [1 .. L + 1 -> NodeIds] /\ ms[L + 1] = m
                /\ \A i \in 1 .. L : ms[i] = ns[i]
  <2> DEFINE g == [i \in 1 .. L + 1 |-> IF i = L + 1 THEN m ELSE ns[i]]
  <2>1. /\ g \in [1 .. L + 1 -> NodeIds] /\ g[L + 1] = m
        /\ \A i \in 1 .. L : g[i] = ns[i]
    BY <1>6
  <2> QED BY <2>1
<1>10. \A i \in 1 .. L : ns[i] \in DOMAIN D /\ ns[i] # m
  BY <1>6
<1>11. ASSUME NEW i \in 1 .. L + 1, NEW j \in 1 .. L + 1, ms[i] = ms[j] PROVE i = j
  <2>1. \A k \in 1 .. L + 1 : k = L + 1 \/ k \in 1 .. L
    OBVIOUS
  <2> QED BY <1>6, <1>9, <1>10, <1>11, <2>1
<1>12. DOMAIN F = {ms[i] : i \in 1 .. L + 1}
  <2>1. ASSUME NEW n \in DOMAIN F PROVE \E i \in 1 .. L + 1 : n = ms[i]
    <3>1. CASE n = m
      BY <1>9, <3>1
    <3>2. CASE n # m
      <4>1. PICK i \in 1 .. L : n = ns[i]
        BY <1>6, <1>8, <3>2
      <4>2. i \in 1 .. L + 1 /\ ms[i] = n
        BY <1>9, <4>1
      <4> QED BY <4>2
    <3> QED BY <3>1, <3>2
  <2>2. ASSUME NEW i \in 1 .. L + 1 PROVE ms[i] \in DOMAIN F
    <3>1. i = L + 1 \/ i \in 1 .. L
      OBVIOUS
    <3> QED BY <1>8, <1>9, <1>10, <3>1
  <2> QED BY <2>1, <2>2
<1>13. ASSUME NEW i \in 1 .. L + 1
       PROVE  /\ F[ms[i]].data = e[i]
              /\ F[ms[i]].next = IF i = L + 1 THEN Null ELSE ms[i + 1]
              /\ F[ms[i]].prev = IF i = 1 THEN Null ELSE ms[i - 1]
  <2>1. CASE i = L + 1
    <3>1. F[ms[i]] = node /\ i # 1 /\ ms[i - 1] = t
      <4>1. i - 1 = L /\ L \in 1 .. L
        BY <1>1, <2>1
      <4> QED BY <1>1, <1>2, <1>8, <1>9, <2>1, <4>1
    <3> QED BY <1>3, <1>5, <2>1, <3>1
  <2>2. CASE i # L + 1
    <3>1. i \in 1 .. L /\ ms[i] = ns[i] /\ e[i] = d[i]
      BY <1>5, <1>9, <2>2
    <3>2. F[ms[i]] = E[ns[i]] /\ ns[i] \in DOMAIN D
      BY <1>8, <1>10, <3>1
    <3>3. E[ns[i]].data = d[i] /\ E[ns[i]].prev = IF i = 1 THEN Null ELSE ns[i - 1]
      BY <1>6, <1>7, <3>1, <3>2
    <3>4. i # 1 => ns[i - 1] = ms[i - 1]
      <4> SUFFICES ASSUME i # 1 PROVE ns[i - 1] = ms[i - 1]
        OBVIOUS
      <4>1. i - 1 \in 1 .. L
        BY <3>1
      <4> QED BY <1>9, <4>1
    <3>5. E[ns[i]].next = ms[i + 1]
      <4>1. CASE i = L
        BY <1>2, <1>7, <1>9, <4>1
      <4>2. CASE i # L
        <5>1. i + 1 \in 1 .. L /\ L \in 1 .. L
          BY <3>1, <4>2
        <5>2. ns[i] # t /\ ms[i + 1] = ns[i + 1]
          BY <1>2, <1>6, <1>9, <3>1, <4>2, <5>1
        <5> QED BY <1>6, <1>7, <3>1, <3>2, <4>2, <5>2
      <4> QED BY <4>1, <4>2
    <3> QED BY <2>2, <3>1, <3>2, <3>3, <3>4, <3>5
  <2> QED BY <2>1, <2>2
<1>14. Chain(F, e, ms)
  <2>1. F \in [DOMAIN F -> NodeType] /\ ms \in [1 .. Len(e) -> NodeIds]
    BY <1>5, <1>8, <1>9
  <2>2. /\ \A i, j \in 1 .. Len(e) : ms[i] = ms[j] => i = j
        /\ DOMAIN F = {ms[i] : i \in 1 .. Len(e)}
    BY <1>5, <1>11, <1>12
  <2>3. /\ \A i \in 1 .. Len(e) : F[ms[i]].data = e[i]
        /\ \A i \in 1 .. Len(e) : F[ms[i]].next = IF i = Len(e) THEN Null ELSE ms[i + 1]
        /\ \A i \in 1 .. Len(e) : F[ms[i]].prev = IF i = 1 THEN Null ELSE ms[i - 1]
    BY <1>5, <1>13
  <2> QED BY <2>1, <2>2, <2>3, Zenon DEF Chain
<1>15. ms[1] = ns[1] /\ ms[L + 1] = m
  BY <1>1, <1>9
<1> QED BY <1>1, <1>2, <1>3, <1>4, <1>7, <1>8, <1>14, <1>15

(* The first node taken out (lib_queue.c:126).                             *)
LEMMA ChainPopHead ==
  ASSUME NEW D, NEW d \in Seq(QueueData), NEW ns, Chain(D, d, ns), Len(d) > 0,
         NEW nx, nx = D[ns[1]].next
  PROVE  \E ms :
           /\ Chain(Drop(IF nx = Null THEN D ELSE [D EXCEPT ![nx].prev = Null], ns[1]),
                    Tail(d), ms)
           /\ nx = IF Len(d) = 1 THEN Null ELSE ms[1]
           /\ Len(d) > 1 => ms[Len(d) - 1] = ns[Len(d)]
<1>1. PICK L \in Nat : L = Len(d) /\ L > 0
  OBVIOUS
<1>2. PICK h \in NodeIds : h = ns[1] /\ h \in DOMAIN D
  BY <1>1 DEF Chain
<1>3. d # <<>>
  BY <1>1
<1>4. PICK e \in Seq(QueueData) : e = Tail(d)
  <2>1. Tail(d) \in Seq(QueueData)
    BY <1>3
  <2> QED BY <2>1, Zenon
<1>5. Len(e) = L - 1 /\ \A i \in 1 .. L - 1 : e[i] = d[i + 1]
  BY <1>1, <1>3, <1>4
<1>6. /\ ns \in [1 .. L -> NodeIds]
      /\ \A i, j \in 1 .. L : ns[i] = ns[j] => i = j
      /\ DOMAIN D = {ns[i] : i \in 1 .. L}
      /\ \A i \in 1 .. L : D[ns[i]].data = d[i]
      /\ \A i \in 1 .. L : D[ns[i]].next = IF i = L THEN Null ELSE ns[i + 1]
      /\ \A i \in 1 .. L : D[ns[i]].prev = IF i = 1 THEN Null ELSE ns[i - 1]
      /\ D \in [DOMAIN D -> NodeType]
  BY <1>1 DEF Chain
<1>0. nx = (IF L = 1 THEN Null ELSE ns[2]) /\ (L > 1 => nx \in NodeIds /\ nx # Null)
  <2>1. 1 \in 1 .. L /\ (L > 1 => 2 \in 1 .. L)
    BY <1>1
  <2>2. \A n \in NodeIds : n # Null
    BY QueueAssumption DEF NodeIds, Null
  <2> QED BY <1>1, <1>6, <2>1, <2>2
<1>7. PICK E : /\ E = IF nx = Null THEN D ELSE [D EXCEPT ![nx].prev = Null]
               /\ DOMAIN E = DOMAIN D /\ E \in [DOMAIN E -> NodeType]
               /\ L > 1 => /\ E[nx].data = D[nx].data /\ E[nx].next = D[nx].next
                           /\ E[nx].prev = Null
               /\ \A k \in DOMAIN D \ {nx} : E[k] = D[k]
  <2>1. CASE L = 1
    BY <1>0, <1>6, <2>1
  <2>2. CASE L # 1
    <3>1. Null \in NodeIds \cup {Null} /\ nx \in DOMAIN D /\ L > 1 /\ nx # Null
      <4>1. L > 1 /\ 2 \in 1 .. L
        BY <1>1, <2>2
      <4>2. ns[2] \in DOMAIN D
        BY <1>6, <4>1, Zenon
      <4> QED BY <1>0, <2>2, <4>1, <4>2, Zenon
    <3>2. D \in [DOMAIN D -> NodeType]
      BY <1>6
    <3> DEFINE W == [D EXCEPT ![nx].prev = Null]
    <3>3. /\ DOMAIN W = DOMAIN D /\ W \in [DOMAIN D -> NodeType]
          /\ W[nx].data = D[nx].data /\ W[nx].next = D[nx].next /\ W[nx].prev = Null
          /\ \A k \in DOMAIN D \ {nx} : W[k] = D[k]
      BY <3>1, <3>2 DEF NodeType
    <3>4. W = IF nx = Null THEN D ELSE [D EXCEPT ![nx].prev = Null]
      BY <3>1, Zenon
    <3> HIDE DEF W
    <3> QED BY <3>3, <3>4, Zenon
  <2> QED BY <2>1, <2>2, Zenon
<1>8. PICK F : /\ F = Drop(E, h)
               /\ DOMAIN F = DOMAIN D \ {h} /\ F \in [DOMAIN F -> NodeType]
               /\ \A k \in DOMAIN D \ {h} : F[k] = E[k]
  <2> DEFINE G == Drop(E, h)
  <2>1. /\ DOMAIN G = DOMAIN D \ {h} /\ G \in [DOMAIN G -> NodeType]
        /\ \A k \in DOMAIN D \ {h} : G[k] = E[k]
    BY <1>7 DEF Drop
  <2> QED BY <2>1
<1>9. PICK ms : /\ ms = [i \in 1 .. L - 1 |-> ns[i + 1]]
                /\ ms \in [1 .. L - 1 -> NodeIds]
                /\ \A i \in 1 .. L - 1 : ms[i] = ns[i + 1] /\ i + 1 \in 1 .. L
  <2> DEFINE g == [i \in 1 .. L - 1 |-> ns[i + 1]]
  <2>1. \A i \in 1 .. L - 1 : i + 1 \in 1 .. L
    OBVIOUS
  <2>2. g \in [1 .. L - 1 -> NodeIds] /\ \A i \in 1 .. L - 1 : g[i] = ns[i + 1]
    BY <1>6, <2>1
  <2> QED BY <2>1, <2>2
<1>10. \A i \in 1 .. L - 1 : ns[i + 1] \in DOMAIN D \ {h}
  <2>1. ASSUME NEW i \in 1 .. L - 1 PROVE ns[i + 1] \in DOMAIN D \ {h}
    <3>1. i + 1 \in 1 .. L /\ 1 \in 1 .. L /\ i + 1 # 1
      OBVIOUS
    <3> QED BY <1>2, <1>6, <3>1
  <2> QED BY <2>1
<1>11. ASSUME NEW i \in 1 .. L - 1, NEW j \in 1 .. L - 1, ms[i] = ms[j] PROVE i = j
  <2>1. i + 1 = j + 1
    BY <1>6, <1>9, <1>11
  <2> QED BY <2>1
<1>12. DOMAIN F = {ms[i] : i \in 1 .. L - 1}
  <2>1. ASSUME NEW n \in DOMAIN F PROVE \E i \in 1 .. L - 1 : n = ms[i]
    <3>1. PICK i \in 1 .. L : n = ns[i]
      BY <1>6, <1>8
    <3>2. i # 1
      BY <1>2, <1>8, <3>1
    <3>3. i - 1 \in 1 .. L - 1 /\ (i - 1) + 1 = i
      BY <3>2
    <3>4. ms[i - 1] = n
      BY <1>9, <3>1, <3>3
    <3> QED BY <3>3, <3>4
  <2>2. ASSUME NEW i \in 1 .. L - 1 PROVE ms[i] \in DOMAIN F
    BY <1>8, <1>9, <1>10
  <2> QED BY <2>1, <2>2
<1>13. ASSUME NEW i \in 1 .. L - 1
       PROVE  /\ F[ms[i]].data = e[i]
              /\ F[ms[i]].next = IF i = L - 1 THEN Null ELSE ms[i + 1]
              /\ F[ms[i]].prev = IF i = 1 THEN Null ELSE ms[i - 1]
  <2>1. PICK k \in 2 .. L : k = i + 1 /\ ms[i] = ns[k] /\ e[i] = d[k]
    BY <1>5, <1>9
  <2>2. F[ms[i]] = E[ns[k]] /\ ns[k] \in DOMAIN D /\ k \in 1 .. L
    BY <1>8, <1>10, <2>1
  <2>3. E[ns[k]].data = d[k] /\ E[ns[k]].next = IF k = L THEN Null ELSE ns[k + 1]
    <3>1. CASE ns[k] = nx
      <4>1. L > 1
        BY <2>1
      <4>2. E[ns[k]].data = D[ns[k]].data /\ E[ns[k]].next = D[ns[k]].next
        BY <1>7, <3>1, <4>1, Zenon
      <4> QED BY <1>6, <2>2, <4>2, Zenon
    <3>2. CASE ns[k] # nx
      <4>1. E[ns[k]] = D[ns[k]]
        BY <1>7, <2>2, <3>2
      <4> QED BY <1>6, <2>2, <4>1, Zenon
    <3> QED BY <3>1, <3>2
  <2>4. k = L <=> i = L - 1
    BY <2>1
  <2>5. k # L => ns[k + 1] = ms[i + 1]
    <3> SUFFICES ASSUME k # L PROVE ns[k + 1] = ms[i + 1]
      OBVIOUS
    <3>1. i + 1 \in 1 .. L - 1 /\ (i + 1) + 1 = k + 1
      BY <2>1
    <3> QED BY <1>9, <3>1
  <2>6. E[ns[k]].prev = IF i = 1 THEN Null ELSE ms[i - 1]
    <3>1. CASE i = 1
      <4>1. k = 2 /\ L > 1 /\ nx = ns[2]
        BY <1>0, <2>1, <3>1
      <4> QED BY <1>7, <3>1, <4>1
    <3>2. CASE i # 1
      <4>1. k # 2 /\ k # 1 /\ 2 \in 1 .. L /\ L # 1 /\ i - 1 \in 1 .. L - 1 /\ (i - 1) + 1 = k - 1
        BY <2>1, <3>2
      <4>2. ns[k] # nx
        <5>1. nx = ns[2]
          BY <1>0, <4>1
        <5>2. ns[k] = ns[2] => k = 2
          BY <1>6, <2>2, <4>1
        <5> QED BY <4>1, <5>1, <5>2, Zenon
      <4>3. D[ns[k]].prev = ns[k - 1]
        BY <1>6, <2>2, <4>1, Zenon
      <4>4. ms[i - 1] = ns[k - 1]
        BY <1>9, <4>1
      <4>5. E[ns[k]] = D[ns[k]]
        BY <1>7, <2>2, <4>2
      <4> QED BY <3>2, <4>3, <4>4, <4>5, Zenon
    <3> QED BY <3>1, <3>2
  <2> QED BY <2>1, <2>2, <2>3, <2>4, <2>5, <2>6
<1>14. Chain(F, e, ms)
  <2>1. F \in [DOMAIN F -> NodeType] /\ ms \in [1 .. Len(e) -> NodeIds]
    BY <1>5, <1>8, <1>9
  <2>2. /\ \A i, j \in 1 .. Len(e) : ms[i] = ms[j] => i = j
        /\ DOMAIN F = {ms[i] : i \in 1 .. Len(e)}
    BY <1>5, <1>11, <1>12
  <2>3. /\ \A i \in 1 .. Len(e) : F[ms[i]].data = e[i]
        /\ \A i \in 1 .. Len(e) : F[ms[i]].next = IF i = Len(e) THEN Null ELSE ms[i + 1]
        /\ \A i \in 1 .. Len(e) : F[ms[i]].prev = IF i = 1 THEN Null ELSE ms[i - 1]
    BY <1>5, <1>13
  <2> QED BY <2>1, <2>2, <2>3, Zenon DEF Chain
<1>15. nx = (IF L = 1 THEN Null ELSE ms[1]) /\ (L > 1 => ms[L - 1] = ns[L])
  BY <1>0, <1>1, <1>9
<1> QED BY <1>1, <1>2, <1>4, <1>7, <1>8, <1>14, <1>15

(* The last node taken out (lib_queue.c:170).                              *)
LEMMA ChainPopTail ==
  ASSUME NEW D, NEW d \in Seq(QueueData), NEW ns, Chain(D, d, ns), Len(d) > 0,
         NEW pv, pv = D[ns[Len(d)]].prev
  PROVE  \E ms :
           /\ Chain(Drop(IF pv = Null THEN D ELSE [D EXCEPT ![pv].next = Null], ns[Len(d)]),
                    Front(d), ms)
           /\ pv = IF Len(d) = 1 THEN Null ELSE ms[Len(d) - 1]
           /\ Len(d) > 1 => ms[1] = ns[1]
<1>1. PICK L \in Nat : L = Len(d) /\ L > 0
  OBVIOUS
<1>2. PICK t \in NodeIds : t = ns[L] /\ t \in DOMAIN D
  BY <1>1 DEF Chain
<1>3. d # <<>>
  BY <1>1
<1>4. PICK e \in Seq(QueueData) : e = Front(d)
  BY <1>3, FrontIs
<1>5. Len(e) = L - 1 /\ \A i \in 1 .. L - 1 : e[i] = d[i]
  BY <1>1, <1>3, <1>4, FrontIs
<1>6. /\ ns \in [1 .. L -> NodeIds]
      /\ \A i, j \in 1 .. L : ns[i] = ns[j] => i = j
      /\ DOMAIN D = {ns[i] : i \in 1 .. L}
      /\ \A i \in 1 .. L : D[ns[i]].data = d[i]
      /\ \A i \in 1 .. L : D[ns[i]].next = IF i = L THEN Null ELSE ns[i + 1]
      /\ \A i \in 1 .. L : D[ns[i]].prev = IF i = 1 THEN Null ELSE ns[i - 1]
      /\ D \in [DOMAIN D -> NodeType]
  BY <1>1 DEF Chain
<1>0. pv = (IF L = 1 THEN Null ELSE ns[L - 1]) /\ (L > 1 => pv \in NodeIds /\ pv # Null)
  <2>1. L \in 1 .. L /\ (L > 1 => L - 1 \in 1 .. L)
    BY <1>1
  <2>2. \A n \in NodeIds : n # Null
    BY QueueAssumption DEF NodeIds, Null
  <2>3. pv = D[ns[L]].prev
    BY <1>1
  <2>4. pv = IF L = 1 THEN Null ELSE ns[L - 1]
    BY <1>6, <2>1, <2>3
  <2>5. L > 1 => pv = ns[L - 1] /\ pv \in NodeIds
    BY <1>6, <2>1, <2>4
  <2> QED BY <2>2, <2>4, <2>5
<1>7. PICK E : /\ E = IF pv = Null THEN D ELSE [D EXCEPT ![pv].next = Null]
               /\ DOMAIN E = DOMAIN D /\ E \in [DOMAIN E -> NodeType]
               /\ L > 1 => /\ E[pv].data = D[pv].data /\ E[pv].prev = D[pv].prev
                           /\ E[pv].next = Null
               /\ \A k \in DOMAIN D \ {pv} : E[k] = D[k]
  <2>1. CASE L = 1
    BY <1>0, <1>6, <2>1
  <2>2. CASE L # 1
    <3>1. Null \in NodeIds \cup {Null} /\ pv \in DOMAIN D /\ L > 1 /\ pv # Null
      <4>1. L > 1 /\ L - 1 \in 1 .. L
        BY <1>1, <2>2
      <4> QED BY <1>0, <1>6, <4>1
    <3>2. D \in [DOMAIN D -> NodeType]
      BY <1>6
    <3> DEFINE W == [D EXCEPT ![pv].next = Null]
    <3>3. /\ DOMAIN W = DOMAIN D /\ W \in [DOMAIN D -> NodeType]
          /\ W[pv].data = D[pv].data /\ W[pv].prev = D[pv].prev /\ W[pv].next = Null
          /\ \A k \in DOMAIN D \ {pv} : W[k] = D[k]
      BY <3>1, <3>2 DEF NodeType
    <3>4. W = IF pv = Null THEN D ELSE [D EXCEPT ![pv].next = Null]
      BY <3>1, Zenon
    <3> HIDE DEF W
    <3> QED BY <3>3, <3>4, Zenon
  <2> QED BY <2>1, <2>2, Zenon
<1>8. PICK F : /\ F = Drop(E, t)
               /\ DOMAIN F = DOMAIN D \ {t} /\ F \in [DOMAIN F -> NodeType]
               /\ \A k \in DOMAIN D \ {t} : F[k] = E[k]
  <2> DEFINE G == Drop(E, t)
  <2>1. /\ DOMAIN G = DOMAIN D \ {t} /\ G \in [DOMAIN G -> NodeType]
        /\ \A k \in DOMAIN D \ {t} : G[k] = E[k]
    BY <1>7 DEF Drop
  <2> QED BY <2>1
<1>9. PICK ms : /\ ms = [i \in 1 .. L - 1 |-> ns[i]]
                /\ ms \in [1 .. L - 1 -> NodeIds]
                /\ \A i \in 1 .. L - 1 : ms[i] = ns[i] /\ i \in 1 .. L
  <2> DEFINE g == [i \in 1 .. L - 1 |-> ns[i]]
  <2>1. \A i \in 1 .. L - 1 : i \in 1 .. L
    OBVIOUS
  <2>2. g \in [1 .. L - 1 -> NodeIds] /\ \A i \in 1 .. L - 1 : g[i] = ns[i]
    BY <1>6, <2>1
  <2> QED BY <2>1, <2>2
<1>10. \A i \in 1 .. L - 1 : ns[i] \in DOMAIN D \ {t}
  <2>1. ASSUME NEW i \in 1 .. L - 1 PROVE ns[i] \in DOMAIN D \ {t}
    <3>1. i \in 1 .. L /\ L \in 1 .. L /\ i # L
      OBVIOUS
    <3> QED BY <1>2, <1>6, <3>1
  <2> QED BY <2>1
<1>11. ASSUME NEW i \in 1 .. L - 1, NEW j \in 1 .. L - 1, ms[i] = ms[j] PROVE i = j
  BY <1>6, <1>9, <1>11
<1>12. DOMAIN F = {ms[i] : i \in 1 .. L - 1}
  <2>1. ASSUME NEW n \in DOMAIN F PROVE \E i \in 1 .. L - 1 : n = ms[i]
    <3>1. PICK i \in 1 .. L : n = ns[i]
      BY <1>6, <1>8
    <3>2. i # L
      BY <1>2, <1>8, <3>1
    <3>3. i \in 1 .. L - 1
      BY <3>2
    <3>4. ms[i] = n
      BY <1>9, <3>1, <3>3
    <3> QED BY <3>3, <3>4
  <2>2. ASSUME NEW i \in 1 .. L - 1 PROVE ms[i] \in DOMAIN F
    BY <1>8, <1>9, <1>10
  <2> QED BY <2>1, <2>2
<1>13. ASSUME NEW i \in 1 .. L - 1
       PROVE  /\ F[ms[i]].data = e[i]
              /\ F[ms[i]].next = IF i = L - 1 THEN Null ELSE ms[i + 1]
              /\ F[ms[i]].prev = IF i = 1 THEN Null ELSE ms[i - 1]
  <2>1. i \in 1 .. L /\ ms[i] = ns[i] /\ e[i] = d[i] /\ i # L
    BY <1>5, <1>9
  <2>2. F[ms[i]] = E[ns[i]] /\ ns[i] \in DOMAIN D
    BY <1>8, <1>10, <2>1
  <2>3. E[ns[i]].data = d[i] /\ E[ns[i]].prev = IF i = 1 THEN Null ELSE ns[i - 1]
    <3>1. CASE ns[i] = pv
      <4>1. L > 1
        OBVIOUS
      <4>2. E[ns[i]].data = D[ns[i]].data /\ E[ns[i]].prev = D[ns[i]].prev
        BY <1>7, <3>1, <4>1
      <4> QED BY <1>6, <2>1, <4>2, Zenon
    <3>2. CASE ns[i] # pv
      <4>1. E[ns[i]] = D[ns[i]]
        BY <1>7, <2>1, <2>2, <3>2
      <4> QED BY <1>6, <2>1, <4>1, Zenon
    <3> QED BY <3>1, <3>2
  <2>5. i # 1 => ns[i - 1] = ms[i - 1]
    <3> SUFFICES ASSUME i # 1 PROVE ns[i - 1] = ms[i - 1]
      OBVIOUS
    <3>1. i - 1 \in 1 .. L - 1
      OBVIOUS
    <3> QED BY <1>9, <3>1
  <2>6. E[ns[i]].next = IF i = L - 1 THEN Null ELSE ms[i + 1]
    <3>1. CASE i = L - 1
      <4>1. L > 1 /\ L # 1
        OBVIOUS
      <4> QED BY <1>0, <1>7, <3>1, <4>1
    <3>2. CASE i # L - 1
      <4>1. L # 1 /\ L - 1 \in 1 .. L /\ i + 1 \in 1 .. L - 1
        BY <3>2
      <4>2. ns[i] # pv
        <5>1. pv = ns[L - 1]
          BY <1>0, <4>1
        <5> QED BY <1>6, <2>1, <3>2, <4>1, <5>1
      <4>3. D[ns[i]].next = ns[i + 1] /\ ms[i + 1] = ns[i + 1]
        BY <1>6, <1>9, <2>1, <4>1
      <4> QED BY <1>7, <2>2, <3>2, <4>2, <4>3
    <3> QED BY <3>1, <3>2
  <2> QED BY <2>1, <2>2, <2>3, <2>5, <2>6
<1>14. Chain(F, e, ms)
  <2>1. F \in [DOMAIN F -> NodeType] /\ ms \in [1 .. Len(e) -> NodeIds]
    BY <1>5, <1>8, <1>9
  <2>2. /\ \A i, j \in 1 .. Len(e) : ms[i] = ms[j] => i = j
        /\ DOMAIN F = {ms[i] : i \in 1 .. Len(e)}
    BY <1>5, <1>11, <1>12
  <2>3. /\ \A i \in 1 .. Len(e) : F[ms[i]].data = e[i]
        /\ \A i \in 1 .. Len(e) : F[ms[i]].next = IF i = Len(e) THEN Null ELSE ms[i + 1]
        /\ \A i \in 1 .. Len(e) : F[ms[i]].prev = IF i = 1 THEN Null ELSE ms[i - 1]
    BY <1>5, <1>13
  <2> QED BY <2>1, <2>2, <2>3, Zenon DEF Chain
<1>15. pv = (IF L = 1 THEN Null ELSE ms[L - 1]) /\ (L > 1 => ms[1] = ns[1])
  BY <1>0, <1>1, <1>9
<1> QED BY <1>1, <1>2, <1>4, <1>7, <1>8, <1>14, <1>15, Zenon

-----------------------------------------------------------------------------
QueueTypeOK ==
  /\ deque \in Seq(QueueData) /\ Len(deque) <= QueueMax
  /\ counter = Len(deque)
  /\ head \in NodeIds \cup {Null} /\ tail \in NodeIds \cup {Null}

(* The nodes that exist are a chain from head to tail; of an empty queue   *)
(* only head may be out of date.                                           *)
Linked(ns) ==
  /\ Chain(dlist, deque, ns)
  /\ Len(deque) > 0 => head = ns[1] /\ tail = ns[Len(deque)] /\ misread = 0
  /\ Len(deque) = 0 => tail = Null

QueueInv == QueueTypeOK /\ \E ns : Linked(ns)

LEMMA QueueInitInv == QueueInit => QueueInv
<1> SUFFICES ASSUME QueueInit PROVE QueueInv
  OBVIOUS
<1> USE DEF QueueInit
<1>1. deque = <<>> /\ Len(deque) = 0 /\ deque \in Seq(QueueData)
  OBVIOUS
<1>2. QueueTypeOK
  BY <1>1, QueueAssumption DEF QueueTypeOK, NodeIds
<1> DEFINE ns == [i \in 1 .. 0 |-> 0]
<1>3. Linked(ns)
  BY <1>1 DEF Linked, Chain
<1> QED BY <1>2, <1>3 DEF QueueInv

(* The nodes are as many as the elements.                                  *)
LEMMA LinkedCounts ==
  ASSUME QueueTypeOK, NEW ns, Linked(ns)
  PROVE  IsFiniteSet(DOMAIN dlist) /\ Cardinality(DOMAIN dlist) = Len(deque)
<1> DEFINE L == Len(deque)
           D == {ns[i] : i \in 1 .. L}
<1>1. L \in Nat /\ DOMAIN dlist = D
  BY DEF QueueTypeOK, Linked, Chain
<1>2. ns \in [1 .. L -> D]
  BY DEF Linked, Chain
<1>3. ns \in Injection(1 .. L, D) /\ ns \in Surjection(1 .. L, D)
  BY <1>2 DEF Linked, Chain, Injection, Surjection, IsInjective
<1>4. ExistsBijection(1 .. L, D)
  BY <1>3 DEF ExistsBijection, Bijection
<1> HIDE DEF D
<1>5. IsFiniteSet(D) /\ Cardinality(D) = L
  BY <1>1, <1>4, FS_NatBijection, FS_CountingElements
<1> QED BY <1>1, <1>5

LEMMA FreshIs ==
  ASSUME QueueInv, counter < QueueMax
  PROVE  Fresh \in NodeIds /\ Fresh \notin DOMAIN dlist /\ Fresh # head /\ Fresh # Null
<1> DEFINE D == DOMAIN dlist
           T == (D \cup {head}) \cap NodeIds
<1>1. IsFiniteSet(D) /\ Cardinality(D) = counter /\ counter \in Nat
  BY LinkedCounts DEF QueueInv, QueueTypeOK
<1>2. IsFiniteSet(D \cup {head}) /\ Cardinality(D \cup {head}) <= QueueMax
  BY <1>1, FS_AddElement, QueueAssumption
<1>3. Cardinality(T) <= QueueMax
  <2>1. T \in SUBSET (D \cup {head})
    OBVIOUS
  <2>2. Cardinality(T) \in Nat /\ Cardinality(D \cup {head}) \in Nat
        /\ Cardinality(T) <= Cardinality(D \cup {head})
    BY <1>2, <2>1, FS_Subset, FS_CardinalityType
  <2> QED BY <1>2, <2>2, QueueAssumption
<1>4. Cardinality(NodeIds) = QueueMax + 1
  BY FS_Interval, QueueAssumption DEF NodeIds
<1>5. T # NodeIds
  BY <1>3, <1>4, QueueAssumption
<1>6. \E n \in NodeIds : n \notin DOMAIN dlist /\ n # head
  BY <1>5
<1> QED BY <1>6, QueueAssumption DEF Fresh, NodeIds, Null

(* What is known of a queue with elements, and of one without.             *)
LEMMA LinkedEnds ==
  ASSUME QueueTypeOK, NEW ns, Linked(ns)
  PROVE  /\ Len(deque) \in Nat /\ (Len(deque) = 0 <=> deque = <<>>)
         /\ Len(deque) > 0 <=> tail # Null
         /\ Len(deque) > 0 <=> head # Null /\ ~ Freed(head)
         /\ Len(deque) > 0 => head \in DOMAIN dlist /\ tail \in DOMAIN dlist
         /\ Len(deque) = 0 => DOMAIN dlist = {}
<1>1. Len(deque) \in Nat /\ (Len(deque) = 0 <=> deque = <<>>)
  BY EmptySeq DEF QueueTypeOK
<1>2. \A i \in 1 .. Len(deque) : ns[i] \in DOMAIN dlist /\ ns[i] # Null
  BY QueueAssumption DEF Linked, Chain, NodeIds, Null
<1>3. Len(deque) > 0 => 1 \in 1 .. Len(deque) /\ Len(deque) \in 1 .. Len(deque)
  BY <1>1
<1>4. Len(deque) > 0 => head \in DOMAIN dlist /\ tail \in DOMAIN dlist
                        /\ head # Null /\ tail # Null
  BY <1>2, <1>3 DEF Linked
<1>5. Len(deque) = 0 => DOMAIN dlist = {} /\ tail = Null
  BY DEF Linked, Chain
<1> QED BY <1>1, <1>4, <1>5 DEF Freed

(* The first node of an empty queue.                                       *)
LEMMA OnlyNodeKept ==
  ASSUME QueueInv, NEW x \in QueueData, Len(deque) = 0, counter < QueueMax, Open,
         OnlyNode(x), counter' = counter + 1, deque' = <<x>>, UNCHANGED misread
  PROVE  QueueInv'
<1>1. PICK m \in NodeIds : m = Fresh
  BY FreshIs
<1>2. DOMAIN dlist = {} /\ counter = 0
  BY DEF QueueInv, QueueTypeOK, Linked, Chain
<1>3. /\ head' = m /\ tail' = m /\ DOMAIN dlist' = {m}
      /\ dlist' \in [{m} -> {Alone(x)}] /\ dlist'[m] = Alone(x)
  BY <1>1, <1>2 DEF OnlyNode, Link
<1>4. deque' \in Seq(QueueData) /\ Len(deque') = 1 /\ deque'[1] = x
  OBVIOUS
<1> DEFINE ns == [i \in 1 .. 1 |-> m]
<1>5. QueueTypeOK'
  BY <1>2, <1>3, <1>4, QueueAssumption DEF QueueTypeOK
<1>6. Alone(x) \in NodeType
  BY DEF Alone, NodeType
<1>7. Chain(dlist, deque, ns)'
  BY <1>3, <1>4, <1>6 DEF Chain, Alone
<1>8. Linked(ns)'
  BY <1>3, <1>4, <1>7 DEF Linked, Open
<1> QED BY <1>5, <1>8 DEF QueueInv

(* The steps that only look at a freed node, or end the queue.             *)
LEMMA LooksKept ==
  ASSUME QueueInv, UNCHANGED <<head, tail, dlist, counter, deque>>,
         misread' = misread \/ Freed(head)
  PROVE  QueueInv'
<1>1. PICK ns : Linked(ns) /\ QueueTypeOK
  BY DEF QueueInv
<1>2. Len(deque) > 0 => misread' = misread
  BY <1>1, LinkedEnds
<1>3. QueueTypeOK'
  BY <1>1 DEF QueueTypeOK
<1>4. Linked(ns)'
  BY <1>1, <1>2 DEF Linked
<1> QED BY <1>3, <1>4 DEF QueueInv

LEMMA PushHeadKept ==
  ASSUME QueueInv, NEW x \in QueueData, PushHead(x)
  PROVE  QueueInv'
<1>1. PICK ns : Linked(ns) /\ QueueTypeOK
  BY DEF QueueInv
<1>2. CASE Freed(head)
  BY <1>2, LooksKept DEF PushHead, Misreads
<1>3. CASE ~ Freed(head) /\ head = Null
  <2>1. Len(deque) = 0 /\ deque = <<>>
    BY <1>1, <1>3, LinkedEnds
  <2>2. deque' = <<x>>
    BY <1>3, <2>1 DEF PushHead
  <2> QED BY <1>3, <2>1, <2>2, OnlyNodeKept DEF PushHead
<1>4. CASE ~ Freed(head) /\ head # Null
  <2>1. PICK L \in Nat : L = Len(deque) /\ L > 0
    BY <1>1, <1>4, LinkedEnds
  <2>2. head = ns[1] /\ tail = ns[L] /\ misread = 0 /\ Chain(dlist, deque, ns)
    BY <1>1, <2>1 DEF Linked
  <2>3. PICK m \in NodeIds : m = Fresh /\ m \notin DOMAIN dlist
    BY FreshIs DEF PushHead
  <2>4. /\ dlist' = Link([dlist EXCEPT ![ns[1]].prev = m], m,
                         [data |-> x, next |-> ns[1], prev |-> Null])
        /\ head' = m /\ tail' = tail /\ counter' = counter + 1
        /\ deque' = <<x>> \o deque /\ misread' = misread
    <3>1. [Alone(x) EXCEPT !.next = head] = [data |-> x, next |-> head, prev |-> Null]
      BY DEF Alone
    <3> QED BY <1>4, <2>2, <2>3, <3>1 DEF PushHead
  <2>5. deque \in Seq(QueueData)
    BY <1>1 DEF QueueTypeOK
  <2>6. PICK ms : Chain(dlist', deque', ms) /\ ms[1] = m /\ ms[L + 1] = tail
    <3>1. Chain(dlist, deque, ns) /\ Len(deque) > 0 /\ m \notin DOMAIN dlist
      BY <2>1, <2>2, <2>3
    <3>2. \E ms : /\ ms[1] = m /\ ms[Len(deque) + 1] = ns[Len(deque)]
                  /\ Chain(Link([dlist EXCEPT ![ns[1]].prev = m], m,
                                [data |-> x, next |-> ns[1], prev |-> Null]),
                           <<x>> \o deque, ms)
      BY <2>3, <2>5, <3>1, ChainPushHead, Zenon
    <3> QED BY <2>1, <2>2, <2>4, <3>2, Zenon
  <2>7. deque' \in Seq(QueueData) /\ Len(deque') = L + 1
    BY <2>1, <2>4, <2>5
  <2>8. QueueTypeOK'
    BY <1>1, <2>1, <2>3, <2>4, <2>7, QueueAssumption DEF QueueTypeOK, PushHead
  <2>9. Linked(ms)'
    BY <2>1, <2>2, <2>4, <2>6, <2>7 DEF Linked
  <2> QED BY <2>8, <2>9 DEF QueueInv
<1> QED BY <1>2, <1>3, <1>4

LEMMA PushTailKept ==
  ASSUME QueueInv, NEW x \in QueueData, PushTail(x)
  PROVE  QueueInv'
<1>1. PICK ns : Linked(ns) /\ QueueTypeOK
  BY DEF QueueInv
<1>2. CASE tail = Null
  <2>1. Len(deque) = 0 /\ deque = <<>>
    BY <1>1, <1>2, LinkedEnds
  <2>2. deque' = <<x>>
    BY <2>1 DEF PushTail
  <2> QED BY <1>2, <2>1, <2>2, OnlyNodeKept DEF PushTail
<1>3. CASE tail # Null
  <2>1. PICK L \in Nat : L = Len(deque) /\ L > 0
    BY <1>1, <1>3, LinkedEnds
  <2>2. head = ns[1] /\ tail = ns[L] /\ misread = 0 /\ Chain(dlist, deque, ns)
    BY <1>1, <2>1 DEF Linked
  <2>3. PICK m \in NodeIds : m = Fresh /\ m \notin DOMAIN dlist
    BY FreshIs DEF PushTail
  <2>4. /\ dlist' = Link([dlist EXCEPT ![ns[L]].next = m], m,
                         [data |-> x, next |-> Null, prev |-> ns[L]])
        /\ tail' = m /\ head' = head /\ counter' = counter + 1
        /\ deque' = Append(deque, x) /\ misread' = misread
    <3>1. [Alone(x) EXCEPT !.prev = tail] = [data |-> x, next |-> Null, prev |-> tail]
      BY DEF Alone
    <3> QED BY <1>3, <2>2, <2>3, <3>1 DEF PushTail
  <2>5. deque \in Seq(QueueData)
    BY <1>1 DEF QueueTypeOK
  <2>6. PICK ms : Chain(dlist', deque', ms) /\ ms[1] = head /\ ms[L + 1] = m
    <3>1. Chain(dlist, deque, ns) /\ Len(deque) > 0 /\ m \notin DOMAIN dlist
      BY <2>1, <2>2, <2>3
    <3>2. \E ms : /\ ms[1] = ns[1] /\ ms[Len(deque) + 1] = m
                  /\ Chain(Link([dlist EXCEPT ![ns[Len(deque)]].next = m], m,
                                [data |-> x, next |-> Null, prev |-> ns[Len(deque)]]),
                           Append(deque, x), ms)
      BY <2>3, <2>5, <3>1, ChainPushTail, Zenon
    <3> QED BY <2>1, <2>2, <2>4, <3>2, Zenon
  <2>7. deque' \in Seq(QueueData) /\ Len(deque') = L + 1
    BY <2>1, <2>4, <2>5
  <2>8. QueueTypeOK'
    BY <1>1, <2>1, <2>3, <2>4, <2>7, QueueAssumption DEF QueueTypeOK, PushTail
  <2>9. Linked(ms)'
    BY <2>1, <2>2, <2>4, <2>6, <2>7 DEF Linked
  <2> QED BY <2>8, <2>9 DEF QueueInv
<1> QED BY <1>2, <1>3

LEMMA PopHeadKept ==
  ASSUME QueueInv, PopHead
  PROVE  QueueInv'
<1>1. PICK ns : Linked(ns) /\ QueueTypeOK
  BY DEF QueueInv
<1>2. CASE Freed(head)
  BY <1>2, LooksKept DEF PopHead, Misreads
<1>3. CASE ~ Freed(head)
  <2>1. PICK L \in Nat : L = Len(deque) /\ L > 0 /\ deque # <<>>
    BY <1>1, <1>3, LinkedEnds DEF PopHead
  <2>2. head = ns[1] /\ tail = ns[L] /\ misread = 0 /\ Chain(dlist, deque, ns)
    BY <1>1, <2>1 DEF Linked
  <2>3. PICK nx : nx = dlist[ns[1]].next
    OBVIOUS
  <2>4. /\ dlist' = Drop(IF nx = Null THEN dlist ELSE [dlist EXCEPT ![nx].prev = Null], ns[1])
        /\ head' = nx /\ tail' = (IF nx = Null THEN Null ELSE tail)
        /\ counter' = counter - 1 /\ deque' = Tail(deque) /\ misread' = misread
    BY <1>3, <2>2, <2>3 DEF PopHead
  <2>5. deque \in Seq(QueueData)
    BY <1>1 DEF QueueTypeOK
  <2>6. PICK ms : /\ Chain(dlist', deque', ms)
                  /\ nx = IF L = 1 THEN Null ELSE ms[1]
                  /\ L > 1 => ms[L - 1] = tail
    <3>1. Chain(dlist, deque, ns) /\ Len(deque) > 0
      BY <2>1, <2>2
    <3>2. \E ms : /\ Chain(Drop(IF nx = Null THEN dlist ELSE [dlist EXCEPT ![nx].prev = Null],
                                ns[1]), Tail(deque), ms)
                  /\ nx = IF Len(deque) = 1 THEN Null ELSE ms[1]
                  /\ Len(deque) > 1 => ms[Len(deque) - 1] = ns[Len(deque)]
      BY <2>3, <2>5, <3>1, ChainPopHead
    <3> QED BY <2>1, <2>2, <2>4, <3>2
  <2>7. deque' \in Seq(QueueData) /\ Len(deque') = L - 1
    BY <2>1, <2>4, <2>5
  <2>8. L > 1 => nx \in NodeIds /\ nx # Null
    <3>1. L > 1 => 1 \in 1 .. L - 1
      OBVIOUS
    <3>2. L > 1 => ms[1] \in NodeIds
      BY <2>6, <2>7, <3>1 DEF Chain
    <3> QED BY <2>6, <3>2, QueueAssumption DEF NodeIds, Null
  <2>9. QueueTypeOK'
    BY <1>1, <2>1, <2>4, <2>6, <2>7, <2>8, QueueAssumption DEF QueueTypeOK
  <2>10. Linked(ms)'
    <3>1. CASE L = 1
      BY <2>4, <2>6, <2>7, <3>1 DEF Linked
    <3>2. CASE L # 1
      <4>1. L > 1 /\ Len(deque') # 0 /\ Len(deque') = L - 1
        BY <2>1, <2>7, <3>2
      <4>2. head' = ms[1] /\ tail' = ms[L - 1] /\ misread' = 0
        BY <2>2, <2>4, <2>6, <2>8, <3>2, <4>1
      <4> QED BY <2>6, <4>1, <4>2, Zenon DEF Linked
    <3> QED BY <3>1, <3>2
  <2> QED BY <2>9, <2>10 DEF QueueInv
<1> QED BY <1>2, <1>3

LEMMA PopTailKept ==
  ASSUME QueueInv, PopTail
  PROVE  QueueInv'
<1>1. PICK ns : Linked(ns) /\ QueueTypeOK
  BY DEF QueueInv
<1>2. PICK L \in Nat : L = Len(deque) /\ L > 0 /\ deque # <<>>
  BY <1>1, LinkedEnds DEF PopTail
<1>3. head = ns[1] /\ tail = ns[L] /\ misread = 0 /\ Chain(dlist, deque, ns)
  BY <1>1, <1>2 DEF Linked
<1>4. PICK pv : pv = dlist[ns[L]].prev
  OBVIOUS
<1>5. /\ dlist' = Drop(IF pv = Null THEN dlist ELSE [dlist EXCEPT ![pv].next = Null], ns[L])
      /\ tail' = pv /\ head' = head
      /\ counter' = counter - 1 /\ deque' = Front(deque) /\ misread' = misread
  BY <1>3, <1>4 DEF PopTail
<1>6. deque \in Seq(QueueData)
  BY <1>1 DEF QueueTypeOK
<1>7. PICK ms : /\ Chain(dlist', deque', ms)
                /\ pv = IF L = 1 THEN Null ELSE ms[L - 1]
                /\ L > 1 => ms[1] = head
  <2>1. Chain(dlist, deque, ns) /\ Len(deque) > 0 /\ pv = dlist[ns[Len(deque)]].prev
    BY <1>2, <1>3, <1>4
  <2>2. \E ms : /\ Chain(Drop(IF pv = Null THEN dlist ELSE [dlist EXCEPT ![pv].next = Null],
                              ns[Len(deque)]), Front(deque), ms)
                /\ pv = IF Len(deque) = 1 THEN Null ELSE ms[Len(deque) - 1]
                /\ Len(deque) > 1 => ms[1] = ns[1]
    BY <1>6, <2>1, ChainPopTail
  <2> QED BY <1>2, <1>3, <1>5, <2>2
<1>8. deque' \in Seq(QueueData) /\ Len(deque') = L - 1
  BY <1>2, <1>5, <1>6, FrontIs
<1>9. L > 1 => pv \in NodeIds
  <2>1. L > 1 => L - 1 \in 1 .. L - 1
    OBVIOUS
  <2>2. L > 1 => ms[L - 1] \in NodeIds
    BY <1>7, <1>8, <2>1 DEF Chain
  <2> QED BY <1>7, <2>2
<1>10. QueueTypeOK'
  BY <1>1, <1>2, <1>5, <1>7, <1>8, <1>9, QueueAssumption DEF QueueTypeOK
<1>11. Linked(ms)'
  BY <1>2, <1>3, <1>5, <1>7, <1>8 DEF Linked
<1> QED BY <1>10, <1>11 DEF QueueInv

LEMMA QueueInvKept == QueueInv /\ [QueueNext]_queueVars => QueueInv'
<1> SUFFICES ASSUME QueueInv, [QueueNext]_queueVars PROVE QueueInv'
  OBVIOUS
<1>1. CASE UNCHANGED queueVars
  BY <1>1, LooksKept DEF queueVars
<1>2. ASSUME NEW x \in QueueData, PushHead(x) PROVE QueueInv'
  BY <1>2, PushHeadKept
<1>3. ASSUME NEW x \in QueueData, PushTail(x) PROVE QueueInv'
  BY <1>3, PushTailKept
<1>4. CASE PeekHead
  BY <1>4, LooksKept DEF PeekHead, Misreads
<1>5. CASE QueueDtor
  BY <1>5, LooksKept DEF QueueDtor
<1> QED BY <1>1, <1>2, <1>3, <1>4, <1>5, PopHeadKept, PopTailKept, Zenon DEF QueueNext

(* Following links from a node on, N times: there is a function that does. *)
WalksNext(D, a, N, g) == g = [n \in 1 .. N |-> IF n = 1 THEN a ELSE D[g[n - 1]].next]

LEMMA WalkNext ==
  ASSUME NEW D, NEW a, NEW N \in Nat
  PROVE  \E g : WalksNext(D, a, N, g)
<1> DEFINE Rule(g, n) == IF n = 1 THEN a ELSE D[g[n - 1]].next
           Upto(m) == \E g : g = [n \in 1 .. m |-> Rule(g, n)]
           Bad == {m \in Nat : ~ Upto(m)}
<1>1. Bad = {}
  <2> SUFFICES ASSUME Bad # {} PROVE FALSE
    OBVIOUS
  <2> HIDE DEF Upto
  <2>1. PICK m \in Bad : \A k \in Bad : m <= k
    BY LeastNat
  <2>2. m \in Nat /\ ~ Upto(m) /\ (m > 0 => Upto(m - 1))
    BY <2>1
  <2> USE DEF Upto
  <2> HIDE DEF Bad
  <2>3. CASE m = 0
    <3> DEFINE g == [n \in 1 .. 0 |-> 1]
    <3>1. g = [n \in 1 .. 0 |-> Rule(g, n)]
      OBVIOUS
    <3> QED BY <2>2, <2>3, <3>1
  <2>4. CASE m > 0
    <3>1. PICK g : g = [n \in 1 .. m - 1 |-> Rule(g, n)]
      BY <2>2, <2>4
    <3> DEFINE h == [n \in 1 .. m |-> IF n = m THEN Rule(g, m) ELSE g[n]]
    <3>2. ASSUME NEW n \in 1 .. m PROVE h[n] = Rule(h, n)
      <4>1. h[n] = Rule(g, n)
        <5>1. CASE n = m
          BY <5>1
        <5>2. CASE n # m
          BY <2>2, <3>1, <5>2
        <5> QED BY <5>1, <5>2
      <4>2. CASE n = 1
        BY <4>1, <4>2
      <4>3. CASE n # 1
        <5>1. n - 1 \in 1 .. m - 1 /\ h[n - 1] = g[n - 1]
          BY <2>2, <2>4, <4>3
        <5> QED BY <4>1, <5>1
      <4> QED BY <4>2, <4>3
    <3>3. h = [n \in 1 .. m |-> Rule(h, n)]
      <4>1. h = [n \in 1 .. m |-> h[n]]
        OBVIOUS
      <4> HIDE DEF h, Rule
      <4> QED BY <3>2, <4>1
    <3> HIDE DEF h
    <3> QED BY <2>2, <3>3
  <2> QED BY <2>2, <2>3, <2>4
<1> HIDE DEF Upto
<1>2. Upto(N)
  BY <1>1
<1> QED BY <1>2 DEF Upto, WalksNext

WalksPrev(D, a, N, g) == g = [n \in 1 .. N |-> IF n = 1 THEN a ELSE D[g[n - 1]].prev]

LEMMA WalkPrev ==
  ASSUME NEW D, NEW a, NEW N \in Nat
  PROVE  \E g : WalksPrev(D, a, N, g)
<1> DEFINE Rule(g, n) == IF n = 1 THEN a ELSE D[g[n - 1]].prev
           Upto(m) == \E g : g = [n \in 1 .. m |-> Rule(g, n)]
           Bad == {m \in Nat : ~ Upto(m)}
<1>1. Bad = {}
  <2> SUFFICES ASSUME Bad # {} PROVE FALSE
    OBVIOUS
  <2> HIDE DEF Upto
  <2>1. PICK m \in Bad : \A k \in Bad : m <= k
    BY LeastNat
  <2>2. m \in Nat /\ ~ Upto(m) /\ (m > 0 => Upto(m - 1))
    BY <2>1
  <2> USE DEF Upto
  <2> HIDE DEF Bad
  <2>3. CASE m = 0
    <3> DEFINE g == [n \in 1 .. 0 |-> 1]
    <3>1. g = [n \in 1 .. 0 |-> Rule(g, n)]
      OBVIOUS
    <3> QED BY <2>2, <2>3, <3>1
  <2>4. CASE m > 0
    <3>1. PICK g : g = [n \in 1 .. m - 1 |-> Rule(g, n)]
      BY <2>2, <2>4
    <3> DEFINE h == [n \in 1 .. m |-> IF n = m THEN Rule(g, m) ELSE g[n]]
    <3>2. ASSUME NEW n \in 1 .. m PROVE h[n] = Rule(h, n)
      <4>1. h[n] = Rule(g, n)
        <5>1. CASE n = m
          BY <5>1
        <5>2. CASE n # m
          BY <2>2, <3>1, <5>2
        <5> QED BY <5>1, <5>2
      <4>2. CASE n = 1
        BY <4>1, <4>2
      <4>3. CASE n # 1
        <5>1. n - 1 \in 1 .. m - 1 /\ h[n - 1] = g[n - 1]
          BY <2>2, <2>4, <4>3
        <5> QED BY <4>1, <5>1
      <4> QED BY <4>2, <4>3
    <3>3. h = [n \in 1 .. m |-> Rule(h, n)]
      <4>1. h = [n \in 1 .. m |-> h[n]]
        OBVIOUS
      <4> HIDE DEF h, Rule
      <4> QED BY <3>2, <4>1
    <3> HIDE DEF h
    <3> QED BY <2>2, <3>3
  <2> QED BY <2>2, <2>3, <2>4
<1> HIDE DEF Upto
<1>2. Upto(N)
  BY <1>1
<1> QED BY <1>2 DEF Upto, WalksPrev

(* The n-th nodes from both ends.                                          *)
LEMMA FromHeadIs ==
  ASSUME QueueTypeOK, NEW ns, Linked(ns), NEW n \in 1 .. Len(deque)
  PROVE  FromHead[n] = ns[n]
<1>1. FromHead = [k \in 1 .. QueueMax |-> IF k = 1 THEN head ELSE dlist[FromHead[k - 1]].next]
  <2>1. \E g : g = [k \in 1 .. QueueMax |-> IF k = 1 THEN head ELSE dlist[g[k - 1]].next]
    <3>1. QueueMax \in Nat
      BY QueueAssumption
    <3>2. \E g : WalksNext(dlist, head, QueueMax, g)
      BY <3>1, WalkNext, Zenon
    <3> QED BY <3>2, Zenon DEF WalksNext
  <2>2. FromHead = CHOOSE g :
          g = [k \in 1 .. QueueMax |-> IF k = 1 THEN head ELSE dlist[g[k - 1]].next]
    BY DEF FromHead
  <2> QED BY <2>1, <2>2, Zenon
<1>2. PICK L \in Nat : L = Len(deque) /\ L <= QueueMax
  BY LinkedEnds DEF QueueTypeOK
<1>3. \A k \in 1 .. L : FromHead[k] = IF k = 1 THEN head ELSE dlist[FromHead[k - 1]].next
  <2>1. \A k \in 1 .. L : k \in 1 .. QueueMax
    BY <1>2, QueueAssumption
  <2>2. \A k \in 1 .. QueueMax : FromHead[k] = IF k = 1 THEN head ELSE dlist[FromHead[k - 1]].next
    BY <1>1, Zenon
  <2> QED BY <2>1, <2>2, Zenon
<1>4. /\ L > 0 => head = ns[1]
      /\ \A k \in 1 .. L : dlist[ns[k]].next = IF k = L THEN Null ELSE ns[k + 1]
  BY <1>2 DEF Linked, Chain
<1> DEFINE Bad == {k \in 1 .. L : FromHead[k] # ns[k]}
<1>5. Bad = {}
  <2> SUFFICES ASSUME Bad # {} PROVE FALSE
    OBVIOUS
  <2>1. PICK k \in Bad : \A j \in Bad : k <= j
    <3>1. Bad \subseteq Nat
      BY <1>2
    <3> HIDE DEF Bad
    <3> QED BY <3>1, LeastNat
  <2>2. k \in 1 .. L /\ FromHead[k] # ns[k] /\ (k > 1 => FromHead[k - 1] = ns[k - 1])
    BY <2>1
  <2>3. CASE k = 1
    BY <1>3, <1>4, <2>2, <2>3
  <2>4. CASE k > 1
    <3>1. k - 1 \in 1 .. L /\ k - 1 # L /\ (k - 1) + 1 = k
      BY <2>2, <2>4
    <3>2. dlist[ns[k - 1]].next = ns[k]
      BY <1>4, <3>1
    <3> QED BY <1>3, <2>2, <2>4, <3>2
  <2> QED BY <2>2, <2>3, <2>4
<1> QED BY <1>2, <1>5

LEMMA FromTailIs ==
  ASSUME QueueTypeOK, NEW ns, Linked(ns), NEW n \in 1 .. Len(deque)
  PROVE  FromTail[n] = ns[Len(deque) + 1 - n]
<1>1. FromTail = [k \in 1 .. QueueMax |-> IF k = 1 THEN tail ELSE dlist[FromTail[k - 1]].prev]
  <2>1. \E g : g = [k \in 1 .. QueueMax |-> IF k = 1 THEN tail ELSE dlist[g[k - 1]].prev]
    <3>1. QueueMax \in Nat
      BY QueueAssumption
    <3>2. \E g : WalksPrev(dlist, tail, QueueMax, g)
      BY <3>1, WalkPrev, Zenon
    <3> QED BY <3>2, Zenon DEF WalksPrev
  <2>2. FromTail = CHOOSE g :
          g = [k \in 1 .. QueueMax |-> IF k = 1 THEN tail ELSE dlist[g[k - 1]].prev]
    BY DEF FromTail
  <2> QED BY <2>1, <2>2, Zenon
<1>2. PICK L \in Nat : L = Len(deque) /\ L <= QueueMax
  BY LinkedEnds DEF QueueTypeOK
<1>3. \A k \in 1 .. L : FromTail[k] = IF k = 1 THEN tail ELSE dlist[FromTail[k - 1]].prev
  <2>1. \A k \in 1 .. L : k \in 1 .. QueueMax
    BY <1>2, QueueAssumption
  <2>2. \A k \in 1 .. QueueMax : FromTail[k] = IF k = 1 THEN tail ELSE dlist[FromTail[k - 1]].prev
    BY <1>1, Zenon
  <2> QED BY <2>1, <2>2, Zenon
<1>4. /\ L > 0 => tail = ns[L]
      /\ \A k \in 1 .. L : dlist[ns[k]].prev = IF k = 1 THEN Null ELSE ns[k - 1]
  BY <1>2 DEF Linked, Chain
<1> DEFINE Bad == {k \in 1 .. L : FromTail[k] # ns[L + 1 - k]}
<1>5. Bad = {}
  <2> SUFFICES ASSUME Bad # {} PROVE FALSE
    OBVIOUS
  <2>1. PICK k \in Bad : \A j \in Bad : k <= j
    <3>1. Bad \subseteq Nat
      BY <1>2
    <3> HIDE DEF Bad
    <3> QED BY <3>1, LeastNat
  <2>2. /\ k \in 1 .. L /\ FromTail[k] # ns[L + 1 - k]
        /\ k > 1 => FromTail[k - 1] = ns[L + 1 - (k - 1)]
    BY <2>1
  <2>3. CASE k = 1
    <3>1. L + 1 - k = L /\ L > 0
      BY <2>2, <2>3
    <3> QED BY <1>3, <1>4, <2>2, <2>3, <3>1
  <2>4. CASE k > 1
    <3>1. L + 1 - (k - 1) \in 1 .. L /\ L + 1 - (k - 1) # 1 /\ (L + 1 - (k - 1)) - 1 = L + 1 - k
      BY <2>2, <2>4
    <3>2. dlist[ns[L + 1 - (k - 1)]].prev = ns[L + 1 - k]
      BY <1>4, <3>1
    <3> QED BY <1>3, <2>2, <2>4, <3>2
  <2> QED BY <2>2, <2>3, <2>4
<1> QED BY <1>2, <1>5

LEMMA QueueInvHolds == QueueInv => QueueIsDeque
<1> SUFFICES ASSUME QueueInv PROVE QueueIsDeque
  OBVIOUS
<1>1. PICK ns : Linked(ns) /\ QueueTypeOK
  BY DEF QueueInv
<1>2. PICK L \in Nat : L = Len(deque)
  BY <1>1, LinkedEnds
<1>3. counter = L /\ Cardinality(DOMAIN dlist) = L
  BY <1>1, <1>2, LinkedCounts DEF QueueTypeOK
<1>4. /\ \A i \in 1 .. L : dlist[ns[i]].data = deque[i]
      /\ \A i \in 1 .. L : dlist[ns[i]].next = IF i = L THEN Null ELSE ns[i + 1]
      /\ \A i \in 1 .. L : dlist[ns[i]].prev = IF i = 1 THEN Null ELSE ns[i - 1]
      /\ L > 0 => misread = 0
      /\ L = 0 => tail = Null
  BY <1>1, <1>2 DEF Linked, Chain
<1>5. \A i \in 1 .. L : FromHead[i] = ns[i]
  BY <1>1, <1>2, FromHeadIs
<1>6. \A i \in 1 .. L : FromTail[i] = ns[L + 1 - i]
  BY <1>1, <1>2, FromTailIs
<1>7. ASSUME NEW i \in 1 .. L
      PROVE  dlist[FromHead[i]].data = deque[i] /\ dlist[FromTail[i]].data = deque[L + 1 - i]
  <2>1. L + 1 - i \in 1 .. L
    OBVIOUS
  <2> QED BY <1>4, <1>5, <1>6, <2>1
<1>8. ASSUME L > 0
      PROVE  dlist[FromHead[L]].next = Null /\ dlist[FromTail[L]].prev = Null
  <2>1. L \in 1 .. L /\ 1 \in 1 .. L /\ L + 1 - L = 1
    BY <1>8
  <2> QED BY <1>4, <1>5, <1>6, <2>1
<1> QED BY <1>2, <1>3, <1>4, <1>7, <1>8 DEF QueueIsDeque

(* Whatever is pushed and popped at its two ends, the queue is the deque   *)
(* its calls make, along the links of both directions, and a freed node is *)
(* read only while it is empty (lib_queue.c:103-180).                      *)
THEOREM QueueIsDequeHolds == QueueSpec => []QueueIsDeque
BY QueueInitInv, QueueInvKept, QueueInvHolds, PTL DEF QueueSpec

-----------------------------------------------------------------------------
CellType == [item : ListItems \cup {0}, next : Nodes \cup {NoList},
             prev : Nodes \cup {NoList}]

(* The nodes ns are all there are, each once; they carry the items of d    *)
(* and point to each other, back only if the list is not an slist; a free  *)
(* node points nowhere.                                                    *)
Listed(C, O, d, k, ns) ==
  /\ C \in [Nodes -> CellType]
  /\ ns \in [1 .. Len(d) -> Nodes]
  /\ \A i, j \in 1 .. Len(d) : ns[i] = ns[j] => i = j
  /\ O = {ns[i] : i \in 1 .. Len(d)}
  /\ \A i \in 1 .. Len(d) : C[ns[i]].item = d[i]
  /\ \A i \in 1 .. Len(d) : C[ns[i]].next = IF i = Len(d) THEN NoList ELSE ns[i + 1]
  /\ \A i \in 1 .. Len(d) :
       C[ns[i]].prev = IF i = 1 \/ k = "slist" THEN NoList ELSE ns[i - 1]
  /\ \A n \in Nodes \ O : C[n].next = NoList

NodesFact == Nodes \subseteq Nat \ {0} /\ NoList \notin Nodes
LEMMA NodesAre == NodesFact
BY ListAssumption DEF NodesFact, Nodes, NoList

FirstOf(d, ns) == IF Len(d) = 0 THEN NoList ELSE ns[1]

(* What the makers and the links of the prepends and the appends write.    *)
Prepended(C, k, f, m, x) ==
  [n \in Nodes |->
    IF n = m THEN [Made(x) EXCEPT !.next = f]
    ELSE IF n = f THEN [C[n] EXCEPT !.prev = IF k = "slist" THEN NoList ELSE m]
    ELSE C[n]]
Appended(C, k, t, m, x) ==
  [C EXCEPT ![m] = [Made(x) EXCEPT !.prev = IF k = "slist" THEN NoList ELSE t],
            ![t].next = m]

(* A node put in front (lib_funcs.c:43, :90, :142).                        *)
LEMMA ListedPrepend ==
  ASSUME NEW C, NEW O, NEW d \in Seq(ListItems), NEW k, NEW ns, Listed(C, O, d, k, ns),
         NEW x \in ListItems, NEW m \in Nodes, m \notin O
  PROVE  \E ms : /\ ms[1] = m
                 /\ Listed(Prepended(C, k, FirstOf(d, ns), m, x), O \cup {m}, <<x>> \o d, k, ms)
<1>0. PICK f, G : f = FirstOf(d, ns) /\ G = Prepended(C, k, f, m, x)
  OBVIOUS
<1>1. PICK L \in Nat : L = Len(d)
  OBVIOUS
<1>2. PICK e \in Seq(ListItems) : e = <<x>> \o d
  <2>1. <<x>> \o d \in Seq(ListItems)
    OBVIOUS
  <2> QED BY <2>1, Zenon
<1>3. Len(e) = L + 1 /\ \A i \in 1 .. L + 1 : e[i] = IF i = 1 THEN x ELSE d[i - 1]
  BY <1>1, <1>2
<1>4. /\ ns \in [1 .. L -> Nodes]
      /\ \A i, j \in 1 .. L : ns[i] = ns[j] => i = j
      /\ O = {ns[i] : i \in 1 .. L}
      /\ \A i \in 1 .. L : C[ns[i]].item = d[i]
      /\ \A i \in 1 .. L : C[ns[i]].next = IF i = L THEN NoList ELSE ns[i + 1]
      /\ \A i \in 1 .. L : C[ns[i]].prev = IF i = 1 \/ k = "slist" THEN NoList ELSE ns[i - 1]
      /\ \A n \in Nodes \ O : C[n].next = NoList
      /\ C \in [Nodes -> CellType]
  BY <1>1 DEF Listed
<1>5. f = (IF L = 0 THEN NoList ELSE ns[1]) /\ f \in O \cup {NoList} /\ f # m
      /\ f \in Nodes \cup {NoList}
  <2>1. m # NoList
    BY NodesAre DEF NodesFact
  <2>2. CASE L = 0
    BY <1>0, <1>1, <2>1, <2>2 DEF FirstOf
  <2>3. CASE L # 0
    <3>1. 1 \in 1 .. L
      BY <2>3
    <3>2. f = ns[1]
      BY <1>0, <1>1, <2>3 DEF FirstOf
    <3>3. ns[1] \in Nodes /\ ns[1] \in O
      BY <1>4, <3>1
    <3> QED BY <2>3, <3>2, <3>3
  <2> QED BY <2>2, <2>3
<1>6. \A n \in Nodes : /\ C[n].item \in ListItems \cup {0}
                       /\ C[n].next \in Nodes \cup {NoList}
                       /\ C[n].prev \in Nodes \cup {NoList}
                       /\ C[n] = [item |-> C[n].item, next |-> C[n].next, prev |-> C[n].prev]
  BY <1>4 DEF CellType
<1>7. /\ DOMAIN G = Nodes
      /\ G[m] = [item |-> x, next |-> f, prev |-> NoList]
      /\ L > 0 => G[f] = [C[f] EXCEPT !.prev = IF k = "slist" THEN NoList ELSE m]
      /\ \A n \in Nodes \ {m, f} : G[n] = C[n]
  <2>1. L > 0 => f \in Nodes
    <3>1. L > 0 => 1 \in 1 .. L
      OBVIOUS
    <3> QED BY <1>4, <1>5, <3>1
  <2> QED BY <1>0, <1>5, <2>1 DEF Made, Prepended
<1>8. L > 0 => /\ G[f].item = C[f].item /\ G[f].next = C[f].next
               /\ G[f].prev = IF k = "slist" THEN NoList ELSE m
  <2> SUFFICES ASSUME L > 0
               PROVE  /\ G[f].item = C[f].item /\ G[f].next = C[f].next
                      /\ G[f].prev = IF k = "slist" THEN NoList ELSE m
    OBVIOUS
  <2>1. f \in Nodes
    <3>1. 1 \in 1 .. L
      OBVIOUS
    <3> QED BY <1>4, <1>5, <3>1
  <2>2. C[f] \in CellType
    BY <1>4, <2>1
  <2> QED BY <1>7, <2>2 DEF CellType
<1>9. G \in [Nodes -> CellType]
  <2>1. ASSUME NEW n \in Nodes PROVE G[n] \in CellType
    <3>1. CASE n = m
      BY <1>5, <1>7, <3>1 DEF CellType
    <3>2. CASE n = f
      <4>1. L > 0
        BY <1>1, <1>5, <3>2, NodesAre DEF NodesFact
      <4>2. C[f] \in CellType
        BY <1>4, <3>2
      <4>3. G[f] = [C[f] EXCEPT !.prev = IF k = "slist" THEN NoList ELSE m]
        BY <1>7, <4>1
      <4> QED BY <3>2, <4>2, <4>3 DEF CellType
    <3>3. CASE n # m /\ n # f
      BY <1>4, <1>7, <3>3
    <3> QED BY <3>1, <3>2, <3>3
  <2>2. G = [n \in Nodes |-> G[n]]
    BY <1>0 DEF Prepended
  <2> QED BY <2>1, <2>2
<1>10. PICK ms : /\ ms \in [1 .. L + 1 -> Nodes] /\ ms[1] = m
                 /\ \A i \in 2 .. L + 1 : ms[i] = ns[i - 1]
                 /\ \A i \in 1 .. L : ms[i + 1] = ns[i]
  <2> DEFINE g == [i \in 1 .. L + 1 |-> IF i = 1 THEN m ELSE ns[i - 1]]
  <2>1. g \in [1 .. L + 1 -> Nodes] /\ g[1] = m
    BY <1>4
  <2>2. \A i \in 2 .. L + 1 : g[i] = ns[i - 1]
    OBVIOUS
  <2>3. \A i \in 1 .. L : g[i + 1] = ns[i]
    OBVIOUS
  <2> QED BY <2>1, <2>2, <2>3
<1>11. \A i \in 1 .. L : ns[i] \in O /\ ns[i] \in Nodes /\ ns[i] # m
  BY <1>4
<1>12. ASSUME NEW i \in 1 .. L + 1, NEW j \in 1 .. L + 1, ms[i] = ms[j] PROVE i = j
  <2>1. CASE i = 1 /\ j = 1
    BY <2>1
  <2>2. CASE i = 1 /\ j # 1
    <3>1. j - 1 \in 1 .. L /\ j \in 2 .. L + 1
      BY <2>2
    <3> QED BY <1>10, <1>11, <1>12, <2>2, <3>1
  <2>3. CASE i # 1 /\ j = 1
    <3>1. i - 1 \in 1 .. L /\ i \in 2 .. L + 1
      BY <2>3
    <3> QED BY <1>10, <1>11, <1>12, <2>3, <3>1
  <2>4. CASE i # 1 /\ j # 1
    <3>1. i - 1 \in 1 .. L /\ j - 1 \in 1 .. L /\ i \in 2 .. L + 1 /\ j \in 2 .. L + 1
      BY <2>4
    <3>2. i - 1 = j - 1
      BY <1>4, <1>10, <1>12, <3>1
    <3> QED BY <3>1, <3>2
  <2> QED BY <2>1, <2>2, <2>3, <2>4
<1>13. O \cup {m} = {ms[i] : i \in 1 .. L + 1}
  <2>1. ASSUME NEW n \in O \cup {m} PROVE \E i \in 1 .. L + 1 : n = ms[i]
    <3>1. CASE n = m
      <4>1. 1 \in 1 .. L + 1
        OBVIOUS
      <4> QED BY <1>10, <3>1, <4>1
    <3>2. CASE n # m
      <4>1. PICK i \in 1 .. L : n = ns[i]
        BY <1>4, <3>2
      <4>2. i + 1 \in 1 .. L + 1 /\ ms[i + 1] = n
        BY <1>10, <4>1
      <4> QED BY <4>2
    <3> QED BY <3>1, <3>2
  <2>2. ASSUME NEW i \in 1 .. L + 1 PROVE ms[i] \in O \cup {m}
    <3>1. CASE i = 1
      BY <1>10, <3>1
    <3>2. CASE i # 1
      <4>1. i \in 2 .. L + 1 /\ i - 1 \in 1 .. L
        BY <3>2
      <4> QED BY <1>10, <1>11, <4>1
    <3> QED BY <3>1, <3>2
  <2> QED BY <2>1, <2>2
<1>14. ASSUME NEW i \in 1 .. L + 1
       PROVE  /\ G[ms[i]].item = e[i]
              /\ G[ms[i]].next = IF i = L + 1 THEN NoList ELSE ms[i + 1]
              /\ G[ms[i]].prev = IF i = 1 \/ k = "slist" THEN NoList ELSE ms[i - 1]
  <2>1. CASE i = 1
    <3>1. f = IF i = L + 1 THEN NoList ELSE ms[i + 1]
      <4>1. CASE L = 0
        BY <1>5, <2>1, <4>1
      <4>2. CASE L # 0
        <5>1. 1 \in 1 .. L /\ i # L + 1 /\ i + 1 = 1 + 1
          BY <2>1, <4>2
        <5>2. ms[1 + 1] = ns[1]
          BY <1>10, <5>1
        <5> QED BY <1>5, <4>2, <5>1, <5>2
      <4> QED BY <4>1, <4>2
    <3> QED BY <1>3, <1>7, <1>10, <2>1, <3>1
  <2>2. CASE i # 1
    <3>1. PICK j \in 1 .. L : j = i - 1 /\ ms[i] = ns[j] /\ e[i] = d[j]
      <4>1. i \in 2 .. L + 1 /\ i - 1 \in 1 .. L
        BY <2>2
      <4>2. ms[i] = ns[i - 1] /\ e[i] = d[i - 1]
        BY <1>3, <1>10, <2>2, <4>1
      <4> QED BY <4>1, <4>2
    <3>2. ns[j] = f <=> j = 1
      <4>1. 1 \in 1 .. L /\ L # 0
        BY <3>1
      <4>2. f = ns[1]
        BY <1>5, <4>1
      <4> QED BY <1>4, <3>1, <4>1, <4>2
    <3>3. G[ns[j]].item = d[j] /\ G[ns[j]].next = IF j = L THEN NoList ELSE ns[j + 1]
      <4>1. CASE j = 1
        <5>1. L > 0 /\ ns[j] = f
          BY <3>1, <3>2, <4>1
        <5>2. C[ns[j]].item = d[j] /\ C[ns[j]].next = IF j = L THEN NoList ELSE ns[j + 1]
          BY <1>4, <3>1
        <5> QED BY <1>8, <5>1, <5>2
      <4>2. CASE j # 1
        BY <1>4, <1>7, <1>11, <3>2, <4>2
      <4> QED BY <4>1, <4>2
    <3>4. G[ns[j]].prev = IF k = "slist" THEN NoList ELSE ms[j]
      <4>1. CASE j = 1
        BY <1>8, <1>10, <3>2, <4>1
      <4>2. CASE j # 1
        <5>1. j \in 2 .. L + 1
          BY <4>2
        <5> QED BY <1>4, <1>7, <1>10, <1>11, <3>2, <4>2, <5>1
      <4> QED BY <4>1, <4>2
    <3>5. j = L <=> i = L + 1
      BY <3>1
    <3>6. j # L => ns[j + 1] = ms[i + 1]
      <4> SUFFICES ASSUME j # L PROVE ns[j + 1] = ms[i + 1]
        OBVIOUS
      <4>1. j + 1 \in 1 .. L /\ (j + 1) + 1 = i + 1
        BY <3>1
      <4> QED BY <1>10, <4>1
    <3> QED BY <2>2, <3>1, <3>3, <3>4, <3>5, <3>6
  <2> QED BY <2>1, <2>2
<1>15. \A n \in Nodes \ (O \cup {m}) : G[n].next = NoList
  <2>1. ASSUME NEW n \in Nodes \ (O \cup {m}) PROVE G[n].next = NoList
    <3>1. n # f
      BY <1>5, NodesAre DEF NodesFact
    <3> QED BY <1>4, <1>7, <3>1
  <2> QED BY <2>1
<1>16. Listed(G, O \cup {m}, e, k, ms)
  <2>1. ms \in [1 .. Len(e) -> Nodes]
    BY <1>3, <1>10
  <2>2. /\ \A i, j \in 1 .. Len(e) : ms[i] = ms[j] => i = j
        /\ O \cup {m} = {ms[i] : i \in 1 .. Len(e)}
    BY <1>3, <1>12, <1>13
  <2>3. /\ \A i \in 1 .. Len(e) : G[ms[i]].item = e[i]
        /\ \A i \in 1 .. Len(e) : G[ms[i]].next = IF i = Len(e) THEN NoList ELSE ms[i + 1]
        /\ \A i \in 1 .. Len(e) :
             G[ms[i]].prev = IF i = 1 \/ k = "slist" THEN NoList ELSE ms[i - 1]
    <3> SUFFICES ASSUME NEW i \in 1 .. Len(e)
                 PROVE  /\ G[ms[i]].item = e[i]
                        /\ G[ms[i]].next = IF i = Len(e) THEN NoList ELSE ms[i + 1]
                        /\ G[ms[i]].prev = IF i = 1 \/ k = "slist" THEN NoList ELSE ms[i - 1]
      BY Zenon
    <3>1. i \in 1 .. L + 1 /\ (i = Len(e) <=> i = L + 1)
      BY <1>3
    <3>2. /\ G[ms[i]].item = e[i]
          /\ G[ms[i]].next = IF i = L + 1 THEN NoList ELSE ms[i + 1]
          /\ G[ms[i]].prev = IF i = 1 \/ k = "slist" THEN NoList ELSE ms[i - 1]
      BY <1>14, <3>1, Zenon
    <3> QED BY <3>1, <3>2
  <2> QED BY <1>9, <1>15, <2>1, <2>2, <2>3, Zenon DEF Listed
<1>17. Listed(Prepended(C, k, FirstOf(d, ns), m, x), O \cup {m}, <<x>> \o d, k, ms)
  BY <1>0, <1>2, <1>16, Zenon
<1> QED BY <1>10, <1>17, Zenon

(* A node linked behind the last one (lib_funcs.c:74, :125).               *)
LEMMA ListedAppend ==
  ASSUME NEW C, NEW O, NEW d \in Seq(ListItems), NEW k, NEW ns, Listed(C, O, d, k, ns),
         Len(d) > 0, NEW x \in ListItems, NEW m \in Nodes, m \notin O
  PROVE  \E ms : /\ ms[1] = ns[1]
                 /\ Listed(Appended(C, k, ns[Len(d)], m, x), O \cup {m}, Append(d, x), k, ms)
<1>0. PICK t, G : t = ns[Len(d)] /\ G = Appended(C, k, t, m, x)
  OBVIOUS
<1>1. PICK L \in Nat : L = Len(d) /\ L > 0
  OBVIOUS
<1>2. PICK e \in Seq(ListItems) : e = Append(d, x)
  <2>1. Append(d, x) \in Seq(ListItems)
    OBVIOUS
  <2> QED BY <2>1, Zenon
<1>3. Len(e) = L + 1 /\ \A i \in 1 .. L + 1 : e[i] = IF i = L + 1 THEN x ELSE d[i]
  BY <1>1, <1>2
<1>4. /\ ns \in [1 .. L -> Nodes]
      /\ \A i, j \in 1 .. L : ns[i] = ns[j] => i = j
      /\ O = {ns[i] : i \in 1 .. L}
      /\ \A i \in 1 .. L : C[ns[i]].item = d[i]
      /\ \A i \in 1 .. L : C[ns[i]].next = IF i = L THEN NoList ELSE ns[i + 1]
      /\ \A i \in 1 .. L : C[ns[i]].prev = IF i = 1 \/ k = "slist" THEN NoList ELSE ns[i - 1]
      /\ \A n \in Nodes \ O : C[n].next = NoList
      /\ C \in [Nodes -> CellType]
  BY <1>1 DEF Listed
<1>5. t \in Nodes /\ t \in O /\ t # m /\ t = ns[L]
  <2>1. L \in 1 .. L
    BY <1>1
  <2> QED BY <1>0, <1>1, <1>4, <2>1
<1>6. PICK b : b \in Nodes \cup {NoList} /\ b = IF k = "slist" THEN NoList ELSE t
  BY <1>5
<1>7. /\ G[m] = [item |-> x, next |-> NoList, prev |-> b]
      /\ G[t] = [C[t] EXCEPT !.next = m]
      /\ \A n \in Nodes \ {m, t} : G[n] = C[n]
      /\ DOMAIN G = Nodes
  BY <1>0, <1>4, <1>5, <1>6 DEF Made, Appended
<1>8. C[t] \in CellType /\ G[t].item = C[t].item /\ G[t].next = m /\ G[t].prev = C[t].prev
  <2>1. C[t] \in CellType
    BY <1>4, <1>5
  <2> QED BY <1>7, <2>1 DEF CellType
<1>9. G \in [Nodes -> CellType]
  <2>1. ASSUME NEW n \in Nodes PROVE G[n] \in CellType
    <3>1. CASE n = m
      BY <1>6, <1>7, <3>1 DEF CellType
    <3>2. CASE n = t
      BY <1>7, <1>8, <3>2 DEF CellType
    <3>3. CASE n # m /\ n # t
      BY <1>4, <1>7, <3>3
    <3> QED BY <3>1, <3>2, <3>3
  <2>2. G = [n \in Nodes |-> G[n]]
    BY <1>0, <1>4 DEF Appended
  <2> HIDE DEF CellType
  <2> QED BY <2>1, <2>2
<1>10. PICK ms : /\ ms \in [1 .. L + 1 -> Nodes] /\ ms[L + 1] = m
                 /\ \A i \in 1 .. L : ms[i] = ns[i]
  <2> DEFINE g == [i \in 1 .. L + 1 |-> IF i = L + 1 THEN m ELSE ns[i]]
  <2>1. L + 1 \in 1 .. L + 1
    BY <1>1
  <2>2. g \in [1 .. L + 1 -> Nodes] /\ g[L + 1] = m
    BY <1>4, <2>1
  <2>3. \A i \in 1 .. L : g[i] = ns[i]
    BY <1>1
  <2> QED BY <2>2, <2>3
<1>11. \A i \in 1 .. L : ns[i] \in O /\ ns[i] \in Nodes /\ ns[i] # m
  BY <1>4
<1>12. ASSUME NEW i \in 1 .. L + 1, NEW j \in 1 .. L + 1, ms[i] = ms[j] PROVE i = j
  <2>1. CASE i = L + 1 /\ j = L + 1
    BY <2>1
  <2>2. CASE i = L + 1 /\ j # L + 1
    <3>1. j \in 1 .. L
      BY <2>2
    <3> QED BY <1>10, <1>11, <1>12, <2>2, <3>1
  <2>3. CASE i # L + 1 /\ j = L + 1
    <3>1. i \in 1 .. L
      BY <2>3
    <3> QED BY <1>10, <1>11, <1>12, <2>3, <3>1
  <2>4. CASE i # L + 1 /\ j # L + 1
    <3>1. i \in 1 .. L /\ j \in 1 .. L
      BY <2>4
    <3> QED BY <1>4, <1>10, <1>12, <3>1
  <2> QED BY <2>1, <2>2, <2>3, <2>4
<1>13. O \cup {m} = {ms[i] : i \in 1 .. L + 1}
  <2>1. ASSUME NEW n \in O \cup {m} PROVE \E i \in 1 .. L + 1 : n = ms[i]
    <3>1. CASE n = m
      <4>1. L + 1 \in 1 .. L + 1
        BY <1>1
      <4> QED BY <1>10, <3>1, <4>1
    <3>2. CASE n # m
      <4>1. PICK i \in 1 .. L : n = ns[i]
        BY <1>4, <3>2
      <4>2. i \in 1 .. L + 1 /\ ms[i] = n
        BY <1>10, <4>1
      <4> QED BY <4>2
    <3> QED BY <3>1, <3>2
  <2>2. ASSUME NEW i \in 1 .. L + 1 PROVE ms[i] \in O \cup {m}
    <3>1. CASE i = L + 1
      BY <1>10, <3>1
    <3>2. CASE i # L + 1
      <4>1. i \in 1 .. L
        BY <3>2
      <4> QED BY <1>10, <1>11, <4>1
    <3> QED BY <3>1, <3>2
  <2> QED BY <2>1, <2>2
<1>14. ASSUME NEW i \in 1 .. L + 1
       PROVE  /\ G[ms[i]].item = e[i]
              /\ G[ms[i]].next = IF i = L + 1 THEN NoList ELSE ms[i + 1]
              /\ G[ms[i]].prev = IF i = 1 \/ k = "slist" THEN NoList ELSE ms[i - 1]
  <2>1. CASE i = L + 1
    <3>1. i # 1 /\ i - 1 = L /\ L \in 1 .. L
      BY <1>1, <2>1
    <3>2. ms[i - 1] = t
      BY <1>5, <1>10, <3>1
    <3>3. G[ms[i]] = [item |-> x, next |-> NoList, prev |-> b] /\ e[i] = x
      BY <1>3, <1>7, <1>10, <2>1
    <3> QED BY <1>6, <2>1, <3>1, <3>2, <3>3
  <2>2. CASE i # L + 1
    <3>1. i \in 1 .. L /\ ms[i] = ns[i] /\ e[i] = d[i]
      BY <1>3, <1>10, <2>2
    <3>2. ns[i] = t <=> i = L
      <4>1. L \in 1 .. L
        BY <1>1
      <4> QED BY <1>4, <1>5, <3>1, <4>1
    <3>3. G[ns[i]].item = C[ns[i]].item /\ G[ns[i]].prev = C[ns[i]].prev
      <4>1. CASE i = L
        BY <1>8, <3>2, <4>1
      <4>2. CASE i # L
        BY <1>7, <1>11, <3>1, <3>2, <4>2
      <4> QED BY <4>1, <4>2
    <3>4. G[ns[i]].next = ms[i + 1]
      <4>1. CASE i = L
        BY <1>8, <1>10, <3>2, <4>1
      <4>2. CASE i # L
        <5>1. i + 1 \in 1 .. L
          BY <3>1, <4>2
        <5>2. G[ns[i]] = C[ns[i]]
          BY <1>7, <1>11, <3>1, <3>2, <4>2
        <5> QED BY <1>4, <1>10, <3>1, <4>2, <5>1, <5>2
      <4> QED BY <4>1, <4>2
    <3>5. C[ns[i]].prev = IF i = 1 \/ k = "slist" THEN NoList ELSE ms[i - 1]
      <4>1. CASE i = 1
        BY <1>4, <3>1, <4>1
      <4>2. CASE i # 1
        <5>1. i - 1 \in 1 .. L
          BY <3>1, <4>2
        <5> QED BY <1>4, <1>10, <3>1, <4>2, <5>1
      <4> QED BY <4>1, <4>2
    <3>6. C[ns[i]].item = d[i]
      BY <1>4, <3>1
    <3> QED BY <2>2, <3>1, <3>3, <3>4, <3>5, <3>6
  <2> QED BY <2>1, <2>2
<1>15. \A n \in Nodes \ (O \cup {m}) : G[n].next = NoList
  BY <1>4, <1>5, <1>7
<1>16. Listed(G, O \cup {m}, e, k, ms)
  <2>1. ms \in [1 .. Len(e) -> Nodes]
    BY <1>3, <1>10
  <2>2. /\ \A i, j \in 1 .. Len(e) : ms[i] = ms[j] => i = j
        /\ O \cup {m} = {ms[i] : i \in 1 .. Len(e)}
    BY <1>3, <1>12, <1>13
  <2>3. /\ \A i \in 1 .. Len(e) : G[ms[i]].item = e[i]
        /\ \A i \in 1 .. Len(e) : G[ms[i]].next = IF i = Len(e) THEN NoList ELSE ms[i + 1]
        /\ \A i \in 1 .. Len(e) :
             G[ms[i]].prev = IF i = 1 \/ k = "slist" THEN NoList ELSE ms[i - 1]
    <3> SUFFICES ASSUME NEW i \in 1 .. Len(e)
                 PROVE  /\ G[ms[i]].item = e[i]
                        /\ G[ms[i]].next = IF i = Len(e) THEN NoList ELSE ms[i + 1]
                        /\ G[ms[i]].prev = IF i = 1 \/ k = "slist" THEN NoList ELSE ms[i - 1]
      BY Zenon
    <3>1. i \in 1 .. L + 1 /\ (i = Len(e) <=> i = L + 1)
      BY <1>3
    <3>2. /\ G[ms[i]].item = e[i]
          /\ G[ms[i]].next = IF i = L + 1 THEN NoList ELSE ms[i + 1]
          /\ G[ms[i]].prev = IF i = 1 \/ k = "slist" THEN NoList ELSE ms[i - 1]
      BY <1>14, <3>1, Zenon
    <3> QED BY <3>1, <3>2
  <2> QED BY <1>9, <1>15, <2>1, <2>2, <2>3, Zenon DEF Listed
<1>17. ms[1] = ns[1]
  <2>1. 1 \in 1 .. L
    BY <1>1
  <2> QED BY <1>10, <2>1
<1>18. Listed(Appended(C, k, ns[Len(d)], m, x), O \cup {m}, Append(d, x), k, ms)
  BY <1>0, <1>2, <1>16, Zenon
<1> QED BY <1>17, <1>18, Zenon

(* slist_cpy: every node has a twin, and only it has it.                   *)
LEMMA TwinIs ==
  /\ Twin(NoList) = NoList
  /\ \A n \in Nodes : Twin(n) \in Nodes /\ Twin(Twin(n)) = n
<1>1. Twin(NoList) = NoList
  BY DEF Twin
<1>2. ASSUME NEW n \in Nodes PROVE Twin(n) \in Nodes /\ Twin(Twin(n)) = n
  <2>1. CASE n > ListMax
    <3>1. Twin(n) = n - ListMax /\ n - ListMax \in 1 .. ListMax
      BY <2>1, ListAssumption DEF Twin, Nodes, NoList
    <3>2. Twin(n - ListMax) = n
      BY <2>1, <3>1, ListAssumption DEF Twin, Nodes, NoList
    <3> QED BY <2>1, <3>1, <3>2, ListAssumption DEF Nodes
  <2>2. CASE ~ (n > ListMax)
    <3>1. Twin(n) = n + ListMax /\ n + ListMax \in ListMax + 1 .. 2 * ListMax
      BY <2>2, ListAssumption DEF Twin, Nodes, NoList
    <3>2. Twin(n + ListMax) = n
      BY <2>2, <3>1, ListAssumption DEF Twin, Nodes, NoList
    <3> QED BY <2>2, <3>1, <3>2, ListAssumption DEF Nodes
  <2> QED BY <2>1, <2>2
<1> QED BY <1>1, <1>2

Twins(O)  == {Twin(n) : n \in O}
Copied(C) == [n \in Nodes |-> [C[Twin(n)] EXCEPT !.next = Twin(@)]]

(* The copy of an slist (lib_funcs.c:108).                                 *)
LEMMA ListedCpy ==
  ASSUME NEW C, NEW O, NEW d \in Seq(ListItems), NEW ns, Listed(C, O, d, "slist", ns)
  PROVE  \E ms : /\ Len(d) > 0 => ms[1] = Twin(ns[1])
                 /\ Listed(Copied(C), Twins(O), d, "slist", ms)
<1>0. PICK P, G, k : P = Twins(O) /\ G = Copied(C) /\ k = "slist"
  OBVIOUS
<1>1. PICK L \in Nat : L = Len(d)
  OBVIOUS
<1>2. /\ ns \in [1 .. L -> Nodes]
      /\ \A i, j \in 1 .. L : ns[i] = ns[j] => i = j
      /\ O = {ns[i] : i \in 1 .. L}
      /\ \A i \in 1 .. L : C[ns[i]].item = d[i]
      /\ \A i \in 1 .. L : C[ns[i]].next = IF i = L THEN NoList ELSE ns[i + 1]
      /\ \A i \in 1 .. L : C[ns[i]].prev = NoList
      /\ \A n \in Nodes \ O : C[n].next = NoList
      /\ C \in [Nodes -> CellType]
  BY <1>1 DEF Listed
<1>3. \A n \in Nodes : Twin(n) \in Nodes /\ Twin(Twin(n)) = n
  BY TwinIs
<1>4. Twin(NoList) = NoList
  BY TwinIs
<1>5. ASSUME NEW n \in Nodes
      PROVE  /\ G[n] \in CellType
             /\ G[n].item = C[Twin(n)].item /\ G[n].prev = C[Twin(n)].prev
             /\ G[n].next = Twin(C[Twin(n)].next)
  <2>1. Twin(n) \in Nodes
    BY <1>3
  <2>2. C[Twin(n)] \in CellType
    BY <1>2, <2>1
  <2>3. G[n] = [C[Twin(n)] EXCEPT !.next = Twin(C[Twin(n)].next)]
    BY <1>0 DEF Copied
  <2>4. PICK c \in CellType : c = C[Twin(n)]
    BY <2>2
  <2>5. Twin(c.next) \in Nodes \cup {NoList}
    BY <1>3, <1>4, <2>4 DEF CellType
  <2>6. PICK y \in Nodes \cup {NoList} : y = Twin(c.next)
    BY <2>5
  <2>7. G[n] = [c EXCEPT !.next = y]
    BY <2>3, <2>4, <2>6, Zenon
  <2>8. G[n] \in CellType /\ G[n].item = c.item /\ G[n].prev = c.prev /\ G[n].next = y
    BY <2>4, <2>6, <2>7 DEF CellType
  <2> HIDE DEF CellType
  <2> QED BY <2>4, <2>6, <2>8, Zenon
<1>6. G \in [Nodes -> CellType]
  <2>1. G = [n \in Nodes |-> G[n]]
    BY <1>0 DEF Copied
  <2> HIDE DEF CellType
  <2> QED BY <1>5, <2>1, Zenon
<1>7. PICK ms : ms \in [1 .. L -> Nodes] /\ \A i \in 1 .. L : ms[i] = Twin(ns[i])
  <2> DEFINE g == [i \in 1 .. L |-> Twin(ns[i])]
  <2>1. g \in [1 .. L -> Nodes] /\ \A i \in 1 .. L : g[i] = Twin(ns[i])
    BY <1>2, <1>3
  <2> QED BY <2>1
<1>8. \A i \in 1 .. L : ns[i] \in Nodes /\ ns[i] \in O /\ ms[i] \in Nodes /\ Twin(ms[i]) = ns[i]
  BY <1>2, <1>3, <1>7
<1>9. \A i, j \in 1 .. L : ms[i] = ms[j] => i = j
  BY <1>2, <1>8
<1>10. P = {ms[i] : i \in 1 .. L}
  <2>1. ASSUME NEW n \in P PROVE \E i \in 1 .. L : n = ms[i]
    <3>1. PICK o \in O : n = Twin(o)
      BY <1>0 DEF Twins
    <3>2. PICK i \in 1 .. L : o = ns[i]
      BY <1>2
    <3> QED BY <1>7, <3>1, <3>2
  <2>2. ASSUME NEW i \in 1 .. L PROVE ms[i] \in P
    BY <1>0, <1>7, <1>8 DEF Twins
  <2> QED BY <2>1, <2>2
<1>11. ASSUME NEW i \in 1 .. L
       PROVE  /\ G[ms[i]].item = d[i] /\ G[ms[i]].prev = NoList
              /\ G[ms[i]].next = IF i = L THEN NoList ELSE ms[i + 1]
  <2>1. ms[i] \in Nodes /\ Twin(ms[i]) = ns[i]
    BY <1>8
  <2>2. /\ G[ms[i]].item = C[ns[i]].item /\ G[ms[i]].prev = C[ns[i]].prev
        /\ G[ms[i]].next = Twin(C[ns[i]].next)
    BY <1>5, <2>1
  <2>3. Twin(C[ns[i]].next) = IF i = L THEN NoList ELSE ms[i + 1]
    <3>1. CASE i = L
      BY <1>2, <1>4, <3>1
    <3>2. CASE i # L
      <4>1. i + 1 \in 1 .. L
        BY <3>2
      <4> QED BY <1>2, <1>7, <3>2, <4>1
    <3> QED BY <3>1, <3>2
  <2>4. C[ns[i]].item = d[i] /\ C[ns[i]].prev = NoList
    BY <1>2
  <2> QED BY <2>2, <2>3, <2>4
<1>12. ASSUME NEW n \in Nodes \ P PROVE G[n].next = NoList
  <2>1. Twin(n) \in Nodes \ O
    BY <1>0, <1>3 DEF Twins
  <2> QED BY <1>2, <1>4, <1>5, <2>1
<1>13. Listed(G, P, d, k, ms)
  <2>1. \A i \in 1 .. Len(d) : G[ms[i]].item = d[i]
    BY <1>1, <1>11, Zenon
  <2>2. \A i \in 1 .. Len(d) : G[ms[i]].next = IF i = Len(d) THEN NoList ELSE ms[i + 1]
    BY <1>1, <1>11, Zenon
  <2>3. \A i \in 1 .. Len(d) :
          G[ms[i]].prev = IF i = 1 \/ k = "slist" THEN NoList ELSE ms[i - 1]
    <3>1. \A i \in 1 .. Len(d) : G[ms[i]].prev = NoList
      BY <1>1, <1>11, Zenon
    <3> QED BY <1>0, <3>1
  <2>4. \A n \in Nodes \ P : G[n].next = NoList
    BY <1>12, Zenon
  <2>5. /\ ms \in [1 .. Len(d) -> Nodes]
        /\ \A i, j \in 1 .. Len(d) : ms[i] = ms[j] => i = j
        /\ P = {ms[i] : i \in 1 .. Len(d)}
    BY <1>1, <1>7, <1>9, <1>10, Zenon
  <2> QED BY <1>6, <2>1, <2>2, <2>3, <2>4, <2>5, Zenon DEF Listed
<1>14. Len(d) > 0 => ms[1] = Twin(ns[1])
  <2>1. L > 0 => 1 \in 1 .. L
    OBVIOUS
  <2> QED BY <1>1, <1>7, <2>1
<1> QED BY <1>0, <1>13, <1>14, Zenon

-----------------------------------------------------------------------------
ListTypeOK ==
  /\ kind \in Kinds
  /\ series \in Seq(ListItems) /\ Len(series) <= ListMax

(* The caller keeps the first of the nodes ns.                             *)
Strung(ns) ==
  /\ Listed(cells, owned, series, kind, ns)
  /\ first = IF Len(series) = 0 THEN NoList ELSE ns[1]

ListInv == ListTypeOK /\ (Whole => \E ns : Strung(ns))

LEMMA ListInitInv == ListInit => ListInv
<1> SUFFICES ASSUME ListInit PROVE ListInv
  OBVIOUS
<1>0. /\ kind \in Kinds /\ first = NoList /\ series = <<>> /\ owned = {}
      /\ cells = [n \in Nodes |-> Unused]
  BY Zenon DEF ListInit
<1>1. series = <<>> /\ Len(series) = 0 /\ series \in Seq(ListItems)
  BY <1>0
<1>2. ListTypeOK
  BY <1>0, <1>1, ListAssumption DEF ListTypeOK
<1> DEFINE ns == [i \in 1 .. 0 |-> 0]
<1>3. cells \in [Nodes -> CellType] /\ \A n \in Nodes : cells[n].next = NoList
  BY <1>0 DEF Unused, CellType
<1>4. Strung(ns)
  BY <1>0, <1>1, <1>3 DEF Strung, Listed
<1> QED BY <1>2, <1>4 DEF ListInv

(* The nodes are as many as the items.                                     *)
LEMMA StrungCounts ==
  ASSUME ListTypeOK, NEW ns, Strung(ns)
  PROVE  IsFiniteSet(owned) /\ Cardinality(owned) = Len(series)
<1>1. PICK L \in Nat : L = Len(series)
  BY DEF ListTypeOK
<1>2. /\ ns \in [1 .. L -> Nodes] /\ owned = {ns[i] : i \in 1 .. L}
      /\ \A i, j \in 1 .. L : ns[i] = ns[j] => i = j
  BY <1>1 DEF Strung, Listed
<1>3. ns \in [1 .. L -> owned] /\ \A n \in owned : \E i \in 1 .. L : ns[i] = n
  BY <1>2
<1>4. ns \in Injection(1 .. L, owned) /\ ns \in Surjection(1 .. L, owned)
  BY <1>2, <1>3 DEF Injection, Surjection, IsInjective
<1>5. ExistsBijection(1 .. L, owned)
  BY <1>4 DEF ExistsBijection, Bijection
<1> QED BY <1>1, <1>5, FS_NatBijection, FS_CountingElements

(* A node can be allocated.                                                *)
LEMMA NewIs ==
  ASSUME ListTypeOK, NEW ns, Strung(ns), Len(series) < ListMax
  PROVE  New \in Nodes /\ New \notin owned
<1>1. /\ IsFiniteSet(owned) /\ Cardinality(owned) = Len(series)
      /\ Len(series) \in Nat
  BY StrungCounts DEF ListTypeOK
<1>2. Cardinality(Nodes) = 2 * ListMax
  <2>1. Cardinality(1 .. 2 * ListMax) = 2 * ListMax
    BY FS_Interval, ListAssumption
  <2> QED BY <2>1 DEF Nodes
<1>3. Nodes # owned
  BY <1>1, <1>2, ListAssumption
<1>4. owned \subseteq Nodes
  BY DEF Strung, Listed
<1>5. \E n \in Nodes : n \notin owned
  BY <1>3, <1>4
<1> QED BY <1>5, Zenon DEF New

(* A list of one node.                                                     *)
LEMMA OnlyCellKept ==
  ASSUME ListInv, Whole, Len(series) = 0, NEW x \in ListItems, kind' = kind,
         cells' = [n \in Nodes |-> IF n = New THEN Made(x) ELSE cells[n]],
         first' = New, owned' = owned \cup {New}, series' = <<x>>
  PROVE  ListInv'
<1>1. PICK ns : Strung(ns) /\ ListTypeOK
  BY DEF ListInv
<1>2. PICK m \in Nodes : m = New /\ m \notin owned
  BY <1>1, NewIs, ListAssumption
<1>3. PICK e \in Seq(ListItems) : e = <<x>> /\ Len(e) = 1 /\ e[1] = x
  <2>1. <<x>> \in Seq(ListItems) /\ Len(<<x>>) = 1 /\ <<x>>[1] = x
    OBVIOUS
  <2> QED BY <2>1, Zenon
<1>4. /\ owned = {} /\ cells \in [Nodes -> CellType]
      /\ \A n \in Nodes : cells[n].next = NoList
  BY <1>1 DEF Strung, Listed
<1>5. PICK ms \in [1 .. 1 -> Nodes] : ms[1] = m
  <2> DEFINE g == [i \in 1 .. 1 |-> m]
  <2>1. g \in [1 .. 1 -> Nodes] /\ g[1] = m
    OBVIOUS
  <2> QED BY <2>1
<1>6. PICK G : G = [n \in Nodes |-> IF n = m THEN Made(x) ELSE cells[n]]
  OBVIOUS
<1>7. G[m] = Made(x) /\ \A n \in Nodes \ {m} : G[n] = cells[n]
  BY <1>6
<1>8. G \in [Nodes -> CellType]
  <2>1. Made(x) \in CellType
    BY DEF Made, CellType
  <2> QED BY <1>4, <1>6, <2>1
<1>9. Listed(G, {m}, e, kind, ms)
  <2>1. \A n \in Nodes \ {m} : G[n].next = NoList
    BY <1>4, <1>7
  <2>2. {m} = {ms[i] : i \in 1 .. 1}
    BY <1>5
  <2>3. G[m].item = x /\ G[m].next = NoList /\ G[m].prev = NoList
    BY <1>7 DEF Made
  <2>4. /\ \A i \in 1 .. Len(e) : G[ms[i]].item = e[i]
        /\ \A i \in 1 .. Len(e) : G[ms[i]].next = IF i = Len(e) THEN NoList ELSE ms[i + 1]
        /\ \A i \in 1 .. Len(e) :
             G[ms[i]].prev = IF i = 1 \/ kind = "slist" THEN NoList ELSE ms[i - 1]
    BY <1>3, <1>5, <2>3
  <2>5. /\ ms \in [1 .. Len(e) -> Nodes]
        /\ \A i, j \in 1 .. Len(e) : ms[i] = ms[j] => i = j
        /\ {m} = {ms[i] : i \in 1 .. Len(e)}
    BY <1>3, <1>5, <2>2
  <2> QED BY <1>8, <2>1, <2>4, <2>5, Zenon DEF Listed
<1>10. cells' = G /\ owned' = {m} /\ series' = e /\ first' = m
  BY <1>2, <1>3, <1>4, <1>6
<1>11. Strung(ms)'
  <2>1. Listed(cells', owned', series', kind', ms)
    BY <1>9, <1>10, Zenon
  <2>2. first' = IF Len(series') = 0 THEN NoList ELSE ms[1]
    BY <1>3, <1>5, <1>10
  <2> QED BY <2>1, <2>2 DEF Strung
<1>12. ListTypeOK'
  BY <1>1, <1>3, <1>10, ListAssumption DEF ListTypeOK
<1> QED BY <1>11, <1>12 DEF ListInv

LEMMA PrependKept ==
  ASSUME ListInv, NEW x \in ListItems, Prepend(x)
  PROVE  ListInv'
<1>1. PICK ns : Strung(ns) /\ ListTypeOK
  BY DEF ListInv, Prepend
<1>2. PICK m \in Nodes : m = New /\ m \notin owned
  BY <1>1, NewIs DEF Prepend
<1>3. PICK d \in Seq(ListItems) : d = series
  BY <1>1 DEF ListTypeOK
<1>4. PICK f : f = first /\ f = FirstOf(d, ns)
  BY <1>1, <1>3 DEF Strung, FirstOf
<1>5. PICK G : G = Prepended(cells, kind, f, m, x)
  OBVIOUS
<1>6. /\ cells' = G /\ owned' = owned \cup {m} /\ series' = <<x>> \o d /\ first' = m
      /\ kind' = kind
  BY <1>2, <1>3, <1>4, <1>5, Zenon DEF Prepend, Back, Prepended
<1>7. Listed(cells, owned, d, kind, ns)
  BY <1>1, <1>3 DEF Strung
<1>8. PICK ms : Listed(G, owned \cup {m}, <<x>> \o d, kind, ms) /\ ms[1] = m
  <2>1. ~ (m \in owned)
    BY <1>2
  <2>2. \E ms : /\ ms[1] = m
                /\ Listed(Prepended(cells, kind, FirstOf(d, ns), m, x), owned \cup {m},
                          <<x>> \o d, kind, ms)
    BY <1>7, <2>1, ListedPrepend, Zenon
  <2> QED BY <1>4, <1>5, <2>2, Zenon
<1>9. <<x>> \o d \in Seq(ListItems) /\ Len(<<x>> \o d) = Len(d) + 1 /\ Len(d) \in Nat
  OBVIOUS
<1>10. Strung(ms)'
  BY <1>6, <1>8, <1>9 DEF Strung
<1>11. ListTypeOK'
  BY <1>1, <1>3, <1>6, <1>9, ListAssumption DEF ListTypeOK, Prepend
<1> QED BY <1>10, <1>11 DEF ListInv

TailRule(C, g) ==
  g = [n \in Nodes |-> IF C[n].next = NoList THEN n ELSE g[C[n].next]]

(* The loop of an append ends at the last node.                            *)
LEMMA TailIs ==
  ASSUME NEW ns, Strung(ns), ListTypeOK, Len(series) > 0
  PROVE  TailFrom[first] = ns[Len(series)]
<1>1. PICK L \in Nat : L = Len(series) /\ L > 0
  BY DEF ListTypeOK
<1>2. /\ ns \in [1 .. L -> Nodes] /\ owned = {ns[i] : i \in 1 .. L}
      /\ \A i \in 1 .. L : cells[ns[i]].next = IF i = L THEN NoList ELSE ns[i + 1]
      /\ \A n \in Nodes \ owned : cells[n].next = NoList
      /\ first = ns[1]
  BY <1>1 DEF Strung, Listed
<1>3. \A i \in 1 .. L : ns[i] \in Nodes /\ ns[i] \in owned /\ ns[i] # NoList
  BY <1>2, NodesAre DEF NodesFact
<1>4. TailRule(cells, TailFrom)
  <2>1. \E g : TailRule(cells, g)
    <3> DEFINE g == [n \in Nodes |-> IF n \in owned THEN ns[L] ELSE n]
    <3>1. ASSUME NEW n \in Nodes
          PROVE  g[n] = IF cells[n].next = NoList THEN n ELSE g[cells[n].next]
      <4>1. CASE n \notin owned
        BY <1>2, <4>1
      <4>2. CASE n \in owned
        <5>1. PICK i \in 1 .. L : n = ns[i]
          BY <1>2, <4>2
        <5>2. g[n] = ns[L]
          BY <4>2
        <5>3. CASE i = L
          BY <1>2, <5>1, <5>2, <5>3
        <5>4. CASE i # L
          <6>1. i + 1 \in 1 .. L
            BY <5>4
          <6>2. cells[n].next = ns[i + 1] /\ ns[i + 1] # NoList
            BY <1>2, <1>3, <5>1, <5>4, <6>1
          <6>3. g[ns[i + 1]] = ns[L]
            BY <1>3, <6>1
          <6> QED BY <5>2, <6>2, <6>3
        <5> QED BY <5>3, <5>4
      <4> QED BY <4>1, <4>2
    <3>2. g = [n \in Nodes |-> g[n]]
      OBVIOUS
    <3> HIDE DEF g
    <3>3. TailRule(cells, g)
      BY <3>1, <3>2 DEF TailRule
    <3> QED BY <3>3
  <2>2. TailFrom = CHOOSE g : g = [n \in Nodes |-> IF cells[n].next = NoList THEN n
                                                   ELSE g[cells[n].next]]
    BY DEF TailFrom
  <2> QED BY <2>1, <2>2, Zenon DEF TailRule
<1>5. \A n \in Nodes :
        TailFrom[n] = IF cells[n].next = NoList THEN n ELSE TailFrom[cells[n].next]
  BY <1>4 DEF TailRule
<1> DEFINE Bad == {k \in 0 .. L - 1 : TailFrom[ns[L - k]] # ns[L]}
<1>6. Bad = {}
  <2> SUFFICES ASSUME Bad # {} PROVE FALSE
    OBVIOUS
  <2>1. PICK k \in Bad : \A j \in Bad : k <= j
    <3>1. Bad \subseteq Nat
      BY <1>1
    <3> HIDE DEF Bad
    <3> QED BY <3>1, LeastNat
  <2>2. PICK i \in 1 .. L : i = L - k
    BY <1>1, <2>1
  <2>3. TailFrom[ns[i]] # ns[L] /\ (i < L => TailFrom[ns[i + 1]] = ns[L])
    <3>1. TailFrom[ns[i]] # ns[L]
      BY <2>1, <2>2
    <3>2. ASSUME i < L PROVE TailFrom[ns[i + 1]] = ns[L]
      <4>1. k - 1 \in 0 .. L - 1 /\ L - (k - 1) = i + 1 /\ ~ (k <= k - 1)
        BY <1>1, <2>1, <2>2, <3>2
      <4> QED BY <2>1, <4>1
    <3> QED BY <3>1, <3>2
  <2>4. CASE i = L
    BY <1>2, <1>3, <1>5, <2>3, <2>4
  <2>5. CASE i # L
    <3>1. i + 1 \in 1 .. L /\ i < L
      BY <2>5
    <3>2. cells[ns[i]].next = ns[i + 1] /\ ns[i + 1] # NoList /\ ns[i] \in Nodes
      BY <1>2, <1>3, <2>5, <3>1
    <3> QED BY <1>5, <2>3, <3>1, <3>2
  <2> QED BY <2>4, <2>5
<1>7. TailFrom[ns[1]] = ns[L]
  <2>1. L - 1 \in 0 .. L - 1 /\ L - (L - 1) = 1
    BY <1>1
  <2> QED BY <1>6, <2>1
<1> QED BY <1>1, <1>2, <1>7

LEMMA AppendKept ==
  ASSUME ListInv, NEW x \in ListItems, AppendItem(x)
  PROVE  ListInv'
<1>1. PICK ns : Strung(ns) /\ ListTypeOK
  BY DEF ListInv, AppendItem
<1>2. PICK m \in Nodes : m = New /\ m \notin owned
  BY <1>1, NewIs DEF AppendItem
<1>3. PICK d \in Seq(ListItems) : d = series /\ Len(d) \in Nat
  BY <1>1 DEF ListTypeOK
<1>4. first = NoList <=> Len(d) = 0
  <2>1. Len(d) > 0 => 1 \in 1 .. Len(d)
    BY <1>3
  <2>2. Len(d) > 0 => ns[1] \in Nodes
    BY <1>1, <1>3, <2>1 DEF Strung, Listed
  <2>3. first = IF Len(d) = 0 THEN NoList ELSE ns[1]
    BY <1>1, <1>3 DEF Strung
  <2> QED BY <1>3, <2>2, <2>3, NodesAre DEF NodesFact
<1>5. CASE first = NoList
  <2>1. [cells EXCEPT ![New] = Made(x)] = [n \in Nodes |-> IF n = New THEN Made(x) ELSE cells[n]]
    BY <1>1 DEF Strung, Listed
  <2>2. Len(series) = 0 /\ Whole
    BY <1>3, <1>4, <1>5, Zenon DEF AppendItem
  <2>3. /\ cells' = [n \in Nodes |-> IF n = New THEN Made(x) ELSE cells[n]]
        /\ first' = New /\ owned' = owned \cup {New} /\ series' = <<x>> /\ kind' = kind
    BY <1>5, <2>1, Zenon DEF AppendItem
  <2> QED BY <2>2, <2>3, OnlyCellKept, Zenon
<1>6. CASE first # NoList /\ kind = "datchain"
  <2>1. torn' = "append" /\ series' = series /\ kind' = kind
    BY <1>6, Zenon DEF AppendItem
  <2>2. ~ Whole'
    BY <2>1 DEF Whole
  <2>3. ListTypeOK'
    BY <1>1, <2>1 DEF ListTypeOK
  <2> QED BY <2>2, <2>3, Zenon DEF ListInv
<1>7. CASE first # NoList /\ kind # "datchain"
  <2>1. PICK t : t = ns[Len(d)] /\ t = TailFrom[first]
    BY <1>1, <1>3, <1>4, <1>7, TailIs
  <2>2. PICK G : G = Appended(cells, kind, t, m, x)
    OBVIOUS
  <2>3. /\ cells' = G /\ owned' = owned \cup {m} /\ series' = Append(d, x) /\ first' = first
        /\ kind' = kind
    BY <1>2, <1>3, <1>7, <2>1, <2>2, Zenon DEF AppendItem, Back, Appended
  <2>4. Listed(cells, owned, d, kind, ns)
    BY <1>1, <1>3 DEF Strung
  <2>5. PICK ms : Listed(G, owned \cup {m}, Append(d, x), kind, ms) /\ ms[1] = ns[1]
    <3>1. Len(d) > 0
      BY <1>3, <1>4, <1>7
    <3>2. ~ (m \in owned)
      BY <1>2
    <3>3. \E ms : /\ ms[1] = ns[1]
                  /\ Listed(Appended(cells, kind, ns[Len(d)], m, x), owned \cup {m},
                            Append(d, x), kind, ms)
      BY <2>4, <3>1, <3>2, ListedAppend, Zenon
    <3> QED BY <2>1, <2>2, <3>3, Zenon
  <2>6. Append(d, x) \in Seq(ListItems) /\ Len(Append(d, x)) = Len(d) + 1
    OBVIOUS
  <2>7. first = ns[1]
    BY <1>1, <1>3, <1>4, <1>7 DEF Strung
  <2>8. Strung(ms)'
    BY <1>3, <2>3, <2>5, <2>6, <2>7 DEF Strung
  <2>9. ListTypeOK'
    BY <1>1, <1>3, <2>3, <2>6, ListAssumption DEF ListTypeOK, AppendItem
  <2> QED BY <2>8, <2>9 DEF ListInv
<1> QED BY <1>5, <1>6, <1>7

LEMMA CpyKept ==
  ASSUME ListInv, Cpy
  PROVE  ListInv'
<1>1. PICK ns : Strung(ns) /\ ListTypeOK
  BY DEF ListInv, Cpy
<1>2. CASE torn' = "cpy"
  <2>1. ~ Whole'
    BY <1>2 DEF Whole
  <2>2. ListTypeOK'
    BY <1>1 DEF ListTypeOK, Cpy
  <2> QED BY <2>1, <2>2, Zenon DEF ListInv
<1>3. CASE torn' # "cpy"
  <2>1. PICK d \in Seq(ListItems) : d = series
    BY <1>1 DEF ListTypeOK
  <2>2. PICK P, G : P = Twins(owned) /\ G = Copied(cells)
    OBVIOUS
  <2>3. /\ cells' = G /\ owned' = P /\ series' = d /\ first' = Twin(first) /\ kind' = kind
        /\ kind = "slist"
    BY <1>3, <2>1, <2>2, Zenon DEF Cpy, Twins, Copied
  <2>4. Listed(cells, owned, d, "slist", ns)
    BY <1>1, <2>1, <2>3 DEF Strung
  <2>5. PICK ms : Listed(G, P, d, "slist", ms) /\ (Len(d) > 0 => ms[1] = Twin(ns[1]))
    <3>1. \E ms : /\ Len(d) > 0 => ms[1] = Twin(ns[1])
                  /\ Listed(Copied(cells), Twins(owned), d, "slist", ms)
      BY <2>4, ListedCpy, Zenon
    <3> QED BY <2>2, <3>1, Zenon
  <2>6. first' = IF Len(d) = 0 THEN NoList ELSE ms[1]
    <3>1. Len(d) \in Nat /\ first = IF Len(d) = 0 THEN NoList ELSE ns[1]
      BY <1>1, <2>1 DEF Strung
    <3>2. CASE Len(d) = 0
      BY <2>3, <3>1, <3>2, TwinIs
    <3>3. CASE Len(d) # 0
      BY <2>3, <2>5, <3>1, <3>3
    <3> QED BY <3>2, <3>3
  <2>7. Strung(ms)'
    BY <2>3, <2>5, <2>6 DEF Strung
  <2>8. ListTypeOK'
    BY <1>1, <2>1, <2>3 DEF ListTypeOK
  <2> QED BY <2>7, <2>8 DEF ListInv
<1> QED BY <1>2, <1>3

LEMMA ListDtorKept ==
  ASSUME ListInv, ListDtor
  PROVE  ListInv'
<1>1. ListTypeOK
  BY DEF ListInv
<1>2. /\ first' = NoList /\ owned' = {} /\ series' = <<>> /\ kind' = kind
      /\ cells' = [n \in Nodes |-> Unused]
  BY Zenon DEF ListDtor
<1>3. Len(series') = 0 /\ series' \in Seq(ListItems)
  BY <1>2
<1>4. ListTypeOK'
  BY <1>1, <1>2, <1>3, ListAssumption DEF ListTypeOK
<1>5. PICK ns : ns = [i \in 1 .. 0 |-> 0]
  OBVIOUS
<1>6. cells' \in [Nodes -> CellType] /\ \A n \in Nodes : cells'[n].next = NoList
  BY <1>2 DEF Unused, CellType
<1>7. Listed(cells', {}, <<>>, kind', ns)
  BY <1>5, <1>6 DEF Listed
<1>8. Strung(ns)'
  BY <1>2, <1>3, <1>7 DEF Strung
<1> QED BY <1>4, <1>8 DEF ListInv

LEMMA ListInvKept == ListInv /\ [ListNext]_listVars => ListInv'
<1> SUFFICES ASSUME ListInv, [ListNext]_listVars PROVE ListInv'
  OBVIOUS
<1>1. CASE UNCHANGED listVars
  BY <1>1 DEF listVars, ListInv, ListTypeOK, Whole, Strung
<1>2. ASSUME NEW x \in ListItems, Prepend(x) PROVE ListInv'
  BY <1>2, PrependKept
<1>3. ASSUME NEW x \in ListItems, AppendItem(x) PROVE ListInv'
  BY <1>3, AppendKept
<1> QED BY <1>1, <1>2, <1>3, CpyKept, ListDtorKept, Zenon DEF ListNext

(* The i-th node the caller comes to.                                      *)
LEMMA NthIs ==
  ASSUME ListTypeOK, NEW ns, Strung(ns), NEW n \in 1 .. Len(series)
  PROVE  Nth[n] = ns[n]
<1>1. Nth = [k \in 1 .. ListMax |-> IF k = 1 THEN first ELSE cells[Nth[k - 1]].next]
  <2>1. \E g : g = [k \in 1 .. ListMax |-> IF k = 1 THEN first ELSE cells[g[k - 1]].next]
    <3>1. ListMax \in Nat
      BY ListAssumption
    <3>2. \E g : WalksNext(cells, first, ListMax, g)
      BY <3>1, WalkNext, Zenon
    <3> QED BY <3>2, Zenon DEF WalksNext
  <2>2. Nth = CHOOSE g :
          g = [k \in 1 .. ListMax |-> IF k = 1 THEN first ELSE cells[g[k - 1]].next]
    BY DEF Nth
  <2> QED BY <2>1, <2>2, Zenon
<1>2. PICK L \in Nat : L = Len(series) /\ L <= ListMax
  BY DEF ListTypeOK
<1>3. \A k \in 1 .. L : Nth[k] = IF k = 1 THEN first ELSE cells[Nth[k - 1]].next
  <2>1. \A k \in 1 .. L : k \in 1 .. ListMax
    BY <1>2, ListAssumption
  <2>2. \A k \in 1 .. ListMax : Nth[k] = IF k = 1 THEN first ELSE cells[Nth[k - 1]].next
    BY <1>1, Zenon
  <2> QED BY <2>1, <2>2, Zenon
<1>4. /\ L > 0 => first = ns[1]
      /\ \A k \in 1 .. L : cells[ns[k]].next = IF k = L THEN NoList ELSE ns[k + 1]
  BY <1>2 DEF Strung, Listed
<1> DEFINE Bad == {k \in 1 .. L : Nth[k] # ns[k]}
<1>5. Bad = {}
  <2> SUFFICES ASSUME Bad # {} PROVE FALSE
    OBVIOUS
  <2>1. PICK k \in Bad : \A j \in Bad : k <= j
    <3>1. Bad \subseteq Nat
      BY <1>2
    <3> HIDE DEF Bad
    <3> QED BY <3>1, LeastNat
  <2>2. k \in 1 .. L /\ Nth[k] # ns[k] /\ (k > 1 => Nth[k - 1] = ns[k - 1])
    BY <2>1
  <2>3. CASE k = 1
    BY <1>3, <1>4, <2>2, <2>3
  <2>4. CASE k > 1
    <3>1. k - 1 \in 1 .. L /\ k - 1 # L /\ (k - 1) + 1 = k
      BY <2>2, <2>4
    <3>2. cells[ns[k - 1]].next = ns[k]
      BY <1>4, <3>1
    <3> QED BY <1>3, <2>2, <2>4, <3>2
  <2> QED BY <2>2, <2>3, <2>4
<1> QED BY <1>2, <1>5

LEMMA ListInvHolds == ListInv => ListIsSeries
<1> SUFFICES ASSUME ListInv, Whole PROVE ListIsSeries
  BY DEF ListIsSeries
<1>1. PICK ns : Strung(ns) /\ ListTypeOK
  BY DEF ListInv
<1>2. PICK L \in Nat : L = Len(series)
  BY <1>1 DEF ListTypeOK
<1>3. /\ owned = {ns[i] : i \in 1 .. L}
      /\ \A i \in 1 .. L : cells[ns[i]].item = series[i]
      /\ \A i \in 1 .. L : cells[ns[i]].next = IF i = L THEN NoList ELSE ns[i + 1]
      /\ \A i \in 1 .. L :
           cells[ns[i]].prev = IF i = 1 \/ kind = "slist" THEN NoList ELSE ns[i - 1]
      /\ first = IF L = 0 THEN NoList ELSE ns[1]
  BY <1>1, <1>2 DEF Strung, Listed
<1>4. Cardinality(owned) = L
  BY <1>1, <1>2, StrungCounts
<1>5. \A i \in 1 .. L : Nth[i] = ns[i]
  BY <1>1, <1>2, NthIs
<1>6. ASSUME NEW i \in 1 .. L
      PROVE  /\ Nth[i] \in owned /\ cells[Nth[i]].item = series[i]
             /\ cells[Nth[i]].prev = IF i = 1 THEN NoList ELSE Back(Nth[i - 1])
  <2>1. Nth[i] = ns[i] /\ ns[i] \in owned
    BY <1>3, <1>5
  <2>2. i # 1 => Nth[i - 1] = ns[i - 1]
    <3> SUFFICES ASSUME i # 1 PROVE Nth[i - 1] = ns[i - 1]
      OBVIOUS
    <3>1. i - 1 \in 1 .. L
      OBVIOUS
    <3> QED BY <1>5, <3>1
  <2> QED BY <1>3, <2>1, <2>2 DEF Back
<1>7. L > 0 => cells[Nth[L]].next = NoList
  <2>1. L > 0 => L \in 1 .. L
    OBVIOUS
  <2> QED BY <1>3, <1>5, <2>1
<1>8. L = 0 => first = NoList
  BY <1>3
<1> QED BY <1>2, <1>4, <1>6, <1>7, <1>8, Zenon DEF ListIsSeries

(* Whichever of the three lists is built, by prepends, appends, copies and *)
(* dtors in any order: its items are those of the sequence the calls make, *)
(* linked both ways where there is a way back, and no node is lost, as     *)
(* long as nothing but nodes was linked (lib_funcs.c:43-159).              *)
THEOREM ListIsSeriesHolds == ListSpec => []ListIsSeries
BY ListInitInv, ListInvKept, ListInvHolds, PTL DEF ListSpec

-----------------------------------------------------------------------------
(* A loop of n turns, t[k] being the k-th of them: there is a function     *)
(* that says what each turn leaves.                                        *)
TurnsOf(S, s, t, n, f) ==
  /\ f \in [0 .. n -> S]
  /\ \A k \in 0 .. n : f[k] = IF k = 0 THEN s ELSE t[k][f[k - 1]]

LEMMA LoopTurns ==
  ASSUME NEW S, NEW s \in S, NEW N \in Nat, NEW t \in [1 .. N -> [S -> S]]
  PROVE  \E f : TurnsOf(S, s, t, N, f)
<1> DEFINE Upto(m) == \E f : TurnsOf(S, s, t, m, f)
           Bad == {m \in 0 .. N : ~ Upto(m)}
<1>1. Bad = {}
  <2> SUFFICES ASSUME Bad # {} PROVE FALSE
    OBVIOUS
  <2> HIDE DEF Upto
  <2>1. PICK m \in Bad : \A k \in Bad : m <= k
    <3>1. Bad \subseteq Nat
      OBVIOUS
    <3> HIDE DEF Bad
    <3> QED BY <3>1, LeastNat
  <2>2. m \in 0 .. N /\ ~ Upto(m) /\ (m > 0 => Upto(m - 1))
    BY <2>1
  <2> USE DEF Upto
  <2> HIDE DEF Bad
  <2>3. CASE m = 0
    <3> DEFINE f == [k \in 0 .. 0 |-> s]
    <3>1. TurnsOf(S, s, t, 0, f)
      BY DEF TurnsOf
    <3> QED BY <2>2, <2>3, <3>1
  <2>4. CASE m > 0
    <3>1. PICK f : TurnsOf(S, s, t, m - 1, f)
      BY <2>2, <2>4
    <3>2. t[m] \in [S -> S] /\ f[m - 1] \in S /\ m - 1 \in 0 .. m - 1
      BY <2>2, <2>4, <3>1 DEF TurnsOf
    <3> DEFINE h == [k \in 0 .. m |-> IF k = m THEN t[m][f[m - 1]] ELSE f[k]]
    <3>3. ASSUME NEW k \in 0 .. m, k # m PROVE k \in 0 .. m - 1 /\ h[k] = f[k] /\ f[k] \in S
      <4>1. k \in 0 .. m - 1
        BY <2>2, <3>3
      <4> QED BY <3>1, <3>3, <4>1 DEF TurnsOf
    <3>4. h[m] = t[m][f[m - 1]] /\ h[m] \in S
      BY <2>2, <3>2
    <3>5. h \in [0 .. m -> S]
      BY <3>3, <3>4
    <3>6. ASSUME NEW k \in 0 .. m PROVE h[k] = IF k = 0 THEN s ELSE t[k][h[k - 1]]
      <4>1. CASE k = 0
        BY <2>4, <3>1, <3>3, <4>1 DEF TurnsOf
      <4>2. CASE k # 0
        <5>1. k - 1 \in 0 .. m /\ k - 1 # m
          BY <2>2, <4>2
        <5>2. h[k - 1] = f[k - 1]
          BY <3>3, <5>1
        <5>3. h[k] = t[k][f[k - 1]]
          <6>1. CASE k = m
            BY <3>4, <6>1
          <6>2. CASE k # m
            BY <3>1, <3>3, <4>2, <6>2 DEF TurnsOf
          <6> QED BY <6>1, <6>2
        <5> QED BY <4>2, <5>2, <5>3
      <4> QED BY <4>1, <4>2
    <3> HIDE DEF h
    <3>7. TurnsOf(S, s, t, m, h)
      BY <3>5, <3>6 DEF TurnsOf
    <3> QED BY <2>2, <3>7
  <2> QED BY <2>2, <2>3, <2>4
<1> HIDE DEF Upto
<1>2. Upto(N)
  BY <1>1
<1> QED BY <1>2 DEF Upto

(* A loop whose k-th turn leads from P[k - 1] to P[k] ends in P[N].        *)
LEMMA TurnsHold ==
  ASSUME NEW N \in Nat, NEW P, NEW g, g[0] \in P[0],
         \A k \in 1 .. N : g[k - 1] \in P[k - 1] => g[k] \in P[k]
  PROVE  \A k \in 0 .. N : g[k] \in P[k]
<1> DEFINE Bad == {k \in 0 .. N : g[k] \notin P[k]}
<1>1. Bad = {}
  <2> SUFFICES ASSUME Bad # {} PROVE FALSE
    OBVIOUS
  <2>1. PICK k \in Bad : \A j \in Bad : k <= j
    <3>1. Bad \subseteq Nat
      OBVIOUS
    <3> HIDE DEF Bad
    <3> QED BY <3>1, LeastNat
  <2>2. k \in 0 .. N /\ g[k] \notin P[k]
    BY <2>1
  <2>3. k # 0
    BY <2>2
  <2>4. k - 1 \in 0 .. N /\ ~ (k <= k - 1) /\ k \in 1 .. N
    BY <2>2, <2>3
  <2>5. g[k - 1] \in P[k - 1]
    BY <2>1, <2>4
  <2> QED BY <2>2, <2>4, <2>5
<1> QED BY <1>1

(* There is the recursive function of such a loop.                         *)
LEMMA TurnsExist ==
  ASSUME NEW S, NEW s \in S, NEW N \in Nat, NEW P \in [0 .. N -> SUBSET S], s \in P[0],
         NEW t \in [1 .. N -> [S -> S]],
         \A k \in 1 .. N : \A x \in P[k - 1] : t[k][x] \in P[k]
  PROVE  \E f : TurnsOf(S, s, t, N, f) /\ \A k \in 0 .. N : f[k] \in P[k]
<1>1. PICK f : TurnsOf(S, s, t, N, f)
  BY LoopTurns
<1>2. /\ f[0] = s /\ \A k \in 1 .. N : f[k] = t[k][f[k - 1]]
  BY <1>1 DEF TurnsOf
<1>3. \A k \in 0 .. N : f[k] \in P[k]
  BY <1>2, TurnsHold
<1> QED BY <1>1, <1>3

(* A loop that a measure bounds, and each of whose turns but the last lets *)
(* the measure fall, has come to its end after that many turns.            *)
LEMMA LoopEnds ==
  ASSUME NEW S, NEW t \in [S -> S], NEW mu \in [S -> Nat],
         \A s \in S : t[s] = s \/ mu[t[s]] < mu[s],
         NEW N \in Nat, NEW g, g[0] \in S, mu[g[0]] < N,
         \A k \in 1 .. N : g[k - 1] \in S => g[k] = t[g[k - 1]]
  PROVE  g[N] \in S /\ t[g[N]] = g[N]
<1> DEFINE Good(k) == g[k] \in S /\ (mu[g[k]] + k <= mu[g[0]] \/ t[g[k]] = g[k])
           Bad == {k \in 0 .. N : ~ Good(k)}
<1>1. Bad = {}
  <2> SUFFICES ASSUME Bad # {} PROVE FALSE
    OBVIOUS
  <2> HIDE DEF Good
  <2>1. PICK k \in Bad : \A j \in Bad : k <= j
    <3>1. Bad \subseteq Nat
      OBVIOUS
    <3> HIDE DEF Bad
    <3> QED BY <3>1, LeastNat
  <2>2. k \in 0 .. N /\ ~ Good(k) /\ (k > 0 => Good(k - 1))
    BY <2>1
  <2> USE DEF Good
  <2> HIDE DEF Bad
  <2>3. CASE k = 0
    BY <2>2, <2>3
  <2>4. CASE k > 0
    <3>1. PICK a \in S : a = g[k - 1]
      BY <2>2, <2>4
    <3>2. g[k] = t[a] /\ t[a] \in S
      <4>1. k \in 1 .. N
        BY <2>2, <2>4
      <4> QED BY <3>1, <4>1
    <3>3. mu[a] \in Nat /\ mu[t[a]] \in Nat /\ mu[g[0]] \in Nat
      BY <3>2
    <3>4. CASE t[a] = a
      BY <2>2, <3>2, <3>4
    <3>5. CASE t[a] # a
      <4>1. mu[t[a]] < mu[a]
        BY <3>5
      <4>2. mu[a] + (k - 1) <= mu[g[0]]
        BY <2>2, <2>4, <3>1, <3>5
      <4>3. mu[t[a]] + k <= mu[g[0]]
        BY <2>2, <3>3, <4>1, <4>2
      <4> QED BY <2>2, <3>2, <4>3
    <3> QED BY <3>4, <3>5
  <2> QED BY <2>2, <2>3, <2>4
<1> HIDE DEF Good
<1>2. Good(N)
  BY <1>1
<1>3. g[N] \in S /\ (mu[g[N]] + N <= mu[g[0]] \/ t[g[N]] = g[N])
  BY <1>2 DEF Good
<1>4. mu[g[N]] \in Nat /\ mu[g[0]] \in Nat
  BY <1>3
<1> QED BY <1>3, <1>4

-----------------------------------------------------------------------------
Arrays(m) == [1 .. m -> HeapItems]
Where(F, m, u) == {i \in 1 .. m : F[i] = u}

(* The two arrays hold the same items, each of them as often.              *)
Shuffled(F, G, m) ==
  \A u \in HeapItems : Cardinality(Where(F, m, u)) = Cardinality(Where(G, m, u))

LEMMA WhereFinite ==
  ASSUME NEW F, NEW m \in Nat, NEW u
  PROVE  IsFiniteSet(Where(F, m, u)) /\ Cardinality(Where(F, m, u)) \in Nat
<1>1. IsFiniteSet(1 .. m)
  BY FS_Interval
<1>2. Where(F, m, u) \in SUBSET (1 .. m)
  BY DEF Where
<1>3. IsFiniteSet(Where(F, m, u))
  BY <1>1, <1>2, FS_Subset
<1> QED BY <1>3, FS_CardinalityType

LEMMA ArraysAre ==
  ASSUME NEW m \in Nat, NEW F \in Arrays(m)
  PROVE  F \in Seq(HeapItems) /\ Len(F) = m /\ DOMAIN F = 1 .. m
BY DEF Arrays

LEMMA CellsAre ==
  ASSUME NEW m \in Nat, NEW F \in Arrays(m)
  PROVE  \A i \in 0 .. m - 1 : Cell(F, i) \in HeapItems
<1>1. \A i \in 0 .. m - 1 : i + 1 \in 1 .. m
  OBVIOUS
<1> QED BY <1>1 DEF Arrays, Cell

LEMMA PutIs ==
  ASSUME NEW m \in Nat, NEW F \in Arrays(m), NEW h \in 0 .. m - 1, NEW v \in HeapItems
  PROVE  /\ Put(F, h, v) \in Arrays(m)
         /\ Cell(Put(F, h, v), h) = v
         /\ \A i \in 0 .. m - 1 : i # h => Cell(Put(F, h, v), i) = Cell(F, i)
         /\ \A i \in 0 .. m - 1 : Cell(F, i) \in HeapItems
<1>1. F \in [1 .. m -> HeapItems] /\ h + 1 \in 1 .. m
  BY DEF Arrays
<1>2. Put(F, h, v) = [F EXCEPT ![h + 1] = v]
  BY DEF Put
<1>3. /\ Put(F, h, v) \in [1 .. m -> HeapItems]
      /\ \A j \in 1 .. m : Put(F, h, v)[j] = IF j = h + 1 THEN v ELSE F[j]
  BY <1>1, <1>2
<1>4. ASSUME NEW i \in 0 .. m - 1 PROVE i + 1 \in 1 .. m /\ (i # h => i + 1 # h + 1)
  OBVIOUS
<1>5. Cell(Put(F, h, v), h) = v
  BY <1>1, <1>3 DEF Cell
<1>6. ASSUME NEW i \in 0 .. m - 1
      PROVE  /\ i # h => Cell(Put(F, h, v), i) = Cell(F, i)
             /\ Cell(F, i) \in HeapItems
  BY <1>1, <1>3, <1>4 DEF Cell
<1> QED BY <1>3, <1>5, <1>6 DEF Arrays

(* Two items that change places leave each as often as it was.             *)
LEMMA SwapShuffles ==
  ASSUME NEW m \in Nat, NEW F, NEW G, NEW p \in 1 .. m, NEW q \in 1 .. m,
         G[p] = F[q], G[q] = F[p], \A i \in 1 .. m : i # p /\ i # q => G[i] = F[i]
  PROVE  Shuffled(F, G, m)
<1> SUFFICES ASSUME NEW u \in HeapItems
             PROVE  Cardinality(Where(F, m, u)) = Cardinality(Where(G, m, u))
  BY DEF Shuffled
<1> DEFINE A == Where(F, m, u)
           B == Where(G, m, u)
           other(i) == IF i = p THEN q ELSE IF i = q THEN p ELSE i
           f == [i \in A |-> other(i)]
<1>1. \A i \in 1 .. m : /\ other(i) \in 1 .. m /\ other(other(i)) = i
                        /\ G[other(i)] = F[i] /\ F[other(i)] = G[i]
  OBVIOUS
<1> HIDE DEF other
<1>2. f \in [A -> B] /\ \A i \in A : f[i] = other(i) /\ i \in 1 .. m
  BY <1>1 DEF Where
<1>3. \A i, j \in A : f[i] = f[j] => i = j
  BY <1>1, <1>2
<1>4. \A j \in B : \E i \in A : f[i] = j
  <2> SUFFICES ASSUME NEW j \in B PROVE other(j) \in A /\ f[other(j)] = j
    OBVIOUS
  <2>1. other(j) \in A /\ other(other(j)) = j
    BY <1>1 DEF Where
  <2> QED BY <1>2, <2>1
<1> HIDE DEF f
<1>5. f \in Bijection(A, B)
  BY <1>2, <1>3, <1>4 DEF Bijection, Injection, Surjection, IsInjective
<1>6. ExistsBijection(A, B)
  BY <1>5 DEF ExistsBijection
<1>7. IsFiniteSet(A)
  BY WhereFinite
<1> HIDE DEF A, B
<1>8. Cardinality(B) = Cardinality(A)
  BY <1>6, <1>7, FS_Bijection
<1> QED BY <1>8 DEF A, B

(* One item more counts once.                                              *)
LEMMA OneMore ==
  ASSUME NEW m \in Nat, NEW F, NEW G, \A i \in 1 .. m : G[i] = F[i], NEW u
  PROVE  Cardinality(Where(G, m + 1, u)) =
           Cardinality(Where(F, m, u)) + (IF G[m + 1] = u THEN 1 ELSE 0)
<1> DEFINE A == Where(F, m, u)
<1>1. IsFiniteSet(A) /\ Cardinality(A) \in Nat
  BY WhereFinite
<1>2. ~ (m + 1 \in A)
  BY DEF Where
<1>3. CASE G[m + 1] = u
  <2>1. Where(G, m + 1, u) = A \cup {m + 1}
    BY <1>3 DEF Where
  <2> HIDE DEF A
  <2>2. Cardinality(A \cup {m + 1}) = Cardinality(A) + 1
    BY <1>1, <1>2, FS_AddElement
  <2> QED BY <1>3, <2>1, <2>2 DEF A
<1>4. CASE G[m + 1] # u
  <2>1. Where(G, m + 1, u) = A
    BY <1>4 DEF Where
  <2> QED BY <1>1, <1>4, <2>1
<1> QED BY <1>3, <1>4

(* Where the parent of a cell is, and where its children are.              *)
LEMMA AboveIs ==
  ASSUME NEW i \in Nat, i # 0
  PROVE  /\ Above(i) \in Nat /\ Above(i) < i
         /\ \A h \in Nat : Above(i) = h <=> i = 2 * h + 1 \/ i = 2 * h + 2
BY DEF Above

-----------------------------------------------------------------------------
(* A hole in the array, and the array with the value v in it.              *)
Holes(m) == [cells : Arrays(m), index : 0 .. m - 1]
Filled(s, v) == Put(s.cells, s.index, v)

(* No element from the r-th on has a child greater than itself.            *)
OrderedFrom(F, r, m) ==
  \A i \in 1 .. m - 1 : Above(i) >= r => Cell(F, i) <= Cell(F, Above(i))

(* The hole at h rises: the elements are in order but for the one at h and *)
(* its parent, also when the parent comes down to h.                       *)
OrderedBelow(F, h, m) ==
  /\ \A i \in 1 .. m - 1 : i # h => Cell(F, i) <= Cell(F, Above(i))
  /\ h # 0 => \A i \in 1 .. m - 1 : Above(i) = h => Cell(F, i) <= Cell(F, Above(h))

(* The hole at h sinks, from r: the same for the children of h.            *)
OrderedAbove(F, r, h, m) ==
  /\ h >= r
  /\ \A i \in 1 .. m - 1 : Above(i) >= r /\ Above(i) # h => Cell(F, i) <= Cell(F, Above(i))
  /\ h # 0 /\ Above(h) >= r =>
       \A i \in 1 .. m - 1 : Above(i) = h => Cell(F, i) <= Cell(F, Above(h))

(* The hole moves from h to q: the items at both change places.            *)
MovesHole(C, h, q, v, F, G, m) ==
  /\ F \in Arrays(m) /\ G \in Arrays(m) /\ Put(C, h, Cell(C, q)) \in Arrays(m)
  /\ Cell(F, h) = v /\ Cell(F, q) = Cell(C, q)
  /\ Cell(G, h) = Cell(C, q) /\ Cell(G, q) = v
  /\ \A i \in 0 .. m - 1 : i # h => Cell(F, i) = Cell(C, i)
  /\ \A i \in 0 .. m - 1 : i # h /\ i # q => Cell(G, i) = Cell(F, i)
  /\ Shuffled(F, G, m)

LEMMA HoleMoves ==
  ASSUME NEW m \in Nat, NEW C \in Arrays(m), NEW h \in 0 .. m - 1, NEW q \in 0 .. m - 1,
         q # h, NEW v \in HeapItems
  PROVE  MovesHole(C, h, q, v, Put(C, h, v), Put(Put(C, h, Cell(C, q)), q, v), m)
<1>0. PICK F, G : F = Put(C, h, v) /\ G = Put(Put(C, h, Cell(C, q)), q, v)
  OBVIOUS
<1>1. Cell(C, q) \in HeapItems
  BY PutIs
<1>2. PICK E : E = Put(C, h, Cell(C, q))
  OBVIOUS
<1>3. /\ E \in Arrays(m) /\ Cell(E, h) = Cell(C, q)
      /\ \A i \in 0 .. m - 1 : i # h => Cell(E, i) = Cell(C, i)
  BY <1>1, <1>2, PutIs
<1>4. /\ F \in Arrays(m) /\ Cell(F, h) = v
      /\ \A i \in 0 .. m - 1 : i # h => Cell(F, i) = Cell(C, i)
  BY <1>0, PutIs
<1>5. /\ G \in Arrays(m) /\ Cell(G, q) = v
      /\ \A i \in 0 .. m - 1 : i # q => Cell(G, i) = Cell(E, i)
  BY <1>0, <1>2, <1>3, PutIs
<1>6. Shuffled(F, G, m)
  <2>1. h + 1 \in 1 .. m /\ q + 1 \in 1 .. m
    OBVIOUS
  <2>2. G[h + 1] = F[q + 1] /\ G[q + 1] = F[h + 1]
    BY <1>3, <1>4, <1>5 DEF Cell
  <2>3. ASSUME NEW j \in 1 .. m, j # h + 1, j # q + 1 PROVE G[j] = F[j]
    <3>1. j - 1 \in 0 .. m - 1 /\ j - 1 # h /\ j - 1 # q /\ (j - 1) + 1 = j
      BY <2>3
    <3> QED BY <1>3, <1>4, <1>5, <3>1 DEF Cell
  <2> QED BY <2>1, <2>2, <2>3, SwapShuffles
<1>7. MovesHole(C, h, q, v, F, G, m)
  BY <1>2, <1>3, <1>4, <1>5, <1>6 DEF MovesHole
<1> QED BY <1>0, <1>7

LEMMA RisesTurn ==
  ASSUME NEW m \in Nat \ {0}, NEW v \in HeapItems, NEW s \in Holes(m),
         OrderedBelow(Filled(s, v), s.index, m)
  PROVE  /\ Rises(s, v) \in Holes(m)
         /\ Shuffled(Filled(s, v), Filled(Rises(s, v), v), m)
         /\ OrderedBelow(Filled(Rises(s, v), v), Rises(s, v).index, m)
         /\ Rises(s, v) = s \/ Rises(s, v).index < s.index
         /\ Rises(s, v) = s => OrderedFrom(Filled(s, v), 0, m)
<1>1. PICK C, h : C = s.cells /\ h = s.index /\ C \in Arrays(m) /\ h \in 0 .. m - 1
  BY DEF Holes
<1>2. PICK F : F = Put(C, h, v) /\ F = Filled(s, v)
  BY <1>1 DEF Filled
<1>3. /\ F \in Arrays(m) /\ Cell(F, h) = v /\ v \in Int
      /\ \A i \in 0 .. m - 1 : Cell(F, i) \in Int
      /\ \A i \in 0 .. m - 1 : i # h => Cell(F, i) = Cell(C, i)
  <2>1. m \in Nat /\ F = Put(C, h, v)
    BY <1>2
  <2>2. F \in Arrays(m) /\ Cell(F, h) = v
        /\ \A i \in 0 .. m - 1 : i # h => Cell(F, i) = Cell(C, i)
    <3>1. /\ Put(C, h, v) \in Arrays(m) /\ Cell(Put(C, h, v), h) = v
          /\ \A i \in 0 .. m - 1 : i # h => Cell(Put(C, h, v), i) = Cell(C, i)
      BY <1>1, <2>1, PutIs
    <3> QED BY <2>1, <3>1
  <2>3. \A i \in 0 .. m - 1 : Cell(F, i) \in HeapItems
    BY <1>1, <2>1, <2>2, PutIs, Zenon
  <2> QED BY <2>2, <2>3, HeapAssumption
<1>4. /\ \A i \in 1 .. m - 1 : i # h => Cell(F, i) <= Cell(F, Above(i))
      /\ h # 0 => \A i \in 1 .. m - 1 : Above(i) = h => Cell(F, i) <= Cell(F, Above(h))
  BY <1>1, <1>2 DEF OrderedBelow
<1>5. CASE h = 0 \/ Cell(C, Above(h)) >= v
  <2>1. Rises(s, v) = s
    BY <1>1, <1>5 DEF Rises
  <2>2. ASSUME NEW i \in 1 .. m - 1 PROVE Cell(F, i) <= Cell(F, Above(i))
    <3>1. CASE i # h
      BY <1>4, <3>1
    <3>2. CASE i = h
      <4>1. Above(h) \in 0 .. m - 1 /\ Above(h) # h /\ h # 0
        BY <1>1, <3>2, AboveIs
      <4> QED BY <1>3, <1>5, <3>2, <4>1
    <3> QED BY <3>1, <3>2
  <2>3. OrderedFrom(F, 0, m)
    BY <2>2, Zenon DEF OrderedFrom
  <2>4. Shuffled(F, F, m)
    BY Zenon DEF Shuffled
  <2> QED BY <1>2, <2>1, <2>3, <2>4, Zenon
<1>6. CASE ~ (h = 0 \/ Cell(C, Above(h)) >= v)
  <2>1. PICK p : p = Above(h)
    OBVIOUS
  <2>2. /\ p \in 0 .. m - 1 /\ p < h /\ h # 0 /\ h \in 1 .. m - 1
        /\ \A i \in 1 .. m - 1 : Above(i) \in 0 .. m - 1 /\ Above(i) < i
    BY <1>1, <1>6, <2>1, AboveIs
  <2>3. Rises(s, v) = [cells |-> Put(C, h, Cell(C, p)), index |-> p]
    BY <1>1, <1>6, <2>1 DEF Rises
  <2>4. PICK G : G = Put(Put(C, h, Cell(C, p)), p, v)
    OBVIOUS
  <2>5. /\ Put(C, h, Cell(C, p)) \in Arrays(m)
        /\ Cell(F, p) = Cell(C, p) /\ Cell(G, h) = Cell(C, p) /\ Cell(G, p) = v
        /\ \A i \in 0 .. m - 1 : i # h /\ i # p => Cell(G, i) = Cell(F, i)
        /\ Shuffled(F, G, m)
    <3>1. p # h /\ m \in Nat
      BY <1>1, <2>2
    <3>2. MovesHole(C, h, p, v, F, G, m)
      BY <1>1, <1>2, <2>2, <2>4, <3>1, HoleMoves
    <3> QED BY <3>2 DEF MovesHole
  <2>6. Filled(Rises(s, v), v) = G /\ Rises(s, v).index = p
    BY <2>3, <2>4 DEF Filled
  <2>7. Rises(s, v) \in Holes(m)
    BY <2>2, <2>3, <2>5 DEF Holes
  <2>8. Cell(F, p) < v
    <3>1. Cell(F, p) \in Int /\ Cell(C, p) \in Int
      BY <1>3, <2>2
    <3> QED BY <1>3, <1>6, <2>1, <2>5, <3>1
  <2>9. ASSUME NEW i \in 1 .. m - 1, i # p PROVE Cell(G, i) <= Cell(G, Above(i))
    <3>1. i \in 0 .. m - 1 /\ Above(i) \in 0 .. m - 1 /\ Above(i) # i
      BY <2>2
    <3>2. Cell(F, i) \in Int /\ Cell(F, Above(i)) \in Int /\ Cell(F, p) \in Int
      BY <1>3, <2>2, <3>1
    <3>3. CASE i = h
      <4>1. Cell(G, i) = Cell(F, p) /\ Cell(G, Above(i)) = v
        BY <2>1, <2>5, <3>3
      <4> QED BY <1>3, <2>8, <3>2, <4>1
    <3>4. CASE i # h /\ Above(i) = h
      <4>1. Cell(G, i) = Cell(F, i) /\ Cell(G, Above(i)) = Cell(F, p)
        BY <2>5, <2>9, <3>1, <3>4
      <4> QED BY <1>4, <2>1, <2>2, <3>4, <4>1
    <3>5. CASE i # h /\ Above(i) = p
      <4>1. Cell(G, i) = Cell(F, i) /\ Cell(G, Above(i)) = v
        BY <2>5, <2>9, <3>1, <3>5
      <4>2. Cell(F, i) <= Cell(F, p)
        BY <1>4, <3>5
      <4> QED BY <1>3, <2>8, <3>2, <4>1, <4>2
    <3>6. CASE i # h /\ Above(i) # h /\ Above(i) # p
      <4>1. Cell(G, i) = Cell(F, i) /\ Cell(G, Above(i)) = Cell(F, Above(i))
        BY <2>5, <2>9, <3>1, <3>6
      <4> QED BY <1>4, <3>6, <4>1
    <3> QED BY <3>3, <3>4, <3>5, <3>6
  <2>10. ASSUME p # 0, NEW i \in 1 .. m - 1, Above(i) = p
         PROVE  Cell(G, i) <= Cell(G, Above(p))
    <3>1. p \in 1 .. m - 1 /\ i # p
      BY <2>2, <2>10
    <3>2. Above(p) \in 0 .. m - 1 /\ Above(p) < p /\ i \in 0 .. m - 1
      BY <2>2, <3>1
    <3>3. Above(p) # h /\ Above(p) # p
      BY <1>1, <2>2, <3>2
    <3>4. Cell(G, Above(p)) = Cell(F, Above(p)) /\ Cell(F, p) <= Cell(F, Above(p))
      BY <1>4, <2>2, <2>5, <3>1, <3>2, <3>3
    <3>5. CASE i = h
      BY <2>5, <3>4, <3>5
    <3>6. CASE i # h
      <4>1. Cell(G, i) = Cell(F, i) /\ Cell(F, i) <= Cell(F, p)
        BY <1>4, <2>5, <2>10, <3>1, <3>2, <3>6
      <4>2. Cell(F, i) \in Int /\ Cell(F, p) \in Int /\ Cell(F, Above(p)) \in Int
        BY <1>3, <2>2, <3>2
      <4> QED BY <3>4, <4>1, <4>2
    <3> QED BY <3>5, <3>6
  <2>11. OrderedBelow(G, p, m)
    BY <2>9, <2>10 DEF OrderedBelow
  <2>12. Rises(s, v) # s
    BY <1>1, <2>2, <2>6
  <2> QED BY <1>1, <1>2, <2>2, <2>5, <2>6, <2>7, <2>11, <2>12
<1> QED BY <1>5, <1>6

LEMMA GreaterChildIs ==
  ASSUME NEW m \in Nat, NEW C \in Arrays(m), NEW h \in 0 .. m - 1
  PROVE  /\ GreaterChild(C, h) \in Nat
         /\ GreaterChild(C, h) < m =>
              /\ GreaterChild(C, h) \in 1 .. m - 1 /\ Above(GreaterChild(C, h)) = h
              /\ \A i \in 1 .. m - 1 : Above(i) = h => Cell(C, i) <= Cell(C, GreaterChild(C, h))
         /\ GreaterChild(C, h) >= m => \A i \in 1 .. m - 1 : Above(i) # h
<1>1. Len(C) = m /\ h \in Nat /\ \A i \in 0 .. m - 1 : Cell(C, i) \in Int
  <2>1. \A i \in 0 .. m - 1 : Cell(C, i) \in HeapItems
    BY CellsAre
  <2>2. Len(C) = m
    BY ArraysAre
  <2>3. \A i \in 0 .. m - 1 : Cell(C, i) \in Int
    BY <2>1, HeapAssumption
  <2>4. h \in Nat
    OBVIOUS
  <2> QED BY <2>2, <2>3, <2>4, Zenon
<1>2. PICK a \in Nat : a = 2 * h + 1
  BY <1>1
<1>3. PICK q : q = GreaterChild(C, h)
  OBVIOUS
<1>4. q = IF a + 1 < m /\ Cell(C, a + 1) >= Cell(C, a) THEN a + 1 ELSE a
  BY <1>1, <1>2, <1>3 DEF GreaterChild
<1>5. q \in Nat /\ (q = a \/ q = a + 1)
  BY <1>2, <1>4
<1>6. ASSUME NEW i \in 1 .. m - 1 PROVE Above(i) = h <=> i = a \/ i = a + 1
  BY <1>1, <1>2, AboveIs
<1>7. ASSUME q < m
      PROVE  /\ q \in 1 .. m - 1 /\ Above(q) = h
             /\ \A i \in 1 .. m - 1 : Above(i) = h => Cell(C, i) <= Cell(C, q)
  <2>1. q \in 1 .. m - 1
    BY <1>1, <1>2, <1>5, <1>7
  <2>2. Above(q) = h
    BY <1>5, <1>6, <2>1
  <2>3. ASSUME NEW i \in 1 .. m - 1, Above(i) = h PROVE Cell(C, i) <= Cell(C, q)
    <3>1. i = a \/ i = a + 1
      BY <1>6, <2>3
    <3>2. i \in 0 .. m - 1 /\ q \in 0 .. m - 1 /\ Cell(C, i) \in Int /\ Cell(C, q) \in Int
      BY <1>1, <2>1
    <3>3. CASE i = q
      BY <3>2, <3>3
    <3>4. CASE i = a /\ q = a + 1
      BY <1>2, <1>4, <3>4
    <3>5. CASE i = a + 1 /\ q = a
      <4>1. a + 1 < m /\ a \in 0 .. m - 1 /\ a + 1 \in 0 .. m - 1 /\ a # a + 1
        BY <1>2, <3>2, <3>5
      <4>2. ~ (Cell(C, a + 1) >= Cell(C, a))
        BY <1>2, <1>4, <3>5, <4>1
      <4>3. Cell(C, a) \in Int /\ Cell(C, a + 1) \in Int
        BY <1>1, <4>1
      <4> QED BY <3>5, <4>2, <4>3
    <3> QED BY <1>5, <3>1, <3>3, <3>4, <3>5
  <2> QED BY <2>1, <2>2, <2>3
<1>8. ASSUME q >= m, NEW i \in 1 .. m - 1 PROVE Above(i) # h
  <2>1. ~ (a + 1 < m) => q = a
    BY <1>2, <1>4
  <2>2. a >= m
    BY <1>2, <1>4, <1>5, <1>8
  <2> QED BY <1>2, <1>6, <2>2
<1> QED BY <1>3, <1>5, <1>7, <1>8

LEMMA SinksTurn ==
  ASSUME NEW m \in Nat \ {0}, NEW v \in HeapItems, NEW r \in Nat, NEW s \in Holes(m),
         OrderedAbove(Filled(s, v), r, s.index, m)
  PROVE  /\ Sinks(s, v) \in Holes(m)
         /\ Shuffled(Filled(s, v), Filled(Sinks(s, v), v), m)
         /\ OrderedAbove(Filled(Sinks(s, v), v), r, Sinks(s, v).index, m)
         /\ Sinks(s, v) = s \/ s.index < Sinks(s, v).index
         /\ Sinks(s, v) = s => OrderedFrom(Filled(s, v), r, m)
<1>1. PICK C, h : C = s.cells /\ h = s.index /\ C \in Arrays(m) /\ h \in 0 .. m - 1
  BY DEF Holes
<1>2. PICK F : F = Put(C, h, v) /\ F = Filled(s, v)
  BY <1>1 DEF Filled
<1>3. /\ F \in Arrays(m) /\ Cell(F, h) = v /\ v \in Int
      /\ \A i \in 0 .. m - 1 : Cell(F, i) \in Int
      /\ \A i \in 0 .. m - 1 : i # h => Cell(F, i) = Cell(C, i)
  <2>1. m \in Nat /\ F = Put(C, h, v)
    BY <1>2
  <2>2. F \in Arrays(m) /\ Cell(F, h) = v
        /\ \A i \in 0 .. m - 1 : i # h => Cell(F, i) = Cell(C, i)
    <3>1. /\ Put(C, h, v) \in Arrays(m) /\ Cell(Put(C, h, v), h) = v
          /\ \A i \in 0 .. m - 1 : i # h => Cell(Put(C, h, v), i) = Cell(C, i)
      BY <1>1, <2>1, PutIs
    <3> QED BY <2>1, <3>1
  <2>3. \A i \in 0 .. m - 1 : Cell(F, i) \in HeapItems
    BY <1>1, <2>1, <2>2, PutIs, Zenon
  <2> QED BY <2>2, <2>3, HeapAssumption
<1>4. /\ h >= r /\ h \in Nat
      /\ \A i \in 1 .. m - 1 : Above(i) >= r /\ Above(i) # h => Cell(F, i) <= Cell(F, Above(i))
      /\ h # 0 /\ Above(h) >= r =>
           \A i \in 1 .. m - 1 : Above(i) = h => Cell(F, i) <= Cell(F, Above(h))
  BY <1>1, <1>2 DEF OrderedAbove
<1>5. \A i \in 1 .. m - 1 : Above(i) \in 0 .. m - 1 /\ Above(i) < i /\ i \in 0 .. m - 1
  BY AboveIs
<1>6. PICK q : q = GreaterChild(C, h)
  OBVIOUS
<1>7. /\ q \in Nat
      /\ q < m => /\ q \in 1 .. m - 1 /\ Above(q) = h
                  /\ \A i \in 1 .. m - 1 : Above(i) = h => Cell(C, i) <= Cell(C, q)
      /\ q >= m => \A i \in 1 .. m - 1 : Above(i) # h
      /\ Len(C) = m
  <2>1. m \in Nat
    OBVIOUS
  <2> QED BY <1>1, <1>6, <2>1, GreaterChildIs, ArraysAre
<1>8. CASE q >= m \/ v >= Cell(C, q)
  <2>1. Sinks(s, v) = s
    BY <1>1, <1>6, <1>7, <1>8 DEF Sinks
  <2>2. ASSUME NEW i \in 1 .. m - 1, Above(i) >= r PROVE Cell(F, i) <= Cell(F, Above(i))
    <3>1. CASE Above(i) # h
      BY <1>4, <2>2, <3>1
    <3>2. CASE Above(i) = h
      <4>1. q < m /\ q # h /\ q \in 0 .. m - 1 /\ v >= Cell(C, q)
        BY <1>1, <1>5, <1>7, <1>8, <3>2
      <4>2. Cell(C, i) <= Cell(C, q) /\ Cell(F, i) = Cell(C, i)
        BY <1>1, <1>3, <1>5, <1>7, <3>2, <4>1
      <4>3. Cell(F, i) \in Int /\ Cell(C, q) \in Int
        BY <1>3, <1>5, <4>1
      <4> QED BY <1>3, <3>2, <4>1, <4>2, <4>3
    <3> QED BY <3>1, <3>2
  <2>3. OrderedFrom(F, r, m)
    BY <2>2, Zenon DEF OrderedFrom
  <2>4. Shuffled(F, F, m)
    BY Zenon DEF Shuffled
  <2> QED BY <1>2, <2>1, <2>3, <2>4, Zenon
<1>9. CASE ~ (q >= m \/ v >= Cell(C, q))
  <2>1. q < m
    BY <1>7, <1>9
  <2>2. /\ q \in 1 .. m - 1 /\ q \in 0 .. m - 1 /\ Above(q) = h /\ h < q /\ q # h /\ m \in Nat
        /\ \A i \in 1 .. m - 1 : Above(i) = h => Cell(C, i) <= Cell(C, q)
    BY <1>1, <1>5, <1>7, <2>1
  <2>3. Sinks(s, v) = [cells |-> Put(C, h, Cell(C, q)), index |-> q]
    BY <1>1, <1>6, <1>7, <1>9 DEF Sinks
  <2>4. PICK G : G = Put(Put(C, h, Cell(C, q)), q, v)
    OBVIOUS
  <2>5. /\ Put(C, h, Cell(C, q)) \in Arrays(m)
        /\ Cell(F, q) = Cell(C, q) /\ Cell(G, h) = Cell(C, q) /\ Cell(G, q) = v
        /\ \A i \in 0 .. m - 1 : i # h /\ i # q => Cell(G, i) = Cell(F, i)
        /\ Shuffled(F, G, m)
    <3>1. MovesHole(C, h, q, v, F, G, m)
      BY <1>1, <1>2, <2>2, <2>4, HoleMoves
    <3> QED BY <3>1 DEF MovesHole
  <2>6. Filled(Sinks(s, v), v) = G /\ Sinks(s, v).index = q
    BY <2>3, <2>4 DEF Filled
  <2>7. Sinks(s, v) \in Holes(m)
    BY <2>2, <2>3, <2>5 DEF Holes
  <2>8. v < Cell(F, q) /\ Cell(F, q) \in Int
    <3>1. Cell(F, q) \in Int /\ Cell(C, q) \in Int
      BY <1>3, <2>2
    <3> QED BY <1>3, <1>9, <2>5, <3>1
  <2>9. ASSUME NEW i \in 1 .. m - 1, Above(i) >= r, Above(i) # q
        PROVE  Cell(G, i) <= Cell(G, Above(i))
    <3>1. i \in 0 .. m - 1 /\ Above(i) \in 0 .. m - 1 /\ Above(i) < i /\ Above(i) # i
      BY <1>5
    <3>2. Cell(F, i) \in Int /\ Cell(F, Above(i)) \in Int
      BY <1>3, <3>1
    <3>3. CASE i = q
      <4>1. Cell(G, i) = v /\ Cell(G, Above(i)) = Cell(F, q)
        BY <2>2, <2>5, <3>3
      <4> QED BY <1>3, <2>8, <4>1
    <3>4. CASE i # q /\ Above(i) = h
      <4>1. i # h
        BY <3>1, <3>4
      <4>2. Cell(G, i) = Cell(F, i) /\ Cell(G, Above(i)) = Cell(F, q)
        BY <2>5, <3>1, <3>4, <4>1
      <4>3. Cell(F, i) = Cell(C, i) /\ Cell(C, i) <= Cell(C, q)
        BY <1>3, <2>2, <3>1, <3>4, <4>1
      <4> QED BY <2>5, <4>2, <4>3
    <3>5. CASE i = h
      <4>1. Cell(G, i) = Cell(F, q) /\ Cell(G, Above(i)) = Cell(F, Above(h)) /\ h # 0
        BY <2>5, <2>9, <3>1, <3>5
      <4>2. Cell(F, q) <= Cell(F, Above(h))
        BY <1>4, <2>2, <2>9, <3>5, <4>1
      <4> QED BY <4>1, <4>2
    <3>6. CASE i # q /\ i # h /\ Above(i) # h
      <4>1. Cell(G, i) = Cell(F, i) /\ Cell(G, Above(i)) = Cell(F, Above(i))
        BY <2>5, <2>9, <3>1, <3>6
      <4> QED BY <1>4, <2>9, <3>6, <4>1
    <3> QED BY <3>3, <3>4, <3>5, <3>6
  <2>10. ASSUME NEW i \in 1 .. m - 1, Above(i) = q
         PROVE  Cell(G, i) <= Cell(G, Above(q))
    <3>1. i # q /\ i # h /\ i \in 0 .. m - 1 /\ q >= r /\ q # h
      BY <1>1, <1>4, <1>5, <2>2, <2>10
    <3>2. Cell(G, i) = Cell(F, i) /\ Cell(G, Above(q)) = Cell(F, q)
      BY <2>2, <2>5, <3>1
    <3>3. Cell(F, i) <= Cell(F, q)
      BY <1>4, <2>10, <3>1
    <3> QED BY <3>2, <3>3
  <2>11. q >= r
    BY <1>4, <2>2
  <2>12. OrderedAbove(G, r, q, m)
    BY <2>9, <2>10, <2>11, Zenon DEF OrderedAbove
  <2>13. Sinks(s, v) # s
    BY <1>1, <2>2, <2>6
  <2> QED BY <1>1, <1>2, <2>2, <2>5, <2>6, <2>7, <2>12, <2>13
<1> QED BY <1>8, <1>9

LEMMA ShuffledOn ==
  ASSUME NEW m, NEW F, NEW G, NEW H, Shuffled(F, G, m), Shuffled(G, H, m)
  PROVE  Shuffled(F, H, m)
BY DEF Shuffled

(* The loop of _heap_push (lib_heap.c:36).                                 *)
LEMMA SiftUpIs ==
  ASSUME NEW m \in Nat \ {0}, NEW D \in Arrays(m), NEW h \in 0 .. m - 1, NEW v \in HeapItems,
         OrderedBelow(Put(D, h, v), h, m)
  PROVE  \E F \in Arrays(m) : /\ F = SiftUp(D, h, v)
                              /\ Shuffled(Put(D, h, v), F, m) /\ OrderedFrom(F, 0, m)
<1> DEFINE s0 == [cells |-> D, index |-> h]
           S == {s \in Holes(m) : /\ OrderedBelow(Filled(s, v), s.index, m)
                                  /\ Shuffled(Put(D, h, v), Filled(s, v), m)}
           t == [s \in S |-> Rises(s, v)]
           mu == [s \in S |-> s.index]
           ts == [k \in 1 .. m |-> t]
           Is(g) == g = [n \in 0 .. Len(D) |-> IF n = 0 THEN s0 ELSE Rises(g[n - 1], v)]
<1>1. s0 \in S /\ s0.index = h
  <2>1. s0 \in Holes(m) /\ Filled(s0, v) = Put(D, h, v)
    BY DEF Holes, Filled
  <2> QED BY <2>1 DEF Shuffled
<1>2. ASSUME NEW s \in S
      PROVE  /\ Rises(s, v) \in S /\ (Rises(s, v) = s \/ Rises(s, v).index < s.index)
             /\ Rises(s, v) = s => OrderedFrom(Filled(s, v), 0, m)
             /\ s.index \in 0 .. m - 1
  <2>1. s \in Holes(m) /\ OrderedBelow(Filled(s, v), s.index, m)
        /\ Shuffled(Put(D, h, v), Filled(s, v), m)
    OBVIOUS
  <2>2. s.index \in 0 .. m - 1
    BY <2>1 DEF Holes
  <2>3. /\ Rises(s, v) \in Holes(m)
        /\ Shuffled(Filled(s, v), Filled(Rises(s, v), v), m)
        /\ OrderedBelow(Filled(Rises(s, v), v), Rises(s, v).index, m)
        /\ Rises(s, v) = s \/ Rises(s, v).index < s.index
        /\ Rises(s, v) = s => OrderedFrom(Filled(s, v), 0, m)
    BY <2>1, RisesTurn
  <2>4. Shuffled(Put(D, h, v), Filled(Rises(s, v), v), m)
    BY <2>1, <2>3, ShuffledOn
  <2> QED BY <2>2, <2>3, <2>4
<1>3. /\ \A s \in S : Rises(s, v) \in S /\ t[s] = Rises(s, v) /\ mu[s] = s.index
      /\ t \in [S -> S] /\ mu \in [S -> Nat]
  BY <1>2
<1>4. SiftUp(D, h, v) = Put((CHOOSE g : Is(g))[Len(D)].cells,
                            (CHOOSE g : Is(g))[Len(D)].index, v)
  BY DEF SiftUp
<1>0. Len(D) = m
  BY ArraysAre
<1> HIDE DEF S, t, mu, s0
<1>5. \E g : Is(g)
  <2>1. ts \in [1 .. m -> [S -> S]] /\ \A k \in 1 .. m : ts[k] = t
    BY <1>3
  <2> HIDE DEF ts
  <2>2. PICK f : TurnsOf(S, s0, ts, m, f)
    <3>1. m \in Nat
      OBVIOUS
    <3> QED BY <1>1, <2>1, <3>1, LoopTurns
  <2>3. ASSUME NEW n \in 0 .. m PROVE f[n] = IF n = 0 THEN s0 ELSE Rises(f[n - 1], v)
    <3>1. CASE n = 0
      BY <2>2, <3>1 DEF TurnsOf
    <3>2. CASE n # 0
      <4>1. n \in 1 .. m /\ n - 1 \in 0 .. m
        BY <3>2
      <4>2. f[n] = t[f[n - 1]] /\ f[n - 1] \in S
        BY <2>1, <2>2, <3>2, <4>1 DEF TurnsOf
      <4> QED BY <1>3, <3>2, <4>2
    <3> QED BY <3>1, <3>2
  <2>4. f = [n \in 0 .. m |-> f[n]]
    BY <2>2 DEF TurnsOf
  <2> QED BY <1>0, <2>3, <2>4
<1>6. PICK g : g = (CHOOSE f : Is(f)) /\ Is(g)
  <2> HIDE DEF Is
  <2> QED BY <1>5, Zenon
<1>7. /\ g[0] = s0
      /\ \A k \in 1 .. m : g[k] = Rises(g[k - 1], v)
  <2>1. 0 \in 0 .. Len(D)
    BY <1>0
  <2>2. \A k \in 1 .. m : k \in 0 .. Len(D) /\ k # 0
    BY <1>0
  <2>3. \A k \in 0 .. Len(D) : g[k] = IF k = 0 THEN s0 ELSE Rises(g[k - 1], v)
    BY <1>6, Zenon
  <2> QED BY <2>1, <2>2, <2>3, Zenon
<1>8. g[m] \in S /\ t[g[m]] = g[m]
  <2>1. \A s \in S : t[s] = s \/ mu[t[s]] < mu[s]
    BY <1>2, <1>3
  <2>2. g[0] \in S /\ mu[g[0]] < m /\ m \in Nat
    BY <1>1, <1>3, <1>7
  <2>3. \A k \in 1 .. m : g[k - 1] \in S => g[k] = t[g[k - 1]]
    BY <1>3, <1>7
  <2>4. t \in [S -> S] /\ mu \in [S -> Nat]
    BY <1>3
  <2> QED BY <2>1, <2>2, <2>3, <2>4, LoopEnds
<1>9. PICK F : F = Filled(g[m], v)
  OBVIOUS
<1>10. F = SiftUp(D, h, v)
  BY <1>0, <1>4, <1>6, <1>9, Zenon DEF Filled
<1>11. OrderedFrom(F, 0, m)
  BY <1>2, <1>3, <1>8, <1>9
<1>12. g[m] \in Holes(m) /\ Shuffled(Put(D, h, v), F, m)
  BY <1>8, <1>9 DEF S
<1>13. F \in Arrays(m)
  <2>1. g[m].cells \in Arrays(m) /\ g[m].index \in 0 .. m - 1 /\ m \in Nat
    BY <1>12 DEF Holes
  <2> QED BY <1>9, <2>1, PutIs DEF Filled
<1> QED BY <1>10, <1>11, <1>12, <1>13

(* The loop of _heap_pop (lib_heap.c:62) and the inner one of _heapify.    *)
LEMMA SiftDownIs ==
  ASSUME NEW m \in Nat \ {0}, NEW D \in Arrays(m), NEW h \in 0 .. m - 1, NEW v \in HeapItems,
         NEW r \in Nat, OrderedAbove(Put(D, h, v), r, h, m)
  PROVE  \E F \in Arrays(m) : /\ F = SiftDown(D, h, v)
                              /\ Shuffled(Put(D, h, v), F, m) /\ OrderedFrom(F, r, m)
<1> DEFINE s0 == [cells |-> D, index |-> h]
           S == {s \in Holes(m) : /\ OrderedAbove(Filled(s, v), r, s.index, m)
                                  /\ Shuffled(Put(D, h, v), Filled(s, v), m)}
           t == [s \in S |-> Sinks(s, v)]
           mu == [s \in S |-> m - 1 - s.index]
           ts == [k \in 1 .. m |-> t]
           Is(g) == g = [n \in 0 .. Len(D) |-> IF n = 0 THEN s0 ELSE Sinks(g[n - 1], v)]
<1>1. s0 \in S /\ s0.index = h
  <2>1. s0 \in Holes(m) /\ Filled(s0, v) = Put(D, h, v)
    BY DEF Holes, Filled
  <2> QED BY <2>1 DEF Shuffled
<1>2. ASSUME NEW s \in S
      PROVE  /\ Sinks(s, v) \in S /\ (Sinks(s, v) = s \/ s.index < Sinks(s, v).index)
             /\ Sinks(s, v) = s => OrderedFrom(Filled(s, v), r, m)
             /\ s.index \in 0 .. m - 1
  <2>1. s \in Holes(m) /\ OrderedAbove(Filled(s, v), r, s.index, m)
        /\ Shuffled(Put(D, h, v), Filled(s, v), m)
    OBVIOUS
  <2>2. s.index \in 0 .. m - 1
    BY <2>1 DEF Holes
  <2>3. /\ Sinks(s, v) \in Holes(m)
        /\ Shuffled(Filled(s, v), Filled(Sinks(s, v), v), m)
        /\ OrderedAbove(Filled(Sinks(s, v), v), r, Sinks(s, v).index, m)
        /\ Sinks(s, v) = s \/ s.index < Sinks(s, v).index
        /\ Sinks(s, v) = s => OrderedFrom(Filled(s, v), r, m)
    BY <2>1, SinksTurn
  <2>4. Shuffled(Put(D, h, v), Filled(Sinks(s, v), v), m)
    BY <2>1, <2>3, ShuffledOn
  <2> QED BY <2>2, <2>3, <2>4
<1>3. /\ \A s \in S : Sinks(s, v) \in S /\ t[s] = Sinks(s, v) /\ mu[s] = m - 1 - s.index
      /\ t \in [S -> S] /\ mu \in [S -> Nat]
  BY <1>2
<1>4. SiftDown(D, h, v) = Put((CHOOSE g : Is(g))[Len(D)].cells,
                            (CHOOSE g : Is(g))[Len(D)].index, v)
  BY DEF SiftDown
<1>0. Len(D) = m
  BY ArraysAre
<1> HIDE DEF S, t, mu, s0
<1>5. \E g : Is(g)
  <2>1. ts \in [1 .. m -> [S -> S]] /\ \A k \in 1 .. m : ts[k] = t
    BY <1>3
  <2> HIDE DEF ts
  <2>2. PICK f : TurnsOf(S, s0, ts, m, f)
    <3>1. m \in Nat
      OBVIOUS
    <3> QED BY <1>1, <2>1, <3>1, LoopTurns
  <2>3. ASSUME NEW n \in 0 .. m PROVE f[n] = IF n = 0 THEN s0 ELSE Sinks(f[n - 1], v)
    <3>1. CASE n = 0
      BY <2>2, <3>1 DEF TurnsOf
    <3>2. CASE n # 0
      <4>1. n \in 1 .. m /\ n - 1 \in 0 .. m
        BY <3>2
      <4>2. f[n] = t[f[n - 1]] /\ f[n - 1] \in S
        BY <2>1, <2>2, <3>2, <4>1 DEF TurnsOf
      <4> QED BY <1>3, <3>2, <4>2
    <3> QED BY <3>1, <3>2
  <2>4. f = [n \in 0 .. m |-> f[n]]
    BY <2>2 DEF TurnsOf
  <2> QED BY <1>0, <2>3, <2>4
<1>6. PICK g : g = (CHOOSE f : Is(f)) /\ Is(g)
  <2> HIDE DEF Is
  <2> QED BY <1>5, Zenon
<1>7. /\ g[0] = s0
      /\ \A k \in 1 .. m : g[k] = Sinks(g[k - 1], v)
  <2>1. 0 \in 0 .. Len(D)
    BY <1>0
  <2>2. \A k \in 1 .. m : k \in 0 .. Len(D) /\ k # 0
    BY <1>0
  <2>3. \A k \in 0 .. Len(D) : g[k] = IF k = 0 THEN s0 ELSE Sinks(g[k - 1], v)
    BY <1>6, Zenon
  <2> QED BY <2>1, <2>2, <2>3, Zenon
<1>8. g[m] \in S /\ t[g[m]] = g[m]
  <2>1. \A s \in S : t[s] = s \/ mu[t[s]] < mu[s]
    BY <1>2, <1>3
  <2>2. g[0] \in S /\ mu[g[0]] < m /\ m \in Nat
    BY <1>1, <1>3, <1>7
  <2>3. \A k \in 1 .. m : g[k - 1] \in S => g[k] = t[g[k - 1]]
    BY <1>3, <1>7
  <2>4. t \in [S -> S] /\ mu \in [S -> Nat]
    BY <1>3
  <2> QED BY <2>1, <2>2, <2>3, <2>4, LoopEnds
<1>9. PICK F : F = Filled(g[m], v)
  OBVIOUS
<1>10. F = SiftDown(D, h, v)
  BY <1>0, <1>4, <1>6, <1>9, Zenon DEF Filled
<1>11. OrderedFrom(F, r, m)
  BY <1>2, <1>3, <1>8, <1>9
<1>12. g[m] \in Holes(m) /\ Shuffled(Put(D, h, v), F, m)
  BY <1>8, <1>9 DEF S
<1>13. F \in Arrays(m)
  <2>1. g[m].cells \in Arrays(m) /\ g[m].index \in 0 .. m - 1 /\ m \in Nat
    BY <1>12 DEF Holes
  <2> QED BY <1>9, <2>1, PutIs DEF Filled
<1> QED BY <1>10, <1>11, <1>12, <1>13

(* Everything from r on but for r itself being in order, what r holds goes *)
(* down.                                                                   *)
LEMMA OrderedAboveInit ==
  ASSUME NEW m \in Nat \ {0}, NEW D \in Arrays(m), NEW r \in 0 .. m - 1, NEW v \in HeapItems,
         OrderedFrom(D, r + 1, m)
  PROVE  OrderedAbove(Put(D, r, v), r, r, m)
<1>1. PICK F : F = Put(D, r, v)
  OBVIOUS
<1>2. \A i \in 0 .. m - 1 : i # r => Cell(F, i) = Cell(D, i)
  <2>1. m \in Nat
    OBVIOUS
  <2> QED BY <1>1, <2>1, PutIs
<1>3. \A i \in 1 .. m - 1 : Above(i) \in 0 .. m - 1 /\ Above(i) < i /\ i \in 0 .. m - 1
  BY AboveIs
<1>4. ASSUME NEW i \in 1 .. m - 1, Above(i) >= r, Above(i) # r
      PROVE  Cell(F, i) <= Cell(F, Above(i))
  <2>1. Above(i) >= r + 1 /\ i # r
    BY <1>3, <1>4
  <2>2. Cell(F, i) = Cell(D, i) /\ Cell(F, Above(i)) = Cell(D, Above(i))
    BY <1>2, <1>3, <1>4, <2>1
  <2> QED BY <2>1, <2>2 DEF OrderedFrom
<1>5. r # 0 => ~ (Above(r) >= r)
  BY <1>3
<1> QED BY <1>1, <1>4, <1>5 DEF OrderedAbove

(* _heapify makes a heap of an array of two or more (lib_heap.c:77).       *)
LEMMA HeapifyFromIs ==
  ASSUME NEW m \in Nat, m >= 2, NEW D \in Arrays(m)
  PROVE  \E F \in Arrays(m) : /\ F = HeapifyFrom(D, m \div 2 - 1)
                              /\ Shuffled(D, F, m) /\ OrderedFrom(F, 0, m)
<1>1. PICK item \in 0 .. m - 1 : item = m \div 2 - 1 /\ m < 2 * (item + 2)
  OBVIOUS
<1>2. PICK N \in Nat : N = item + 1
  BY <1>1
<1> DEFINE S == {F \in Arrays(m) : Shuffled(D, F, m)}
           Turn(k, F) == SiftDown(F, item + 1 - k, Cell(F, item + 1 - k))
           ts == [k \in 1 .. N |-> [F \in S |-> Turn(k, F)]]
           Is(g) == g = [n \in 0 .. item + 1 |-> IF n = 0 THEN D ELSE Turn(n, g[n - 1])]
<1>3. ASSUME NEW F \in S, NEW k \in 1 .. N
      PROVE  /\ OrderedFrom(F, N - k + 1, m) =>
                  Turn(k, F) \in S /\ OrderedFrom(Turn(k, F), N - k, m)
  <2>1. PICK r \in 0 .. m - 1 : r = item + 1 - k /\ r = N - k
    BY <1>1, <1>2
  <2>2. PICK v \in HeapItems : v = Cell(F, r)
    BY CellsAre
  <2>3. F \in Arrays(m) /\ Shuffled(D, F, m) /\ m \in Nat \ {0}
    OBVIOUS
  <2>4. Put(F, r, v) = F
    <3>1. F[r + 1] = v /\ r + 1 \in 1 .. m /\ F \in [1 .. m -> HeapItems]
      BY <2>2, <2>3 DEF Cell, Arrays
    <3> QED BY <3>1 DEF Put
  <2>5. ASSUME OrderedFrom(F, N - k + 1, m)
        PROVE  Turn(k, F) \in S /\ OrderedFrom(Turn(k, F), N - k, m)
    <3>1. OrderedFrom(F, r + 1, m)
      BY <2>1, <2>5
    <3>2. OrderedAbove(Put(F, r, v), r, r, m) /\ r \in Nat
      BY <2>3, <3>1, OrderedAboveInit
    <3>3. PICK G \in Arrays(m) : /\ G = SiftDown(F, r, v)
                                 /\ Shuffled(Put(F, r, v), G, m) /\ OrderedFrom(G, r, m)
      <4> HIDE DEF S, Turn
      <4> QED BY <2>3, <3>2, SiftDownIs
    <3>4. Shuffled(D, G, m)
      BY <2>3, <2>4, <3>3, ShuffledOn
    <3>5. G = Turn(k, F)
      BY <2>1, <2>2, <3>3
    <3> HIDE DEF Turn
    <3> QED BY <2>1, <3>3, <3>4, <3>5
  <2> QED BY <2>5
<1> HIDE DEF Turn
<1>4. D \in S /\ OrderedFrom(D, N, m)
  <2>1. Shuffled(D, D, m)
    BY Zenon DEF Shuffled
  <2>2. ASSUME NEW i \in 1 .. m - 1 PROVE ~ (Above(i) >= N)
    <3>1. PICK a \in Nat : a = Above(i) /\ (i = 2 * a + 1 \/ i = 2 * a + 2)
      BY AboveIs
    <3> QED BY <1>1, <1>2, <3>1
  <2>3. OrderedFrom(D, N, m)
    BY <2>2, Zenon DEF OrderedFrom
  <2> QED BY <2>1, <2>3
<1> DEFINE Done(F, k) == F \in S /\ OrderedFrom(F, N - k, m)
<1>5. Done(D, 0) /\ \A k \in 1 .. N, F \in S : Done(F, k - 1) => Done(Turn(k, F), k)
  <2>1. N - 0 = N /\ \A k \in 1 .. N : N - (k - 1) = N - k + 1
    OBVIOUS
  <2> HIDE DEF S
  <2> QED BY <1>3, <1>4, <2>1
<1> HIDE DEF S, Done
<1>6. ASSUME NEW g, g[0] = D, \A k \in 1 .. N : Done(g[k - 1], k - 1) => g[k] = Turn(k, g[k - 1]),
             NEW n \in 0 .. N
      PROVE  Done(g[n], n)
  <2> DEFINE Bad == {k \in 0 .. N : ~ Done(g[k], k)}
  <2>1. Bad = {}
    <3> SUFFICES ASSUME Bad # {} PROVE FALSE
      OBVIOUS
    <3>1. PICK k \in Bad : \A j \in Bad : k <= j
      <4>1. Bad \subseteq Nat
        OBVIOUS
      <4> HIDE DEF Bad
      <4> QED BY <4>1, LeastNat
    <3>2. k \in 0 .. N /\ ~ Done(g[k], k) /\ (k > 0 => Done(g[k - 1], k - 1))
      BY <3>1
    <3>3. k # 0
      BY <1>5, <1>6, <3>2
    <3>4. k \in 1 .. N /\ Done(g[k - 1], k - 1)
      BY <3>2, <3>3
    <3>5. g[k] = Turn(k, g[k - 1]) /\ g[k - 1] \in S
      BY <1>6, <3>4 DEF Done
    <3> QED BY <1>5, <3>2, <3>4, <3>5
  <2> QED BY <2>1
<1>7. \E g : Is(g)
  <2> DEFINE us == [k \in 1 .. N |-> [F \in S |-> IF Done(F, k - 1) THEN Turn(k, F) ELSE F]]
  <2>1. us \in [1 .. N -> [S -> S]]
    <3>1. \A k \in 1 .. N : \A F \in S : Done(F, k - 1) => Turn(k, F) \in S
      BY <1>5 DEF Done
    <3> QED BY <3>1
  <2>2. \A k \in 1 .. N : \A F \in S : us[k][F] = IF Done(F, k - 1) THEN Turn(k, F) ELSE F
    OBVIOUS
  <2> HIDE DEF us
  <2>3. PICK f : TurnsOf(S, D, us, N, f)
    BY <1>4, <2>1, LoopTurns
  <2>4. /\ f[0] = D /\ \A n \in 0 .. N : f[n] \in S
        /\ \A k \in 1 .. N : f[k] = us[k][f[k - 1]]
    BY <2>3 DEF TurnsOf
  <2>5. \A k \in 1 .. N : k - 1 \in 0 .. N
    OBVIOUS
  <2>6. \A k \in 1 .. N : Done(f[k - 1], k - 1) => f[k] = Turn(k, f[k - 1])
    BY <2>2, <2>4, <2>5
  <2>7. \A k \in 0 .. N : Done(f[k], k)
    BY <1>6, <2>4, <2>6
  <2>8. \A k \in 1 .. N : f[k] = Turn(k, f[k - 1])
    BY <2>5, <2>6, <2>7
  <2>9. f = [n \in 0 .. N |-> f[n]]
    BY <2>3 DEF TurnsOf
  <2>10. \A n \in 0 .. N : f[n] = IF n = 0 THEN D ELSE Turn(n, f[n - 1])
    <3>1. \A n \in 0 .. N : n # 0 => n \in 1 .. N
      OBVIOUS
    <3> QED BY <2>4, <2>8, <3>1, Zenon
  <2>11. f = [n \in 0 .. N |-> IF n = 0 THEN D ELSE Turn(n, f[n - 1])]
    BY <2>9, <2>10
  <2> QED BY <1>2, <2>11
<1>8. PICK g : g = (CHOOSE f : Is(f)) /\ Is(g)
  <2> HIDE DEF Is
  <2> QED BY <1>7, Zenon
<1>9. g[0] = D /\ \A k \in 1 .. N : g[k] = Turn(k, g[k - 1])
  <2>1. 0 \in 0 .. item + 1
    BY <1>1
  <2>2. \A k \in 1 .. N : k \in 0 .. item + 1 /\ k # 0
    BY <1>2
  <2>3. \A k \in 0 .. item + 1 : g[k] = IF k = 0 THEN D ELSE Turn(k, g[k - 1])
    BY <1>8, Zenon
  <2> QED BY <2>1, <2>2, <2>3, Zenon
<1>10. Done(g[N], N)
  <2>1. N \in 0 .. N
    OBVIOUS
  <2> QED BY <1>6, <1>9, <2>1, Zenon
<1>11. HeapifyFrom(D, item) = g[N]
  <2>1. HeapifyFrom(D, item) = (CHOOSE f : Is(f))[item + 1]
    BY DEF HeapifyFrom, Turn
  <2> QED BY <1>2, <1>8, <2>1, Zenon
<1>12. OrderedFrom(g[N], 0, m) /\ g[N] \in Arrays(m) /\ Shuffled(D, g[N], m)
  <2>1. N - N = 0
    OBVIOUS
  <2> QED BY <1>10, <2>1 DEF Done, S
<1> QED BY <1>1, <1>11, <1>12

(* The sizes the memory can have: base_size, and twice each of them.       *)
Sizes == {s \in Nat : \A T \in SUBSET Nat :
                        BaseSize \in T /\ (\A x \in T : 2 * x \in T) => s \in T}

LEMMA SizesAre ==
  /\ BaseSize \in Sizes
  /\ \A s \in Sizes : 2 * s \in Sizes /\ s >= BaseSize
  /\ \A s \in Sizes : s > BaseSize => s \div 2 \in Sizes
<1>1. BaseSize \in Nat /\ BaseSize > 0
  BY HeapAssumption
<1>2. BaseSize \in Sizes
  BY <1>1 DEF Sizes
<1>3. ASSUME NEW s \in Sizes PROVE 2 * s \in Sizes
  <2>1. s \in Nat /\ 2 * s \in Nat
    BY DEF Sizes
  <2>2. ASSUME NEW T \in SUBSET Nat, BaseSize \in T, \A x \in T : 2 * x \in T
        PROVE  2 * s \in T
    <3>1. s \in T
      BY <2>2 DEF Sizes
    <3> QED BY <2>2, <3>1
  <2> QED BY <2>1, <2>2 DEF Sizes
<1>4. ASSUME NEW s \in Sizes PROVE s >= BaseSize
  <2> DEFINE T == {x \in Nat : x >= BaseSize}
  <2>1. T \in SUBSET Nat /\ BaseSize \in T
    BY <1>1
  <2>2. \A x \in T : 2 * x \in T
    BY <1>1
  <2>3. s \in T
    <3> HIDE DEF T
    <3> QED BY <2>1, <2>2 DEF Sizes
  <2> QED BY <2>3
<1>5. ASSUME NEW s \in Sizes, s > BaseSize PROVE s \div 2 \in Sizes
  <2> DEFINE T == {x \in Sizes : x = BaseSize \/ x \div 2 \in Sizes}
  <2>1. T \in SUBSET Nat /\ BaseSize \in T
    BY <1>2 DEF Sizes
  <2>2. ASSUME NEW x \in T PROVE 2 * x \in T
    <3>1. x \in Sizes /\ x \in Nat
      BY DEF Sizes
    <3>2. (2 * x) \div 2 = x
      BY <3>1
    <3>3. 2 * x \in Sizes
      BY <1>3, <3>1
    <3> QED BY <3>1, <3>2, <3>3
  <2>3. s \in T
    <3> HIDE DEF T
    <3> QED BY <2>1, <2>2 DEF Sizes
  <2>4. s # BaseSize
    BY <1>1, <1>5
  <2> QED BY <2>3, <2>4
<1> QED BY <1>2, <1>3, <1>4, <1>5

HeapInv ==
  /\ data \in Seq(HeapItems) /\ pushed \in [HeapItems -> Int] /\ size \in Sizes
  /\ \A v \in HeapItems : pushed[v] = Cardinality(Where(data, count, v))
  /\ OrderedFrom(data, 0, count)
  /\ count <= size

LEMMA HeapInitInv == HeapInit => HeapInv
<1> SUFFICES ASSUME HeapInit PROVE HeapInv
  OBVIOUS
<1>1. data = <<>> /\ count = 0 /\ data \in Seq(HeapItems) /\ size = BaseSize
  BY DEF HeapInit, count
<1>2. size \in Sizes /\ count <= size
  BY <1>1, SizesAre, HeapAssumption
<1>3. ASSUME NEW v \in HeapItems PROVE pushed[v] = Cardinality(Where(data, count, v))
  <2>1. Where(data, count, v) = {}
    BY <1>1 DEF Where
  <2> QED BY <2>1, FS_EmptySet DEF HeapInit
<1>4. OrderedFrom(data, 0, count)
  BY <1>1 DEF OrderedFrom
<1>5. pushed \in [HeapItems -> Int]
  BY DEF HeapInit
<1> QED BY <1>1, <1>2, <1>3, <1>4, <1>5 DEF HeapInv

(* What the next array says of the heap.                                   *)
LEMMA HeapInvIs ==
  ASSUME NEW m \in Nat, NEW F \in Arrays(m), data' = F, OrderedFrom(F, 0, m),
         \A v \in HeapItems : pushed'[v] = Cardinality(Where(F, m, v)),
         pushed' \in [HeapItems -> Int], size' \in Sizes, m <= size'
  PROVE  HeapInv'
<1>1. F \in Seq(HeapItems) /\ Len(F) = m
  BY ArraysAre
<1>2. count' = m
  BY <1>1 DEF count
<1> QED BY <1>1, <1>2 DEF HeapInv

LEMMA HeapPushKept ==
  ASSUME HeapInv, NEW v \in HeapItems, HeapPush(v)
  PROVE  HeapInv'
<1>1. PICK c \in Nat : c = count /\ c = Len(data)
  BY DEF HeapInv, count
<1>2. PICK m \in Nat \ {0} : m = c + 1
  OBVIOUS
<1>3. PICK D : D = Append(data, v)
  OBVIOUS
<1>4. /\ D \in Arrays(m) /\ D[m] = v /\ \A i \in 1 .. c : D[i] = data[i]
      /\ c \in 0 .. m - 1 /\ m \in Nat
  <2>1. data \in Seq(HeapItems) /\ data \in [1 .. c -> HeapItems]
    BY <1>1 DEF HeapInv
  <2>2. D \in [1 .. m -> HeapItems] /\ D[m] = v /\ \A i \in 1 .. c : D[i] = data[i]
    <3>1. /\ D \in Seq(HeapItems) /\ Len(D) = m
          /\ D[m] = v /\ \A i \in 1 .. c : D[i] = data[i]
      BY <1>1, <1>2, <1>3, <2>1, AppendProperties
    <3>2. D \in [1 .. m -> HeapItems]
      BY <3>1
    <3> QED BY <3>1, <3>2
  <2>3. c \in 0 .. m - 1 /\ m \in Nat
    BY <1>2
  <2>4. D \in Arrays(m)
    BY <2>2, Zenon DEF Arrays
  <2> QED BY <2>2, <2>3, <2>4
<1>5. Put(D, c, v) = D
  BY <1>2, <1>4 DEF Put, Arrays
<1>6. OrderedBelow(D, c, m)
  <2>1. ASSUME NEW i \in 1 .. m - 1, i # c PROVE Cell(D, i) <= Cell(D, Above(i))
    <3>1. i \in 1 .. c - 1 /\ Above(i) \in 0 .. c - 1
      BY <1>2, <2>1, AboveIs
    <3>2. Cell(D, i) = Cell(data, i) /\ Cell(D, Above(i)) = Cell(data, Above(i))
      BY <1>4, <3>1 DEF Cell
    <3>3. Above(i) >= 0
      BY <3>1
    <3> QED BY <1>1, <3>1, <3>2, <3>3 DEF HeapInv, OrderedFrom
  <2>2. ASSUME NEW i \in 1 .. m - 1 PROVE Above(i) # c
    BY <1>2, AboveIs
  <2> QED BY <2>1, <2>2 DEF OrderedBelow
<1>7. PICK F \in Arrays(m) : /\ F = SiftUp(D, c, v)
                             /\ Shuffled(D, F, m) /\ OrderedFrom(F, 0, m)
  <2>1. OrderedBelow(Put(D, c, v), c, m)
    BY <1>5, <1>6
  <2>2. \E F \in Arrays(m) : /\ F = SiftUp(D, c, v)
                             /\ Shuffled(Put(D, c, v), F, m) /\ OrderedFrom(F, 0, m)
    BY <1>4, <2>1, SiftUpIs
  <2> QED BY <1>5, <2>2
<1>8. data' = F
  BY <1>1, <1>3, <1>7 DEF HeapPush
<1>9. /\ pushed' \in [HeapItems -> Int]
      /\ \A u \in HeapItems : pushed'[u] = pushed[u] + (IF u = v THEN 1 ELSE 0)
  BY DEF HeapPush, HeapInv
<1>10. ASSUME NEW u \in HeapItems PROVE pushed'[u] = Cardinality(Where(F, m, u))
  <2>1. Cardinality(Where(D, m, u)) =
          Cardinality(Where(data, c, u)) + (IF D[m] = u THEN 1 ELSE 0)
    BY <1>2, <1>4, OneMore
  <2>2. pushed[u] = Cardinality(Where(data, c, u))
    BY <1>1 DEF HeapInv
  <2>3. Cardinality(Where(F, m, u)) = Cardinality(Where(D, m, u))
    BY <1>7 DEF Shuffled
  <2>4. Cardinality(Where(data, c, u)) \in Nat
    BY WhereFinite
  <2>5. CASE u = v
    <3>1. Cardinality(Where(D, m, u)) = Cardinality(Where(data, c, u)) + 1
      BY <1>4, <2>1, <2>5
    <3>2. pushed'[u] = pushed[u] + 1
      BY <1>9, <2>5
    <3> QED BY <2>2, <2>3, <3>1, <3>2
  <2>6. CASE u # v
    <3>1. Cardinality(Where(D, m, u)) = Cardinality(Where(data, c, u)) + 0
      BY <1>4, <2>1, <2>6
    <3>2. pushed'[u] = pushed[u] + 0
      BY <1>9, <2>6
    <3> QED BY <2>2, <2>3, <3>1, <3>2
  <2> QED BY <2>5, <2>6
<1>11. size' \in Sizes /\ m <= size'
  <2>1. size \in Sizes /\ size \in Nat /\ c <= size /\ size > 0 /\ 2 * size \in Sizes
    <3>1. size \in Sizes /\ c <= size
      BY <1>1 DEF HeapInv
    <3>2. size \in Nat
      BY <3>1 DEF Sizes
    <3>3. size >= BaseSize /\ 2 * size \in Sizes
      BY <3>1, SizesAre
    <3> QED BY <3>1, <3>2, <3>3, HeapAssumption
  <2>2. size' = IF c = size THEN 2 * size ELSE size
    BY <1>1 DEF HeapPush
  <2> QED BY <1>2, <2>1, <2>2
<1> QED BY <1>4, <1>7, <1>8, <1>9, <1>10, <1>11, HeapInvIs

LEMMA HeapPopKept ==
  ASSUME HeapInv, count > 0, HeapPop
  PROVE  HeapInv'
<1>1. PICK c \in Nat : c = count /\ c = Len(data) /\ c > 0
  BY DEF HeapInv, count, HeapPop
<1>2. PICK m \in Nat : m = c - 1
  BY <1>1
<1>3. /\ data \in Seq(HeapItems) /\ data \in Arrays(c)
      /\ \A i \in 1 .. c : data[i] \in HeapItems
  <2>1. data \in Seq(HeapItems)
    BY DEF HeapInv
  <2>2. data \in [1 .. c -> HeapItems]
    BY <1>1, <2>1
  <2> QED BY <2>1, <2>2, Zenon DEF Arrays
<1>4. PICK top \in HeapItems : top = data[1]
  <2>1. 1 \in 1 .. c
    BY <1>1
  <2> QED BY <1>3, <2>1
<1>5. /\ pushed' \in [HeapItems -> Int]
      /\ \A u \in HeapItems : pushed'[u] = pushed[u] - (IF u = top THEN 1 ELSE 0)
  <2>1. pushed \in [HeapItems -> Int] /\ pushed' = [pushed EXCEPT ![top] = @ - 1]
    BY <1>4 DEF HeapPop, HeapInv
  <2> QED BY <2>1
<1>6. \A u \in HeapItems : pushed[u] = Cardinality(Where(data, c, u))
  BY <1>1 DEF HeapInv
<1>7. size' \in Sizes /\ m <= size'
  <2>1. size \in Sizes /\ size \in Nat /\ c <= size /\ (size > BaseSize => size \div 2 \in Sizes)
    BY <1>1, SizesAre DEF HeapInv, Sizes
  <2>2. size' = IF m <= size \div 4 /\ size > BaseSize THEN size \div 2 ELSE size
    BY <1>1, <1>2 DEF HeapPop
  <2>3. m <= size \div 4 => m <= size \div 2
    BY <2>1
  <2> QED BY <1>2, <2>1, <2>2, <2>3
<1>8. CASE m = 0
  <2>1. data' = <<>> /\ c = 1
    <3>1. count - 1 = 0 /\ c = 1
      <4>1. c - 1 = 0 /\ c = 1
        BY <1>2, <1>8
      <4> QED BY <1>1, <4>1, Zenon
    <3>2. data' = IF count - 1 = 0 THEN <<>>
                  ELSE SiftDown(SubSeq(data, 1, count - 1), 0, data[count])
      BY DEF HeapPop
    <3> QED BY <3>1, <3>2
  <2>2. PICK F \in Arrays(m) : F = <<>>
    <3> DEFINE G == [i \in 1 .. m |-> top]
    <3>0. G \in [1 .. m -> HeapItems]
      OBVIOUS
    <3>1. PICK F : F = G /\ F \in Arrays(m)
      BY <3>0, Zenon DEF Arrays
    <3> HIDE DEF G
    <3>2. F \in Seq(HeapItems) /\ Len(F) = 0
      BY <1>8, <3>1, ArraysAre
    <3> QED BY <3>1, <3>2, EmptySeq
  <2>3. OrderedFrom(F, 0, m)
    BY <1>8 DEF OrderedFrom
  <2>4. ASSUME NEW u \in HeapItems PROVE pushed'[u] = Cardinality(Where(F, m, u))
    <3>1. Where(F, m, u) = {} /\ Where(data, m, u) = {}
      BY <1>8 DEF Where
    <3>2. Cardinality(Where(data, m + 1, u)) =
            Cardinality(Where(data, m, u)) + (IF data[m + 1] = u THEN 1 ELSE 0)
      BY OneMore
    <3>3. Cardinality(Where(data, c, u)) = IF top = u THEN 1 ELSE 0
      <4>1. m + 1 = c /\ m + 1 = 1
        BY <1>8, <2>1
      <4>2. Cardinality(Where(data, m, u)) = 0
        BY <3>1, FS_EmptySet
      <4>3. Cardinality(Where(data, c, u)) = 0 + (IF data[1] = u THEN 1 ELSE 0)
        BY <3>2, <4>1, <4>2
      <4> QED BY <1>4, <4>3
    <3>4. Cardinality(Where(F, m, u)) = 0
      BY <3>1, FS_EmptySet
    <3> QED BY <1>5, <1>6, <3>3, <3>4
  <2> QED BY <1>5, <1>7, <2>1, <2>2, <2>3, <2>4, HeapInvIs
<1>9. CASE m # 0
  <2>1. PICK D : D = SubSeq(data, 1, m)
    OBVIOUS
  <2>2. D \in Arrays(m) /\ \A i \in 1 .. m : D[i] = data[i]
    <3>1. \A i \in 1 .. m : data[i] \in HeapItems
      BY <1>2, <1>3
    <3>2. /\ D \in Seq(HeapItems) /\ Len(D) = m
          /\ \A i \in 1 .. m : D[i] = data[i]
      BY <1>1, <1>9, <2>1, <3>1, SubSeqProperties
    <3> QED BY <3>2 DEF Arrays
  <2>3. PICK v \in HeapItems : v = data[c]
    BY <1>1, <1>3
  <2>4. m \in Nat \ {0} /\ 0 \in 0 .. m - 1 /\ 0 \in Nat
    BY <1>9
  <2>5. OrderedFrom(D, 0 + 1, m)
    <3>1. ASSUME NEW i \in 1 .. m - 1, Above(i) >= 0 + 1 PROVE Cell(D, i) <= Cell(D, Above(i))
      <4>1. i \in 1 .. c - 1 /\ i + 1 \in 1 .. m /\ Above(i) + 1 \in 1 .. m /\ Above(i) >= 0
        BY <1>2, <3>1, AboveIs
      <4>2. Cell(D, i) = Cell(data, i) /\ Cell(D, Above(i)) = Cell(data, Above(i))
        BY <2>2, <4>1 DEF Cell
      <4> QED BY <1>1, <4>1, <4>2 DEF HeapInv, OrderedFrom
    <3> QED BY <3>1, Zenon DEF OrderedFrom
  <2>6. PICK E : E = Put(D, 0, v)
    OBVIOUS
  <2>7. OrderedAbove(E, 0, 0, m)
    BY <2>2, <2>4, <2>5, <2>6, OrderedAboveInit
  <2>8. PICK F \in Arrays(m) : /\ F = SiftDown(D, 0, v)
                               /\ Shuffled(E, F, m) /\ OrderedFrom(F, 0, m)
    <3>1. \E F \in Arrays(m) : /\ F = SiftDown(D, 0, v)
                               /\ Shuffled(Put(D, 0, v), F, m) /\ OrderedFrom(F, 0, m)
      BY <2>2, <2>4, <2>6, <2>7, SiftDownIs
    <3> QED BY <2>6, <3>1
  <2>9. data' = F
    BY <1>1, <1>2, <1>9, <2>1, <2>3, <2>8 DEF HeapPop
  <2> DEFINE G == [i \in 1 .. c |-> IF i = 1 THEN v ELSE IF i = c THEN top ELSE data[i]]
  <2>10. G[1] = v /\ G[c] = top /\ c = m + 1 /\ c # 1 /\ 1 \in 1 .. c /\ c \in 1 .. c
         /\ \A i \in 1 .. c : i # 1 /\ i # c => G[i] = data[i]
    BY <1>1, <1>2, <1>9
  <2> HIDE DEF G
  <2>11. Shuffled(data, G, c)
    BY <1>4, <2>3, <2>10, SwapShuffles
  <2>12. \A i \in 1 .. m : G[i] = E[i]
    <3>1. E[1] = v /\ \A i \in 1 .. m : i # 1 => E[i] = D[i]
      BY <2>2, <2>4, <2>6 DEF Put, Arrays
    <3>2. \A i \in 1 .. m : i \in 1 .. c /\ i # c
      BY <1>2
    <3> QED BY <2>2, <2>10, <3>1, <3>2
  <2>13. ASSUME NEW u \in HeapItems PROVE pushed'[u] = Cardinality(Where(F, m, u))
    <3>1. Cardinality(Where(G, m + 1, u)) =
            Cardinality(Where(E, m, u)) + (IF G[m + 1] = u THEN 1 ELSE 0)
      BY <2>12, OneMore
    <3>2. Cardinality(Where(G, c, u)) = Cardinality(Where(data, c, u))
      BY <2>11 DEF Shuffled
    <3>3. Cardinality(Where(F, m, u)) = Cardinality(Where(E, m, u))
      BY <2>8 DEF Shuffled
    <3>4. Cardinality(Where(E, m, u)) \in Nat
      BY WhereFinite
    <3> QED BY <1>5, <1>6, <2>10, <3>1, <3>2, <3>3, <3>4
  <2> QED BY <1>5, <1>7, <2>8, <2>9, <2>13, HeapInvIs
<1> QED BY <1>8, <1>9

LEMMA HeapifyKept ==
  ASSUME HeapInv, NEW n \in 2 .. HeapMax, NEW D \in [1 .. n -> HeapItems], Heapify(D)
  PROVE  HeapInv'
<1>1. n \in Nat /\ n >= 2 /\ D \in Arrays(n) /\ Len(D) = n
  BY HeapAssumption DEF Arrays
<1>2. PICK F \in Arrays(n) : /\ F = HeapifyFrom(D, n \div 2 - 1)
                             /\ Shuffled(D, F, n) /\ OrderedFrom(F, 0, n)
  BY <1>1, HeapifyFromIs
<1>3. data' = F
  BY <1>1, <1>2 DEF Heapify
<1>4. pushed' = [v \in HeapItems |-> Cardinality(Where(D, n, v))]
  BY <1>1 DEF Heapify, Where
<1>5. pushed' \in [HeapItems -> Int]
  <2>1. \A v \in HeapItems : Cardinality(Where(D, n, v)) \in Int
    BY <1>1, WhereFinite
  <2> QED BY <1>4, <2>1
<1>6. \A v \in HeapItems : pushed'[v] = Cardinality(Where(F, n, v))
  BY <1>2, <1>4 DEF Shuffled
<1>7. size' \in Sizes /\ n <= size'
  <2>1. size \in Sizes /\ size \in Nat /\ 2 * size \in Sizes
    BY SizesAre DEF HeapInv, Sizes
  <2> QED BY <1>1, <2>1 DEF Heapify
<1> QED BY <1>1, <1>2, <1>3, <1>5, <1>6, <1>7, HeapInvIs

(* A call that reads outside of the array finds the heap empty and leaves  *)
(* it so.                                                                  *)
StrayInv == HeapInv /\ (strayed = "none" \/ count = 0)

LEMMA StrayKept ==
  ASSUME HeapInv, count = 0, UNCHANGED <<data, size, pushed>>
  PROVE  StrayInv'
BY DEF StrayInv, HeapInv, count

LEMMA StrayInvKept == StrayInv /\ [HeapNext]_heapVars => StrayInv'
<1> SUFFICES ASSUME StrayInv, [HeapNext]_heapVars PROVE StrayInv'
  OBVIOUS
<1>0. HeapInv
  BY DEF StrayInv
<1>1. CASE UNCHANGED heapVars
  BY <1>1 DEF heapVars, StrayInv, HeapInv, count
<1>2. ASSUME NEW v \in HeapItems, HeapPush(v) PROVE StrayInv'
  <2>1. HeapInv'
    BY <1>0, <1>2, HeapPushKept
  <2> QED BY <1>2, <2>1 DEF HeapPush, StrayInv
<1>3. CASE HeapPop
  <2>1. CASE count = 0
    <3>1. UNCHANGED <<data, size, pushed>>
      BY <1>3, <2>1 DEF HeapPop, Strays
    <3> QED BY <1>0, <2>1, <3>1, StrayKept
  <2>2. CASE count > 0
    <3>1. HeapInv'
      BY <1>0, <1>3, <2>2, HeapPopKept
    <3>2. strayed' = "none"
      BY <1>3, <2>2 DEF HeapPop
    <3> QED BY <3>1, <3>2 DEF StrayInv
  <2>3. count \in Nat
    BY <1>0 DEF HeapInv, count
  <2> QED BY <2>1, <2>2, <2>3
<1>4. ASSUME NEW n \in 1 .. HeapMax, NEW D \in [1 .. n -> HeapItems], Heapify(D)
      PROVE  StrayInv'
  <2>1. n \in Nat /\ n >= 1 /\ Len(D) = n
    BY HeapAssumption
  <2>2. CASE n = 1
    <3>1. UNCHANGED <<data, size, pushed>> /\ data = <<>>
      BY <1>4, <2>1, <2>2 DEF Heapify, Strays
    <3>2. count = 0
      BY <3>1 DEF count
    <3> QED BY <1>0, <3>1, <3>2, StrayKept
  <2>3. CASE n # 1
    <3>1. n \in 2 .. HeapMax
      BY <2>1, <2>3
    <3>2. HeapInv'
      BY <1>0, <1>4, <3>1, HeapifyKept
    <3>3. strayed' = "none"
      BY <1>4, <2>1, <2>3 DEF Heapify
    <3> QED BY <3>2, <3>3 DEF StrayInv
  <2> QED BY <2>2, <2>3
<1> QED BY <1>1, <1>2, <1>3, <1>4, Zenon DEF HeapNext

LEMMA HeapInvHolds == StrayInv => HeapIsBag
<1> SUFFICES ASSUME StrayInv PROVE HeapIsBag
  OBVIOUS
<1>0. HeapInv /\ (strayed # "none" => count = 0)
  BY DEF StrayInv
<1>1. \A v \in HeapItems : pushed[v] = Cardinality({i \in 1 .. count : data[i] = v})
  BY <1>0 DEF HeapInv, Where
<1>2. count \in Nat
  BY <1>0 DEF HeapInv, count
<1>3. ASSUME NEW i \in 1 .. count - 1 PROVE Cell(data, i) <= Cell(data, Above(i))
  <2>1. Above(i) >= 0
    BY <1>2, AboveIs
  <2> QED BY <1>0, <2>1 DEF HeapInv, OrderedFrom
<1>4. BaseSize <= size /\ count <= size
  <2>1. size >= BaseSize
    BY <1>0, SizesAre DEF HeapInv
  <2> QED BY <1>0, <2>1 DEF HeapInv
<1> QED BY <1>0, <1>1, <1>3, <1>4 DEF HeapIsBag

(* For any items and bounds the heap is the bag of what was pushed and not *)
(* popped, in the order of a heap, inside its memory, and only a call on   *)
(* an empty heap leaves the array (lib_heap.c:23-104).                     *)
THEOREM HeapIsBagHolds == HeapSpec => []HeapIsBag
<1>1. HeapInit => StrayInv
  BY HeapInitInv DEF StrayInv, HeapInit
<1> QED BY <1>1, StrayInvKept, HeapInvHolds, PTL DEF HeapSpec

-----------------------------------------------------------------------------
(* The numbers of the items the ring may still hold, and where each of     *)
(* them was written.                                                       *)
Recent(w) == w - RingLength + 1 .. w
Pos(R, w, k) ==
  LET x == R.end + k - w - 1 IN IF x < 0 THEN x + RingLength ELSE x

Rings == [items : [Ring -> Nat], count : Nat, read_index : 0 .. RingLength,
          start : Ring, end : Ring, plus : Ring]

(* The numbers of the items, in the order they were written.               *)
Rising(w, u) ==
  /\ u \in Seq(Nat)
  /\ \A i \in 1 .. Len(u) : u[i] \in Recent(w) /\ u[i] > 0
  /\ \A i, j \in 1 .. Len(u) : i < j => u[i] < u[j]

(* After w writes the ring holds the items of u, each where it was written. *)
Holds(R, w, u) ==
  /\ R \in Rings /\ Rising(w, u)
  /\ R.count = Len(u)
  /\ \A k \in Recent(w) : R.items[Pos(R, w, k)] = IF k \in ToSet(u) THEN k ELSE 0

(* start is at the s-th item, and no older one is in the ring.             *)
StartsAt(R, w, u, s) ==
  /\ s \in Recent(w) /\ R.start = Pos(R, w, s)
  /\ \A i \in 1 .. Len(u) : s <= u[i]

(* read_index is at the r-th item, after those left behind and not after   *)
(* the one to be read next.                                                *)
ReadsAt(R, w, u, r) ==
  /\ r \in Recent(w)
  /\ R.read_index = Pos(R, w, r) \/ (R.read_index = RingLength /\ Pos(R, w, r) = 0)
  /\ R.plus < Len(u) /\ r <= u[R.plus + 1]
  /\ \A i \in 1 .. R.plus : u[i] < r

RingInv ==
  /\ written \in Nat /\ writes \in Nat /\ given = awaited
  /\ passed \in {0, 1} /\ (passed = 1 => writes > 1)
  /\ Kept =>
       /\ Holds(ring, written, unread)
       /\ \E s \in Recent(written) :
            /\ StartsAt(ring, written, unread, s)
            /\ settled = 1 => \E r \in s .. written : ReadsAt(ring, written, unread, r)
       /\ writes = 0 /\ offer > 0 => ring.count = 0 \/ ring.end # ring.start

LEMMA RingIs ==
  RingLength \in Nat /\ RingLength > 0 /\ \A i : i \in Ring <=> i \in Int /\ 0 <= i /\ i < RingLength
BY RingAssumption DEF Ring

(* A sum of two positions is once around the ring at most.                 *)
LEMMA OnceAroundIs ==
  ASSUME NEW L \in Nat, NEW x \in Nat, L > 0, x < 2 * L
  PROVE  x % L = IF x < L THEN x ELSE x - L
<1>1. CASE x < L
  BY <1>1
<1>2. CASE ~ (x < L)
  <2>1. PICK y \in Nat : y = x - L /\ y < L
    BY <1>2
  <2>2. (y + L) % L = y
    BY <2>1
  <2>3. y + L = x
    BY <2>1
  <2> QED BY <1>2, <2>1, <2>2, <2>3
<1> QED BY <1>1, <1>2

LEMMA AroundIs ==
  ASSUME NEW x \in Nat, x < 2 * RingLength
  PROVE  x % RingLength = IF x < RingLength THEN x ELSE x - RingLength
BY RingIs, OnceAroundIs

(* The items are at different positions, each after the one before it, and *)
(* the next to be written is at the write position.                        *)
LEMMA PosIs ==
  ASSUME NEW R \in Rings, NEW w \in Nat
  PROVE  /\ \A k \in Recent(w) : k \in Int /\ Pos(R, w, k) \in Ring
         /\ \A k, l \in Recent(w) : Pos(R, w, k) = Pos(R, w, l) => k = l
         /\ \A k \in Recent(w) :
              Step(Pos(R, w, k)) = IF k = w THEN R.end ELSE Pos(R, w, k + 1)
         /\ Pos(R, w, w - RingLength + 1) = R.end
         /\ w - RingLength + 1 \in Recent(w) /\ w \in Recent(w)
<1>1. RingLength \in Nat /\ RingLength > 0 /\ R.end \in Int /\ 0 <= R.end /\ R.end < RingLength
  BY RingIs DEF Rings
<1>2. \A k \in Recent(w) : k \in Int /\ w - RingLength + 1 <= k /\ k <= w
  BY <1>1 DEF Recent
<1>3. \A k \in Recent(w) : k \in Int /\ Pos(R, w, k) \in Ring
  BY <1>1, <1>2, RingIs DEF Pos
<1>4. \A k, l \in Recent(w) : Pos(R, w, k) = Pos(R, w, l) => k = l
  BY <1>1, <1>2 DEF Pos
<1>5. \A k \in Recent(w) : Step(Pos(R, w, k)) = IF k = w THEN R.end ELSE Pos(R, w, k + 1)
  <2> SUFFICES ASSUME NEW k \in Recent(w)
               PROVE  Step(Pos(R, w, k)) = IF k = w THEN R.end ELSE Pos(R, w, k + 1)
    OBVIOUS
  <2>1. PICK e \in Int : e = R.end /\ 0 <= e /\ e < RingLength
    BY <1>1
  <2>2. PICK p \in Int : p = Pos(R, w, k)
    BY <1>1, <1>3, RingIs
  <2>3. p = IF e + k - w - 1 < 0 THEN e + k - w - 1 + RingLength ELSE e + k - w - 1
    BY <2>1, <2>2 DEF Pos
  <2>4. Pos(R, w, k + 1) =
          IF e + (k + 1) - w - 1 < 0 THEN e + (k + 1) - w - 1 + RingLength
          ELSE e + (k + 1) - w - 1
    BY <2>1 DEF Pos
  <2>5. Step(p) = IF p + 1 = RingLength THEN 0 ELSE p + 1
    BY DEF Step
  <2> QED BY <1>1, <1>2, <2>1, <2>2, <2>3, <2>4, <2>5
<1>6. Pos(R, w, w - RingLength + 1) = R.end
  BY <1>1 DEF Pos
<1>7. w - RingLength + 1 \in Recent(w) /\ w \in Recent(w)
  BY <1>1 DEF Recent
<1> QED BY <1>3, <1>4, <1>5, <1>6, <1>7

(* Every position is that of one of the last items.                        *)
LEMMA PosOnto ==
  ASSUME NEW R \in Rings, NEW w \in Nat, NEW p \in Ring
  PROVE  \E k \in Recent(w) : Pos(R, w, k) = p
<1>1. RingLength \in Nat /\ RingLength > 0 /\ R.end \in Int /\ 0 <= R.end /\ R.end < RingLength
  BY RingIs DEF Rings
<1>2. p \in Int /\ 0 <= p /\ p < RingLength
  BY RingIs
<1>3. PICK k \in Int : k = IF p < R.end THEN w + 1 - (R.end - p)
                           ELSE w + 1 - (R.end + RingLength - p)
  BY <1>1, <1>2
<1>4. k \in Recent(w)
  BY <1>1, <1>2, <1>3 DEF Recent
<1>5. Pos(R, w, k) = p
  BY <1>1, <1>2, <1>3 DEF Pos
<1> QED BY <1>4, <1>5

(* Going around from the r-th item, or from the end of the array when it   *)
(* is at its start.                                                        *)
LEMMA PosAround ==
  ASSUME NEW R \in Rings, NEW w \in Nat, NEW r \in Recent(w), NEW i \in 0 .. RingLength,
         i = Pos(R, w, r) \/ (i = RingLength /\ Pos(R, w, r) = 0), NEW k \in Nat, r + k <= w
  PROVE  k \in Ring /\ r + k \in Recent(w) /\ (i + k) % RingLength = Pos(R, w, r + k)
<1>1. RingLength \in Nat /\ RingLength > 0 /\ R.end \in Int /\ 0 <= R.end /\ R.end < RingLength
  BY RingIs DEF Rings
<1>2. r \in Int /\ w - RingLength + 1 <= r
  BY <1>1 DEF Recent
<1>3. k < RingLength /\ k \in Ring /\ r + k \in Recent(w)
  <2>1. k < RingLength /\ r + k \in Recent(w)
    BY <1>1, <1>2 DEF Recent
  <2> QED BY <2>1, RingIs
<1>4. i + k \in Nat /\ i + k < 2 * RingLength
  BY <1>1, <1>3
<1>5. (i + k) % RingLength = IF i + k < RingLength THEN i + k ELSE (i + k) - RingLength
  <2>1. PICK x : x = i + k
    OBVIOUS
  <2>2. x \in Nat /\ x < 2 * RingLength
    BY <1>4, <2>1
  <2>3. x % RingLength = IF x < RingLength THEN x ELSE x - RingLength
    BY <2>2, AroundIs
  <2> QED BY <2>1, <2>3, Zenon
<1>6. Pos(R, w, r + k) = IF i + k < RingLength THEN i + k ELSE (i + k) - RingLength
  <2>1. Pos(R, w, r) = IF R.end + r - w - 1 < 0 THEN R.end + r - w - 1 + RingLength
                       ELSE R.end + r - w - 1
    BY DEF Pos
  <2>2. Pos(R, w, r + k) = IF R.end + (r + k) - w - 1 < 0
                           THEN R.end + (r + k) - w - 1 + RingLength
                           ELSE R.end + (r + k) - w - 1
    BY DEF Pos
  <2> QED BY <1>1, <1>2, <2>1, <2>2
<1> QED BY <1>3, <1>5, <1>6

LEMMA HeldIs ==
  ASSUME NEW R, NEW w \in Nat, NEW u, Holds(R, w, u)
  PROVE  /\ R \in Rings /\ u \in Seq(Nat) /\ R.count = Len(u) /\ Len(u) \in Nat
         /\ \A k \in Recent(w) : R.items[Pos(R, w, k)] # 0 <=> k \in ToSet(u)
         /\ \A i \in 1 .. Len(u) : u[i] \in Recent(w) /\ u[i] \in ToSet(u) /\ u[i] \in Nat
                                   /\ R.items[Pos(R, w, u[i])] = u[i]
         /\ \A i, j \in 1 .. Len(u) : i < j => u[i] < u[j]
<1>1. R \in Rings /\ u \in Seq(Nat) /\ R.count = Len(u) /\ Len(u) \in Nat
  BY DEF Holds, Rising
<1>2. \A i \in 1 .. Len(u) : u[i] \in Recent(w) /\ u[i] > 0 /\ u[i] \in Nat
  BY <1>1 DEF Holds, Rising
<1>3. \A k : k \in ToSet(u) <=> \E i \in 1 .. Len(u) : k = u[i]
  BY <1>1 DEF ToSet
<1>4. \A k \in Recent(w) : R.items[Pos(R, w, k)] = IF k \in ToSet(u) THEN k ELSE 0
  BY DEF Holds
<1>5. \A k \in Recent(w) : k \in ToSet(u) => k # 0
  BY <1>2, <1>3
<1>6. \A k \in Recent(w) : R.items[Pos(R, w, k)] # 0 <=> k \in ToSet(u)
  BY <1>4, <1>5, Zenon
<1>7. \A i, j \in 1 .. Len(u) : i < j => u[i] < u[j]
  BY DEF Holds, Rising
<1>8. \A i \in 1 .. Len(u) : u[i] \in ToSet(u) /\ R.items[Pos(R, w, u[i])] = u[i]
  BY <1>2, <1>3, <1>4, Zenon
<1> QED BY <1>1, <1>2, <1>6, <1>7, <1>8

(* From a position on, the next item held is found.                        *)
LEMMA OccupiedIs ==
  ASSUME NEW R, NEW w \in Nat, NEW u, Holds(R, w, u),
         NEW r \in Recent(w), NEW m \in Recent(w), r <= m, m \in ToSet(u),
         \A k \in Recent(w) : r <= k /\ k < m => k \notin ToSet(u)
  PROVE  Occupied(R, Pos(R, w, r)) = Pos(R, w, m)
<1> DEFINE i == Pos(R, w, r)
           Found(k) == R.items[(i + k) % RingLength] # 0
<1>0. \A k \in Recent(w) : R.items[Pos(R, w, k)] # 0 <=> k \in ToSet(u)
  BY HeldIs
<1>1. R \in Rings /\ r \in Int /\ m \in Int /\ m <= w
  BY HeldIs, RingIs DEF Recent
<1>2. i \in 0 .. RingLength
  BY <1>1, PosIs, RingIs
<1>3. PICK d \in Nat : r + d = m
  <2>1. m - r \in Nat /\ r + (m - r) = m
    BY <1>1
  <2> QED BY <2>1
<1>4. ASSUME NEW k \in 0 .. d
      PROVE  k \in Ring /\ r + k \in Recent(w) /\ (i + k) % RingLength = Pos(R, w, r + k)
  <2>1. k \in Nat /\ r + k <= w
    BY <1>1, <1>3
  <2> QED BY <1>1, <1>2, <2>1, PosAround
<1>5. d \in Ring /\ Found(d)
  <2>1. d \in 0 .. d
    OBVIOUS
  <2>2. R.items[Pos(R, w, r + d)] # 0
    BY <1>0, <1>3
  <2> QED BY <1>4, <2>1, <2>2
<1>6. ASSUME NEW j \in 0 .. d - 1 PROVE ~ Found(j)
  <2>1. j \in 0 .. d /\ r <= r + j /\ r + j < m
    BY <1>1, <1>3
  <2>2. R.items[Pos(R, w, r + j)] = 0
    BY <1>0, <1>4, <2>1
  <2> QED BY <1>4, <2>1, <2>2
<1> HIDE DEF Found
<1>7. d = CHOOSE k \in Ring : Found(k) /\ \A j \in 0 .. k - 1 : ~ Found(j)
  <2>1. ASSUME NEW k \in Ring, Found(k), \A j \in 0 .. k - 1 : ~ Found(j) PROVE k = d
    <3>1. k \in Nat
      BY RingIs
    <3>2. ~ (k \in 0 .. d - 1) /\ ~ (d \in 0 .. k - 1)
      BY <1>5, <1>6, <2>1
    <3> QED BY <3>1, <3>2
  <2> QED BY <1>5, <1>6, <2>1
<1>8. d \in 0 .. d
  OBVIOUS
<1>9. Occupied(R, i) = (i + d) % RingLength
  BY <1>7 DEF Occupied, Found
<1> QED BY <1>3, <1>4, <1>8, <1>9

(* From the read index on, so is the item to be read.                      *)
LEMMA NextItemIs ==
  ASSUME NEW R, NEW w \in Nat, NEW u, Holds(R, w, u),
         NEW r \in Recent(w), NEW m \in Recent(w), r <= m, m \in ToSet(u),
         \A k \in Recent(w) : r <= k /\ k < m => k \notin ToSet(u),
         NEW i \in 0 .. RingLength,
         i = Pos(R, w, r) \/ (i = RingLength /\ Pos(R, w, r) = 0)
  PROVE  NextItem(R, i) = Pos(R, w, m)
<1> DEFINE Found(k) == Stops(R, (i + k) % RingLength)
<1>0. \A k \in Recent(w) : R.items[Pos(R, w, k)] # 0 <=> k \in ToSet(u)
  BY HeldIs
<1>1. R \in Rings /\ r \in Int /\ m \in Int /\ m <= w /\ r >= w - RingLength + 1
  BY HeldIs, RingIs DEF Recent
<1>2. PICK d \in Nat : r + d = m
  <2>1. m - r \in Nat /\ r + (m - r) = m
    BY <1>1
  <2> QED BY <2>1
<1>3. ASSUME NEW k \in 0 .. d
      PROVE  k \in Ring /\ r + k \in Recent(w) /\ (i + k) % RingLength = Pos(R, w, r + k)
  <2>1. k \in Nat /\ r + k <= w
    BY <1>1, <1>2
  <2> QED BY <1>1, <2>1, PosAround
<1>4. d \in Ring /\ Found(d)
  <2>1. d \in 0 .. d
    OBVIOUS
  <2>2. R.items[Pos(R, w, r + d)] # 0
    BY <1>0, <1>2
  <2> QED BY <1>3, <2>1, <2>2 DEF Stops
<1>5. ASSUME NEW j \in 0 .. d - 1 PROVE ~ Found(j)
  <2>1. PICK k \in Recent(w) : k = r + j /\ k < m /\ r <= k
    <3>1. j \in 0 .. d /\ r <= r + j /\ r + j < m
      BY <1>1, <1>2
    <3> QED BY <1>3, <3>1
  <2>2. R.items[Pos(R, w, k)] = 0
    BY <1>0, <2>1
  <2>3. Pos(R, w, k) + 1 # R.end
    <3> SUFFICES ASSUME Pos(R, w, k) + 1 = R.end PROVE FALSE
      OBVIOUS
    <3>1. Step(Pos(R, w, k)) = R.end
      BY <1>1, RingIs DEF Step, Rings
    <3>2. k \in Int /\ k + 1 \in Recent(w) /\ k # w
      BY <1>1, <2>1, RingIs DEF Recent
    <3>3. Pos(R, w, k + 1) = Pos(R, w, w - RingLength + 1)
      BY <1>1, <3>1, <3>2, PosIs
    <3>4. k + 1 = w - RingLength + 1
      BY <1>1, <3>2, <3>3, PosIs
    <3>5. k >= w - RingLength + 1
      BY RingIs DEF Recent
    <3> QED BY <3>2, <3>4, <3>5, RingIs
  <2>4. (i + j) % RingLength = Pos(R, w, k)
    <3>1. j \in 0 .. d
      BY <1>2
    <3> QED BY <1>3, <2>1, <3>1
  <2> QED BY <2>2, <2>3, <2>4 DEF Stops
<1> HIDE DEF Found
<1>6. d = CHOOSE k \in Ring : Found(k) /\ \A j \in 0 .. k - 1 : ~ Found(j)
  <2>1. ASSUME NEW k \in Ring, Found(k), \A j \in 0 .. k - 1 : ~ Found(j) PROVE k = d
    <3>1. k \in Nat
      BY RingIs
    <3>2. ~ (k \in 0 .. d - 1) /\ ~ (d \in 0 .. k - 1)
      BY <1>4, <1>5, <2>1
    <3> QED BY <3>1, <3>2
  <2> QED BY <1>4, <1>5, <2>1
<1>7. d \in 0 .. d
  OBVIOUS
<1>8. NextItem(R, i) = (i + d) % RingLength
  BY <1>6 DEF NextItem, Found
<1> QED BY <1>2, <1>3, <1>7, <1>8

(* The items of u lie in their order: between two that follow each other   *)
(* there is none.                                                          *)
LEMMA BetweenIs ==
  ASSUME NEW R, NEW w \in Nat, NEW u, Holds(R, w, u), NEW n \in 0 .. Len(u) - 1,
         NEW k \in ToSet(u), n = 0 \/ u[n] < k
  PROVE  u[n + 1] <= k
<1>1. u \in Seq(Nat) /\ Len(u) \in Nat /\ \A i, j \in 1 .. Len(u) : i < j => u[i] < u[j]
  BY HeldIs
<1>2. PICK i \in 1 .. Len(u) : k = u[i]
  BY <1>1 DEF ToSet
<1>3. \A j \in 1 .. Len(u) : u[j] \in Nat
  BY <1>1
<1>4. i >= n + 1
  <2>1. CASE n = 0
    BY <1>1, <2>1
  <2>2. CASE n # 0
    <3>1. n \in 1 .. Len(u) /\ u[n] < u[i] /\ u[n] \in Nat /\ u[i] \in Nat
      BY <1>1, <1>2, <1>3, <2>2
    <3>2. ~ (i < n) /\ i # n
      BY <1>1, <3>1
    <3> QED BY <3>1, <3>2
  <2> QED BY <2>1, <2>2
<1>5. n + 1 \in 1 .. Len(u)
  BY <1>1
<1>6. CASE i = n + 1
  BY <1>2, <1>3, <1>6
<1>7. CASE i > n + 1
  BY <1>1, <1>2, <1>3, <1>5, <1>7
<1> QED BY <1>4, <1>5, <1>6, <1>7

LEMMA PastIs ==
  ASSUME NEW R, NEW w \in Nat, NEW u, Holds(R, w, u), NEW plus \in Nat, plus < Len(u)
  PROVE  Past(R, Pos(R, w, u[1]), plus) = Pos(R, w, u[plus + 1])
<1> DEFINE i == Pos(R, w, u[1])
           Is(g) == g = [n \in 0 .. plus |-> IF n = 0 THEN i ELSE Occupied(R, Step(g[n - 1]))]
           f == [n \in 0 .. plus |-> Pos(R, w, u[n + 1])]
<1>1. /\ R \in Rings /\ Len(u) \in Nat
      /\ \A n \in 1 .. Len(u) : u[n] \in Recent(w) /\ u[n] \in ToSet(u) /\ u[n] \in Nat
      /\ \A n, m \in 1 .. Len(u) : n < m => u[n] < u[m]
  BY HeldIs
<1>2. ASSUME NEW n \in 1 .. plus
      PROVE  Occupied(R, Step(Pos(R, w, u[n]))) = Pos(R, w, u[n + 1])
  <2>1. n \in 1 .. Len(u) /\ n + 1 \in 1 .. Len(u) /\ n \in 0 .. Len(u) - 1 /\ n # 0
    BY <1>1
  <2>2. PICK a \in Nat : a = u[n] /\ a \in Recent(w)
    BY <1>1, <2>1
  <2>3. PICK m \in Nat : m = u[n + 1] /\ m \in Recent(w) /\ m \in ToSet(u)
    BY <1>1, <2>1
  <2>4. a < m /\ m <= w
    <3>1. n < n + 1
      OBVIOUS
    <3>2. a < m
      BY <1>1, <2>1, <2>2, <2>3, <3>1
    <3>3. m <= w
      BY <2>3, RingIs DEF Recent
    <3> QED BY <3>2, <3>3
  <2>5. a + 1 \in Recent(w) /\ a # w /\ a + 1 <= m
    BY <2>2, <2>3, <2>4, RingIs DEF Recent
  <2>6. Step(Pos(R, w, a)) = Pos(R, w, a + 1)
    BY <1>1, <2>2, <2>5, PosIs
  <2>7. \A k \in Recent(w) : a + 1 <= k /\ k < m => k \notin ToSet(u)
    <3> SUFFICES ASSUME NEW k \in Recent(w), a + 1 <= k, k < m, k \in ToSet(u) PROVE FALSE
      OBVIOUS
    <3>1. k \in Int /\ a < k
      BY <2>2, RingIs DEF Recent
    <3>2. m <= k
      BY <2>1, <2>2, <2>3, <3>1, BetweenIs
    <3> QED BY <2>3, <3>1, <3>2
  <2>8. Occupied(R, Pos(R, w, a + 1)) = Pos(R, w, m)
    BY <2>3, <2>5, <2>7, OccupiedIs
  <2> QED BY <2>2, <2>3, <2>6, <2>8
<1>3. Is(f)
  <2>1. ASSUME NEW n \in 0 .. plus
        PROVE  f[n] = IF n = 0 THEN i ELSE Occupied(R, Step(f[n - 1]))
    <3>1. CASE n = 0
      BY <3>1
    <3>2. CASE n # 0
      <4>1. n \in 1 .. plus /\ n - 1 \in 0 .. plus /\ (n - 1) + 1 = n
        BY <3>2
      <4>2. f[n - 1] = Pos(R, w, u[n])
        BY <4>1
      <4> QED BY <1>2, <3>2, <4>1, <4>2
    <3> QED BY <3>1, <3>2
  <2>2. f = [n \in 0 .. plus |-> f[n]]
    OBVIOUS
  <2> HIDE DEF f, i
  <2> QED BY <2>1, <2>2
<1> HIDE DEF f
<1>4. PICK g : g = (CHOOSE h : Is(h)) /\ Is(g)
  <2> HIDE DEF Is
  <2> QED BY <1>3, Zenon
<1>5. \A n \in 0 .. plus : g[n] = IF n = 0 THEN i ELSE Occupied(R, Step(g[n - 1]))
  BY <1>4, Zenon
<1> DEFINE Bad == {n \in 0 .. plus : g[n] # Pos(R, w, u[n + 1])}
<1>6. Bad = {}
  <2> SUFFICES ASSUME Bad # {} PROVE FALSE
    OBVIOUS
  <2>1. PICK n \in Bad : \A m \in Bad : n <= m
    <3>1. Bad \subseteq Nat
      OBVIOUS
    <3> HIDE DEF Bad
    <3> QED BY <3>1, LeastNat
  <2>2. /\ n \in 0 .. plus /\ g[n] # Pos(R, w, u[n + 1])
        /\ n > 0 => g[n - 1] = Pos(R, w, u[(n - 1) + 1])
    BY <2>1
  <2>3. CASE n = 0
    BY <1>5, <2>2, <2>3
  <2>4. CASE n > 0
    <3>1. n \in 1 .. plus /\ (n - 1) + 1 = n /\ n # 0
      BY <2>2, <2>4
    <3>2. g[n] = Occupied(R, Step(Pos(R, w, u[n])))
      BY <1>5, <2>2, <2>4, <3>1
    <3> QED BY <1>2, <2>2, <3>1, <3>2
  <2> QED BY <2>2, <2>3, <2>4
<1>7. g[plus] = Pos(R, w, u[plus + 1])
  <2>1. plus \in 0 .. plus
    OBVIOUS
  <2> QED BY <1>6, <2>1
<1>8. Past(R, i, plus) = (CHOOSE h : Is(h))[plus]
  BY DEF Past
<1> QED BY <1>4, <1>7, <1>8

(* What says nothing of the items leaves them where they are.              *)
LEMMA HoldsOn ==
  ASSUME NEW R, NEW S \in Rings, NEW w \in Nat, NEW u, Holds(R, w, u),
         S.items = R.items, S.count = R.count, S.end = R.end
  PROVE  Holds(S, w, u) /\ \A k : Pos(S, w, k) = Pos(R, w, k)
<1>1. \A k : Pos(S, w, k) = Pos(R, w, k)
  BY DEF Pos
<1> QED BY <1>1 DEF Holds

(* mdatapuffer_setreadindex finds the first item, and the first one after  *)
(* those left behind.                                                      *)
LEMMA SetIndexIs ==
  ASSUME NEW R, NEW w \in Nat, NEW u, Holds(R, w, u), NEW plus \in Ring,
         NEW s, StartsAt(R, w, u, s),
         NEW S, S = SetIndex(R, plus)
  PROVE  /\ Holds(S, w, u) /\ S.end = R.end /\ S.plus = plus
         /\ \E z : /\ StartsAt(S, w, u, z) /\ s <= z
                   /\ plus < Len(u) => /\ ReadsAt(S, w, u, u[plus + 1]) /\ z <= u[plus + 1]
                                       /\ S.read_index = Pos(S, w, u[plus + 1])
         /\ Len(u) = 0 => S.start = R.start
<1>1. /\ R \in Rings /\ R.count = Len(u) /\ Len(u) \in Nat /\ u \in Seq(Nat)
      /\ \A n \in 1 .. Len(u) : u[n] \in Recent(w) /\ u[n] \in ToSet(u) /\ u[n] \in Nat
      /\ \A n, m \in 1 .. Len(u) : n < m => u[n] < u[m]
  BY HeldIs
<1>2. plus \in Nat
  BY RingIs
<1>3. s \in Recent(w) /\ s \in Int /\ R.start = Pos(R, w, s) /\ \A i \in 1 .. Len(u) : s <= u[i]
  BY RingIs DEF StartsAt, Recent
<1>4. PICK z \in Recent(w) : z = IF Len(u) = 0 THEN s ELSE u[1]
  BY <1>1, <1>3
<1>5. (IF R.count = 0 THEN R.start ELSE Occupied(R, R.start)) = Pos(R, w, z)
  <2>1. CASE Len(u) = 0
    BY <1>1, <1>3, <1>4, <2>1
  <2>2. CASE Len(u) # 0
    <3>1. 1 \in 1 .. Len(u) /\ 0 \in 0 .. Len(u) - 1 /\ 0 + 1 = 1
      BY <1>1, <2>2
    <3>2. z = u[1] /\ s <= z /\ z \in ToSet(u) /\ z \in Nat
      BY <1>1, <1>3, <1>4, <2>2, <3>1
    <3>3. \A k \in Recent(w) : s <= k /\ k < z => k \notin ToSet(u)
      <4> SUFFICES ASSUME NEW k \in Recent(w), k < z, k \in ToSet(u) PROVE FALSE
        OBVIOUS
      <4>1. k \in Int
        BY RingIs DEF Recent
      <4>2. u[0 + 1] <= k
        BY <3>1, BetweenIs
      <4> QED BY <3>1, <3>2, <4>1, <4>2
    <3>4. Occupied(R, Pos(R, w, s)) = Pos(R, w, z)
      BY <1>3, <3>2, <3>3, OccupiedIs
    <3> QED BY <1>1, <1>3, <2>2, <3>4
  <2> QED BY <2>1, <2>2
<1>6. PICK T : T = [R EXCEPT !.plus = plus,
                             !.start = IF R.count = 0 THEN @ ELSE Occupied(R, @)]
  OBVIOUS
<1>7. /\ T \in Rings /\ T.items = R.items /\ T.count = R.count /\ T.end = R.end
      /\ T.plus = plus /\ T.start = Pos(R, w, z) /\ T.read_index = R.read_index
  <2>1. Pos(R, w, z) \in Ring
    BY <1>1, PosIs
  <2>2. T = [R EXCEPT !.plus = plus, !.start = Pos(R, w, z)]
    BY <1>5, <1>6
  <2> QED BY <1>1, <2>1, <2>2 DEF Rings
<1>8. Holds(T, w, u) /\ \A k : Pos(T, w, k) = Pos(R, w, k)
  BY <1>7, HoldsOn
<1>9. plus < Len(u) => Past(T, T.start, plus) = Pos(R, w, u[plus + 1])
  <2> SUFFICES ASSUME plus < Len(u) PROVE Past(T, T.start, plus) = Pos(R, w, u[plus + 1])
    OBVIOUS
  <2>1. z = u[1] /\ T.start = Pos(T, w, u[1])
    BY <1>1, <1>2, <1>4, <1>7, <1>8
  <2>2. Past(T, Pos(T, w, u[1]), plus) = Pos(T, w, u[plus + 1])
    BY <1>2, <1>8, PastIs
  <2> QED BY <1>8, <2>1, <2>2
<1>10. S = IF R.count - plus < 1 THEN T ELSE [T EXCEPT !.read_index = Past(T, T.start, plus)]
  BY <1>6 DEF SetIndex
<1>11. /\ S \in Rings /\ S.items = R.items /\ S.count = R.count /\ S.end = R.end
       /\ S.plus = plus /\ S.start = Pos(R, w, z)
       /\ plus < Len(u) => S.read_index = Pos(R, w, u[plus + 1])
  <2>1. CASE plus < Len(u)
    <3>1. ~ (R.count - plus < 1)
      BY <1>1, <1>2, <2>1
    <3>2. S = [T EXCEPT !.read_index = Pos(R, w, u[plus + 1])]
      BY <1>9, <1>10, <2>1, <3>1
    <3>3. PICK k \in Recent(w) : k = u[plus + 1]
      BY <1>1, <1>2, <2>1
    <3>4. Pos(R, w, k) \in 0 .. RingLength
      <4>1. Pos(R, w, k) \in Ring
        BY <1>1, PosIs
      <4> QED BY <4>1, RingIs
    <3>5. PICK q \in 0 .. RingLength : q = Pos(R, w, u[plus + 1])
      BY <3>3, <3>4
    <3>6. S = [T EXCEPT !.read_index = q]
      BY <3>2, <3>5
    <3> QED BY <1>7, <3>5, <3>6 DEF Rings
  <2>2. CASE ~ (plus < Len(u))
    <3>1. R.count - plus < 1
      BY <1>1, <1>2, <2>2
    <3> QED BY <1>7, <1>10, <2>2, <3>1
  <2> QED BY <2>1, <2>2
<1>12. Holds(S, w, u) /\ \A k : Pos(S, w, k) = Pos(R, w, k)
  BY <1>11, HoldsOn
<1>13. \A i \in 1 .. Len(u) : z <= u[i]
  <2> SUFFICES ASSUME NEW i \in 1 .. Len(u) PROVE z <= u[i]
    OBVIOUS
  <2>1. 1 \in 1 .. Len(u) /\ z = u[1] /\ u[1] \in Nat /\ u[i] \in Nat
    BY <1>1, <1>4
  <2> QED BY <1>1, <2>1
<1>14. StartsAt(S, w, u, z)
  BY <1>11, <1>12, <1>13 DEF StartsAt
<1>15. s <= z
  <2>1. CASE Len(u) = 0
    BY <1>3, <1>4, <2>1
  <2>2. CASE Len(u) # 0
    BY <1>1, <1>3, <1>4, <2>2
  <2> QED BY <2>1, <2>2
<1>16. ASSUME plus < Len(u)
       PROVE  /\ ReadsAt(S, w, u, u[plus + 1]) /\ z <= u[plus + 1]
              /\ S.read_index = Pos(S, w, u[plus + 1])
  <2>1. plus + 1 \in 1 .. Len(u)
    BY <1>1, <1>2, <1>16
  <2>2. u[plus + 1] \in Recent(w) /\ u[plus + 1] \in Nat
    BY <1>1, <2>1
  <2>3. \A i \in 1 .. plus : u[i] < u[plus + 1]
    BY <1>1, <1>2, <2>1
  <2>4. S.read_index = Pos(S, w, u[plus + 1]) /\ S.plus = plus
    BY <1>11, <1>12, <1>16
  <2>5. ReadsAt(S, w, u, u[plus + 1])
    BY <1>16, <2>2, <2>3, <2>4 DEF ReadsAt
  <2> QED BY <1>13, <2>1, <2>4, <2>5
<1>17. Len(u) = 0 => S.start = R.start
  BY <1>3, <1>4, <1>11
<1> QED BY <1>11, <1>12, <1>14, <1>15, <1>16, <1>17

(* What is left of the items when one of them is removed.                  *)
LEMMA RisingWithout ==
  ASSUME NEW w \in Nat, NEW u, Rising(w, u), NEW p \in 1 .. Len(u),
         NEW v, v = RemoveAt(u, p)
  PROVE  /\ Rising(w, v) /\ Len(v) = Len(u) - 1
         /\ ToSet(v) = ToSet(u) \ {u[p]}
         /\ \A i \in 1 .. Len(v) : v[i] = u[IF i < p THEN i ELSE i + 1]
<1>1. u \in Seq(Nat) /\ Len(u) \in Nat
  BY DEF Rising
<1>2. PICK n \in Nat : n = Len(u) - 1 /\ Len(u) = n + 1
  BY <1>1
<1>3. /\ v \in Seq(Nat) /\ Len(v) = n
      /\ \A i \in 1 .. n : v[i] = IF i < p THEN u[i] ELSE u[i + 1]
  BY <1>1, <1>2, RemoveAtIs
<1> DEFINE posn(i) == IF i < p THEN i ELSE i + 1
<1>4. \A i \in 1 .. n : v[i] = u[posn(i)]
  BY <1>3
<1>5. \A i \in 1 .. n : posn(i) \in 1 .. Len(u) /\ posn(i) # p
  BY <1>2
<1>6. \A i, j \in 1 .. n : i < j => posn(i) < posn(j)
  BY <1>2
<1>7. \A j \in 1 .. Len(u) : j # p => \E i \in 1 .. n : j = posn(i)
  <2> SUFFICES ASSUME NEW j \in 1 .. Len(u), j # p PROVE \E i \in 1 .. n : j = posn(i)
    OBVIOUS
  <2>1. CASE j < p
    <3>1. j \in 1 .. n /\ j = posn(j)
      BY <1>2, <2>1
    <3> QED BY <3>1
  <2>2. CASE j > p
    <3>1. j - 1 \in 1 .. n /\ j = posn(j - 1)
      BY <1>2, <2>2
    <3> QED BY <3>1
  <2> QED BY <2>1, <2>2
<1> HIDE DEF posn
<1>8. /\ \A i \in 1 .. Len(u) : u[i] \in Recent(w) /\ u[i] > 0 /\ u[i] \in Nat
      /\ \A i, j \in 1 .. Len(u) : i < j => u[i] < u[j]
  BY <1>1 DEF Rising
<1>9. \A j \in 1 .. Len(u) : j # p => u[j] # u[p]
  <2> SUFFICES ASSUME NEW j \in 1 .. Len(u), j # p PROVE u[j] # u[p]
    OBVIOUS
  <2>1. j < p \/ p < j
    OBVIOUS
  <2> QED BY <1>8, <2>1
<1>10. ToSet(u) = {u[i] : i \in 1 .. Len(u)} /\ ToSet(v) = {v[i] : i \in 1 .. n}
  <2>1. DOMAIN u = 1 .. Len(u) /\ DOMAIN v = 1 .. n
    BY <1>1, <1>3
  <2> QED BY <2>1, Zenon DEF ToSet
<1>11. ToSet(v) = ToSet(u) \ {u[p]}
  <2>1. \A k \in ToSet(v) : k \in ToSet(u) \ {u[p]}
    <3> SUFFICES ASSUME NEW i \in 1 .. n PROVE v[i] \in ToSet(u) \ {u[p]}
      BY <1>10
    <3> QED BY <1>4, <1>5, <1>9, <1>10
  <2>2. \A k \in ToSet(u) \ {u[p]} : k \in ToSet(v)
    <3> SUFFICES ASSUME NEW j \in 1 .. Len(u), u[j] # u[p] PROVE u[j] \in ToSet(v)
      BY <1>10
    <3>1. PICK i \in 1 .. n : j = posn(i)
      BY <1>7
    <3>2. v[i] = u[j]
      BY <1>4, <3>1
    <3> QED BY <1>10, <3>2
  <2> QED BY <2>1, <2>2
<1>12. Rising(w, v)
  <2>1. \A i \in 1 .. n : v[i] \in Recent(w) /\ v[i] > 0
    BY <1>4, <1>5, <1>8
  <2>2. \A i, j \in 1 .. n : i < j => v[i] < v[j]
    BY <1>4, <1>5, <1>6, <1>8
  <2> QED BY <1>3, <2>1, <2>2, Zenon DEF Rising
<1>13. \A i \in 1 .. n : v[i] = u[IF i < p THEN i ELSE i + 1]
  BY <1>4 DEF posn
<1> QED BY <1>2, <1>3, <1>11, <1>12, <1>13

(* mdatapuffer_read takes the first item after those left behind, and the  *)
(* read index goes to where the next one may be.                           *)
LEMMA TakenOutIs ==
  ASSUME NEW R, NEW w \in Nat, NEW u, Holds(R, w, u), NEW r, ReadsAt(R, w, u, r),
         NEW T, T = TakenOut(R), NEW v, v = RemoveAt(u, R.plus + 1)
  PROVE  /\ Given(R) = u[R.plus + 1]
         /\ Holds(T, w, v) /\ Len(v) = Len(u) - 1
         /\ T.start = R.start /\ T.end = R.end /\ T.plus = R.plus
         /\ R.plus < Len(v) => \E q : r <= q /\ ReadsAt(T, w, v, q)
         /\ ToSet(v) \subseteq ToSet(u)
<1>1. /\ R \in Rings /\ R.count = Len(u) /\ Len(u) \in Nat /\ u \in Seq(Nat)
      /\ \A n \in 1 .. Len(u) : u[n] \in Recent(w) /\ u[n] \in ToSet(u) /\ u[n] \in Nat
                                /\ R.items[Pos(R, w, u[n])] = u[n]
      /\ \A n, m \in 1 .. Len(u) : n < m => u[n] < u[m]
  BY HeldIs
<1>2. PICK p \in Nat : p = R.plus /\ p < Len(u) /\ p + 1 \in 1 .. Len(u)
  BY <1>1, RingIs DEF ReadsAt, Rings
<1>3. PICK m \in Nat : m = u[p + 1] /\ m \in Recent(w) /\ m \in ToSet(u)
  BY <1>1, <1>2
<1>4. r \in Recent(w) /\ r \in Int /\ r <= m /\ \A i \in 1 .. p : u[i] < r
  BY <1>2, <1>3, RingIs DEF ReadsAt, Recent
<1>5. NextItem(R, R.read_index) = Pos(R, w, m)
  <2>1. \A k \in Recent(w) : r <= k /\ k < m => k \notin ToSet(u)
    <3> SUFFICES ASSUME NEW k \in Recent(w), r <= k, k < m, k \in ToSet(u) PROVE FALSE
      OBVIOUS
    <3>1. k \in Int
      BY RingIs DEF Recent
    <3>2. p \in 0 .. Len(u) - 1
      BY <1>1, <1>2
    <3>3. p = 0 \/ u[p] < k
      <4>1. p # 0 => p \in 1 .. p /\ p \in 1 .. Len(u)
        BY <1>1, <1>2
      <4>2. p # 0 => u[p] < r /\ u[p] \in Nat
        BY <1>1, <1>4, <4>1
      <4> QED BY <1>4, <3>1, <4>2
    <3>4. u[p + 1] <= k
      BY <3>2, <3>3, BetweenIs
    <3> QED BY <1>3, <3>1, <3>4
  <2>2. R.read_index \in 0 .. RingLength
    BY <1>1 DEF Rings
  <2>3. R.read_index = Pos(R, w, r) \/ (R.read_index = RingLength /\ Pos(R, w, r) = 0)
    BY DEF ReadsAt
  <2> QED BY <1>3, <1>4, <2>1, <2>2, <2>3, NextItemIs
<1>6. PICK a \in Ring : a = Pos(R, w, m)
  BY <1>1, <1>3, PosIs
<1>7. Given(R) = m
  BY <1>1, <1>2, <1>3, <1>5 DEF Given
<1>8. T = [R EXCEPT !.items[a] = 0, !.read_index = a + 1, !.count = @ - 1]
  BY <1>5, <1>6 DEF TakenOut
<1>9. /\ T \in Rings /\ T.items = [R.items EXCEPT ![a] = 0] /\ T.read_index = a + 1
      /\ T.count = Len(u) - 1 /\ T.start = R.start /\ T.end = R.end /\ T.plus = R.plus
  <2>1. a + 1 \in 0 .. RingLength
    BY RingIs
  <2>2. R.count - 1 \in Nat
    BY <1>1, <1>2
  <2>3. [R.items EXCEPT ![a] = 0] \in [Ring -> Nat]
    BY <1>1 DEF Rings
  <2> QED BY <1>1, <1>8, <2>1, <2>2, <2>3 DEF Rings
<1>10. /\ Rising(w, v) /\ Len(v) = Len(u) - 1
       /\ ToSet(v) = ToSet(u) \ {m}
       /\ \A i \in 1 .. Len(v) : v[i] = u[IF i < p + 1 THEN i ELSE i + 1]
  <2>1. Rising(w, u)
    BY DEF Holds
  <2>2. PICK x \in 1 .. Len(u) : x = p + 1
    BY <1>2
  <2>3. v = RemoveAt(u, x) /\ u[x] = m
    BY <1>2, <1>3, <2>2
  <2>4. /\ Rising(w, v) /\ Len(v) = Len(u) - 1
        /\ ToSet(v) = ToSet(u) \ {m}
        /\ \A i \in 1 .. Len(v) : v[i] = u[IF i < x THEN i ELSE i + 1]
    BY <2>1, <2>3, RisingWithout
  <2> QED BY <2>2, <2>4
<1>11. \A k : Pos(T, w, k) = Pos(R, w, k)
  BY <1>9 DEF Pos
<1>12. Holds(T, w, v)
  <2>1. ASSUME NEW k \in Recent(w)
        PROVE  T.items[Pos(R, w, k)] = IF k \in ToSet(v) THEN k ELSE 0
    <3>1. R.items[Pos(R, w, k)] = IF k \in ToSet(u) THEN k ELSE 0
      BY DEF Holds
    <3>2. Pos(R, w, k) \in Ring /\ R.items \in [Ring -> Nat]
      BY <1>1, PosIs DEF Rings
    <3>3. CASE k = m
      BY <1>6, <1>9, <1>10, <3>2, <3>3
    <3>4. CASE k # m
      <4>1. Pos(R, w, k) # a
        BY <1>1, <1>3, <1>6, <3>4, PosIs
      <4>2. T.items[Pos(R, w, k)] = R.items[Pos(R, w, k)]
        BY <1>9, <3>2, <4>1
      <4> QED BY <1>10, <3>1, <3>4, <4>2
    <3> QED BY <3>3, <3>4
  <2> QED BY <1>9, <1>10, <1>11, <2>1 DEF Holds
<1>13. ASSUME p < Len(v) PROVE r <= m + 1 /\ ReadsAt(T, w, v, m + 1)
  <2>0. PICK n \in Nat : n = Len(v) /\ Len(u) = n + 1 /\ p < n
    <3>1. Len(u) \in Nat /\ Len(u) # 0
      BY <1>1, <1>2
    <3>2. Len(v) = Len(u) - 1 /\ p < Len(v)
      BY <1>10, <1>13
    <3>3. Len(v) \in Nat /\ Len(u) = Len(v) + 1
      BY <3>1, <3>2
    <3> QED BY <3>2, <3>3
  <2>1. p + 1 \in 1 .. Len(v) /\ p + 2 \in 1 .. Len(u) /\ ~ (p + 1 < p + 1) /\ p + 1 < p + 2
    BY <2>0
  <2>2. v[p + 1] = u[p + 2]
    BY <1>10, <2>1
  <2>3. m < v[p + 1] /\ v[p + 1] \in Nat /\ v[p + 1] <= w
    <3>1. u[p + 2] \in Recent(w) /\ u[p + 2] \in Nat /\ u[p + 1] < u[p + 2]
      BY <1>1, <1>2, <2>1
    <3> QED BY <1>3, <2>2, <3>1, RingIs DEF Recent
  <2>4. m + 1 \in Recent(w) /\ m # w /\ m + 1 <= v[p + 1]
    BY <1>3, <2>3, RingIs DEF Recent
  <2>5. Step(a) = Pos(R, w, m + 1)
    BY <1>1, <1>3, <1>6, <2>4, PosIs
  <2>6. a + 1 = Pos(R, w, m + 1) \/ (a + 1 = RingLength /\ Pos(R, w, m + 1) = 0)
    BY <2>5 DEF Step
  <2>7. \A i \in 1 .. p : v[i] < m + 1
    <3> SUFFICES ASSUME NEW i \in 1 .. p PROVE v[i] < m + 1
      OBVIOUS
    <3>1. i \in 1 .. Len(v) /\ i < p + 1 /\ i \in 1 .. Len(u)
      BY <2>0
    <3>2. v[i] = u[i] /\ u[i] < u[p + 1] /\ u[i] \in Nat
      BY <1>1, <1>2, <1>10, <3>1
    <3> QED BY <1>3, <3>2
  <2>8. ReadsAt(T, w, v, m + 1)
    BY <1>2, <1>9, <1>11, <1>13, <2>4, <2>6, <2>7 DEF ReadsAt
  <2> QED BY <1>3, <1>4, <2>8
<1>14. p < Len(v) => \E q : r <= q /\ ReadsAt(T, w, v, q)
  BY <1>13
<1> QED BY <1>2, <1>3, <1>7, <1>9, <1>10, <1>12, <1>14

LEMMA EmptyHolds ==
  ASSUME NEW R \in Rings, NEW w \in Nat, R.count = 0, \A i \in Ring : R.items[i] = 0
  PROVE  Holds(R, w, <<>>) /\ \E s \in Recent(w) : StartsAt(R, w, <<>>, s)
<1>1. Rising(w, <<>>) /\ Len(<<>>) = 0 /\ ToSet(<<>>) = {}
  BY DEF Rising, ToSet
<1>2. \A k \in Recent(w) : R.items[Pos(R, w, k)] = 0
  BY PosIs
<1>3. Holds(R, w, <<>>)
  BY <1>1, <1>2 DEF Holds
<1>4. R.start \in Ring
  BY DEF Rings
<1>5. PICK s \in Recent(w) : Pos(R, w, s) = R.start
  BY <1>4, PosOnto
<1>6. StartsAt(R, w, <<>>, s)
  BY <1>1, <1>5 DEF StartsAt
<1> QED BY <1>3, <1>6

(* Reading on, nothing is left.                                            *)
LEMMA EmptiedIs ==
  ASSUME NEW R, NEW w \in Nat, NEW u, Holds(R, w, u), R.plus = 0,
         NEW r, Len(u) > 0 => ReadsAt(R, w, u, r)
  PROVE  \E F \in Rings : /\ F = Emptied(R, Len(u)) /\ Holds(F, w, <<>>)
                          /\ F.start = R.start /\ F.end = R.end /\ F.plus = 0
<1>1. R \in Rings /\ Len(u) \in Nat
  BY HeldIs
<1>2. PICK N \in Nat : N = Len(u)
  BY <1>1
<1> DEFINE Left(F, k, v) == /\ Holds(F, w, v) /\ Len(v) = N - k
                            /\ F.start = R.start /\ F.end = R.end /\ F.plus = 0
                            /\ Len(v) > 0 => \E q : ReadsAt(F, w, v, q)
           Done(F, k) == F \in Rings /\ \E v : Left(F, k, v)
           Is(g) == g = [k \in 0 .. N |-> IF k = 0 THEN R ELSE TakenOut(g[k - 1])]
<1>3. Done(R, 0)
  <2>1. N - 0 = N
    OBVIOUS
  <2>2. Left(R, 0, u)
    BY <1>2, <2>1
  <2> QED BY <1>1, <2>2
<1>4. ASSUME NEW k \in 1 .. N, NEW F, Done(F, k - 1) PROVE Done(TakenOut(F), k)
  <2>1. PICK v : Left(F, k - 1, v)
    BY <1>4
  <2>2. Len(v) > 0 /\ Len(v) - 1 = N - k
    BY <2>1
  <2>3. PICK q : ReadsAt(F, w, v, q)
    BY <2>1, <2>2
  <2>4. PICK T : T = TakenOut(F)
    OBVIOUS
  <2>5. PICK x : x = RemoveAt(v, F.plus + 1)
    OBVIOUS
  <2>6. /\ Holds(T, w, x) /\ Len(x) = Len(v) - 1
        /\ T.start = F.start /\ T.end = F.end /\ T.plus = F.plus
        /\ F.plus < Len(x) => \E p : q <= p /\ ReadsAt(T, w, x, p)
    <3>1. Holds(F, w, v)
      BY <2>1
    <3> HIDE DEF Left
    <3> QED BY <2>3, <2>4, <2>5, <3>1, TakenOutIs
  <2>7. Left(T, k, x)
    BY <2>1, <2>2, <2>6
  <2>8. T \in Rings
    BY <2>6, HeldIs
  <2> HIDE DEF Left
  <2> QED BY <2>4, <2>7, <2>8
<1> HIDE DEF Done
<1>5. ASSUME NEW g, g[0] = R, \A k \in 1 .. N : Done(g[k - 1], k - 1) => g[k] = TakenOut(g[k - 1]),
             NEW n \in 0 .. N
      PROVE  Done(g[n], n)
  <2> DEFINE Bad == {k \in 0 .. N : ~ Done(g[k], k)}
  <2>1. Bad = {}
    <3> SUFFICES ASSUME Bad # {} PROVE FALSE
      OBVIOUS
    <3>1. PICK k \in Bad : \A j \in Bad : k <= j
      <4>1. Bad \subseteq Nat
        OBVIOUS
      <4> HIDE DEF Bad
      <4> QED BY <4>1, LeastNat
    <3>2. k \in 0 .. N /\ ~ Done(g[k], k) /\ (k > 0 => Done(g[k - 1], k - 1))
      BY <3>1
    <3>3. k # 0
      BY <1>3, <1>5, <3>2
    <3>4. k \in 1 .. N /\ Done(g[k - 1], k - 1)
      BY <3>2, <3>3
    <3>5. g[k] = TakenOut(g[k - 1])
      BY <1>5, <3>4
    <3> QED BY <1>4, <3>2, <3>4, <3>5
  <2> QED BY <2>1
<1>6. \E g : Is(g)
  <2> DEFINE us == [k \in 1 .. N |-> [F \in Rings |-> IF Done(F, k - 1) THEN TakenOut(F) ELSE F]]
  <2>1. us \in [1 .. N -> [Rings -> Rings]]
    <3>1. \A k \in 1 .. N : \A F \in Rings : Done(F, k - 1) => TakenOut(F) \in Rings
      BY <1>4 DEF Done
    <3> QED BY <3>1
  <2>2. \A k \in 1 .. N : \A F \in Rings : us[k][F] = IF Done(F, k - 1) THEN TakenOut(F) ELSE F
    OBVIOUS
  <2> HIDE DEF us
  <2>3. PICK f : TurnsOf(Rings, R, us, N, f)
    BY <1>1, <2>1, LoopTurns
  <2>4. /\ f[0] = R /\ \A n \in 0 .. N : f[n] \in Rings
        /\ \A k \in 1 .. N : f[k] = us[k][f[k - 1]]
    BY <2>3 DEF TurnsOf
  <2>5. \A k \in 1 .. N : k - 1 \in 0 .. N
    OBVIOUS
  <2>6. \A k \in 1 .. N : Done(f[k - 1], k - 1) => f[k] = TakenOut(f[k - 1])
    BY <2>2, <2>4, <2>5
  <2>7. \A k \in 0 .. N : Done(f[k], k)
    BY <1>5, <2>4, <2>6
  <2>8. \A k \in 1 .. N : f[k] = TakenOut(f[k - 1])
    BY <2>5, <2>6, <2>7
  <2>9. f = [n \in 0 .. N |-> f[n]]
    BY <2>3 DEF TurnsOf
  <2>10. \A n \in 0 .. N : f[n] = IF n = 0 THEN R ELSE TakenOut(f[n - 1])
    <3>1. \A n \in 0 .. N : n # 0 => n \in 1 .. N
      OBVIOUS
    <3> QED BY <2>4, <2>8, <3>1, Zenon
  <2> QED BY <2>9, <2>10
<1>7. PICK g : g = (CHOOSE f : Is(f)) /\ Is(g)
  <2> HIDE DEF Is
  <2> QED BY <1>6, Zenon
<1>8. g[0] = R /\ \A k \in 1 .. N : g[k] = TakenOut(g[k - 1])
  <2>1. 0 \in 0 .. N
    OBVIOUS
  <2>2. \A k \in 1 .. N : k \in 0 .. N /\ k # 0
    OBVIOUS
  <2>3. \A k \in 0 .. N : g[k] = IF k = 0 THEN R ELSE TakenOut(g[k - 1])
    BY <1>7, Zenon
  <2> QED BY <2>1, <2>2, <2>3, Zenon
<1>9. Done(g[N], N)
  <2>1. N \in 0 .. N
    OBVIOUS
  <2> QED BY <1>5, <1>8, <2>1, Zenon
<1>10. Emptied(R, N) = g[N]
  <2>1. Emptied(R, N) = (CHOOSE f : Is(f))[N]
    BY DEF Emptied
  <2> QED BY <1>7, <2>1, Zenon
<1>11. PICK v : Left(g[N], N, v) /\ g[N] \in Rings
  BY <1>9 DEF Done
<1>12. v = <<>>
  <2>1. Len(v) = 0 /\ v \in Seq(Nat)
    BY <1>11, HeldIs
  <2> QED BY <2>1, EmptySeq
<1> QED BY <1>2, <1>10, <1>11, <1>12

(* What mdatapuffer_clear leaves: no item, start where it was set to.      *)
LEMMA ClearedIs ==
  ASSUME NEW R, NEW w \in Nat, NEW u, Holds(R, w, u), Len(u) > 0, NEW s, StartsAt(R, w, u, s)
  PROVE  /\ Cleared(R) \in Rings /\ Holds(Cleared(R), w, <<>>)
         /\ \E z \in Recent(w) : StartsAt(Cleared(R), w, <<>>, z)
<1>1. PICK S : S = SetIndex(R, 0)
  OBVIOUS
<1>2. 0 \in Ring /\ Len(u) \in Nat /\ 0 + 1 = 1
  BY RingIs, HeldIs
<1>3. PICK z : /\ Holds(S, w, u) /\ S.plus = 0
               /\ StartsAt(S, w, u, z) /\ ReadsAt(S, w, u, u[1])
  BY <1>1, <1>2, SetIndexIs
<1>4. S \in Rings /\ S.count = Len(u)
  BY <1>3, HeldIs
<1>5. ReadCapacity(S) = Len(u)
  BY <1>2, <1>3, <1>4 DEF ReadCapacity
<1>6. PICK F \in Rings : /\ F = Emptied(S, Len(u)) /\ Holds(F, w, <<>>)
                         /\ F.start = S.start /\ F.end = S.end
  BY <1>3, EmptiedIs
<1>7. PICK C : C = [F EXCEPT !.read_index = S.start]
  OBVIOUS
<1>8. Cleared(R) = C
  BY <1>1, <1>5, <1>6, <1>7 DEF Cleared
<1>9. /\ C \in Rings /\ C.items = F.items /\ C.count = F.count /\ C.end = F.end
      /\ C.start = S.start
  <2>1. S.start \in 0 .. RingLength
    <3>1. S.start \in Ring
      BY <1>4 DEF Rings
    <3> QED BY <3>1, RingIs
  <2> QED BY <1>6, <1>7, <2>1 DEF Rings
<1>10. Holds(C, w, <<>>)
  BY <1>6, <1>9, HoldsOn
<1>11. Pos(C, w, z) = Pos(S, w, z)
  BY <1>6, <1>9 DEF Pos
<1>12. z \in Recent(w) /\ StartsAt(C, w, <<>>, z)
  BY <1>3, <1>9, <1>11 DEF StartsAt
<1> QED BY <1>8, <1>9, <1>10, <1>12

LEMMA RingInitInv == RingInit => RingInv
<1> SUFFICES ASSUME RingInit PROVE RingInv
  OBVIOUS
<1>1. PICK plus \in Ring :
        ring = [items |-> [i \in Ring |-> 0], count |-> 0, read_index |-> 0,
                start |-> 0, end |-> 0, plus |-> plus]
  BY DEF RingInit
<1>2. ring \in Rings /\ ring.count = 0 /\ \A i \in Ring : ring.items[i] = 0
  <2>1. 0 \in Ring /\ 0 \in 0 .. RingLength
    BY RingIs
  <2> QED BY <1>1, <2>1 DEF Rings
<1>3. Holds(ring, 0, <<>>) /\ \E s \in Recent(0) : StartsAt(ring, 0, <<>>, s)
  BY <1>2, EmptyHolds
<1> QED BY <1>3 DEF RingInit, RingInv

LEMMA AskKept ==
  ASSUME RingInv, AskWriteCapacity PROVE RingInv'
<1>1. /\ UNCHANGED <<ring, written, unread, given, awaited, settled, passed>>
      /\ writes' = 0 /\ offer' = WriteCapacity(ring) /\ Kept
  BY DEF AskWriteCapacity
<1>2. offer' > 0 => ring.count = 0 \/ ring.end # ring.start
  <2> SUFFICES ASSUME ring.count # 0, ring.end = ring.start PROVE WriteCapacity(ring) = 0
    BY <1>1
  <2> QED BY DEF WriteCapacity
<1>3. passed = 0
  BY <1>1 DEF Kept
<1> QED BY <1>1, <1>2, <1>3 DEF RingInv, Kept

(* One more item is written where no item is.                              *)
LEMMA WrittenIs ==
  ASSUME NEW R, NEW w \in Nat, NEW u, Holds(R, w, u), NEW s, StartsAt(R, w, u, s),
         R.count = 0 \/ R.end # R.start,
         NEW T, T = [R EXCEPT !.items[R.end] = w + 1, !.end = Step(@), !.count = @ + 1],
         NEW v, v = Append(u, w + 1)
  PROVE  /\ Holds(T, w + 1, v)
         /\ R.count = 0 => \E z \in Recent(w + 1) : StartsAt(T, w + 1, v, z)
         /\ R.count # 0 => /\ StartsAt(T, w + 1, v, s)
                           /\ \A r : s <= r /\ ReadsAt(R, w, u, r) => ReadsAt(T, w + 1, v, r)
<1>1. /\ R \in Rings /\ R.count = Len(u) /\ Len(u) \in Nat /\ u \in Seq(Nat)
      /\ \A i \in 1 .. Len(u) : u[i] \in Recent(w) /\ u[i] \in Nat
      /\ \A i, j \in 1 .. Len(u) : i < j => u[i] < u[j]
  BY HeldIs
<1>2. PICK n \in Nat : n = Len(u)
  BY <1>1
<1>3. /\ v \in Seq(Nat) /\ Len(v) = n + 1 /\ v[n + 1] = w + 1
      /\ \A i \in 1 .. n : v[i] = u[i]
  BY <1>1, <1>2, AppendProperties
<1>4. PICK e \in Ring : e = R.end
  BY <1>1 DEF Rings
<1>5. Step(e) \in Ring
  BY RingIs DEF Step
<1>6. /\ T \in Rings /\ T.items = [R.items EXCEPT ![e] = w + 1] /\ T.count = n + 1
      /\ T.end = Step(e) /\ T.start = R.start /\ T.plus = R.plus
      /\ T.read_index = R.read_index
  <2>1. [R.items EXCEPT ![e] = w + 1] \in [Ring -> Nat]
    BY <1>1 DEF Rings
  <2>2. R.count + 1 = n + 1 /\ n + 1 \in Nat
    BY <1>1, <1>2
  <2>3. T = [R EXCEPT !.items = [R.items EXCEPT ![e] = w + 1], !.end = Step(e), !.count = n + 1]
    BY <1>1, <1>4, <2>2 DEF Rings
  <2> QED BY <1>1, <1>5, <2>1, <2>2, <2>3 DEF Rings
<1>7. RingLength \in Nat /\ RingLength > 0
  BY RingIs
<1>8. \A k \in Recent(w + 1) : k # w + 1 => k \in Recent(w) /\ k # w - RingLength + 1
  BY <1>7 DEF Recent
<1>9. \A k \in Recent(w) : k # w - RingLength + 1 => k \in Recent(w + 1) /\ k # w + 1
  BY <1>7 DEF Recent
<1>10. w + 1 \in Recent(w + 1) /\ Pos(T, w + 1, w + 1) = e
  <2>1. w + 1 \in Recent(w + 1)
    BY <1>7 DEF Recent
  <2>2. e \in Int /\ 0 <= e /\ e < RingLength
    BY RingIs
  <2>3. T.end + (w + 1) - (w + 1) - 1 = Step(e) - 1
    BY <1>5, <1>6, RingIs
  <2>4. Pos(T, w + 1, w + 1) = IF Step(e) - 1 < 0 THEN Step(e) - 1 + RingLength ELSE Step(e) - 1
    BY <2>3 DEF Pos
  <2> QED BY <1>7, <2>1, <2>2, <2>4 DEF Step
<1>11. ASSUME NEW k \in Recent(w), k # w - RingLength + 1
       PROVE  Pos(T, w + 1, k) = Pos(R, w, k) /\ Pos(R, w, k) # e /\ Pos(R, w, k) \in Ring
  <2>1. Pos(R, w, k) \in Ring /\ Pos(R, w, k) # e
    BY <1>1, <1>4, <1>11, PosIs
  <2>2. e \in Int /\ 0 <= e /\ e < RingLength
    BY RingIs
  <2>3. k \in Int /\ w - RingLength + 1 < k /\ k <= w
    BY <1>7, <1>11 DEF Recent
  <2>4. Pos(R, w, k) = IF e + k - w - 1 < 0 THEN e + k - w - 1 + RingLength ELSE e + k - w - 1
    BY <1>4 DEF Pos
  <2>5. PICK f \in Int : f = Step(e) /\ f = IF e + 1 = RingLength THEN 0 ELSE e + 1
    BY <2>2 DEF Step
  <2>6. Pos(T, w + 1, k) = IF f + k - (w + 1) - 1 < 0 THEN f + k - (w + 1) - 1 + RingLength
                           ELSE f + k - (w + 1) - 1
    BY <1>6, <2>5 DEF Pos
  <2>7. Pos(T, w + 1, k) = Pos(R, w, k)
    <3>1. CASE e + 1 = RingLength
      <4>1. f = 0 /\ e = RingLength - 1
        BY <1>7, <2>2, <2>5, <3>1
      <4>2. Pos(T, w + 1, k) = RingLength + ((k - w) - 2)
        BY <1>7, <2>3, <2>6, <4>1
      <4>3. Pos(R, w, k) = RingLength + ((k - w) - 2)
        BY <1>7, <2>3, <2>4, <4>1
      <4> QED BY <4>2, <4>3
    <3>2. CASE e + 1 # RingLength
      <4>1. f = e + 1
        BY <2>5, <3>2
      <4> QED BY <1>7, <2>2, <2>3, <2>4, <2>6, <4>1
    <3> QED BY <3>1, <3>2
  <2> QED BY <2>1, <2>7
<1>12. s \in Recent(w) /\ s \in Int /\ R.start = Pos(R, w, s) /\ \A i \in 1 .. n : s <= u[i]
  BY <1>2, RingIs DEF StartsAt, Recent
<1>13. R.count # 0 => s # w - RingLength + 1
  BY <1>1, <1>12, PosIs
<1>14. \A i \in 1 .. n : u[i] # w - RingLength + 1
  <2> SUFFICES ASSUME NEW i \in 1 .. n PROVE u[i] # w - RingLength + 1
    OBVIOUS
  <2>1. R.count # 0 /\ s <= u[i] /\ u[i] \in Nat
    BY <1>1, <1>2, <1>12
  <2>2. s >= w - RingLength + 1
    BY <1>7, <1>12 DEF Recent
  <2> QED BY <1>7, <1>12, <1>13, <2>1, <2>2
<1>15. Rising(w + 1, v)
  <2>1. \A i \in 1 .. n : v[i] \in Recent(w + 1) /\ v[i] > 0 /\ v[i] < w + 1
    <3> SUFFICES ASSUME NEW i \in 1 .. n PROVE v[i] \in Recent(w + 1) /\ v[i] > 0 /\ v[i] < w + 1
      OBVIOUS
    <3>1. i \in 1 .. Len(u) /\ v[i] = u[i] /\ u[i] \in Recent(w) /\ u[i] \in Nat
      BY <1>1, <1>2, <1>3
    <3>2. u[i] > 0
      BY <3>1 DEF Holds, Rising
    <3>3. u[i] \in Recent(w + 1)
      BY <1>9, <1>14, <3>1
    <3>4. u[i] <= w
      BY <1>7, <3>1 DEF Recent
    <3> QED BY <3>1, <3>2, <3>3, <3>4
  <2>2. \A i \in 1 .. n + 1 : v[i] \in Recent(w + 1) /\ v[i] > 0
    <3> SUFFICES ASSUME NEW i \in 1 .. n + 1 PROVE v[i] \in Recent(w + 1) /\ v[i] > 0
      OBVIOUS
    <3>1. i \in 1 .. n \/ i = n + 1
      OBVIOUS
    <3> QED BY <1>3, <1>10, <2>1, <3>1
  <2>3. \A i, j \in 1 .. n + 1 : i < j => v[i] < v[j]
    <3> SUFFICES ASSUME NEW i \in 1 .. n + 1, NEW j \in 1 .. n + 1, i < j PROVE v[i] < v[j]
      OBVIOUS
    <3>1. i \in 1 .. n /\ (j \in 1 .. n \/ j = n + 1)
      OBVIOUS
    <3> QED BY <1>1, <1>2, <1>3, <2>1, <3>1
  <2> QED BY <1>3, <2>2, <2>3 DEF Rising
<1>16. ToSet(v) = ToSet(u) \cup {w + 1}
  <2>1. DOMAIN v = 1 .. n + 1 /\ DOMAIN u = 1 .. n
    BY <1>1, <1>2, <1>3
  <2>2. ToSet(v) = {v[i] : i \in 1 .. n + 1} /\ ToSet(u) = {u[i] : i \in 1 .. n}
    BY <2>1, Zenon DEF ToSet
  <2>3. \A i : i \in 1 .. n + 1 <=> i \in 1 .. n \/ i = n + 1
    OBVIOUS
  <2> QED BY <1>3, <2>2, <2>3
<1>17. Holds(T, w + 1, v)
  <2>1. ASSUME NEW k \in Recent(w + 1)
        PROVE  T.items[Pos(T, w + 1, k)] = IF k \in ToSet(v) THEN k ELSE 0
    <3>1. R.items \in [Ring -> Nat]
      BY <1>1 DEF Rings
    <3>2. CASE k = w + 1
      BY <1>6, <1>10, <1>16, <3>1, <3>2
    <3>3. CASE k # w + 1
      <4>1. k \in Recent(w) /\ k # w - RingLength + 1
        BY <1>8, <3>3
      <4>2. T.items[Pos(T, w + 1, k)] = R.items[Pos(R, w, k)]
        BY <1>6, <1>11, <3>1, <4>1
      <4>3. R.items[Pos(R, w, k)] = IF k \in ToSet(u) THEN k ELSE 0
        BY <4>1 DEF Holds
      <4> QED BY <1>16, <3>3, <4>2, <4>3
    <3> QED BY <3>2, <3>3
  <2> QED BY <1>3, <1>6, <1>15, <2>1 DEF Holds
<1>18. ASSUME R.count = 0 PROVE \E z \in Recent(w + 1) : StartsAt(T, w + 1, v, z)
  <2>1. T.start \in Ring /\ w + 1 \in Nat
    <3>1. T.start \in Ring
      BY <1>6 DEF Rings
    <3> QED BY <3>1
  <2>2. PICK z \in Recent(w + 1) : Pos(T, w + 1, z) = T.start
    BY <1>6, <2>1, PosOnto
  <2>3. n = 0
    BY <1>1, <1>2, <1>18
  <2>4. \A i \in 1 .. Len(v) : v[i] = w + 1
    BY <1>3, <2>3
  <2>5. z <= w + 1
    BY <1>7 DEF Recent
  <2> QED BY <2>2, <2>4, <2>5 DEF StartsAt
<1>19. ASSUME R.count # 0
       PROVE  /\ StartsAt(T, w + 1, v, s)
              /\ \A r : s <= r /\ ReadsAt(R, w, u, r) => ReadsAt(T, w + 1, v, r)
  <2>1. s \in Recent(w + 1) /\ s <= w
    BY <1>7, <1>9, <1>12, <1>13, <1>19 DEF Recent
  <2>2. T.start = Pos(T, w + 1, s)
    BY <1>6, <1>11, <1>12, <1>13, <1>19
  <2>3. \A i \in 1 .. n + 1 : s <= v[i]
    <3> SUFFICES ASSUME NEW i \in 1 .. n + 1 PROVE s <= v[i]
      OBVIOUS
    <3>1. i \in 1 .. n \/ i = n + 1
      OBVIOUS
    <3> QED BY <1>3, <1>12, <2>1, <3>1
  <2>4. StartsAt(T, w + 1, v, s)
    BY <1>3, <2>1, <2>2, <2>3 DEF StartsAt
  <2>5. ASSUME NEW r, s <= r, ReadsAt(R, w, u, r) PROVE ReadsAt(T, w + 1, v, r)
    <3>1. r \in Recent(w) /\ r \in Int
      BY <1>7, <2>5 DEF ReadsAt, Recent
    <3>2. r # w - RingLength + 1
      <4>1. s >= w - RingLength + 1
        BY <1>7, <1>12 DEF Recent
      <4> QED BY <1>7, <1>12, <1>13, <1>19, <2>5, <3>1, <4>1
    <3>3. r \in Recent(w + 1) /\ Pos(T, w + 1, r) = Pos(R, w, r)
      BY <1>9, <1>11, <3>1, <3>2
    <3>4. PICK p \in Nat : p = R.plus /\ p < n
      BY <1>1, <1>2, <2>5, RingIs DEF ReadsAt, Rings
    <3>5. p + 1 \in 1 .. n /\ r <= u[p + 1] /\ v[p + 1] = u[p + 1]
      BY <1>3, <2>5, <3>4 DEF ReadsAt
    <3>6. \A i \in 1 .. p : v[i] < r
      <4>1. \A i \in 1 .. p : i \in 1 .. n /\ u[i] < r
        BY <2>5, <3>4 DEF ReadsAt
      <4> QED BY <1>3, <4>1
    <3>7. R.read_index = Pos(R, w, r) \/ (R.read_index = RingLength /\ Pos(R, w, r) = 0)
      BY <2>5 DEF ReadsAt
    <3> QED BY <1>3, <1>6, <3>3, <3>4, <3>5, <3>6, <3>7 DEF ReadsAt
  <2> QED BY <2>4, <2>5
<1> QED BY <1>17, <1>18, <1>19

LEMMA WriteKept ==
  ASSUME RingInv, WriteItem PROVE RingInv'
<1>1. /\ Kept /\ passed = 0 /\ written \in Nat /\ writes \in Nat /\ given = awaited
      /\ Holds(ring, written, unread)
      /\ writes = 0 /\ offer > 0 => ring.count = 0 \/ ring.end # ring.start
  BY DEF RingInv, WriteItem, Kept
<1>2. /\ offer > 0
      /\ passed' = IF ring.count > 0 /\ ring.end = ring.start THEN 1 ELSE 0
      /\ ring' = [ring EXCEPT !.items[ring.end] = written + 1, !.end = Step(@), !.count = @ + 1]
      /\ written' = written + 1 /\ unread' = Append(unread, written + 1)
      /\ writes' = writes + 1
      /\ given' = given /\ awaited' = awaited /\ settled' = settled
  BY DEF WriteItem
<1>3. PICK s \in Recent(written) :
        /\ StartsAt(ring, written, unread, s)
        /\ settled = 1 => \E r \in s .. written : ReadsAt(ring, written, unread, r)
  BY <1>1 DEF RingInv
<1>4. ring.count \in Nat /\ ring.count = Len(unread)
  BY <1>1, HeldIs
<1>5. CASE passed' = 1
  <2>1. ring.count > 0 /\ ring.end = ring.start
    BY <1>2, <1>5
  <2>2. writes # 0
    BY <1>1, <1>2, <1>4, <2>1
  <2>3. writes' > 1 /\ writes' \in Nat /\ written' \in Nat /\ ~ Kept'
    BY <1>1, <1>2, <1>5, <2>2 DEF Kept
  <2> QED BY <1>1, <1>2, <1>5, <2>3 DEF RingInv
<1>6. CASE passed' = 0
  <2>1. ring.count = 0 \/ ring.end # ring.start
    BY <1>2, <1>4, <1>6
  <2>2. PICK w \in Nat : w = written
    BY <1>1
  <2>3. PICK T : T = [ring EXCEPT !.items[ring.end] = w + 1, !.end = Step(@), !.count = @ + 1]
    OBVIOUS
  <2>4. PICK v : v = Append(unread, w + 1)
    OBVIOUS
  <2>5. Holds(ring, w, unread) /\ StartsAt(ring, w, unread, s)
    BY <1>1, <1>3, <2>2
  <2>6. /\ Holds(T, w + 1, v)
        /\ ring.count = 0 => \E z \in Recent(w + 1) : StartsAt(T, w + 1, v, z)
        /\ ring.count # 0 =>
             /\ StartsAt(T, w + 1, v, s)
             /\ \A r : s <= r /\ ReadsAt(ring, w, unread, r) => ReadsAt(T, w + 1, v, r)
    BY <2>1, <2>3, <2>4, <2>5, WrittenIs
  <2>7. ring' = T /\ written' = w + 1 /\ unread' = v
    BY <1>2, <2>2, <2>3, <2>4
  <2>8. \E z \in Recent(w + 1) :
          /\ StartsAt(T, w + 1, v, z)
          /\ settled' = 1 => \E r \in z .. w + 1 : ReadsAt(T, w + 1, v, r)
    <3>1. CASE ring.count = 0
      <4>1. settled # 1
        <5> SUFFICES ASSUME settled = 1 PROVE FALSE
          OBVIOUS
        <5>1. PICK r : ReadsAt(ring, written, unread, r)
          BY <1>3
        <5>2. ring \in Rings /\ Ring \subseteq Nat
          BY <1>1, HeldIs, RingIs
        <5>3. ring.plus \in Nat
          BY <5>2 DEF Rings
        <5> QED BY <1>4, <3>1, <5>1, <5>3 DEF ReadsAt
      <4> QED BY <1>2, <2>6, <3>1, <4>1
    <3>2. CASE ring.count # 0
      <4>1. StartsAt(T, w + 1, v, s) /\ s \in Recent(w + 1)
        BY <2>6, <3>2 DEF StartsAt
      <4>2. ASSUME settled' = 1 PROVE \E r \in s .. w + 1 : ReadsAt(T, w + 1, v, r)
        <5>1. PICK r \in s .. w : ReadsAt(ring, w, unread, r)
          BY <1>2, <1>3, <2>2, <4>2
        <5>2. s \in Int /\ r \in s .. w + 1 /\ s <= r
          BY RingIs DEF Recent
        <5> QED BY <2>6, <3>2, <5>1, <5>2
      <4> QED BY <4>1, <4>2
    <3> QED BY <3>1, <3>2
  <2>9. writes' \in Nat /\ writes' # 0
    BY <1>1, <1>2
  <2>10. w + 1 \in Nat /\ given' = awaited'
    BY <1>1, <1>2
  <2>11. /\ Holds(ring', written', unread') /\ written' \in Nat
         /\ \E z \in Recent(written') :
              /\ StartsAt(ring', written', unread', z)
              /\ settled' = 1 => \E r \in z .. written' : ReadsAt(ring', written', unread', r)
    BY <2>6, <2>7, <2>8, <2>10
  <2> QED BY <1>6, <2>9, <2>10, <2>11 DEF RingInv
<1> QED BY <1>2, <1>5, <1>6

LEMMA SetKept ==
  ASSUME RingInv, NEW plus \in Ring, SetReadIndex(plus) PROVE RingInv'
<1>1. /\ Kept /\ passed = 0 /\ written \in Nat /\ writes \in Nat /\ given = awaited
      /\ Holds(ring, written, unread)
      /\ writes = 0 /\ offer > 0 => ring.count = 0 \/ ring.end # ring.start
  BY DEF RingInv, SetReadIndex, Kept
<1>2. /\ ring' = SetIndex(ring, plus)
      /\ settled' = IF ring.count - plus < 1 THEN 0 ELSE 1
      /\ UNCHANGED <<written, unread, offer, writes, given, awaited, passed>>
  BY DEF SetReadIndex
<1>3. PICK s \in Recent(written) : StartsAt(ring, written, unread, s)
  BY <1>1 DEF RingInv
<1>4. PICK w \in Nat : w = written
  BY <1>1
<1>5. PICK T : T = SetIndex(ring, plus)
  OBVIOUS
<1>6. /\ Holds(T, w, unread) /\ T.end = ring.end /\ T.plus = plus
      /\ \E z : /\ StartsAt(T, w, unread, z) /\ s <= z
                /\ plus < Len(unread) =>
                     /\ ReadsAt(T, w, unread, unread[plus + 1]) /\ z <= unread[plus + 1]
                     /\ T.read_index = Pos(T, w, unread[plus + 1])
      /\ Len(unread) = 0 => T.start = ring.start
  <2>1. Holds(ring, w, unread) /\ StartsAt(ring, w, unread, s)
    BY <1>1, <1>3, <1>4
  <2> QED BY <1>5, <2>1, SetIndexIs
<1>7. PICK z : /\ StartsAt(T, w, unread, z) /\ s <= z
               /\ plus < Len(unread) =>
                    ReadsAt(T, w, unread, unread[plus + 1]) /\ z <= unread[plus + 1]
  BY <1>6
<1>8. /\ ring \in Rings /\ T \in Rings /\ ring.count = Len(unread) /\ T.count = Len(unread)
      /\ Len(unread) \in Nat
  BY <1>1, <1>6, HeldIs
<1>9. z \in Recent(w) /\ s \in Recent(w) /\ z \in Int /\ s \in Int /\ plus \in Nat
  BY <1>4, <1>7, RingIs DEF StartsAt, Recent
<1>10. settled' = 1 => \E r \in z .. w : ReadsAt(T, w, unread, r)
  <2> SUFFICES ASSUME settled' = 1 PROVE \E r \in z .. w : ReadsAt(T, w, unread, r)
    OBVIOUS
  <2>1. plus < Len(unread)
    BY <1>2, <1>8, <1>9
  <2>2. PICK r : r = unread[plus + 1] /\ ReadsAt(T, w, unread, r) /\ z <= r
    BY <1>7, <2>1
  <2>3. r \in Recent(w)
    BY <2>2 DEF ReadsAt
  <2>4. r \in z .. w
    BY <1>9, <2>2, <2>3, RingIs DEF Recent
  <2> QED BY <2>2, <2>4
<1>11. ring.end # ring.start => T.end # T.start
  <2> SUFFICES ASSUME ring.end # ring.start, T.end = T.start PROVE FALSE
    OBVIOUS
  <2>1. T.start = Pos(T, w, z) /\ ring.start = Pos(ring, w, s)
    BY <1>3, <1>4, <1>7 DEF StartsAt
  <2>2. PICK o \in Recent(w) : /\ o = w - RingLength + 1 /\ o \in Int
                               /\ Pos(T, w, o) = T.end /\ Pos(ring, w, o) = ring.end
    BY <1>8, PosIs
  <2>3. z = o
    BY <1>8, <1>9, <2>1, <2>2, PosIs
  <2>4. o <= s
    BY <1>9, <2>2, RingIs DEF Recent
  <2>5. s = o
    BY <1>7, <1>9, <2>2, <2>3, <2>4
  <2> QED BY <2>1, <2>2, <2>5
<1>12. settled' \in {0, 1}
  BY <1>2
<1>13. ring' = T /\ written' = w /\ unread' = unread
  BY <1>2, <1>4, <1>5
<1>14. ring.count = T.count
  BY <1>8
<1>15. writes = 0 /\ offer > 0 => T.count = 0 \/ T.end # T.start
  BY <1>1, <1>11, <1>14
<1>16. \E y \in Recent(w) : /\ StartsAt(T, w, unread, y)
                            /\ settled' = 1 => \E r \in y .. w : ReadsAt(T, w, unread, r)
  BY <1>7, <1>9, <1>10
<1> QED BY <1>1, <1>2, <1>6, <1>13, <1>15, <1>16 DEF RingInv, Kept

LEMMA ReadKept ==
  ASSUME RingInv, ReadItem PROVE RingInv'
<1>1. /\ Kept /\ passed = 0 /\ written \in Nat /\ writes \in Nat
      /\ Holds(ring, written, unread)
      /\ writes = 0 /\ offer > 0 => ring.count = 0 \/ ring.end # ring.start
  BY DEF RingInv, ReadItem, Kept
<1>2. /\ settled = 1
      /\ given' = Given(ring) /\ ring' = TakenOut(ring)
      /\ awaited' = unread[ring.plus + 1]
      /\ unread' = RemoveAt(unread, ring.plus + 1)
      /\ settled' = IF ReadCapacity(ring') > 0 THEN 1 ELSE 0
      /\ UNCHANGED <<written, offer, writes, passed>>
  BY DEF ReadItem
<1>3. PICK s \in Recent(written) :
        /\ StartsAt(ring, written, unread, s)
        /\ \E r \in s .. written : ReadsAt(ring, written, unread, r)
  BY <1>1, <1>2 DEF RingInv
<1>4. PICK w \in Nat : w = written
  BY <1>1
<1>5. PICK r \in s .. w : ReadsAt(ring, w, unread, r)
  BY <1>3, <1>4
<1>6. PICK T : T = TakenOut(ring)
  OBVIOUS
<1>7. PICK v : v = RemoveAt(unread, ring.plus + 1)
  OBVIOUS
<1>8. /\ Given(ring) = unread[ring.plus + 1]
      /\ Holds(T, w, v) /\ Len(v) = Len(unread) - 1
      /\ T.start = ring.start /\ T.end = ring.end /\ T.plus = ring.plus
      /\ ring.plus < Len(v) => \E q : r <= q /\ ReadsAt(T, w, v, q)
      /\ ToSet(v) \subseteq ToSet(unread)
  <2>1. Holds(ring, w, unread)
    BY <1>1, <1>4
  <2> QED BY <1>5, <1>6, <1>7, <2>1, TakenOutIs
<1>9. /\ ring \in Rings /\ T \in Rings /\ ring.count = Len(unread) /\ T.count = Len(v)
      /\ Len(unread) \in Nat /\ Len(v) \in Nat
  <2>1. Holds(ring, w, unread) /\ Holds(T, w, v)
    BY <1>1, <1>4, <1>8
  <2>2. ring \in Rings /\ ring.count = Len(unread) /\ Len(unread) \in Nat
    BY <2>1, HeldIs
  <2>3. T \in Rings /\ T.count = Len(v) /\ Len(v) \in Nat
    BY <2>1, HeldIs
  <2> QED BY <2>2, <2>3
<1>10. s \in Int /\ r \in Int /\ s <= r /\ T.plus \in Nat /\ s \in Recent(w)
  <2>1. s \in Int
    BY <1>4, RingIs DEF Recent
  <2>2. T.plus \in Ring
    BY <1>9 DEF Rings
  <2> QED BY <1>4, <2>1, <2>2, RingIs
<1>11. StartsAt(T, w, v, s)
  <2>1. s \in Recent(w) /\ ring.start = Pos(ring, w, s) /\ \A i \in 1 .. Len(unread) : s <= unread[i]
    BY <1>3, <1>4 DEF StartsAt
  <2>2. T.start = Pos(T, w, s)
    BY <1>8, <2>1 DEF Pos
  <2>3. \A i \in 1 .. Len(v) : s <= v[i]
    <3> SUFFICES ASSUME NEW i \in 1 .. Len(v) PROVE s <= v[i]
      OBVIOUS
    <3>1. v[i] \in ToSet(unread)
      BY <1>8, HeldIs
    <3>2. unread \in Seq(Nat)
      BY <1>1, HeldIs
    <3>3. PICK j \in 1 .. Len(unread) : v[i] = unread[j]
      <4>1. DOMAIN unread = 1 .. Len(unread)
        BY <3>2
      <4> QED BY <3>1, <4>1, Zenon DEF ToSet
    <3> QED BY <2>1, <3>3
  <2> QED BY <2>1, <2>2, <2>3 DEF StartsAt
<1>12. settled' = 1 => \E q \in s .. w : ReadsAt(T, w, v, q)
  <2> SUFFICES ASSUME settled' = 1 PROVE \E q \in s .. w : ReadsAt(T, w, v, q)
    OBVIOUS
  <2>1. T.count - T.plus > 0
    BY <1>2, <1>6 DEF ReadCapacity
  <2>2. ring.plus < Len(v)
    BY <1>8, <1>9, <1>10, <2>1
  <2>3. PICK q : r <= q /\ ReadsAt(T, w, v, q)
    BY <1>8, <2>2
  <2>4. q \in Recent(w)
    BY <2>3 DEF ReadsAt
  <2>5. q \in s .. w
    BY <1>10, <2>3, <2>4, RingIs DEF Recent
  <2> QED BY <2>3, <2>5
<1>13. writes = 0 /\ offer > 0 => T.count = 0 \/ T.end # T.start
  <2>1. Len(unread) # 0
    BY <1>8, <1>9
  <2> QED BY <1>1, <1>8, <1>9, <2>1
<1>14. ring' = T /\ written' = w /\ unread' = v /\ given' = awaited'
  BY <1>2, <1>4, <1>6, <1>7, <1>8
<1>15. \E y \in Recent(w) : /\ StartsAt(T, w, v, y)
                            /\ settled' = 1 => \E q \in y .. w : ReadsAt(T, w, v, q)
  BY <1>10, <1>11, <1>12
<1> QED BY <1>1, <1>2, <1>8, <1>13, <1>14, <1>15 DEF RingInv, Kept

LEMMA ClearKept ==
  ASSUME RingInv, ClearRing PROVE RingInv'
<1>1. /\ Kept /\ passed = 0 /\ written \in Nat /\ writes \in Nat /\ given = awaited
      /\ Holds(ring, written, unread)
  BY DEF RingInv, ClearRing, Kept
<1>2. /\ ring.count > 0
      /\ \/ ring' = Cleared(ring)
         \/ ring' = [Cleared(ring) EXCEPT !.read_index = 0, !.start = 0, !.end = 0, !.count = 0,
                                          !.items = [i \in Ring |-> 0]]
      /\ unread' = <<>> /\ settled' = 0
      /\ UNCHANGED <<written, offer, writes, given, awaited, passed>>
  BY DEF ClearRing
<1>3. PICK s \in Recent(written) : StartsAt(ring, written, unread, s)
  BY <1>1 DEF RingInv
<1>4. PICK w \in Nat : w = written
  BY <1>1
<1>5. Len(unread) > 0
  <2>1. ring.count = Len(unread)
    BY <1>1 DEF Holds
  <2> QED BY <1>2, <2>1
<1>6. PICK C : C = Cleared(ring)
  OBVIOUS
<1>7. /\ C \in Rings /\ Holds(C, w, <<>>)
      /\ \E z \in Recent(w) : StartsAt(C, w, <<>>, z)
  BY <1>1, <1>3, <1>4, <1>5, <1>6, ClearedIs
<1>8. Holds(ring', w, <<>>) /\ \E z \in Recent(w) : StartsAt(ring', w, <<>>, z)
  <2>1. CASE ring' = C
    BY <1>7, <2>1
  <2>2. CASE ring' = [C EXCEPT !.read_index = 0, !.start = 0, !.end = 0, !.count = 0,
                               !.items = [i \in Ring |-> 0]]
    <3>1. PICK D : D = [C EXCEPT !.read_index = 0, !.start = 0, !.end = 0, !.count = 0,
                                 !.items = [i \in Ring |-> 0]]
      OBVIOUS
    <3>2. 0 \in Ring /\ 0 \in 0 .. RingLength
      BY RingIs
    <3>3. D \in Rings /\ D.count = 0 /\ D.items = [i \in Ring |-> 0]
      BY <1>7, <3>1, <3>2 DEF Rings
    <3>4. Holds(D, w, <<>>) /\ \E z \in Recent(w) : StartsAt(D, w, <<>>, z)
      BY <3>3, EmptyHolds
    <3> QED BY <2>2, <3>1, <3>4
  <2> QED BY <1>2, <1>6, <2>1, <2>2
<1>9. ring'.count = 0
  <2>1. ring'.count = Len(<<>>)
    BY <1>8 DEF Holds
  <2> QED BY <2>1
<1>10. written' = w /\ unread' = <<>>
  BY <1>2, <1>4
<1> QED BY <1>1, <1>2, <1>8, <1>9, <1>10 DEF RingInv, Kept

LEMMA RingInvKept == RingInv /\ [RingNext]_ringVars => RingInv'
<1> SUFFICES ASSUME RingInv, [RingNext]_ringVars PROVE RingInv'
  OBVIOUS
<1>1. CASE AskWriteCapacity
  BY <1>1, AskKept
<1>2. CASE WriteItem
  BY <1>2, WriteKept
<1>3. CASE ReadItem
  BY <1>3, ReadKept
<1>4. CASE ClearRing
  BY <1>4, ClearKept
<1>5. ASSUME NEW plus \in Ring, SetReadIndex(plus) PROVE RingInv'
  BY <1>5, SetKept
<1>6. CASE UNCHANGED ringVars
  BY <1>6 DEF ringVars, RingInv, Kept
<1> QED BY <1>1, <1>2, <1>3, <1>4, <1>5, <1>6, Zenon DEF RingNext

LEMMA RingInvHolds == RingInv => RingKeepsUnread
<1> SUFFICES ASSUME RingInv PROVE RingKeepsUnread
  OBVIOUS
<1>1. given = awaited /\ (passed = 1 => writes > 1)
  BY DEF RingInv
<1>2. ASSUME Kept
      PROVE  ring.count = Len(unread) /\ {ring.items[i] : i \in Ring} \ {0} = ToSet(unread)
  <2>1. PICK w \in Nat : w = written /\ Holds(ring, w, unread)
    BY <1>2 DEF RingInv
  <2>2. ring \in Rings /\ ring.count = Len(unread) /\ unread \in Seq(Nat)
    BY <2>1, HeldIs
  <2>3. \A x \in ToSet(unread) : x \in {ring.items[i] : i \in Ring} \ {0}
    <3> SUFFICES ASSUME NEW x \in ToSet(unread) PROVE x \in {ring.items[i] : i \in Ring} \ {0}
      OBVIOUS
    <3>1. PICK i \in 1 .. Len(unread) : x = unread[i]
      BY <2>2 DEF ToSet
    <3>2. x \in Recent(w) /\ x > 0 /\ x \in Nat
      BY <2>1, <2>2, <3>1 DEF Holds, Rising
    <3>3. ring.items[Pos(ring, w, x)] = x /\ Pos(ring, w, x) \in Ring
      BY <2>1, <2>2, <3>2, PosIs DEF Holds
    <3> QED BY <3>2, <3>3
  <2>4. \A i \in Ring : ring.items[i] # 0 => ring.items[i] \in ToSet(unread)
    <3> SUFFICES ASSUME NEW i \in Ring, ring.items[i] # 0 PROVE ring.items[i] \in ToSet(unread)
      OBVIOUS
    <3>1. PICK k \in Recent(w) : Pos(ring, w, k) = i
      BY <2>2, PosOnto
    <3>2. ring.items[i] = IF k \in ToSet(unread) THEN k ELSE 0
      BY <2>1, <3>1 DEF Holds
    <3> QED BY <3>2
  <2> QED BY <2>2, <2>3, <2>4
<1> QED BY <1>1, <1>2 DEF RingKeepsUnread

(* For a ring of every length and any number of items: what is read is the *)
(* first unread item after those left behind, the ring holds the unread    *)
(* items and counts them, and the first item written on an answer of       *)
(* mdatapuffer_writecapacity never passes start (lib_puffers.c:59-171).    *)
THEOREM RingKeepsUnreadHolds == RingSpec => []RingKeepsUnread
BY RingInitInv, RingInvKept, RingInvHolds, PTL DEF RingSpec

-----------------------------------------------------------------------------
(* The slots of a dictionary, and which entries it keeps: each in one slot, *)
(* which is found by its key, and no other key in any slot.                *)
EntryValues == IniValues \cup {UNDEF}
SlotTypes   == [key : Names \cup {NoKey}, val : EntryValues]
Dicts       == {D \in [n : Nat, slot : Seq(SlotTypes)] : Len(D.slot) > 0}

Entries(f) ==
  /\ f \in [DOMAIN f -> EntryValues] /\ DOMAIN f \subseteq Names /\ IsFiniteSet(DOMAIN f)
  /\ \A k \in DOMAIN f : Len(k) = 1 => f[k] = UNDEF

Maps(D, f) ==
  /\ D \in Dicts /\ Entries(f)
  /\ D.n = Cardinality(DOMAIN f)
  /\ \A i \in 1 .. Len(D.slot) : D.slot[i].key # NoKey =>
       D.slot[i].key \in DOMAIN f /\ D.slot[i].val = f[D.slot[i].key]
  /\ \A i, j \in 1 .. Len(D.slot) : D.slot[i].key = D.slot[j].key /\ D.slot[i].key # NoKey => i = j
  /\ \A k \in DOMAIN f : \E i \in 1 .. Len(D.slot) : D.slot[i].key = k

LEMMA NamesAre ==
  /\ NoKey \notin Names /\ Len(NoKey) = 0
  /\ \A s \in Sections : <<s>> \in Names
  /\ \A s \in Sections \cup {NoName}, k \in IniKeys : <<s, k>> \in Names
  /\ \A k \in Names : \/ Len(k) = 1 /\ k[1] \in Sections /\ k = <<k[1]>>
                      \/ Len(k) = 2 /\ k[1] \in Sections \cup {NoName} /\ k[2] \in IniKeys
                                    /\ k = <<k[1], k[2]>>
<1>1. \A s : Len(<<s>>) = 1 /\ <<s>>[1] = s
  OBVIOUS
<1>2. \A s, k : Len(<<s, k>>) = 2 /\ <<s, k>>[1] = s /\ <<s, k>>[2] = k
  OBVIOUS
<1>3. Len(NoKey) = 0
  BY DEF NoKey
<1>4. \A k \in Names : \/ Len(k) = 1 /\ k[1] \in Sections /\ k = <<k[1]>>
                       \/ Len(k) = 2 /\ k[1] \in Sections \cup {NoName} /\ k[2] \in IniKeys
                                     /\ k = <<k[1], k[2]>>
  <2> SUFFICES ASSUME NEW k \in Names
               PROVE  \/ Len(k) = 1 /\ k[1] \in Sections /\ k = <<k[1]>>
                      \/ Len(k) = 2 /\ k[1] \in Sections \cup {NoName} /\ k[2] \in IniKeys
                                    /\ k = <<k[1], k[2]>>
    OBVIOUS
  <2>1. CASE \E s \in Sections : k = <<s>>
    BY <1>1, <2>1
  <2>2. CASE \E s \in Sections \cup {NoName} : \E i \in IniKeys : k = <<s, i>>
    BY <1>2, <2>2
  <2> QED BY <2>1, <2>2 DEF Names
<1>5. NoKey \notin Names
  BY <1>3, <1>4
<1> QED BY <1>3, <1>4, <1>5 DEF Names

LEMMA SlotsAre ==
  ASSUME NEW D \in Dicts
  PROVE  /\ Len(D.slot) \in Nat /\ Len(D.slot) > 0 /\ D.n \in Nat
         /\ DictSize(D) = Len(D.slot) /\ D.slot \in [1 .. Len(D.slot) -> SlotTypes]
         /\ D.slot \in Seq(SlotTypes)
         /\ \A i \in 1 .. Len(D.slot) : /\ D.slot[i].key \in Names \cup {NoKey}
                                        /\ D.slot[i].val \in EntryValues
                                        /\ D.slot[i] = [key |-> D.slot[i].key, val |-> D.slot[i].val]
<1>1. D.slot \in Seq(SlotTypes) /\ D.n \in Nat /\ Len(D.slot) > 0
  BY DEF Dicts
<1>2. Len(D.slot) \in Nat /\ D.slot \in [1 .. Len(D.slot) -> SlotTypes]
  BY <1>1
<1>3. \A i \in 1 .. Len(D.slot) : D.slot[i] \in SlotTypes
  BY <1>2
<1>4. \A x \in SlotTypes : x.key \in Names \cup {NoKey} /\ x.val \in EntryValues
                           /\ x = [key |-> x.key, val |-> x.val]
  BY DEF SlotTypes
<1> QED BY <1>1, <1>2, <1>3, <1>4 DEF DictSize

(* The search of dictionary_get, _set and _unset.                          *)
LEMMA FindIs ==
  ASSUME NEW D, NEW f, Maps(D, f), NEW k \in Names
  PROVE  /\ Find(D, k) = 0 <=> k \notin DOMAIN f
         /\ Find(D, k) # 0 => Find(D, k) \in 1 .. Len(D.slot) /\ D.slot[Find(D, k)].key = k
         /\ DictGet(D, k) = IF k \in DOMAIN f THEN f[k] ELSE NoName
<1> DEFINE I == {i \in 1 .. Len(D.slot) : D.slot[i].key = k}
<1>1. Find(D, k) = IF I # {} THEN Min(I) ELSE 0
  BY DEF Find, SelectInSeq
<1>2. I # {} => Min(I) \in I
  <2>1. I \subseteq Nat
    OBVIOUS
  <2> HIDE DEF I
  <2>2. I # {} => \E x \in I : \A y \in I : x <= y
    BY <2>1, LeastNat
  <2> QED BY <2>2 DEF Min
<1>3. k # NoKey
  BY NamesAre
<1>4. I = {} <=> k \notin DOMAIN f
  BY <1>3 DEF Maps
<1>5. Find(D, k) # 0 => Find(D, k) \in 1 .. Len(D.slot) /\ D.slot[Find(D, k)].key = k
  BY <1>1, <1>2
<1>6. Find(D, k) = 0 <=> k \notin DOMAIN f
  BY <1>1, <1>2, <1>4
<1>7. DictGet(D, k) = IF k \in DOMAIN f THEN f[k] ELSE NoName
  BY <1>3, <1>5, <1>6 DEF Maps, DictGet
<1> QED BY <1>5, <1>6, <1>7

(* A dictionary with fewer keys than slots has an empty slot, and the      *)
(* search from the n-th on finds one (etc_dict.c:264-269).                 *)
LEMMA EmptySlotIs ==
  ASSUME NEW D, NEW f, Maps(D, f), D.n < DictSize(D)
  PROVE  EmptySlot(D) \in 1 .. Len(D.slot) /\ D.slot[EmptySlot(D)].key = NoKey
<1>1. PICK N \in Nat : N = Len(D.slot) /\ N = DictSize(D) /\ N > 0
  BY SlotsAre DEF Maps
<1>2. PICK n \in Nat : n = D.n /\ n < N
  BY <1>1, SlotsAre DEF Maps
<1>3. PICK e \in 1 .. N : D.slot[e].key = NoKey
  <2> SUFFICES ASSUME \A i \in 1 .. N : D.slot[i].key # NoKey PROVE FALSE
    OBVIOUS
  <2> DEFINE g == [i \in 1 .. N |-> D.slot[i].key]
  <2>1. g \in [1 .. N -> DOMAIN f]
    BY <1>1 DEF Maps
  <2>2. \A i, j \in 1 .. N : g[i] = g[j] => i = j
    BY <1>1 DEF Maps
  <2> HIDE DEF g
  <2>3. g \in Injection(1 .. N, DOMAIN f)
    BY <2>1, <2>2 DEF Injection, IsInjective
  <2>4. IsFiniteSet(DOMAIN f) /\ Cardinality(DOMAIN f) = n
    BY <1>2 DEF Maps, Entries
  <2>5. Cardinality(1 .. N) <= Cardinality(DOMAIN f)
    BY <2>3, <2>4, FS_Injection
  <2>6. Cardinality(1 .. N) = N
    BY <1>1, FS_Interval
  <2> QED BY <1>2, <2>4, <2>5, <2>6
<1> DEFINE slotAt(k) == ((n + k) % N) + 1
           Free == {k \in 0 .. N - 1 : D.slot[slotAt(k)].key = NoKey}
<1>4. \A k \in 0 .. N - 1 : slotAt(k) \in 1 .. N
  BY <1>1
<1>5. \E k \in 0 .. N - 1 : slotAt(k) = e
  <2>1. CASE e - 1 >= n
    <3>1. PICK k \in 0 .. N - 1 : k = e - 1 - n
      BY <1>2, <1>3, <2>1
    <3>2. (n + k) % N = n + k
      <4>1. PICK x \in Nat : x = n + k
        BY <1>1, <1>2, <3>1
      <4>2. N \in Nat /\ N > 0 /\ x < N /\ x < 2 * N
        BY <1>1, <1>2, <1>3, <3>1, <4>1
      <4>3. x % N = x
        BY <4>2, OnceAroundIs
      <4> QED BY <4>1, <4>3, Zenon
    <3> QED BY <3>1, <3>2
  <2>2. CASE ~ (e - 1 >= n)
    <3>1. PICK k \in 0 .. N - 1 : k = e - 1 - n + N
      BY <1>2, <1>3, <2>2
    <3>2. (n + k) % N = n + k - N
      <4>1. n + k \in Nat /\ n + k < 2 * N /\ ~ (n + k < N)
        BY <1>1, <1>2, <1>3, <3>1
      <4> QED BY <1>1, <4>1, OnceAroundIs
    <3> QED BY <1>2, <3>1, <3>2
  <2> QED BY <2>1, <2>2
<1>6. PICK d \in Free : \A k \in Free : d <= k
  <2>1. Free # {}
    BY <1>3, <1>5
  <2>2. Free \subseteq Nat
    OBVIOUS
  <2> HIDE DEF Free
  <2> QED BY <2>1, <2>2, LeastNat
<1> DEFINE Is(k) == /\ D.slot[slotAt(k)].key = NoKey
                    /\ \A j \in 0 .. k - 1 : D.slot[slotAt(j)].key # NoKey
<1>7. d \in 0 .. N - 1 /\ Is(d)
  <2>1. d \in 0 .. N - 1 /\ D.slot[slotAt(d)].key = NoKey
    BY <1>6
  <2>2. ASSUME NEW j \in 0 .. d - 1 PROVE D.slot[slotAt(j)].key # NoKey
    <3>1. j \in 0 .. N - 1 /\ ~ (d <= j)
      BY <2>1
    <3> HIDE DEF slotAt
    <3> QED BY <1>6, <3>1
  <2> QED BY <2>1, <2>2
<1>8. EmptySlot(D) = slotAt(CHOOSE k \in 0 .. N - 1 : Is(k))
  BY <1>1, <1>2 DEF EmptySlot
<1>9. PICK c \in 0 .. N - 1 : c = (CHOOSE k \in 0 .. N - 1 : Is(k)) /\ Is(c)
  <2> HIDE DEF Is
  <2> QED BY <1>7, Zenon
<1> QED BY <1>1, <1>4, <1>8, <1>9

(* mem_double of the three arrays.                                         *)
LEMMA DoubledIs ==
  ASSUME NEW D, NEW f, Maps(D, f)
  PROVE  /\ Maps(Doubled(D), f) /\ Doubled(D).n = D.n
         /\ DictSize(Doubled(D)) = 2 * DictSize(D)
<1>1. PICK N \in Nat : N = Len(D.slot) /\ N = DictSize(D) /\ N > 0
  BY SlotsAre DEF Maps
<1>2. PICK E : E = [i \in 1 .. N |-> [key |-> NoKey, val |-> UNDEF]]
  OBVIOUS
<1>3. PICK T : T = D.slot \o E
  OBVIOUS
<1>4. E \in Seq(SlotTypes) /\ Len(E) = N
  <2>1. [key |-> NoKey, val |-> UNDEF] \in SlotTypes
    BY DEF SlotTypes, EntryValues
  <2>2. E \in [1 .. N -> SlotTypes]
    BY <1>2, <2>1
  <2> QED BY <1>1, <2>2
<1>5. D \in Dicts /\ D.slot \in Seq(SlotTypes)
  BY SlotsAre DEF Maps
<1>6. /\ T \in Seq(SlotTypes) /\ Len(T) = N + N
      /\ \A i \in 1 .. N + N : T[i] = IF i <= N THEN D.slot[i] ELSE E[i - N]
  <2>1. T \in Seq(SlotTypes) /\ Len(T) = Len(D.slot) + Len(E)
    BY <1>3, <1>4, <1>5, ConcatProperties
  <2>2. \A i \in 1 .. Len(D.slot) + Len(E) :
          T[i] = IF i <= Len(D.slot) THEN D.slot[i] ELSE E[i - Len(D.slot)]
    BY <1>3, <1>4, <1>5, ConcatProperties
  <2> QED BY <1>1, <1>4, <2>1, <2>2
<1>7. Doubled(D) = [D EXCEPT !.slot = T]
  BY <1>1, <1>2, <1>3 DEF Doubled
<1>8. PICK G : G = Doubled(D) /\ G.n = D.n /\ G.slot = T /\ G \in Dicts
  <2>1. D \in [n : Nat, slot : Seq(SlotTypes)]
    BY <1>5 DEF Dicts
  <2>2. PICK G : G = [D EXCEPT !.slot = T]
    OBVIOUS
  <2>3. G.n = D.n /\ G.slot = T /\ G \in [n : Nat, slot : Seq(SlotTypes)]
    BY <1>6, <2>1, <2>2
  <2>4. Len(G.slot) > 0
    BY <1>1, <1>6, <2>3
  <2> QED BY <1>7, <2>2, <2>3, <2>4 DEF Dicts
<1>9. \A i \in 1 .. N + N : T[i].key # NoKey => i \in 1 .. N /\ T[i] = D.slot[i]
  <2> SUFFICES ASSUME NEW i \in 1 .. N + N, T[i].key # NoKey PROVE i <= N
    BY <1>6
  <2> SUFFICES ASSUME ~ (i <= N) PROVE FALSE
    OBVIOUS
  <2>1. i - N \in 1 .. N /\ T[i] = E[i - N]
    BY <1>6
  <2> QED BY <1>2, <2>1
<1>10. \A i \in 1 .. N : i \in 1 .. N + N /\ T[i] = D.slot[i]
  <2>1. \A i \in 1 .. N : i \in 1 .. N + N /\ i <= N
    BY <1>1
  <2> QED BY <1>6, <2>1, Zenon
<1>11. Maps(G, f)
  <2>1. \A i \in 1 .. N + N : T[i].key # NoKey =>
          T[i].key \in DOMAIN f /\ T[i].val = f[T[i].key]
    BY <1>1, <1>9 DEF Maps
  <2>2. \A i, j \in 1 .. N + N : T[i].key = T[j].key /\ T[i].key # NoKey => i = j
    BY <1>1, <1>9 DEF Maps
  <2>3. \A k \in DOMAIN f : \E i \in 1 .. N + N : T[i].key = k
    BY <1>1, <1>10 DEF Maps
  <2>4. G.n = Cardinality(DOMAIN f) /\ Entries(f)
    BY <1>8 DEF Maps
  <2> QED BY <1>6, <1>8, <2>1, <2>2, <2>3, <2>4 DEF Maps
<1> QED BY <1>1, <1>6, <1>8, <1>11 DEF DictSize

LEMMA DictNewIs == DictNew \in Dicts /\ Maps(DictNew, [k \in {} |-> UNDEF])
<1>1. DictMin \in Nat /\ DictMin > 0
  BY ConfigAssumption
<1>2. [key |-> NoKey, val |-> UNDEF] \in SlotTypes
  BY DEF SlotTypes, EntryValues
<1>3. PICK T : T = [i \in 1 .. DictMin |-> [key |-> NoKey, val |-> UNDEF]]
  OBVIOUS
<1>4. T \in Seq(SlotTypes) /\ Len(T) = DictMin
  <2>1. T \in [1 .. DictMin -> SlotTypes]
    BY <1>2, <1>3
  <2> QED BY <1>1, <2>1
<1>5. DictNew.n = 0 /\ DictNew.slot = T /\ DictNew \in Dicts
  BY <1>1, <1>3, <1>4 DEF DictNew, Dicts
<1>6. \A i \in 1 .. Len(T) : T[i].key = NoKey
  BY <1>3, <1>4
<1>7. PICK f : f = [k \in {} |-> UNDEF] /\ DOMAIN f = {}
  OBVIOUS
<1>8. Entries(f) /\ Cardinality(DOMAIN f) = 0
  BY <1>7, FS_EmptySet DEF Entries
<1> QED BY <1>5, <1>6, <1>7, <1>8 DEF Maps

(* There are no more keys than slots.                                      *)
LEMMA KeysFit ==
  ASSUME NEW D, NEW f, Maps(D, f)
  PROVE  D.n \in Nat /\ DictSize(D) \in Nat /\ D.n <= DictSize(D)
<1>1. PICK N \in Nat : N = Len(D.slot) /\ N = DictSize(D) /\ N > 0
  BY SlotsAre DEF Maps
<1> DEFINE at1(k) == CHOOSE i \in 1 .. N : D.slot[i].key = k
           g == [k \in DOMAIN f |-> at1(k)]
<1>2. \A k \in DOMAIN f : at1(k) \in 1 .. N /\ D.slot[at1(k)].key = k
  BY <1>1 DEF Maps
<1> HIDE DEF at1
<1>3. g \in [DOMAIN f -> 1 .. N] /\ \A k, l \in DOMAIN f : g[k] = g[l] => k = l
  BY <1>2
<1> HIDE DEF g
<1>4. g \in Injection(DOMAIN f, 1 .. N)
  BY <1>3 DEF Injection, IsInjective
<1>5. IsFiniteSet(1 .. N) /\ Cardinality(1 .. N) = N
  BY <1>1, FS_Interval
<1>6. Cardinality(DOMAIN f) <= N
  BY <1>4, <1>5, FS_Injection
<1> QED BY <1>1, <1>6, SlotsAre DEF Maps

LEMMA EnteredIs ==
  ASSUME NEW f, Entries(f), NEW k \in Names, NEW v \in EntryValues, Len(k) = 1 => v = UNDEF
  PROVE  LET g == Entered(f, k, v) IN
           /\ Entries(g) /\ DOMAIN g = DOMAIN f \cup {k} /\ g[k] = v
           /\ \A l \in DOMAIN f : l # k => g[l] = f[l]
           /\ Cardinality(DOMAIN g) =
                IF k \in DOMAIN f THEN Cardinality(DOMAIN f) ELSE Cardinality(DOMAIN f) + 1
<1>1. PICK g : g = Entered(f, k, v)
  OBVIOUS
<1>2. DOMAIN g = DOMAIN f \cup {k} /\ g[k] = v /\ \A l \in DOMAIN f : l # k => g[l] = f[l]
  BY <1>1 DEF Entered
<1>3. IsFiniteSet(DOMAIN f) /\ DOMAIN f \subseteq Names /\ f \in [DOMAIN f -> EntryValues]
  BY DEF Entries
<1>4. /\ IsFiniteSet(DOMAIN g)
      /\ Cardinality(DOMAIN g) =
           IF k \in DOMAIN f THEN Cardinality(DOMAIN f) ELSE Cardinality(DOMAIN f) + 1
  BY <1>2, <1>3, FS_AddElement
<1>5. g \in [DOMAIN g -> EntryValues]
  <2>1. g = [l \in DOMAIN g |-> g[l]]
    BY <1>1 DEF Entered
  <2>2. \A l \in DOMAIN g : g[l] \in EntryValues
    BY <1>2, <1>3
  <2> QED BY <2>1, <2>2
<1>6. \A l \in DOMAIN g : Len(l) = 1 => g[l] = UNDEF
  <2>1. \A l \in DOMAIN f : Len(l) = 1 => f[l] = UNDEF
    BY DEF Entries
  <2> QED BY <1>2, <2>1, Zenon
<1>7. Entries(g)
  BY <1>2, <1>3, <1>4, <1>5, <1>6 DEF Entries
<1> QED BY <1>1, <1>2, <1>4, <1>7

(* dictionary_set: the entry is changed, or put into an empty slot of the  *)
(* arrays, grown if there was none.                                        *)
LEMMA SetIs ==
  ASSUME NEW D, NEW f, Maps(D, f), NEW k \in Names, NEW v \in EntryValues, Len(k) = 1 => v = UNDEF
  PROVE  Maps(DictSet(D, k, v), Entered(f, k, v))
<1>1. PICK g : g = Entered(f, k, v)
  OBVIOUS
<1>2. /\ Entries(g) /\ DOMAIN g = DOMAIN f \cup {k} /\ g[k] = v
      /\ \A l \in DOMAIN f : l # k => g[l] = f[l]
      /\ Cardinality(DOMAIN g) =
           IF k \in DOMAIN f THEN Cardinality(DOMAIN f) ELSE Cardinality(DOMAIN f) + 1
  <2>1. Entries(f)
    BY DEF Maps
  <2> QED BY <1>1, <2>1, EnteredIs
<1>3. k # NoKey
  BY NamesAre
<1>4. CASE k \in DOMAIN f
  <2>1. PICK i \in 1 .. Len(D.slot) : i = Find(D, k) /\ D.slot[i].key = k /\ i # 0
    BY <1>4, FindIs
  <2>2. PICK x : x = [D.slot[i] EXCEPT !.val = v]
    OBVIOUS
  <2>3. PICK T : T = [D.slot EXCEPT ![i] = x]
    OBVIOUS
  <2>4. PICK G : G = [D EXCEPT !.slot = T]
    OBVIOUS
  <2>5. DictSet(D, k, v) = G
    BY <2>1, <2>2, <2>3, <2>4 DEF DictSet
  <2>6. D \in Dicts /\ D.slot \in Seq(SlotTypes) /\ D.slot[i] \in SlotTypes
    <3>1. D \in Dicts
      BY DEF Maps
    <3> QED BY <3>1, SlotsAre
  <2>7. x \in SlotTypes /\ x.key = k /\ x.val = v
    BY <2>1, <2>2, <2>6 DEF SlotTypes
  <2>8. T \in Seq(SlotTypes) /\ Len(T) = Len(D.slot)
    BY <2>3, <2>6, <2>7
  <2>9. \A j \in 1 .. Len(D.slot) : T[j] = IF j = i THEN x ELSE D.slot[j]
    BY <2>3, <2>6
  <2>10. G \in Dicts /\ G.n = D.n /\ G.slot = T
    <3>1. D \in [n : Nat, slot : Seq(SlotTypes)] /\ Len(D.slot) > 0
      BY <2>6 DEF Dicts
    <3>2. G \in [n : Nat, slot : Seq(SlotTypes)] /\ G.n = D.n /\ G.slot = T
      BY <2>4, <2>8, <3>1
    <3> QED BY <2>8, <3>1, <3>2 DEF Dicts
  <2>11. \A j \in 1 .. Len(T) : T[j].key = D.slot[j].key
    BY <2>1, <2>7, <2>8, <2>9
  <2>12. \A j \in 1 .. Len(T) : T[j].key # NoKey => T[j].key \in DOMAIN g /\ T[j].val = g[T[j].key]
    <3> SUFFICES ASSUME NEW j \in 1 .. Len(T), T[j].key # NoKey
                 PROVE  T[j].key \in DOMAIN g /\ T[j].val = g[T[j].key]
      OBVIOUS
    <3>1. CASE j = i
      BY <1>2, <2>7, <2>8, <2>9, <3>1
    <3>2. CASE j # i
      <4>1. T[j] = D.slot[j] /\ j \in 1 .. Len(D.slot)
        BY <2>8, <2>9, <3>2
      <4>2. T[j].key # k
        BY <1>3, <2>1, <3>2, <4>1 DEF Maps
      <4>3. T[j].key \in DOMAIN f /\ T[j].val = f[T[j].key]
        BY <4>1 DEF Maps
      <4> QED BY <1>2, <4>2, <4>3
    <3> QED BY <3>1, <3>2
  <2>13. \A j, l \in 1 .. Len(T) : T[j].key = T[l].key /\ T[j].key # NoKey => j = l
    BY <2>8, <2>11 DEF Maps
  <2>14. \A l \in DOMAIN g : \E j \in 1 .. Len(T) : T[j].key = l
    <3>1. DOMAIN g = DOMAIN f
      BY <1>2, <1>4
    <3>2. \A l \in DOMAIN f : \E j \in 1 .. Len(D.slot) : D.slot[j].key = l
      BY DEF Maps
    <3> QED BY <2>8, <2>11, <3>1, <3>2, Zenon
  <2>15. G.n = Cardinality(DOMAIN g)
    <3>1. D.n = Cardinality(DOMAIN f)
      BY DEF Maps
    <3> QED BY <1>2, <1>4, <2>10, <3>1
  <2>16. Maps(G, g)
    BY <1>2, <2>10, <2>12, <2>13, <2>14, <2>15 DEF Maps
  <2> QED BY <1>1, <2>5, <2>16
<1>5. CASE k \notin DOMAIN f
  <2>1. Find(D, k) = 0
    BY <1>5, FindIs
  <2>2. PICK E : E = IF NeedsRoom(D, k) THEN Doubled(D) ELSE D
    OBVIOUS
  <2>3. Maps(E, f) /\ E.n < DictSize(E)
    <3>1. D.n \in Nat /\ DictSize(D) \in Nat /\ D.n <= DictSize(D) /\ DictSize(D) > 0
      BY KeysFit, SlotsAre DEF Maps
    <3>2. CASE D.n = DictSize(D)
      BY <2>1, <2>2, <3>1, <3>2, DoubledIs DEF NeedsRoom
    <3>3. CASE D.n # DictSize(D)
      BY <2>2, <3>1, <3>3 DEF NeedsRoom
    <3> QED BY <3>2, <3>3
  <2>4. PICK e \in 1 .. Len(E.slot) : e = EmptySlot(E) /\ E.slot[e].key = NoKey
    BY <2>3, EmptySlotIs
  <2>5. PICK x : x = [key |-> k, val |-> v] /\ x \in SlotTypes /\ x.key = k /\ x.val = v
    <3>1. PICK y : y = [key |-> k, val |-> v]
      OBVIOUS
    <3>2. y \in SlotTypes /\ y.key = k /\ y.val = v
      BY <3>1 DEF SlotTypes
    <3> QED BY <3>1, <3>2
  <2>6. PICK T : T = [E.slot EXCEPT ![e] = x]
    OBVIOUS
  <2>7. PICK G : G = [n |-> E.n + 1, slot |-> T] /\ G.n = E.n + 1 /\ G.slot = T
    <3>1. PICK H : H = [n |-> E.n + 1, slot |-> T]
      OBVIOUS
    <3>2. H.n = E.n + 1 /\ H.slot = T
      BY <3>1
    <3> QED BY <3>1, <3>2
  <2>8. DictSet(D, k, v) = G
    BY <2>1, <2>2, <2>4, <2>5, <2>6, <2>7 DEF DictSet
  <2>9. E \in Dicts /\ E.slot \in Seq(SlotTypes) /\ E.n \in Nat /\ Len(E.slot) > 0
    BY <2>3, SlotsAre DEF Maps
  <2>10. T \in Seq(SlotTypes) /\ Len(T) = Len(E.slot)
    BY <2>5, <2>6, <2>9
  <2>11. \A j \in 1 .. Len(T) : j \in 1 .. Len(E.slot) /\ T[j] = IF j = e THEN x ELSE E.slot[j]
    BY <2>6, <2>9, <2>10
  <2>12. G \in Dicts
    BY <2>7, <2>9, <2>10 DEF Dicts
  <2>13. \A j \in 1 .. Len(T) : T[j].key # NoKey =>
           \/ j = e /\ T[j].key = k /\ T[j].val = v
           \/ /\ j # e /\ T[j].key = E.slot[j].key /\ T[j].val = E.slot[j].val
              /\ T[j].key \in DOMAIN f /\ T[j].key # k /\ T[j].val = f[T[j].key]
    BY <1>5, <2>3, <2>5, <2>11 DEF Maps
  <2>14. \A j \in 1 .. Len(T) : T[j].key # NoKey => T[j].key \in DOMAIN g /\ T[j].val = g[T[j].key]
    BY <1>2, <2>13
  <2>15. \A j, l \in 1 .. Len(T) : T[j].key = T[l].key /\ T[j].key # NoKey => j = l
    BY <1>3, <2>3, <2>10, <2>13 DEF Maps
  <2>16. \A l \in DOMAIN g : \E j \in 1 .. Len(T) : T[j].key = l
    <3> SUFFICES ASSUME NEW l \in DOMAIN g PROVE \E j \in 1 .. Len(T) : T[j].key = l
      OBVIOUS
    <3>1. CASE l = k
      BY <2>4, <2>5, <2>10, <2>11, <3>1
    <3>2. CASE l # k
      <4>1. PICK j \in 1 .. Len(E.slot) : E.slot[j].key = l
        BY <1>2, <2>3, <3>2 DEF Maps
      <4>2. j # e
        <5>1. l \in Names
          BY <1>2, <3>2 DEF Maps, Entries
        <5> QED BY <2>4, <4>1, <5>1, NamesAre
      <4> QED BY <2>10, <2>11, <4>1, <4>2
    <3> QED BY <3>1, <3>2
  <2>17. G.n = Cardinality(DOMAIN g)
    BY <1>2, <1>5, <2>3, <2>7 DEF Maps
  <2>18. Maps(G, g)
    BY <1>2, <2>7, <2>12, <2>14, <2>15, <2>16, <2>17 DEF Maps
  <2> QED BY <1>1, <2>8, <2>18
<1> QED BY <1>4, <1>5

(* dictionary_unset empties the slot of the key and no other.              *)
LEMMA UnsetIs ==
  ASSUME NEW D, NEW f, Maps(D, f), NEW k \in Names
  PROVE  Maps(DictUnset(D, k), [l \in DOMAIN f \ {k} |-> f[l]])
<1>1. PICK g : g = [l \in DOMAIN f \ {k} |-> f[l]]
  OBVIOUS
<1>2. DOMAIN g = DOMAIN f \ {k} /\ \A l \in DOMAIN g : g[l] = f[l] /\ l # k
  BY <1>1
<1>3. IsFiniteSet(DOMAIN f) /\ DOMAIN f \subseteq Names /\ f \in [DOMAIN f -> EntryValues]
      /\ D.n = Cardinality(DOMAIN f)
  BY DEF Maps, Entries
<1>4. CASE k \notin DOMAIN f
  <2>1. Find(D, k) = 0
    BY <1>4, FindIs
  <2>2. DOMAIN f \ {k} = DOMAIN f
    BY <1>4
  <2>3. g = f
    BY <1>1, <1>3, <2>2
  <2> QED BY <1>1, <2>1, <2>3 DEF DictUnset
<1>5. CASE k \in DOMAIN f
  <2>1. PICK i \in 1 .. Len(D.slot) : i = Find(D, k) /\ D.slot[i].key = k /\ i # 0
    BY <1>5, FindIs
  <2>2. PICK x : x = [key |-> NoKey, val |-> UNDEF]
    OBVIOUS
  <2>3. x \in SlotTypes /\ x.key = NoKey
    BY <2>2 DEF SlotTypes, EntryValues
  <2>4. PICK T : T = [D.slot EXCEPT ![i] = x]
    OBVIOUS
  <2>5. PICK G : G = [n |-> D.n - 1, slot |-> T]
    OBVIOUS
  <2>6. G.n = D.n - 1 /\ G.slot = T
    BY <2>5
  <2>7. DictUnset(D, k) = G
    BY <2>1, <2>2, <2>4, <2>5 DEF DictUnset
  <2>8. D.slot \in Seq(SlotTypes) /\ D.n \in Nat /\ Len(D.slot) > 0
    BY SlotsAre DEF Maps
  <2>9. T \in Seq(SlotTypes) /\ Len(T) = Len(D.slot)
    BY <2>3, <2>4, <2>8
  <2>10. \A j \in 1 .. Len(T) : j \in 1 .. Len(D.slot) /\ T[j] = IF j = i THEN x ELSE D.slot[j]
    BY <2>4, <2>8, <2>9
  <2>11. /\ IsFiniteSet(DOMAIN g) /\ Cardinality(DOMAIN g) = D.n - 1 /\ Cardinality(DOMAIN g) \in Nat
    BY <1>2, <1>3, <1>5, FS_RemoveElement, FS_CardinalityType
  <2>12. Entries(g)
    <3>1. g \in [DOMAIN g -> EntryValues]
      <4>1. \A l \in DOMAIN g : g[l] \in EntryValues
        BY <1>2, <1>3
      <4>2. g = [l \in DOMAIN g |-> g[l]]
        BY <1>1
      <4> QED BY <4>1, <4>2
    <3>2. \A l \in DOMAIN f : Len(l) = 1 => f[l] = UNDEF
      BY DEF Maps, Entries
    <3>3. \A l \in DOMAIN g : Len(l) = 1 => g[l] = UNDEF
      BY <1>2, <3>2, Zenon
    <3> QED BY <1>2, <1>3, <2>11, <3>1, <3>3 DEF Entries
  <2>13. G \in Dicts
    BY <2>6, <2>5, <2>8, <2>9, <2>11 DEF Dicts
  <2>14. \A j \in 1 .. Len(T) : T[j].key # NoKey =>
           /\ j # i /\ T[j].key = D.slot[j].key /\ T[j].val = D.slot[j].val
           /\ T[j].key \in DOMAIN f /\ T[j].key # k /\ T[j].val = f[T[j].key]
    <3> SUFFICES ASSUME NEW j \in 1 .. Len(T), T[j].key # NoKey
                 PROVE  /\ j # i /\ T[j].key = D.slot[j].key /\ T[j].val = D.slot[j].val
                        /\ T[j].key \in DOMAIN f /\ T[j].key # k /\ T[j].val = f[T[j].key]
      OBVIOUS
    <3>1. j # i /\ T[j] = D.slot[j] /\ j \in 1 .. Len(D.slot)
      BY <2>3, <2>10
    <3>2. T[j].key # k
      BY <2>1, <3>1 DEF Maps
    <3>3. T[j].key \in DOMAIN f /\ T[j].val = f[T[j].key]
      BY <3>1 DEF Maps
    <3> QED BY <3>1, <3>2, <3>3
  <2>15. \A j \in 1 .. Len(T) : T[j].key # NoKey => T[j].key \in DOMAIN g /\ T[j].val = g[T[j].key]
    BY <1>2, <2>14
  <2>16. \A j, l \in 1 .. Len(T) : T[j].key = T[l].key /\ T[j].key # NoKey => j = l
    BY <2>9, <2>14 DEF Maps
  <2>17. \A l \in DOMAIN g : \E j \in 1 .. Len(T) : T[j].key = l
    <3> SUFFICES ASSUME NEW l \in DOMAIN g PROVE \E j \in 1 .. Len(T) : T[j].key = l
      OBVIOUS
    <3>1. PICK j \in 1 .. Len(D.slot) : D.slot[j].key = l
      BY <1>2 DEF Maps
    <3>2. j # i
      BY <1>2, <2>1, <3>1
    <3> QED BY <2>9, <2>10, <3>1, <3>2
  <2>18. Maps(G, g)
    BY <2>6, <2>11, <2>12, <2>13, <2>15, <2>16, <2>17 DEF Maps
  <2> QED BY <1>1, <2>7, <2>18
<1> QED BY <1>4, <1>5

(* iniparser_getsecnkeys counts the keys of a section.                     *)
LEMMA NKeysIs ==
  ASSUME NEW D, NEW f, Maps(D, f), NEW s \in Sections
  PROVE  SecNKeys(D, s) = IF <<s>> \in DOMAIN f
                            THEN Cardinality({k \in IniKeys : <<s, k>> \in DOMAIN f}) ELSE 0
<1>1. PICK N \in Nat : N = Len(D.slot) /\ N = DictSize(D) /\ N > 0
  BY SlotsAre DEF Maps
<1>2. <<s>> \in Names /\ Len(<<s>>) = 1
  BY NamesAre
<1>3. FindEntry(D, <<s>>) <=> <<s>> \in DOMAIN f
  <2>1. <<s>> \in DOMAIN f => f[<<s>>] = UNDEF
    BY <1>2 DEF Maps, Entries
  <2>2. UNDEF # NoName
    BY DEF UNDEF, NoName
  <2>3. DictGet(D, <<s>>) = IF <<s>> \in DOMAIN f THEN f[<<s>>] ELSE NoName
    BY <1>2, FindIs
  <2> QED BY <2>1, <2>2, <2>3 DEF FindEntry
<1> DEFINE K == {k \in IniKeys : <<s, k>> \in DOMAIN f}
           S == SecKeys(D, s)
           g == [i \in S |-> D.slot[i].key[2]]
<1>4. S \subseteq 1 .. N
  BY <1>1 DEF SecKeys
<1>5. \A i \in S : /\ D.slot[i].key \in DOMAIN f /\ D.slot[i].key[2] \in IniKeys
                   /\ D.slot[i].key = <<s, D.slot[i].key[2]>>
  <2> SUFFICES ASSUME NEW i \in S
               PROVE  /\ D.slot[i].key \in DOMAIN f /\ D.slot[i].key[2] \in IniKeys
                      /\ D.slot[i].key = <<s, D.slot[i].key[2]>>
    OBVIOUS
  <2>1. i \in 1 .. Len(D.slot) /\ Len(D.slot[i].key) = 2 /\ D.slot[i].key[1] = s
    BY <1>1 DEF SecKeys
  <2>2. D.slot[i].key # NoKey
    BY <2>1, NamesAre
  <2>3. D.slot[i].key \in DOMAIN f
    BY <2>1, <2>2 DEF Maps
  <2>4. D.slot[i].key \in Names
    BY <2>3 DEF Maps, Entries
  <2> QED BY <2>1, <2>3, <2>4, NamesAre
<1>6. \A i \in S : D.slot[i].key[2] \in K
  <2> SUFFICES ASSUME NEW i \in S PROVE D.slot[i].key[2] \in K
    OBVIOUS
  <2>1. D.slot[i].key \in DOMAIN f /\ D.slot[i].key[2] \in IniKeys
        /\ D.slot[i].key = <<s, D.slot[i].key[2]>>
    BY <1>5
  <2>2. <<s, D.slot[i].key[2]>> \in DOMAIN f
    BY <2>1
  <2> QED BY <2>1, <2>2
<1>7. \A k \in K : \E i \in S : D.slot[i].key[2] = k
  <2> SUFFICES ASSUME NEW k \in K PROVE \E i \in S : D.slot[i].key[2] = k
    OBVIOUS
  <2>1. PICK i \in 1 .. Len(D.slot) : D.slot[i].key = <<s, k>>
    BY DEF Maps
  <2>2. Len(<<s, k>>) = 2 /\ <<s, k>>[1] = s /\ <<s, k>>[2] = k
    OBVIOUS
  <2>3. i \in S
    BY <1>1, <2>1, <2>2 DEF SecKeys
  <2> QED BY <2>1, <2>2, <2>3
<1>8. \A i, j \in S : D.slot[i].key[2] = D.slot[j].key[2] => i = j
  <2> SUFFICES ASSUME NEW i \in S, NEW j \in S, D.slot[i].key[2] = D.slot[j].key[2] PROVE i = j
    OBVIOUS
  <2>1. D.slot[i].key = D.slot[j].key /\ D.slot[i].key \in Names
    BY <1>5 DEF Maps, Entries
  <2>2. i \in 1 .. Len(D.slot) /\ j \in 1 .. Len(D.slot)
    BY <1>1, <1>4
  <2>3. D.slot[i].key # NoKey
    BY <2>1, NamesAre
  <2> QED BY <2>1, <2>2, <2>3 DEF Maps
<1>9. IsFiniteSet(S)
  <2>1. IsFiniteSet(1 .. N)
    BY FS_Interval
  <2> QED BY <1>4, <2>1, FS_Subset
<1> HIDE DEF S, K
<1>10. g \in Bijection(S, K)
  <2>1. g \in [S -> K] /\ \A i \in S : g[i] = D.slot[i].key[2]
    BY <1>6
  <2> HIDE DEF g
  <2>2. g \in Injection(S, K)
    BY <1>8, <2>1 DEF Injection, IsInjective
  <2>3. g \in Surjection(S, K)
    BY <1>7, <2>1 DEF Surjection
  <2> QED BY <2>2, <2>3 DEF Bijection
<1>11. Cardinality(S) = Cardinality(K)
  <2> HIDE DEF g
  <2>1. ExistsBijection(S, K)
    BY <1>10 DEF ExistsBijection
  <2> QED BY <1>9, <2>1, FS_Bijection
<1> QED BY <1>3, <1>11 DEF S, K, SecNKeys

-----------------------------------------------------------------------------
(* Saved and loaded.  Of a finite set of numbers each has a place of its   *)
(* own, and every place is taken: iniparser_getsecname finds every section *)
(* once.                                                                   *)
LEMMA PlacesAre ==
  ASSUME NEW M, M \subseteq Nat, IsFiniteSet(M)
  PROVE  /\ Cardinality(M) \in Nat
         /\ \E c : /\ c \in Bijection(M, 0 .. Cardinality(M) - 1)
                  /\ \A i \in M : c[i] = Cardinality({j \in M : j < i})
<1> DEFINE B(i) == {j \in M : j < i}
           c(i) == Cardinality(B(i))
           g == [i \in M |-> c(i)]
<1>1. PICK N \in Nat : N = Cardinality(M)
  BY FS_CardinalityType
<1>2. ASSUME NEW i \in M PROVE IsFiniteSet(B(i)) /\ c(i) \in Nat /\ c(i) < N
  <2>1. B(i) \in SUBSET M /\ B(i) # M
    OBVIOUS
  <2>2. IsFiniteSet(B(i)) /\ c(i) <= N /\ (N = c(i) => M = B(i))
    <3> HIDE DEF B
    <3> QED BY <1>1, <2>1, FS_Subset
  <2>3. c(i) \in Nat
    <3> HIDE DEF B
    <3> QED BY <2>2, FS_CardinalityType
  <2> HIDE DEF B, c
  <2> QED BY <2>1, <2>2, <2>3
<1>3. ASSUME NEW i \in M, NEW l \in M, i < l PROVE c(i) < c(l)
  <2>1. B(i) \in SUBSET B(l) /\ B(i) # B(l)
    <3>1. i \in Nat /\ l \in Nat /\ ~ (i < i)
      OBVIOUS
    <3>2. i \in B(l) /\ i \notin B(i)
      BY <1>3, <3>1
    <3>3. \A j \in B(i) : j \in M /\ j < l
      BY <1>3, <3>1
    <3>4. \A j \in B(i) : j \in B(l)
      BY <3>3
    <3> HIDE DEF B
    <3> QED BY <3>2, <3>4
  <2>2. IsFiniteSet(B(l)) /\ c(i) \in Nat /\ c(l) \in Nat
    BY <1>2
  <2>3. c(i) <= c(l) /\ (c(l) = c(i) => B(l) = B(i))
    <3> HIDE DEF B
    <3> QED BY <2>1, <2>2, FS_Subset
  <2> HIDE DEF B, c
  <2> QED BY <2>1, <2>2, <2>3
<1>4. \A i, l \in M : c(i) = c(l) => i = l
  <2> SUFFICES ASSUME NEW i \in M, NEW l \in M, c(i) = c(l) PROVE i = l
    OBVIOUS
  <2>1. c(i) \in Nat /\ c(l) \in Nat /\ i \in Nat /\ l \in Nat
    BY <1>2
  <2>2. ~ (i < l) /\ ~ (l < i)
    <3> HIDE DEF c
    <3> QED BY <1>3, <2>1
  <2> QED BY <2>1, <2>2
<1>5. ASSUME NEW i \in M PROVE c(i) \in 0 .. N - 1
  <2>1. c(i) \in Nat /\ c(i) < N
    BY <1>2
  <2> HIDE DEF c
  <2> QED BY <1>1, <2>1
<1> HIDE DEF c
<1>6. g \in [M -> 0 .. N - 1] /\ \A i \in M : g[i] = c(i)
  BY <1>5
<1> HIDE DEF g
<1>7. g \in Bijection(M, 0 .. N - 1)
  <2>1. g \in Injection(M, 0 .. N - 1)
    BY <1>4, <1>6 DEF Injection, IsInjective
  <2>2. 0 \in Int /\ N - 1 \in Int
    BY <1>1
  <2>3. IsFiniteSet(0 .. N - 1)
    BY <2>2, FS_Interval
  <2>4. Cardinality(0 .. N - 1) = IF 0 > N - 1 THEN 0 ELSE N - 1 - 0 + 1
    BY <2>2, FS_Interval
  <2>5. Cardinality(0 .. N - 1) = N
    BY <1>1, <2>4
  <2>6. g \in Surjection(M, 0 .. N - 1)
    BY <1>1, <2>1, <2>3, <2>5, FS_Injection
  <2> QED BY <2>1, <2>6 DEF Bijection
<1>8. \A i \in M : g[i] = Cardinality({j \in M : j < i})
  <2> SUFFICES ASSUME NEW i \in M PROVE g[i] = Cardinality({j \in M : j < i})
    OBVIOUS
  <2> QED BY <1>6 DEF c
<1> QED BY <1>1, <1>7, <1>8

LEMMA SectionsAre ==
  ASSUME NEW D \in Dicts
  PROVE  /\ NSec(D) \in Nat
         /\ \A n \in 0 .. NSec(D) - 1 : SecName(D, n) \in SecNames(D)
         /\ \A i \in SecNames(D) : \E n \in 0 .. NSec(D) - 1 : SecName(D, n) = i
<1>1. SecNames(D) \subseteq 1 .. Len(D.slot) /\ Len(D.slot) \in Nat
  BY SlotsAre DEF SecNames, DictSize
<1>2. PICK M : M = SecNames(D) /\ M \subseteq Nat /\ IsFiniteSet(M)
  <2>1. IsFiniteSet(1 .. Len(D.slot))
    BY <1>1, FS_Interval
  <2>2. IsFiniteSet(SecNames(D))
    BY <1>1, <2>1, FS_Subset
  <2> QED BY <1>1, <2>2
<1>3. PICK N \in Nat : N = Cardinality(M) /\ N = NSec(D)
  BY <1>2, PlacesAre DEF NSec
<1>4. PICK c : /\ c \in Bijection(M, 0 .. Cardinality(M) - 1)
               /\ \A i \in M : c[i] = Cardinality({j \in M : j < i})
  BY <1>2, PlacesAre
<1>5. /\ \A i \in M : c[i] \in 0 .. N - 1
      /\ \A i, l \in M : c[i] = c[l] => i = l
      /\ \A n \in 0 .. N - 1 : \E i \in M : c[i] = n
  BY <1>3, <1>4 DEF Bijection, Injection, IsInjective, Surjection
<1> DEFINE Is(i, n) == Cardinality({j \in M : j < i}) = n
<1>6. \A i \in M : \A n : Is(i, n) <=> c[i] = n
  BY <1>4, Zenon
<1>7. \A n : SecName(D, n) = CHOOSE i \in M : Is(i, n)
  BY <1>2, Zenon DEF SecName
<1> HIDE DEF Is
<1>8. ASSUME NEW n \in 0 .. N - 1 PROVE SecName(D, n) \in M /\ c[SecName(D, n)] = n
  <2>1. PICK x \in M : Is(x, n)
    BY <1>5, <1>6
  <2>2. SecName(D, n) \in M /\ Is(SecName(D, n), n)
    BY <1>7, <2>1, Zenon
  <2> QED BY <1>6, <2>2
<1>9. ASSUME NEW i \in M PROVE \E n \in 0 .. N - 1 : SecName(D, n) = i
  <2>1. PICK n \in 0 .. N - 1 : n = c[i]
    BY <1>5
  <2>2. SecName(D, n) = i
    BY <1>5, <1>8, <2>1
  <2> QED BY <2>2
<1> QED BY <1>2, <1>3, <1>8, <1>9

LEMMA LinesAre ==
  ASSUME NEW S, NEW q \in Seq(S)
  PROVE  /\ \A x \in S : ToSet(Append(q, x)) = ToSet(q) \cup {x}
         /\ \A r \in Seq(S) : ToSet(q \o r) = ToSet(q) \cup ToSet(r)
         /\ ToSet(<<>>) = {}
<1>0. \A r \in Seq(S) : ToSet(r) = {r[i] : i \in 1 .. Len(r)}
  <2>1. \A r \in Seq(S) : DOMAIN r = 1 .. Len(r)
    OBVIOUS
  <2> QED BY <2>1, Zenon DEF ToSet
<1>1. ASSUME NEW x \in S PROVE ToSet(Append(q, x)) = ToSet(q) \cup {x}
  <2>0. Append(q, x) \in Seq(S)
    OBVIOUS
  <2>1. PICK r \in Seq(S) : r = Append(q, x)
    BY <2>0
  <2>2. /\ Len(q) \in Nat /\ Len(r) = Len(q) + 1 /\ r[Len(q) + 1] = x
        /\ \A i \in 1 .. Len(q) : r[i] = q[i]
    BY <2>1
  <2>3. ToSet(r) = {r[i] : i \in 1 .. Len(q) + 1}
    BY <1>0, <2>2
  <2>4. ToSet(q) = {q[i] : i \in 1 .. Len(q)}
    BY <1>0
  <2>5. \A i : i \in 1 .. Len(q) + 1 <=> i \in 1 .. Len(q) \/ i = Len(q) + 1
    BY <2>2
  <2>6. \A y : y \in ToSet(r) <=> y \in ToSet(q) \/ y = x
    BY <2>2, <2>3, <2>4, <2>5, Zenon
  <2> QED BY <2>1, <2>6
<1>2. ASSUME NEW p \in Seq(S) PROVE ToSet(q \o p) = ToSet(q) \cup ToSet(p)
  <2>1. PICK r \in Seq(S) : r = q \o p
    BY ConcatProperties
  <2>2. PICK n \in Nat : n = Len(q)
    OBVIOUS
  <2>3. PICK m \in Nat : m = Len(p)
    OBVIOUS
  <2>4. Len(r) = n + m /\ \A i \in 1 .. n + m : r[i] = IF i <= n THEN q[i] ELSE p[i - n]
    BY <2>1, <2>2, <2>3, ConcatProperties
  <2>5. ToSet(r) = {r[i] : i \in 1 .. n + m} /\ ToSet(q) = {q[i] : i \in 1 .. n}
        /\ ToSet(p) = {p[i] : i \in 1 .. m}
    BY <1>0, <2>2, <2>3, <2>4
  <2>6. \A i \in 1 .. n : i \in 1 .. n + m /\ r[i] = q[i]
    BY <2>4
  <2>7. \A i \in 1 .. m : n + i \in 1 .. n + m /\ r[n + i] = p[i]
    <3> SUFFICES ASSUME NEW i \in 1 .. m PROVE n + i \in 1 .. n + m /\ r[n + i] = p[i]
      OBVIOUS
    <3>1. n + i \in 1 .. n + m /\ ~ (n + i <= n) /\ (n + i) - n = i
      OBVIOUS
    <3> QED BY <2>4, <3>1
  <2>8. \A i \in 1 .. n + m : \/ i \in 1 .. n /\ r[i] = q[i]
                              \/ i - n \in 1 .. m /\ r[i] = p[i - n]
    BY <2>4
  <2>9. \A y : y \in ToSet(r) <=> y \in ToSet(q) \/ y \in ToSet(p)
    BY <2>5, <2>6, <2>7, <2>8, Zenon
  <2> QED BY <2>1, <2>9
<1>3. ToSet(<<>>) = {}
  <2>1. <<>> \in Seq(S) /\ 1 .. Len(<<>>) = {}
    OBVIOUS
  <2>2. ToSet(<<>>) = {<<>>[i] : i \in 1 .. Len(<<>>)}
    BY <1>0, <2>1, Zenon
  <2> QED BY <2>1, <2>2, Zenon
<1> QED BY <1>1, <1>2, <1>3

(* The lines of iniparser_dumpsection_ini: the section and its keys.       *)
LEMMA DumpSectionIs ==
  ASSUME NEW D \in Dicts, NEW s \in Sections
  PROVE  /\ DumpSection(D, s) \in Seq(SlotTypes)
         /\ ToSet(DumpSection(D, s)) = {[key |-> <<s>>, val |-> UNDEF]}
                                         \cup {D.slot[i] : i \in SecKeys(D, s)}
<1>1. PICK N \in Nat : N = Len(D.slot) /\ N = DictSize(D)
  BY SlotsAre
<1>2. PICK K : K = SecKeys(D, s) /\ K \subseteq 1 .. N
  BY <1>1 DEF SecKeys
<1>3. PICK h : h = [key |-> <<s>>, val |-> UNDEF] /\ h \in SlotTypes
  <2>1. <<s>> \in Names
    BY NamesAre
  <2>2. [key |-> <<s>>, val |-> UNDEF] \in SlotTypes
    BY <2>1 DEF SlotTypes, EntryValues
  <2> QED BY <2>2
<1>4. PICK F : F = Seq(SlotTypes)
  OBVIOUS
<1>5. \A i \in 1 .. N : D.slot[i] \in SlotTypes
  BY <1>1, SlotsAre
<1> DEFINE T(n) == {h} \cup {D.slot[i] : i \in {j \in K : j <= n}}
           P == [n \in 0 .. N |-> {q \in F : ToSet(q) = T(n)}]
           turn(n, q) == IF n \in K THEN Append(q, D.slot[n]) ELSE q
           t == [n \in 1 .. N |-> [q \in F |-> turn(n, q)]]
           Is(g) == g = [n \in 0 .. N |-> IF n = 0 THEN <<h>> ELSE turn(n, g[n - 1])]
<1>6. ASSUME NEW n \in 1 .. N PROVE T(n) = T(n - 1) \cup IF n \in K THEN {D.slot[n]} ELSE {}
  <2>1. \A j \in K : j <= n <=> j <= n - 1 \/ j = n
    BY <1>2
  <2>2. \A x : x \in T(n) <=> x \in T(n - 1) \/ (n \in K /\ x = D.slot[n])
    BY <2>1
  <2> HIDE DEF T
  <2> QED BY <2>2
<1>7. T(0) = {h} /\ T(N) = {h} \cup {D.slot[i] : i \in K}
  <2>1. {j \in K : j <= 0} = {} /\ {j \in K : j <= N} = K
    BY <1>2
  <2> QED BY <2>1
<1>8. \A n \in 1 .. N : \A q \in F : turn(n, q) \in F
                                     /\ ToSet(turn(n, q)) = ToSet(q) \cup IF n \in K THEN {D.slot[n]} ELSE {}
  <2> SUFFICES ASSUME NEW n \in 1 .. N, NEW q \in F
               PROVE  turn(n, q) \in F
                      /\ ToSet(turn(n, q)) = ToSet(q) \cup IF n \in K THEN {D.slot[n]} ELSE {}
    OBVIOUS
  <2>1. CASE n \in K
    <3>1. D.slot[n] \in SlotTypes
      BY <1>5
    <3>2. Append(q, D.slot[n]) \in F /\ ToSet(Append(q, D.slot[n])) = ToSet(q) \cup {D.slot[n]}
      BY <1>4, <3>1, LinesAre
    <3> QED BY <2>1, <3>2
  <2>2. CASE n \notin K
    BY <2>2
  <2> QED BY <2>1, <2>2
<1> HIDE DEF T, turn
<1>9. \A n \in 0 .. N : P[n] = {q \in F : ToSet(q) = T(n)}
  OBVIOUS
<1>10. <<h>> \in F /\ <<h>> \in P[0]
  <2>1. <<h>> \in F
    BY <1>3, <1>4
  <2>2. ToSet(<<h>>) = {h}
    BY DEF ToSet
  <2> QED BY <1>7, <1>9, <2>1, <2>2
<1>11. \A n \in 1 .. N : n - 1 \in 0 .. N /\ n \in 0 .. N
  OBVIOUS
<1>12. ASSUME NEW n \in 1 .. N, NEW q \in P[n - 1] PROVE q \in F /\ turn(n, q) \in P[n]
  <2>1. q \in F /\ ToSet(q) = T(n - 1)
    BY <1>9, <1>11, <1>12
  <2>2. turn(n, q) \in F /\ ToSet(turn(n, q)) = T(n)
    <3>1. turn(n, q) \in F
          /\ ToSet(turn(n, q)) = ToSet(q) \cup IF n \in K THEN {D.slot[n]} ELSE {}
      BY <1>8, <2>1
    <3>2. T(n) = T(n - 1) \cup IF n \in K THEN {D.slot[n]} ELSE {}
      BY <1>6
    <3> QED BY <2>1, <3>1, <3>2, Zenon
  <2> QED BY <1>9, <1>11, <2>1, <2>2
<1>13. t \in [1 .. N -> [F -> F]] /\ \A n \in 1 .. N : \A q \in F : t[n][q] = turn(n, q)
  BY <1>8
<1>14. P \in [0 .. N -> SUBSET F]
  OBVIOUS
<1> HIDE DEF P, t
<1>15. \E g : Is(g)
  <2>1. PICK g : TurnsOf(F, <<h>>, t, N, g) /\ \A n \in 0 .. N : g[n] \in P[n]
    <3>1. \A n \in 1 .. N : \A q \in P[n - 1] : t[n][q] \in P[n]
      BY <1>12, <1>13
    <3> QED BY <1>10, <1>13, <1>14, <3>1, TurnsExist
  <2>2. \A n \in 0 .. N : n = 0 \/ n \in 1 .. N
    OBVIOUS
  <2>3. \A n \in 0 .. N : g[n] = IF n = 0 THEN <<h>> ELSE t[n][g[n - 1]]
    BY <2>1 DEF TurnsOf
  <2>4. \A n \in 1 .. N : t[n][g[n - 1]] = turn(n, g[n - 1])
    BY <1>11, <1>12, <1>13, <2>1
  <2>5. \A n \in 0 .. N : g[n] = IF n = 0 THEN <<h>> ELSE turn(n, g[n - 1])
    BY <2>2, <2>3, <2>4
  <2>6. g = [n \in 0 .. N |-> g[n]]
    BY <2>1 DEF TurnsOf
  <2> QED BY <2>5, <2>6
<1>16. PICK g : g = (CHOOSE f : Is(f)) /\ Is(g)
  <2> HIDE DEF Is
  <2> QED BY <1>15, Zenon
<1>17. \A n \in 0 .. N : g[n] \in P[n]
  <2>0. \A n \in 0 .. N : g[n] = IF n = 0 THEN <<h>> ELSE turn(n, g[n - 1])
    BY <1>16, Zenon
  <2>1. g[0] = <<h>>
    <3>1. 0 \in 0 .. N
      OBVIOUS
    <3> QED BY <2>0, <3>1, Zenon
  <2>2. \A n \in 1 .. N : g[n] = turn(n, g[n - 1])
    <3>1. \A n \in 1 .. N : n # 0
      OBVIOUS
    <3> QED BY <1>11, <2>0, <3>1, Zenon
  <2> QED BY <1>10, <1>12, <2>1, <2>2, TurnsHold
<1>18. DumpSection(D, s) = g[N]
  <2>1. DumpSection(D, s) = (CHOOSE f : Is(f))[N]
    BY <1>1, <1>2, <1>3 DEF DumpSection, turn
  <2> QED BY <1>16, <2>1, Zenon
<1>19. g[N] \in F /\ ToSet(g[N]) = T(N)
  BY <1>9, <1>17
<1> QED BY <1>2, <1>3, <1>4, <1>7, <1>18, <1>19

(* The entries that are saved, those whose section is there, and the line  *)
(* of one.                                                                 *)
Saved(f)   == {k \in DOMAIN f : <<k[1]>> \in DOMAIN f}
Line(f, k) == [key |-> k, val |-> f[k]]

LEMMA SectionLinesAre ==
  ASSUME NEW D, NEW f, Maps(D, f), NEW s \in Sections, <<s>> \in DOMAIN f
  PROVE  /\ DumpSection(D, s) \in Seq(SlotTypes)
         /\ ToSet(DumpSection(D, s)) = {Line(f, k) : k \in {l \in DOMAIN f : l[1] = s}}
<1>1. D \in Dicts /\ DictSize(D) = Len(D.slot)
  BY SlotsAre DEF Maps
<1>2. PICK h : h = [key |-> <<s>>, val |-> UNDEF]
  OBVIOUS
<1>3. /\ DumpSection(D, s) \in Seq(SlotTypes)
      /\ ToSet(DumpSection(D, s)) = {h} \cup {D.slot[i] : i \in SecKeys(D, s)}
  BY <1>1, <1>2, DumpSectionIs
<1>4. \A k \in DOMAIN f : k \in Names /\ (Len(k) = 1 => f[k] = UNDEF)
  BY DEF Maps, Entries
<1>5. <<s>>[1] = s /\ Len(<<s>>) = 1
  OBVIOUS
<1>6. h = Line(f, <<s>>)
  BY <1>2, <1>4, <1>5 DEF Line
<1>7. ASSUME NEW i \in SecKeys(D, s)
      PROVE  /\ D.slot[i].key \in DOMAIN f /\ D.slot[i].key[1] = s
             /\ D.slot[i] = Line(f, D.slot[i].key)
  <2>1. i \in 1 .. Len(D.slot) /\ Len(D.slot[i].key) = 2 /\ D.slot[i].key[1] = s
    BY <1>1 DEF SecKeys
  <2>2. D.slot[i].key # NoKey
    BY <2>1, NamesAre
  <2>3. D.slot[i].key \in DOMAIN f /\ D.slot[i].val = f[D.slot[i].key]
    BY <2>1, <2>2 DEF Maps
  <2>4. D.slot[i] = [key |-> D.slot[i].key, val |-> D.slot[i].val]
    BY <1>1, <2>1, SlotsAre
  <2> QED BY <2>1, <2>3, <2>4 DEF Line
<1>8. ASSUME NEW k \in DOMAIN f, k[1] = s, k # <<s>>
      PROVE  \E i \in SecKeys(D, s) : D.slot[i] = Line(f, k)
  <2>1. PICK i \in 1 .. Len(D.slot) : D.slot[i].key = k
    BY DEF Maps
  <2>2. Len(k) = 2
    BY <1>4, <1>8, NamesAre
  <2>3. i \in SecKeys(D, s)
    BY <1>1, <1>8, <2>1, <2>2 DEF SecKeys
  <2> QED BY <1>7, <2>1, <2>3
<1>9. \A x : x \in {h} \cup {D.slot[i] : i \in SecKeys(D, s)}
               <=> \E k \in DOMAIN f : k[1] = s /\ x = Line(f, k)
  <2>1. ASSUME NEW x, x \in {h} \cup {D.slot[i] : i \in SecKeys(D, s)}
        PROVE  \E k \in DOMAIN f : k[1] = s /\ x = Line(f, k)
    <3>1. CASE x = h
      BY <1>5, <1>6, <3>1, Zenon
    <3>2. CASE \E i \in SecKeys(D, s) : x = D.slot[i]
      BY <1>7, <3>2, Zenon
    <3> QED BY <2>1, <3>1, <3>2
  <2>2. ASSUME NEW x, NEW k \in DOMAIN f, k[1] = s, x = Line(f, k)
        PROVE  x \in {h} \cup {D.slot[i] : i \in SecKeys(D, s)}
    <3>1. CASE k = <<s>>
      BY <1>6, <2>2, <3>1
    <3>2. CASE k # <<s>>
      <4>1. PICK i \in SecKeys(D, s) : D.slot[i] = x
        BY <1>8, <2>2, <3>2, Zenon
      <4> QED BY <4>1
    <3> QED BY <3>1, <3>2
  <2> QED BY <2>1, <2>2, Zenon
<1>10. {h} \cup {D.slot[i] : i \in SecKeys(D, s)} = {Line(f, k) : k \in {l \in DOMAIN f : l[1] = s}}
  BY <1>9
<1> QED BY <1>3, <1>10

(* iniparser_getsecname and the sections of the entries.                   *)
LEMMA NamedSections ==
  ASSUME NEW D, NEW f, Maps(D, f)
  PROVE  /\ NSec(D) \in Nat
         /\ \A n \in 0 .. NSec(D) - 1 :
              LET s == D.slot[SecName(D, n)].key[1] IN s \in Sections /\ <<s>> \in DOMAIN f
         /\ \A s : <<s>> \in DOMAIN f =>
              \E n \in 0 .. NSec(D) - 1 : D.slot[SecName(D, n)].key[1] = s
<1>1. D \in Dicts /\ DictSize(D) = Len(D.slot) /\ DOMAIN f \subseteq Names
  BY SlotsAre DEF Maps, Entries
<1>2. /\ NSec(D) \in Nat
      /\ \A n \in 0 .. NSec(D) - 1 : SecName(D, n) \in SecNames(D)
      /\ \A i \in SecNames(D) : \E n \in 0 .. NSec(D) - 1 : SecName(D, n) = i
  BY <1>1, SectionsAre
<1>3. ASSUME NEW i \in SecNames(D)
      PROVE  D.slot[i].key[1] \in Sections /\ <<D.slot[i].key[1]>> \in DOMAIN f
  <2>1. i \in 1 .. Len(D.slot) /\ Len(D.slot[i].key) = 1
    BY <1>1 DEF SecNames
  <2>2. D.slot[i].key # NoKey
    BY <2>1, NamesAre
  <2>3. D.slot[i].key \in DOMAIN f
    BY <2>1, <2>2 DEF Maps
  <2> QED BY <1>1, <2>1, <2>3, NamesAre
<1>4. ASSUME NEW s, <<s>> \in DOMAIN f PROVE \E i \in SecNames(D) : D.slot[i].key[1] = s
  <2>1. PICK i \in 1 .. Len(D.slot) : D.slot[i].key = <<s>>
    BY <1>4 DEF Maps
  <2>2. Len(<<s>>) = 1 /\ <<s>>[1] = s
    OBVIOUS
  <2>3. i \in SecNames(D)
    BY <1>1, <2>1, <2>2 DEF SecNames
  <2> QED BY <2>1, <2>2, <2>3
<1> QED BY <1>2, <1>3, <1>4

(* The lines of iniparser_dump_ini are those of the saved entries.         *)
LEMMA DumpIniIs ==
  ASSUME NEW D, NEW f, Maps(D, f)
  PROVE  /\ DumpIni(D) \in Seq(SlotTypes)
         /\ ToSet(DumpIni(D)) = {Line(f, k) : k \in Saved(f)}
<1>1. PICK N \in Nat : N = NSec(D)
  BY NamedSections
<1>2. PICK F : F = Seq(SlotTypes)
  OBVIOUS
<1> DEFINE name(n) == D.slot[SecName(D, n - 1)].key[1]
           part(n) == DumpSection(D, name(n))
           T(n) == UNION {ToSet(part(m)) : m \in 1 .. n}
           P == [n \in 0 .. N |-> {q \in F : ToSet(q) = T(n)}]
           turn(n, q) == q \o part(n)
           t == [n \in 1 .. N |-> [q \in F |-> turn(n, q)]]
           Is(g) == g = [n \in 0 .. N |-> IF n = 0 THEN <<>> ELSE turn(n, g[n - 1])]
<1>3. \A n \in 1 .. N : name(n) \in Sections /\ <<name(n)>> \in DOMAIN f
  <2>1. \A n \in 1 .. N : n - 1 \in 0 .. N - 1
    OBVIOUS
  <2> QED BY <1>1, <2>1, NamedSections
<1>4. \A s : <<s>> \in DOMAIN f => \E n \in 1 .. N : name(n) = s
  <2> SUFFICES ASSUME NEW s, <<s>> \in DOMAIN f PROVE \E n \in 1 .. N : name(n) = s
    OBVIOUS
  <2>1. PICK m \in 0 .. N - 1 : D.slot[SecName(D, m)].key[1] = s
    BY <1>1, NamedSections
  <2>2. m + 1 \in 1 .. N /\ m + 1 - 1 = m
    BY <1>1
  <2>3. name(m + 1) = s
    BY <2>1, <2>2
  <2> HIDE DEF name
  <2> QED BY <2>2, <2>3
<1> HIDE DEF name
<1>5. \A n \in 1 .. N : /\ part(n) \in F
                        /\ ToSet(part(n)) = {Line(f, k) : k \in {l \in DOMAIN f : l[1] = name(n)}}
  <2> SUFFICES ASSUME NEW n \in 1 .. N
               PROVE  /\ part(n) \in F
                      /\ ToSet(part(n)) = {Line(f, k) : k \in {l \in DOMAIN f : l[1] = name(n)}}
    OBVIOUS
  <2>1. PICK s : s = name(n) /\ s \in Sections /\ <<s>> \in DOMAIN f
    BY <1>3
  <2>2. /\ DumpSection(D, s) \in Seq(SlotTypes)
        /\ ToSet(DumpSection(D, s)) = {Line(f, k) : k \in {l \in DOMAIN f : l[1] = s}}
    BY <2>1, SectionLinesAre
  <2>3. part(n) = DumpSection(D, s)
    BY <2>1
  <2> QED BY <1>2, <2>1, <2>2, <2>3, Zenon
<1> HIDE DEF part
<1>6. ASSUME NEW n \in 1 .. N PROVE T(n) = T(n - 1) \cup ToSet(part(n))
  <2>1. \A m : m \in 1 .. n <=> m \in 1 .. n - 1 \/ m = n
    OBVIOUS
  <2>2. \A x : x \in T(n) <=> x \in T(n - 1) \/ x \in ToSet(part(n))
    BY <2>1, Zenon
  <2> HIDE DEF T
  <2> QED BY <2>2
<1>7. T(0) = {}
  BY <1>1
<1>8. T(N) = {Line(f, k) : k \in Saved(f)}
  <2>1. ASSUME NEW x, x \in T(N) PROVE \E k \in Saved(f) : x = Line(f, k)
    <3>1. PICK n \in 1 .. N : x \in ToSet(part(n))
      BY <2>1
    <3>2. PICK k \in DOMAIN f : k[1] = name(n) /\ x = Line(f, k)
      BY <1>5, <3>1
    <3>3. k \in Saved(f)
      BY <1>3, <3>2 DEF Saved
    <3> QED BY <3>2, <3>3
  <2>2. ASSUME NEW k \in Saved(f) PROVE Line(f, k) \in T(N)
    <3>1. k \in DOMAIN f /\ <<k[1]>> \in DOMAIN f
      BY DEF Saved
    <3>2. PICK n \in 1 .. N : name(n) = k[1]
      BY <1>4, <3>1
    <3>3. Line(f, k) \in ToSet(part(n))
      BY <1>5, <3>1, <3>2
    <3> QED BY <3>3
  <2> HIDE DEF T
  <2> QED BY <2>1, <2>2
<1>9. \A n \in 1 .. N : \A q \in F : turn(n, q) \in F /\ ToSet(turn(n, q)) = ToSet(q) \cup ToSet(part(n))
  BY <1>2, <1>5, LinesAre, ConcatProperties
<1> HIDE DEF T, turn
<1>10. \A n \in 0 .. N : P[n] = {q \in F : ToSet(q) = T(n)}
  OBVIOUS
<1>11. <<>> \in F /\ <<>> \in P[0]
  <2>1. <<>> \in F
    BY <1>2
  <2>2. ToSet(<<>>) = {}
    BY <1>2, <2>1, LinesAre
  <2>3. P[0] = {q \in F : ToSet(q) = T(0)}
    <3>1. 0 \in 0 .. N
      OBVIOUS
    <3> QED BY <1>10, <3>1, Zenon
  <2> HIDE DEF P
  <2> QED BY <1>7, <2>1, <2>2, <2>3
<1>12. \A n \in 1 .. N : n - 1 \in 0 .. N /\ n \in 0 .. N /\ n # 0
  OBVIOUS
<1>13. ASSUME NEW n \in 1 .. N, NEW q \in P[n - 1] PROVE q \in F /\ turn(n, q) \in P[n]
  <2>1. q \in F /\ ToSet(q) = T(n - 1)
    BY <1>10, <1>12
  <2>2. turn(n, q) \in F /\ ToSet(turn(n, q)) = T(n)
    <3>1. turn(n, q) \in F /\ ToSet(turn(n, q)) = ToSet(q) \cup ToSet(part(n))
      BY <1>9, <2>1
    <3>2. T(n) = T(n - 1) \cup ToSet(part(n))
      BY <1>6
    <3> QED BY <2>1, <3>1, <3>2, Zenon
  <2> QED BY <1>10, <1>12, <2>1, <2>2
<1>14. t \in [1 .. N -> [F -> F]] /\ \A n \in 1 .. N : \A q \in F : t[n][q] = turn(n, q)
  BY <1>9
<1>15. P \in [0 .. N -> SUBSET F]
  OBVIOUS
<1> HIDE DEF P, t
<1>16. \E g : Is(g)
  <2>1. PICK g : TurnsOf(F, <<>>, t, N, g) /\ \A n \in 0 .. N : g[n] \in P[n]
    <3>1. \A n \in 1 .. N : \A q \in P[n - 1] : t[n][q] \in P[n]
      BY <1>13, <1>14
    <3> QED BY <1>11, <1>14, <1>15, <3>1, TurnsExist
  <2>2. \A n \in 0 .. N : n = 0 \/ n \in 1 .. N
    OBVIOUS
  <2>3. \A n \in 0 .. N : g[n] = IF n = 0 THEN <<>> ELSE t[n][g[n - 1]]
    BY <2>1 DEF TurnsOf
  <2>4. \A n \in 1 .. N : t[n][g[n - 1]] = turn(n, g[n - 1])
    BY <1>12, <1>13, <1>14, <2>1
  <2>5. \A n \in 0 .. N : g[n] = IF n = 0 THEN <<>> ELSE turn(n, g[n - 1])
    BY <2>2, <2>3, <2>4
  <2>6. g = [n \in 0 .. N |-> g[n]]
    BY <2>1 DEF TurnsOf
  <2> QED BY <2>5, <2>6
<1>17. PICK g : g = (CHOOSE x : Is(x)) /\ Is(g)
  <2> HIDE DEF Is
  <2> QED BY <1>16, Zenon
<1>18. \A n \in 0 .. N : g[n] \in P[n]
  <2>0. \A n \in 0 .. N : g[n] = IF n = 0 THEN <<>> ELSE turn(n, g[n - 1])
    BY <1>17, Zenon
  <2>1. g[0] = <<>>
    <3>1. 0 \in 0 .. N
      OBVIOUS
    <3> QED BY <2>0, <3>1, Zenon
  <2>2. \A n \in 1 .. N : g[n] = turn(n, g[n - 1])
    BY <1>12, <2>0, Zenon
  <2> QED BY <1>11, <1>13, <2>1, <2>2, TurnsHold
<1>19. DumpIni(D) = g[N]
  <2>1. DumpIni(D) = (CHOOSE x : Is(x))[N]
    BY <1>1 DEF DumpIni, turn, part, name
  <2> QED BY <1>17, <2>1, Zenon
<1>20. g[N] \in F /\ ToSet(g[N]) = T(N)
  BY <1>10, <1>18
<1> QED BY <1>2, <1>8, <1>19, <1>20

(* iniparser_load of what was saved: the entries whose section is there.   *)
LEMMA ReloadIs ==
  ASSUME NEW D, NEW f, Maps(D, f)
  PROVE  Maps(Reload(D), [k \in Saved(f) |-> f[k]])
<1>1. PICK L \in Seq(SlotTypes) : L = DumpIni(D) /\ ToSet(L) = {Line(f, k) : k \in Saved(f)}
  BY DumpIniIs
<1>2. PICK N \in Nat : N = Len(L)
  BY <1>1
<1> DEFINE K(n) == {L[i].key : i \in 1 .. n}
           F(n) == [k \in K(n) |-> f[k]]
           P == [n \in 0 .. N |-> {E \in Dicts : Maps(E, F(n))}]
           turn(n, E) == DictSet(E, L[n].key, L[n].val)
           t == [n \in 1 .. N |-> [E \in Dicts |-> IF Maps(E, F(n - 1)) THEN turn(n, E) ELSE E]]
           Is(g) == g = [n \in 0 .. N |-> IF n = 0 THEN DictNew ELSE turn(n, g[n - 1])]
<1>3. ToSet(L) = {L[i] : i \in 1 .. N}
  <2>1. DOMAIN L = 1 .. N
    BY <1>2
  <2> QED BY <2>1, Zenon DEF ToSet
<1>4. \A n \in 1 .. N : L[n].key \in Saved(f) /\ L[n].val = f[L[n].key]
  <2> SUFFICES ASSUME NEW n \in 1 .. N PROVE L[n].key \in Saved(f) /\ L[n].val = f[L[n].key]
    OBVIOUS
  <2>1. PICK k \in Saved(f) : L[n] = Line(f, k)
    BY <1>1, <1>3
  <2>2. L[n].key = k /\ L[n].val = f[k]
    BY <2>1 DEF Line
  <2> QED BY <2>2
<1>5. K(N) = Saved(f)
  <2>1. \A k \in Saved(f) : \E n \in 1 .. N : L[n] = Line(f, k)
    BY <1>1, <1>3
  <2>2. \A k : Line(f, k).key = k
    BY DEF Line
  <2> QED BY <1>4, <2>1, <2>2
<1>6. \A k \in Saved(f) : k \in Names /\ f[k] \in EntryValues /\ (Len(k) = 1 => f[k] = UNDEF)
  BY DEF Maps, Entries, Saved
<1>7. ASSUME NEW n \in 1 .. N PROVE F(n) = Entered(F(n - 1), L[n].key, L[n].val)
  <2>1. \A i : i \in 1 .. n <=> i \in 1 .. n - 1 \/ i = n
    OBVIOUS
  <2>2. K(n) = K(n - 1) \cup {L[n].key}
    BY <2>1
  <2>3. PICK G : G = F(n - 1)
    OBVIOUS
  <2>4. DOMAIN G = K(n - 1) /\ \A k \in K(n - 1) : G[k] = f[k]
    BY <2>3
  <2>5. Entered(G, L[n].key, L[n].val)
          = [k \in K(n) |-> IF k = L[n].key THEN L[n].val ELSE G[k]]
    BY <2>2, <2>4 DEF Entered
  <2>7. F(n) = [k \in K(n) |-> f[k]]
    OBVIOUS
  <2> HIDE DEF K, F
  <2>6. \A k \in K(n) : f[k] = IF k = L[n].key THEN L[n].val ELSE G[k]
    BY <1>4, <2>2, <2>4
  <2>8. [k \in K(n) |-> f[k]] = [k \in K(n) |-> IF k = L[n].key THEN L[n].val ELSE G[k]]
    BY <2>6
  <2> QED BY <2>3, <2>5, <2>7, <2>8, Zenon
<1>8. F(0) = [k \in {} |-> UNDEF]
  <2>1. K(0) = {}
    OBVIOUS
  <2> HIDE DEF K
  <2> QED BY <2>1
<1> HIDE DEF K, F
<1>9. ASSUME NEW n \in 1 .. N, NEW E, Maps(E, F(n - 1)) PROVE Maps(turn(n, E), F(n))
  <2>1. PICK k \in Names : k = L[n].key /\ f[k] \in EntryValues /\ (Len(k) = 1 => f[k] = UNDEF)
    BY <1>4, <1>6
  <2>2. L[n].val = f[k]
    BY <1>4, <2>1
  <2>3. Maps(DictSet(E, k, f[k]), Entered(F(n - 1), k, f[k]))
    BY <1>9, <2>1, SetIs
  <2> QED BY <1>7, <2>1, <2>2, <2>3
<1> HIDE DEF turn
<1>10. \A n, E : Maps(E, F(n)) => E \in Dicts
  BY DEF Maps
<1>11. \A n \in 0 .. N : \A E : E \in P[n] <=> E \in Dicts /\ Maps(E, F(n))
  OBVIOUS
<1>12. DictNew \in Dicts /\ DictNew \in P[0]
  <2>1. 0 \in 0 .. N
    OBVIOUS
  <2> HIDE DEF P
  <2> QED BY <1>8, <1>11, <2>1, DictNewIs
<1>13. \A n \in 1 .. N : n - 1 \in 0 .. N /\ n \in 0 .. N /\ n # 0
  OBVIOUS
<1>14. t \in [1 .. N -> [Dicts -> Dicts]]
       /\ \A n \in 1 .. N : \A E \in Dicts : t[n][E] = IF Maps(E, F(n - 1)) THEN turn(n, E) ELSE E
  BY <1>9, <1>10
<1>15. P \in [0 .. N -> SUBSET Dicts]
  OBVIOUS
<1> HIDE DEF P, t
<1>16. ASSUME NEW n \in 1 .. N, NEW E \in P[n - 1]
       PROVE  E \in Dicts /\ Maps(E, F(n - 1)) /\ turn(n, E) \in P[n]
  <2>1. E \in Dicts /\ Maps(E, F(n - 1))
    BY <1>11, <1>13
  <2>2. turn(n, E) \in Dicts /\ Maps(turn(n, E), F(n))
    BY <1>9, <1>10, <2>1
  <2> QED BY <1>11, <1>13, <2>1, <2>2
<1>17. \E g : Is(g)
  <2>1. PICK g : TurnsOf(Dicts, DictNew, t, N, g) /\ \A n \in 0 .. N : g[n] \in P[n]
    <3>1. \A n \in 1 .. N : \A E \in P[n - 1] : t[n][E] \in P[n]
      BY <1>14, <1>16
    <3>2. t \in [1 .. N -> [Dicts -> Dicts]]
      BY <1>14
    <3> HIDE DEF Is
    <3> QED BY <1>12, <1>15, <3>1, <3>2, TurnsExist
  <2>2. \A n \in 0 .. N : n = 0 \/ n \in 1 .. N
    OBVIOUS
  <2>3. \A n \in 0 .. N : g[n] = IF n = 0 THEN DictNew ELSE t[n][g[n - 1]]
    BY <2>1 DEF TurnsOf
  <2>4. \A n \in 1 .. N : t[n][g[n - 1]] = turn(n, g[n - 1])
    BY <1>13, <1>14, <1>16, <2>1
  <2>5. \A n \in 0 .. N : g[n] = IF n = 0 THEN DictNew ELSE turn(n, g[n - 1])
    BY <2>2, <2>3, <2>4
  <2>6. g = [n \in 0 .. N |-> g[n]]
    BY <2>1 DEF TurnsOf
  <2> QED BY <2>5, <2>6
<1>18. PICK g : g = (CHOOSE x : Is(x)) /\ Is(g)
  <2> HIDE DEF Is
  <2> QED BY <1>17, Zenon
<1>19. \A n \in 0 .. N : g[n] \in P[n]
  <2>0. \A n \in 0 .. N : g[n] = IF n = 0 THEN DictNew ELSE turn(n, g[n - 1])
    BY <1>18, Zenon
  <2>1. g[0] = DictNew
    <3>1. 0 \in 0 .. N
      OBVIOUS
    <3> QED BY <2>0, <3>1, Zenon
  <2>2. \A n \in 1 .. N : g[n] = turn(n, g[n - 1])
    BY <1>13, <2>0, Zenon
  <2> QED BY <1>12, <1>16, <2>1, <2>2, TurnsHold
<1>20. Reload(D) = g[N]
  <2>1. Reload(D) = (CHOOSE x : Is(x))[N]
    BY <1>1, <1>2 DEF Reload, turn
  <2> QED BY <1>18, <2>1, Zenon
<1>21. Maps(g[N], F(N))
  <2>1. N \in 0 .. N
    OBVIOUS
  <2> QED BY <1>11, <1>19, <2>1, Zenon
<1>22. F(N) = [k \in Saved(f) |-> f[k]]
  BY <1>5, Zenon DEF F
<1> QED BY <1>20, <1>21, <1>22

-----------------------------------------------------------------------------
(* The dictionary maps the entries meant, in every phase: what gives up    *)
(* leaves both as they were.                                               *)
ConfigInv ==
  /\ Maps(dict, meant)
  /\ section \in Sections \cup {NoName} /\ joined \in IniKeys \cup {NoName}

LEMMA ConfigInitInv == ConfigInit => ConfigInv
BY DictNewIs DEF ConfigInit, ConfigInv

LEMMA StoresKept ==
  ASSUME ConfigInv, NEW k \in Names, NEW v \in EntryValues, Len(k) = 1 => v = UNDEF,
         Stores(k, v), joined = NoName \/ joined \in IniKeys
  PROVE  Maps(dict', meant') /\ joined' \in IniKeys \cup {NoName}
<1>1. CASE dict' = DictSet(dict, k, v) /\ meant' = Entered(meant, k, v) /\ joined' = NoName
  BY <1>1, SetIs DEF ConfigInv
<1>2. CASE UNCHANGED <<dict, meant, joined>>
  BY <1>2 DEF ConfigInv
<1> QED BY <1>1, <1>2 DEF Stores

LEMMA ConfigInvKept == ConfigInv /\ [ConfigNext]_configVars => ConfigInv'
<1> SUFFICES ASSUME ConfigInv, [ConfigNext]_configVars PROVE ConfigInv'
  OBVIOUS
<1>0. /\ Maps(dict, meant) /\ section \in Sections \cup {NoName}
      /\ joined \in IniKeys \cup {NoName}
  BY DEF ConfigInv
<1>1. ASSUME NEW s \in Sections \cup {NoName}, SectionLine(s) PROVE ConfigInv'
  <2>1. section' \in Sections
    BY <1>0, <1>1 DEF SectionLine
  <2>2. <<section'>> \in Names /\ UNDEF \in EntryValues
    BY <2>1, NamesAre DEF EntryValues
  <2>3. Stores(<<section'>>, UNDEF)
    BY <1>1 DEF SectionLine
  <2>4. Maps(dict', meant') /\ joined' \in IniKeys \cup {NoName}
    BY <1>0, <2>2, <2>3, StoresKept
  <2> QED BY <2>1, <2>4 DEF ConfigInv
<1>2. ASSUME NEW k \in IniKeys, JoinedLine(k) PROVE ConfigInv'
  BY <1>0, <1>2 DEF JoinedLine, ConfigInv
<1>3. ASSUME NEW k \in IniKeys, NEW v \in IniValues,
             Stores(<<section, k>>, v), section' = section
      PROVE  ConfigInv'
  <2>1. <<section, k>> \in Names /\ v \in EntryValues /\ Len(<<section, k>>) # 1
    BY <1>0, NamesAre DEF EntryValues
  <2>2. Maps(dict', meant') /\ joined' \in IniKeys \cup {NoName}
    BY <1>0, <1>3, <2>1, StoresKept
  <2> QED BY <1>0, <1>3, <2>2 DEF ConfigInv
<1>4. ASSUME NEW k \in IniKeys, NEW v \in IniValues, ValueLine(k, v) PROVE ConfigInv'
  BY <1>3, <1>4 DEF ValueLine
<1>5. ASSUME NEW v \in IniValues, NextPart(v) PROVE ConfigInv'
  <2>1. joined \in IniKeys
    BY <1>0, <1>5 DEF NextPart
  <2> QED BY <1>3, <1>5, <2>1 DEF NextPart
<1>6. CASE ErrorLine \/ BlankLine \/ LongLine
  BY <1>0, <1>6 DEF ErrorLine, BlankLine, LongLine, ConfigInv
<1>7. CASE EndOfFile
  BY <1>0, <1>7 DEF EndOfFile, ConfigInv
<1>8. ASSUME NEW k \in Names, IniUnset(k) PROVE ConfigInv'
  <2>1. Maps(dict', meant')
    BY <1>0, <1>8, UnsetIs DEF IniUnset
  <2> QED BY <1>0, <1>8, <2>1 DEF IniUnset, ConfigInv
<1>9. ASSUME NEW k \in Names, IniGet(k) PROVE ConfigInv'
  BY <1>0, <1>9 DEF IniGet, ConfigInv
<1>10. ASSUME NEW k \in Names, NEW v \in IF Len(k) = 1 THEN {UNDEF} ELSE IniValues, IniSet(k, v)
       PROVE  ConfigInv'
  <2>1. v \in EntryValues /\ (Len(k) = 1 => v = UNDEF)
    BY DEF EntryValues
  <2>2. Maps(dict', meant')
    BY <1>0, <1>10, <2>1, SetIs DEF IniSet
  <2> QED BY <1>0, <1>10, <2>2 DEF IniSet, ConfigInv
<1>11. CASE IniFree
  BY <1>0, <1>11, DictNewIs DEF IniFree, ConfigInv
<1>12. CASE UNCHANGED configVars
  BY <1>0, <1>12 DEF configVars, ConfigInv
<1> QED BY <1>1, <1>2, <1>4, <1>5, <1>6, <1>7, <1>8, <1>9, <1>10, <1>11, <1>12 DEF ConfigNext

LEMMA EntriesKeptHolds == ConfigInv => EntriesKept
<1> SUFFICES ASSUME ConfigInv PROVE EntriesKept
  OBVIOUS
<1>1. Maps(dict, meant)
  BY DEF ConfigInv
<1>2. dict.n = Cardinality(DOMAIN meant)
  BY <1>1 DEF Maps
<1>3. {x.key : x \in ToSet(dict.slot)} \ {NoKey} = DOMAIN meant
  <2>1. ToSet(dict.slot) = {dict.slot[i] : i \in 1 .. Len(dict.slot)}
    <3>1. DOMAIN dict.slot = 1 .. Len(dict.slot)
      BY <1>1, SlotsAre DEF Maps
    <3> QED BY <3>1, Zenon DEF ToSet
  <2>2. \A k \in DOMAIN meant : k # NoKey
    BY <1>1, NamesAre DEF Maps, Entries
  <2>3. \A i \in 1 .. Len(dict.slot) : dict.slot[i].key # NoKey => dict.slot[i].key \in DOMAIN meant
    BY <1>1 DEF Maps
  <2>4. \A k \in DOMAIN meant : \E i \in 1 .. Len(dict.slot) : dict.slot[i].key = k
    BY <1>1 DEF Maps
  <2> QED BY <2>1, <2>2, <2>3, <2>4
<1>4. \A k \in DOMAIN meant : DictGet(dict, k) = meant[k]
  BY <1>1, FindIs DEF Maps, Entries
<1>5. \A s \in Sections :
        SecNKeys(dict, s) = IF <<s>> \in DOMAIN meant
                              THEN Cardinality({k \in IniKeys : <<s, k>> \in DOMAIN meant}) ELSE 0
  BY <1>1, NKeysIs
<1> QED BY <1>2, <1>3, <1>4, <1>5 DEF EntriesKept

LEMMA SavedIsLoadedHolds == ConfigInv => SavedIsLoaded
<1> SUFFICES ASSUME ConfigInv, NEW k \in Names
             PROVE  DictGet(Reload(dict), k) =
                      IF k \in DOMAIN meant /\ <<k[1]>> \in DOMAIN meant THEN meant[k] ELSE NoName
  BY DEF SavedIsLoaded
<1>1. PICK E : E = Reload(dict)
  OBVIOUS
<1>2. PICK f : f = [l \in Saved(meant) |-> meant[l]]
  OBVIOUS
<1>3. Maps(E, f)
  BY <1>1, <1>2, ReloadIs DEF ConfigInv
<1>4. DictGet(E, k) = IF k \in DOMAIN f THEN f[k] ELSE NoName
  BY <1>3, FindIs
<1>5. DOMAIN f = Saved(meant) /\ \A l \in Saved(meant) : f[l] = meant[l]
  BY <1>2
<1>6. k \in Saved(meant) <=> k \in DOMAIN meant /\ <<k[1]>> \in DOMAIN meant
  BY DEF Saved
<1> QED BY <1>1, <1>4, <1>5, <1>6, Zenon

(* The dictionary is the file's and the program's after it: each entry in  *)
(* one slot under the last value given to it, counted, found, and listed   *)
(* in its section, through growth, removal and the reuse of slots; and it  *)
(* survives being saved and loaded, but for the keys that have no section, *)
(* for any sections, keys, values and length of the file                   *)
(* (etc_iniparser.c:206-730, etc_dict.c:118-324).                          *)
THEOREM DictionaryIsFileHolds == ConfigSpec => []DictionaryIsFile
<1>1. ConfigInv => DictionaryIsFile
  BY EntriesKeptHolds, SavedIsLoadedHolds DEF DictionaryIsFile
<1> QED BY <1>1, ConfigInitInv, ConfigInvKept, PTL DEF ConfigSpec
=============================================================================

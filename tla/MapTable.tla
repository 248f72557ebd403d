------------------------------ MODULE MapTable ------------------------------
(***************************************************************************)
(* The slots of a dmap_table_t and the three searches of src/dmap/dmap.c   *)
(* over them, as operators on a function from slots to items.  A row holds *)
(* one item; a slot whose row pointer is NULL holds NoItem.                *)
(***************************************************************************)
EXTENDS Integers

CONSTANTS
  MapSize,       (* table->size                                            *)
  NoItem         (* a slot with no row, or the NULL a look-up returns      *)

ASSUME MapSizeAssumption == MapSize \in Nat \ {0}

Slots == 0 .. (MapSize - 1)

(* _dmap_table_init: every row pointer is NULL.                            *)
EmptyTable == [i \in Slots |-> NoItem]

(* The index at which a "for" over the slots stops: the first of S, or     *)
(* table->size when there is none.                                         *)
First(S) == IF S = {} THEN MapSize ELSE CHOOSE i \in S : \A j \in S : i <= j

(* _dmap_itr_table from the given index: the index of the row it returns,  *)
(* MapSize standing for BOOL_FALSE.                                        *)
ItrTable(table, from) == First({i \in Slots : from <= i /\ table[i] # NoItem})

(* _dmap_add_row: the slot it stores into, MapSize when the table is full. *)
AddRow(table) == First({i \in Slots : table[i] = NoItem})

(* _dmap_rem_item: its loop goes on while the row holds the item, and so   *)
(* ends at the first row that holds ANOTHER one.                           *)
RemItemIndex(table, item) ==
  First({i \in Slots : table[i] # NoItem /\ table[i] # item})

(* _dmap_get_item: NULL outside of the borders and at a slot with no row.  *)
GetItem(table, i) == IF i \in Slots THEN table[i] ELSE NoItem
=============================================================================

-------------------------------- MODULE Lists --------------------------------
(***************************************************************************)
(* The linked lists of src/lib/lib_funcs.c with their makers and dtors:    *)
(* slist (next only), dlist and datchain (next and prev).  A caller builds *)
(* one list; nodes are numbers, 0 is the null pointer.  The model goes no  *)
(* further once a pointer that is no node is in the list.                  *)
(***************************************************************************)
EXTENDS Integers, Sequences, SequencesExt, FiniteSets

CONSTANTS
  ListItems,  (* the items                                                 *)
  ListMax     (* a bound on the length of the list                         *)

ASSUME ListAssumption == ListMax \in Nat \ {0}

Nodes   == 1 .. 2 * ListMax
NoList  == 0
Unused  == [item |-> 0, next |-> NoList, prev |-> NoList]
Kinds   == {"slist", "dlist", "datchain"}

VARIABLES
  kind,    (* which of the three the caller uses                           *)
  first,   (* the pointer the caller keeps                                 *)
  cells,   (* cells[n]: the n-th node; Unused when it is free memory       *)
  owned,   (* the nodes that are allocated                                 *)
  series,  (* the items a list would hold                                  *)
  torn     (* what put a pointer that is no node into the list, "" before  *)

listVars == <<kind, first, cells, owned, series, torn>>

ListInit ==
  /\ kind \in Kinds
  /\ first = NoList
  /\ cells = [n \in Nodes |-> Unused] /\ owned = {}
  /\ series = <<>>
  /\ torn = ""

New     == CHOOSE n \in Nodes : n \notin owned
Back(n) == IF kind = "slist" THEN NoList ELSE n
Whole   == torn = ""

(* The tail the loops of the appends end at.                               *)
TailFrom[n \in Nodes] ==
  IF cells[n].next = NoList THEN n ELSE TailFrom[cells[n].next]

(* make_slist, make_dlist, make_datchain.                                  *)
Made(x) == [item |-> x, next |-> NoList, prev |-> NoList]

(* Mutant: the old head does not point back.                               *)
PrependOneWay(x) ==
  /\ Whole /\ Len(series) < ListMax
  /\ first' = New /\ owned' = owned \cup {New}
  /\ cells' = [cells EXCEPT ![New] = [Made(x) EXCEPT !.next = first]]
  /\ series' = <<x>> \o series
  /\ UNCHANGED <<kind, torn>>

(* slist_prepend, dlist_prepend, datchain_prepend.                         *)
Prepend(x) ==
  /\ Whole /\ Len(series) < ListMax
  /\ first' = New /\ owned' = owned \cup {New}
  /\ cells' = [n \in Nodes |->
                IF n = New THEN [Made(x) EXCEPT !.next = first]
                ELSE IF n = first THEN [cells[n] EXCEPT !.prev = Back(New)]
                ELSE cells[n]]
  /\ series' = <<x>> \o series
  /\ UNCHANGED <<kind, torn>>

(* slist_append, dlist_append, and datchain_append of the first node; to   *)
(* an existing chain that one links the ITEM as if it were a node, and the *)
(* node it made is lost.                                                   *)
AppendItem(x) ==
  /\ Whole /\ Len(series) < ListMax
  /\ owned' = owned \cup {New}
  /\ IF first = NoList
       THEN /\ first' = New
            /\ cells' = [cells EXCEPT ![New] = Made(x)]
            /\ series' = <<x>> /\ UNCHANGED torn
     ELSE IF kind = "datchain"
       THEN /\ torn' = "append"
            /\ UNCHANGED <<first, cells, series>>
     ELSE LET tail == TailFrom[first] IN
          /\ cells' = [cells EXCEPT ![New] = [Made(x) EXCEPT !.prev = Back(tail)],
                                    ![tail].next = New]
          /\ series' = Append(series, x)
          /\ UNCHANGED <<first, torn>>
  /\ UNCHANGED kind

(* slist_cpy, node by node, and the list it copies disposed of.  The head  *)
(* of the copy is not initialised: when it happens to be NULL the copy is  *)
(* one, else slist_append follows whatever it holds.                       *)
Twin(n) == IF n = NoList THEN NoList ELSE IF n > ListMax THEN n - ListMax ELSE n + ListMax
Cpy ==
  /\ Whole /\ kind = "slist" /\ first # NoList
  /\ \/ /\ first' = Twin(first)
        /\ owned' = {Twin(n) : n \in owned}
        /\ cells' = [m \in Nodes |-> [cells[Twin(m)] EXCEPT !.next = Twin(@)]]
        /\ UNCHANGED torn
     \/ torn' = "cpy" /\ UNCHANGED <<first, owned, cells>>
  /\ UNCHANGED <<kind, series>>

(* slist_dtor and datchain_dtor; a dlist has none.                         *)
ListDtor ==
  /\ Whole /\ kind # "dlist" /\ first # NoList
  /\ first' = NoList /\ owned' = {} /\ series' = <<>>
  /\ cells' = [n \in Nodes |-> Unused]
  /\ UNCHANGED <<kind, torn>>

ListNext == \/ \E x \in ListItems : Prepend(x) \/ AppendItem(x)
            \/ Cpy \/ ListDtor

ListSpec == ListInit /\ [][ListNext]_listVars

-----------------------------------------------------------------------------
(* The i-th node from the one the caller keeps.                            *)
Nth[i \in 1 .. ListMax] == IF i = 1 THEN first ELSE cells[Nth[i - 1]].next

(* The list is the sequence its calls make: its items in order along next, *)
(* back along prev where there is one, NULL at the ends, and no node that  *)
(* the list does not have (lib_funcs.c:43-159).                            *)
ListIsSeries ==
  Whole =>
    LET L == Len(series) IN
      /\ Cardinality(owned) = L
      /\ L = 0 => first = NoList
      /\ \A i \in 1 .. L : /\ Nth[i] \in owned /\ cells[Nth[i]].item = series[i]
                           /\ cells[Nth[i]].prev = IF i = 1 THEN NoList ELSE Back(Nth[i - 1])
      /\ L > 0 => cells[Nth[L]].next = NoList
=============================================================================

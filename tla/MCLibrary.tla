----------------------------- MODULE MCLibrary -----------------------------
(***************************************************************************)
(* The parts of the library that have safety properties only, for TLC: the *)
(* sequential ones, the data map, and the signal with many threads.  One   *)
(* of them is used, the others stay as they were made.  They share no      *)
(* state, so the states are those of each of them, added up.               *)
(***************************************************************************)
EXTENDS MCSignalPuffer, DataMap, SlidingWindow, Queue, Vector, Heap, Lists, MDataPuffer, Config,
        Options

VARIABLE used

Parts == {"signal", "dmap", "bintree", "window", "queue", "vector", "heap", "list", "ring",
          "config", "options"}

(* The command lines: the program's own table, one with numbers and files  *)
(* as operands, and one with the other kinds of entries.                   *)
Text(digits, suffix) ==
  [sign |-> 1, prefix |-> "none", digits |-> digits, suffix |-> suffix, fits |-> {}]
Hex     == [sign |-> -1, prefix |-> "X", digits |-> 8, suffix |-> "kb_space", fits |-> {}]
BareHex == [sign |-> 1, prefix |-> "X", digits |-> -1, suffix |-> "none", fits |-> {}]
Stamp   == [sign |-> 1, prefix |-> "none", digits |-> 3, suffix |-> "other",
            fits |-> {"date", "rex"}]
Word(text)        == [type |-> "word", text |-> text]
Long(name, text)  == [type |-> "long", name |-> name, text |-> text]
Short(name, text) == [type |-> "short", name |-> name, text |-> text]
Dashes            == [type |-> "stop"]

FilesTable == <<arg_intn({}, {}, 0, 2), Optional(arg_intn({"n"}, {"num"}, 0, 2)),
                arg_filen({}, {}, 1, 2), arg_end(2)>>
StampTable == <<arg_dbln({"d"}, {"dbl"}, 0, 1), arg_rex1({}, {}), arg_rem,
                arg_date0({"a"}, {"at"}), arg_strn({"o"}, {}, 1, 0), arg_end(3)>>
Tables == {MainTable(2), FilesTable, StampTable}
Tokens(table) ==
  IF table = FilesTable
  THEN {Word(Text(9, "KB")), Word(Hex), Word(BareHex), Short("n", NoText),
        Long("num", NoText), Long("num", Text(2, "GB")), Dashes}
  ELSE IF table = StampTable
  THEN {Word(Stamp), Word(Text(4, "none")), Short("d", NoText), Short("o", Stamp),
        Long("at", Stamp), Long("dbl", Text(-1, "none")), Short("a", Text(4, "none"))}
  ELSE {Short("h", NoText), Long("help", NoText), Long("help", Text(1, "none")),
        Short("t", NoText), Long("time", NoText), Long("time", Text(7, "KB")),
        Long("time", Text(-1, "none")), Word(Text(5, "none")), Dashes, Short("x", NoText)}

LibraryInit ==
  /\ used \in Parts
  /\ Init /\ MapInit /\ TreeInit /\ WindowInit /\ QueueInit /\ VectorInit
  /\ HeapInit /\ ListInit /\ RingInit /\ ConfigInit /\ OptInit
  (* What varies in the initial states of one part is one in the rest. *)
  /\ used # "window" => pct.p = 0
  /\ used # "list" => kind = "slist"
  /\ used # "ring" => ring.plus = 0
  /\ used # "options" => argtable = MainTable(2)

Only(part, partVars) == used # part => UNCHANGED partVars

LibraryNext ==
  /\ UNCHANGED used
  /\ \/ used = "signal" /\ Next
     \/ used = "dmap" /\ MapNext
     \/ used = "bintree" /\ TreeNext
     \/ used = "window" /\ WindowNext
     \/ used = "queue" /\ QueueNext
     \/ used = "vector" /\ VectorNext
     \/ used = "heap" /\ HeapNext
     \/ used = "list" /\ ListNext
     \/ used = "ring" /\ RingNext
     \/ used = "config" /\ ConfigNext
     \/ used = "options" /\ OptNext
  /\ Only("signal", vars) /\ Only("dmap", mapVars)
  /\ Only("bintree", treeVars) /\ Only("window", winVars)
  /\ Only("queue", queueVars) /\ Only("vector", vectorVars) /\ Only("heap", heapVars)
  /\ Only("list", listVars) /\ Only("ring", ringVars) /\ Only("config", configVars)
  /\ Only("options", optVars)

LibrarySpec ==
  LibraryInit /\ [][LibraryNext]_<<used, vars, mapVars, treeVars, winVars, queueVars, vectorVars,
                                   heapVars, listVars, ringVars, configVars, optVars>>
=============================================================================

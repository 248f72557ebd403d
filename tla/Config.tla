------------------------------- MODULE Config -------------------------------
(***************************************************************************)
(* The configuration file: iniparser_load of src/etc/etc_iniparser.c, line *)
(* by line, into the dictionary of src/etc/etc_dict.c, and what a program  *)
(* does with the dictionary afterwards.  A line is what iniparser_line     *)
(* makes of it: an empty one or a comment, a section, a value, or neither  *)
(* of them.  A key of the dictionary is <<section>> or <<section, key>>    *)
(* ("section" and "section:key"); comparing hashes before the keys tells   *)
(* no keys apart and is left out.                                          *)
(***************************************************************************)
EXTENDS Integers, Sequences, SequencesExt, FiniteSets

CONSTANTS
  Sections,   (* the names of sections                                     *)
  IniKeys,    (* the names of keys                                         *)
  IniValues,  (* the values                                                *)
  DictMin,    (* DICTMINSZ                                                 *)
  MaxLines    (* a bound on the lines of the file                          *)

NoName == "no name"     (* the empty string                                *)
UNDEF  == "undef"       (* a value that is NULL                            *)

ASSUME ConfigAssumption ==
  /\ NoName \notin Sections \cup IniKeys
  /\ DictMin \in Nat \ {0} /\ MaxLines \in Nat

NoKey  == <<>>          (* key[i] is NULL                                  *)

Names == {<<s>> : s \in Sections} \cup ((Sections \cup {NoName}) \X IniKeys)

VARIABLES
  phase,     (* "loading", "loaded", "failed" (NULL is returned), "freed", *)
             (* "strayed" (the line buffer was left), "crashed"            *)
  dict,      (* the dictionary                                             *)
  lineno,    (* the lines read                                             *)
  section,   (* the section buffer                                         *)
  joined,    (* the key whose value goes on on the next line, or NoName    *)
  errs,      (* errs: a section or value line sets it back to 0            *)
  meant      (* the entries the file and the calls after it have made      *)

configVars == <<phase, dict, lineno, section, joined, errs, meant>>

-----------------------------------------------------------------------------
(* The dictionary: the slots of key and val, and the number n of keys.     *)
DictNew == [n |-> 0, slot |-> [i \in 1 .. DictMin |-> [key |-> NoKey, val |-> UNDEF]]]

DictSize(D)  == Len(D.slot)
Find(D, key) == SelectInSeq(D.slot, LAMBDA s : s.key = key)   (* 0: not found *)

(* dictionary_get, where NoName stands for the default.                    *)
DictGet(D, key) == IF Find(D, key) = 0 THEN NoName ELSE D.slot[Find(D, key)].val

(* mem_double of the three arrays.                                         *)
Doubled(D) ==
  [D EXCEPT !.slot = @ \o [i \in 1 .. DictSize(D) |-> [key |-> NoKey, val |-> UNDEF]]]

NeedsRoom(D, key) == Find(D, key) = 0 /\ D.n = DictSize(D)

(* The first empty slot from the n-th on, around the end.                  *)
EmptySlot(D) ==
  LET at(k) == ((D.n + k) % DictSize(D)) + 1
      d == CHOOSE k \in 0 .. DictSize(D) - 1 :
             /\ D.slot[at(k)].key = NoKey
             /\ \A j \in 0 .. k - 1 : D.slot[at(j)].key # NoKey
  IN  at(d)

(* Mutant: the key goes into the slot of the counter, taken or not.        *)
DictSetAtCount(D, key, val) ==
  IF Find(D, key) # 0 THEN [D EXCEPT !.slot[Find(D, key)].val = val]
  ELSE LET E == IF NeedsRoom(D, key) THEN Doubled(D) ELSE D IN
         [n |-> E.n + 1,
          slot |-> [E.slot EXCEPT ![E.n + 1] = [key |-> key, val |-> val]]]

(* dictionary_set, when there is memory for what it needs.                 *)
DictSet(D, key, val) ==
  IF Find(D, key) # 0 THEN [D EXCEPT !.slot[Find(D, key)].val = val]
  ELSE LET E == IF NeedsRoom(D, key) THEN Doubled(D) ELSE D IN
         [n |-> E.n + 1,
          slot |-> [E.slot EXCEPT ![EmptySlot(E)] = [key |-> key, val |-> val]]]

DictUnset(D, key) ==
  IF Find(D, key) = 0 THEN D
  ELSE [n |-> D.n - 1, slot |-> [D.slot EXCEPT ![Find(D, key)] = [key |-> NoKey, val |-> UNDEF]]]

-----------------------------------------------------------------------------
(* Queries: iniparser_getnsec and _getsecname (the keys without a colon),  *)
(* _find_entry, _getseckeys (as slots) and _getsecnkeys.                   *)
SecNames(D) == {i \in 1 .. DictSize(D) : Len(D.slot[i].key) = 1}
NSec(D) == Cardinality(SecNames(D))
SecName(D, n) == CHOOSE i \in SecNames(D) : Cardinality({j \in SecNames(D) : j < i}) = n
FindEntry(D, key) == DictGet(D, key) # NoName
SecKeys(D, s) ==
  {i \in 1 .. DictSize(D) : Len(D.slot[i].key) = 2 /\ D.slot[i].key[1] = s}
SecNKeys(D, s) == IF FindEntry(D, <<s>>) THEN Cardinality(SecKeys(D, s)) ELSE 0

(* iniparser_dump_ini of a dictionary that has a section, and what         *)
(* iniparser_load makes of it: the sections in the order of their slots,   *)
(* each with its keys in the order of theirs.                              *)
DumpSection(D, s) ==
  LET upto[i \in 0 .. DictSize(D)] ==
        IF i = 0 THEN <<[key |-> <<s>>, val |-> UNDEF]>>
        ELSE IF i \in SecKeys(D, s) THEN Append(upto[i - 1], D.slot[i]) ELSE upto[i - 1]
  IN  upto[DictSize(D)]
DumpIni(D) ==
  LET upto[n \in 0 .. NSec(D)] ==
        IF n = 0 THEN <<>>
        ELSE upto[n - 1] \o DumpSection(D, D.slot[SecName(D, n - 1)].key[1])
  IN  upto[NSec(D)]
Reload(D) ==
  LET lines == DumpIni(D)
      upto[n \in 0 .. Len(lines)] ==
        IF n = 0 THEN DictNew ELSE DictSet(upto[n - 1], lines[n].key, lines[n].val)
  IN  upto[Len(lines)]

-----------------------------------------------------------------------------
ConfigInit ==
  /\ phase = "loading" /\ dict = DictNew
  /\ lineno = 0 /\ section = NoName /\ joined = NoName /\ errs = 0
  /\ meant = [k \in {} |-> UNDEF]

Entered(f, key, val) == [k \in DOMAIN f \cup {key} |-> IF k = key THEN val ELSE f[k]]

ReadsLine == phase = "loading" /\ lineno < MaxLines /\ lineno' = lineno + 1

(* dictionary_set called by the loader: its result is assigned to errs.    *)
(* When the dictionary cannot grow the loader gives up, and dictionary_del *)
(* reads through the arrays that are NULL now (unless only hash is).       *)
Stores(key, val) ==
  \/ /\ dict' = DictSet(dict, key, val)
     /\ meant' = Entered(meant, key, val)
     /\ errs' = 0
     /\ joined' = NoName
     /\ UNCHANGED phase
  \/ /\ NeedsRoom(dict, key)
     /\ phase' \in {"failed", "crashed"}
     /\ errs' = -1
     /\ UNCHANGED <<dict, meant, joined>>

(* "[s]"; "[]" leaves the section buffer as it is.                         *)
SectionLine(s) ==
  /\ ReadsLine /\ joined = NoName
  /\ section' = IF s = NoName THEN section ELSE s
  /\ section' # NoName
  /\ Stores(<<section'>>, UNDEF)

ValueLine(k, v) ==
  /\ ReadsLine /\ joined = NoName
  /\ Stores(<<section, k>>, v)
  /\ UNCHANGED section

(* A value that ends in a backslash, and whatever the next line is.        *)
JoinedLine(k) ==
  /\ ReadsLine /\ joined = NoName
  /\ joined' = k
  /\ UNCHANGED <<phase, dict, section, errs, meant>>

NextPart(v) ==
  /\ ReadsLine /\ joined # NoName
  /\ Stores(<<section, joined>>, v)
  /\ UNCHANGED section

ErrorLine ==
  /\ ReadsLine /\ joined = NoName
  /\ errs' = errs + 1
  /\ UNCHANGED <<phase, dict, section, joined, meant>>

(* A line of blanks only: the character before the buffer is read, and     *)
(* the next line read from there on if it is a backslash.                  *)
BlankLine ==
  /\ ReadsLine /\ joined = NoName
  /\ phase' \in {"loading", "strayed"}
  /\ UNCHANGED <<dict, section, joined, errs, meant>>

(* A line too long for the buffer, or the last one without its newline.    *)
LongLine ==
  /\ ReadsLine
  /\ phase' = "failed"
  /\ UNCHANGED <<dict, section, joined, errs, meant>>

EndOfFile ==
  /\ phase = "loading"
  /\ phase' = IF errs # 0 THEN "failed" ELSE "loaded"
  /\ lineno' = 0 /\ section' = NoName /\ joined' = NoName /\ errs' = 0
  /\ UNCHANGED <<dict, meant>>

(* The program: iniparser_set, a section being set to NULL and a key to a  *)
(* value, which adds a key that is not found, as dictionary_set does;      *)
(* iniparser_unset, iniparser_freedict.                                    *)
IniSet(key, v) ==
  /\ phase = "loaded"
  /\ dict' = DictSet(dict, key, v)
  /\ meant' = Entered(meant, key, v)
  /\ UNCHANGED <<phase, lineno, section, joined, errs>>

IniUnset(key) ==
  /\ phase = "loaded"
  /\ dict' = DictUnset(dict, key)
  /\ meant' = [k \in DOMAIN meant \ {key} |-> meant[k]]
  /\ UNCHANGED <<phase, lineno, section, joined, errs>>

(* iniparser_getint, _getdouble, _getboolean: a value that is NULL is read. *)
IniGet(key) ==
  /\ phase = "loaded"
  /\ FindEntry(dict, key) /\ DictGet(dict, key) = UNDEF
  /\ phase' = "crashed"
  /\ UNCHANGED <<dict, lineno, section, joined, errs, meant>>

IniFree ==
  /\ phase = "loaded"
  /\ phase' = "freed"
  /\ dict' = DictNew /\ meant' = [k \in {} |-> UNDEF]
  /\ UNCHANGED <<lineno, section, joined, errs>>

ConfigNext ==
  \/ \E s \in Sections \cup {NoName} : SectionLine(s)
  \/ \E k \in IniKeys : JoinedLine(k) \/ \E v \in IniValues : ValueLine(k, v)
  \/ \E v \in IniValues : NextPart(v)
  \/ ErrorLine \/ BlankLine \/ LongLine \/ EndOfFile
  \/ \E key \in Names :
       \/ IniUnset(key) \/ IniGet(key)
       \/ \E v \in IF Len(key) = 1 THEN {UNDEF} ELSE IniValues : IniSet(key, v)
  \/ IniFree

ConfigSpec == ConfigInit /\ [][ConfigNext]_configVars

-----------------------------------------------------------------------------
(* The dictionary is the file's, the last value of a key taking effect,    *)
(* through growth, removal and reuse of slots: each entry once, the number *)
(* of keys right, each section with the keys set in it.  iniparser_set,    *)
(* too, adds a key that is not there, as the comment of dictionary_set     *)
(* says (etc_dict.c:205) and its own does not: see SetAddsNothing.         *)
EntriesKept ==
  /\ dict.n = Cardinality(DOMAIN meant)
  /\ {t.key : t \in ToSet(dict.slot)} \ {NoKey} = DOMAIN meant
  /\ \A k \in DOMAIN meant : DictGet(dict, k) = meant[k]
  /\ \A s \in Sections :
       SecNKeys(dict, s) = IF <<s>> \in DOMAIN meant
                             THEN Cardinality({k \in IniKeys : <<s, k>> \in DOMAIN meant}) ELSE 0

(* A dictionary in which every key has its section survives being saved    *)
(* with iniparser_dump_ini and loaded again (etc_iniparser.c:200).         *)
SavedIsLoaded ==
  phase = "loaded" /\ NSec(dict) > 0 =>
    LET E == Reload(dict) IN
      \A k \in Names : DictGet(E, k) = IF k \in DOMAIN meant /\ <<k[1]>> \in DOMAIN meant
                                         THEN meant[k] ELSE NoName

(* Both: what is in the dictionary, and what becomes of it in a file.      *)
DictionaryIsFile == EntriesKept /\ SavedIsLoaded

(* What iniparser_set is said to do and does not: "If it cannot be found,  *)
(* -1 is returned" (etc_iniparser.c:521), so that once the file is loaded  *)
(* no call adds an entry.                                                  *)
SetAddsNothing ==
  [][phase = "loaded" =>
       \A k \in Names : DictGet(dict', k) # NoName => DictGet(dict, k) # NoName]_configVars
=============================================================================

------------------------------ MODULE Options ------------------------------
(***************************************************************************)
(* The command line of the program: main() of src/main.c over the argument *)
(* tables of src/etc/etc_argtable2.c.  A table is a sequence of entries,   *)
(* made by the constructors below, with one made by arg_end at its end.    *)
(*                                                                         *)
(* A text is what an argument says: a sign, the letter X, O or B of a      *)
(* prefix 0X, 0O or 0B, the digits as a number, what follows them ("none": *)
(* nothing), and in "fits" what strptime or regexec make of it.  A token   *)
(* of the command line is a text, an option with its name and the text     *)
(* attached to it, or "--".  Allocations succeed, and options are given    *)
(* one per token.                                                          *)
(***************************************************************************)
EXTENDS Integers, SequencesExt

CONSTANTS
  ArgTables,     (* the tables considered                                  *)
  ArgTokens(_),  (* the tokens a command line for a table is made of       *)
  MaxArgs,       (* bound: tokens in a command line, see Lines             *)
  IntMax,        (* INT_MAX                                                *)
  Kilo,          (* 1024; its square and its cube are the MB and the GB    *)
  NoText         (* NULL where a text is meant, and a value not yet stored *)

ASSUME IntAssumption == /\ IntMax \in Nat /\ Kilo \in Nat \ {0, 1}
                        /\ (IntMax + 1) % (Kilo * Kilo * Kilo) = 0

IntMin == -IntMax - 1

(* An entry as the constructors make it.                                   *)
ArgEntry ==
  [kind   : {"lit", "int", "dbl", "str", "file", "date", "rex", "rem", "end"},
   flags  : SUBSET {"TERMINATOR", "HASVALUE", "HASOPTVALUE"},
   shorts : SUBSET STRING, longs : SUBSET STRING, min : Nat, max : Nat]

(* The flags are those of the constructors, but for Optional below, and no *)
(* two entries share a name.                                               *)
ASSUME TableAssumption ==
  \A table \in ArgTables :
    /\ table \in Seq(ArgEntry) /\ table # <<>>
    /\ \A i \in 1 .. Len(table) :
         /\ table[i].kind = "end" <=> i = Len(table)
         /\ table[i].kind = "end" => table[i].max # 0
         /\ table[i].kind \in {"rem", "end"} => table[i].shorts \cup table[i].longs = {}
         /\ table[i].kind = "lit" => table[i].flags = {}
         /\ table[i].kind \notin {"lit", "rem", "end"} =>
              table[i].flags \in {{"HASVALUE"}, {"HASVALUE", "HASOPTVALUE"}}
         /\ \A j \in 1 .. Len(table) : j # i =>
              /\ table[i].shorts \cap table[j].shorts = {}
              /\ table[i].longs \cap table[j].longs = {}

Texts == [sign : {1, -1}, prefix : {"none", "X", "O", "B"}, digits : Nat \cup {-1},
          suffix : {"none", "space", "KB", "kb_space", "MB", "GB", "other"},
          fits : SUBSET {"date", "rex"}]
ArgToken == [type : {"word"}, text : Texts] \cup [type : {"stop"}]
            \cup [type : {"long", "short"}, name : STRING, text : Texts \cup {NoText}]

ASSUME TokenAssumption ==
  /\ MaxArgs \in Nat /\ NoText \notin Texts
  /\ \A table \in ArgTables : ArgTokens(table) \subseteq ArgToken

-----------------------------------------------------------------------------
(* The constructors.  0 or more short and long names; none of either makes *)
(* an untagged entry.                                                      *)
ArgHdr(kind, flags, shorts, longs, min, max) ==
  [kind |-> kind, flags |-> flags, shorts |-> shorts, longs |-> longs,
   min |-> min, max |-> IF max < min THEN min ELSE max]

arg_litn(shorts, longs, min, max)  == ArgHdr("lit", {}, shorts, longs, min, max)
arg_intn(shorts, longs, min, max)  == ArgHdr("int", {"HASVALUE"}, shorts, longs, min, max)
arg_dbln(shorts, longs, min, max)  == ArgHdr("dbl", {"HASVALUE"}, shorts, longs, min, max)
arg_strn(shorts, longs, min, max)  == ArgHdr("str", {"HASVALUE"}, shorts, longs, min, max)
arg_filen(shorts, longs, min, max) == ArgHdr("file", {"HASVALUE"}, shorts, longs, min, max)
arg_daten(shorts, longs, min, max) == ArgHdr("date", {"HASVALUE"}, shorts, longs, min, max)
arg_rexn(shorts, longs, min, max)  == ArgHdr("rex", {"HASVALUE"}, shorts, longs, min, max)
arg_rem     == ArgHdr("rem", {}, {}, {}, 1, 1)
arg_end(max) == ArgHdr("end", {"TERMINATOR"}, {}, {}, 1, max)

arg_lit0(shorts, longs)  == arg_litn(shorts, longs, 0, 1)
arg_int0(shorts, longs)  == arg_intn(shorts, longs, 0, 1)
arg_date0(shorts, longs) == arg_daten(shorts, longs, 0, 1)
arg_file1(shorts, longs) == arg_filen(shorts, longs, 1, 1)
arg_rex1(shorts, longs)  == arg_rexn(shorts, longs, 1, 1)

(* An application may let the value of an option be left out.              *)
Optional(entry) == [entry EXCEPT !.flags = @ \cup {"HASOPTVALUE"}]

(* main's table; the program leaves room for 20 errors.                    *)
MainTable(errors) == <<arg_lit0({"h"}, {"help"}), arg_int0({"t"}, {"time"}), arg_end(errors)>>

-----------------------------------------------------------------------------
VARIABLES
  argtable,     (* the table                                               *)
  argv,         (* argv[1 ..], as the caller gave it                       *)
  stage,        (* "idle", then per call of arg_parse "tagged",            *)
                (* "untagged", "check", "parsed"                           *)
  optind,       (* the token getopt_long comes to next                     *)
  words,        (* the texts it has moved behind all options               *)
  tabindex,     (* where the untagged parse and the check are              *)
  tentative,    (* errorlast and parentlast, or NoError                    *)
  args,         (* args[i]: count and values of entry i, and whether the   *)
                (* program of its regular expression is compiled           *)
  errors,       (* error[] and parent[] of the end entry                   *)
  found,        (* all the errors the last call met, not only those kept   *)
  parses        (* bound: the calls of arg_parse so far                    *)

optVars == <<argtable, argv, stage, optind, words, tabindex, tentative, args,
             errors, found, parses>>

Error(parent, code) == [parent |-> parent, code |-> code]
NoError == Error(0, "none")
EndIndex == Len(argtable)

Tagged(e) == e.shorts \cup e.longs # {}
Scans(e)  == e.kind \notin {"rem", "end"}

(* Mutant: a reset forgets the regular expressions.                        *)
ResetFnStale(s, e) == [s EXCEPT !.count = 0]

(* The resetfn of an entry: its values stay, its count does not.           *)
ResetFn(s, e) == [s EXCEPT !.count = 0,
                           !.compiled = IF e.kind = "rex" THEN 1 ELSE 0]

OptInit ==
  /\ argtable \in ArgTables
  /\ argv = <<>> /\ stage = "idle"
  /\ optind = 1 /\ words = <<>> /\ tabindex = 1
  /\ tentative = NoError
  /\ args = [i \in 1 .. EndIndex |->
               [count |-> 0, compiled |-> 0, vals |-> [j \in 1 .. argtable[i].max |-> NoText]]]
  /\ errors = <<>> /\ found = <<>>
  /\ parses = 0

(* arg_register_error; the last place is overwritten when there are more.  *)
Registered(kept, error) ==
  LET max == argtable[EndIndex].max IN
  IF Len(kept) < max THEN Append(kept, error)
  ELSE [kept EXCEPT ![max] = Error(EndIndex, "ELIMIT")]

(* One call after the other.                                               *)
Registers(news) ==
  /\ LET kept[k \in 0 .. Len(news)] ==
           IF k = 0 THEN errors ELSE Registered(kept[k - 1], news[k])
     IN errors' = kept[Len(news)]
  /\ found' = found \o news

-----------------------------------------------------------------------------
(* The numbers: strtol0X_int after one prefix, strtol without any.  A      *)
(* conversion that fails yields no number.  A number beyond a long is      *)
(* clipped by strtol, and is out of the range of an int either way.        *)
strtol0X(t, x) == IF t.prefix = x /\ t.digits >= 0 THEN {t.sign * t.digits} ELSE {}
strtol(t)      == IF t.prefix # "none" THEN {0}
                  ELSE IF t.digits >= 0 THEN {t.sign * t.digits} ELSE {}

(* What is left of the text: of "0X" without digits, the X.                *)
Rest(t) == IF t.prefix # "none" /\ t.digits < 0 THEN "other" ELSE t.suffix

(* The number of the first conversion that succeeds.                       *)
Conversions(t) == <<strtol0X(t, "X"), strtol0X(t, "O"), strtol0X(t, "B"), strtol(t)>>
LongOf(t) == LET ok == {k \in 1 .. 4 : Conversions(t)[k] # {}} IN
             IF ok = {} THEN {} ELSE Conversions(t)[Min(ok)]

(* detectsuffix_int: no regard to case, spaces after the suffix.           *)
Spellings == [KB |-> {"KB", "kb_space"}, MB |-> {"MB"}, GB |-> {"GB"}]
detectsuffix(rest) == {s \in DOMAIN Spellings : rest \in Spellings[s]}
Factor(rest) == IF rest \in Spellings.KB THEN Kilo
                ELSE IF rest \in Spellings.MB THEN Kilo * Kilo
                ELSE IF rest \in Spellings.GB THEN Kilo * Kilo * Kilo ELSE 1

(* The error code and the number of scanfn_int.                            *)
IntCode(t) ==
  IF LongOf(t) = {} THEN "EBADINT"
  ELSE LET val == CHOOSE v \in LongOf(t) : TRUE
           f   == Factor(Rest(t)) IN
       IF detectsuffix(Rest(t)) = {} /\ Rest(t) \notin {"none", "space"} THEN "EBADINT"
       ELSE IF val > IntMax \div f \/ val < IntMin \div f THEN "EOVERFLOW"
       ELSE "ok"
IntOf(t) == (CHOOSE v \in LongOf(t) : TRUE) * Factor(Rest(t))

(* strtod takes the number and leaves the rest; of an empty text there is  *)
(* no rest, and the number is 0.                                           *)
DblCode(t) == IF t.suffix = "none" /\ t.prefix \notin {"O", "B"}
                 /\ (t.prefix = "none" \/ t.digits >= 0)
              THEN "ok" ELSE "EBADDOUBLE"
DblOf(t) == IF t.digits < 0 THEN 0 ELSE t.sign * t.digits

-----------------------------------------------------------------------------
(* The scanfns: a code, and the entry's state after it.                    *)
Excess(s)        == [code |-> "EMAXCOUNT", s |-> s]
Refused(s, code) == [code |-> code, s |-> s]
Unvalued(s)      == [code |-> "ok", s |-> [s EXCEPT !.count = @ + 1]]
Took(s, v)       == [code |-> "ok", s |-> [s EXCEPT !.count = @ + 1, !.vals[s.count + 1] = v]]

(* Mutant: one more than maxcount is taken.                                *)
scanfn_litLate(e, s) == IF s.count <= e.max THEN Unvalued(s) ELSE Excess(s)

scanfn_lit(e, s) == IF s.count < e.max THEN Unvalued(s) ELSE Excess(s)

scanfn_int(e, s, t) ==
  IF s.count = e.max THEN Excess(s)
  ELSE IF t = NoText THEN Unvalued(s)
  ELSE IF IntCode(t) # "ok" THEN Refused(s, IntCode(t)) ELSE Took(s, IntOf(t))

scanfn_double(e, s, t) ==
  IF s.count = e.max THEN Excess(s)
  ELSE IF t = NoText THEN Unvalued(s)
  ELSE IF DblCode(t) # "ok" THEN Refused(s, DblCode(t)) ELSE Took(s, DblOf(t))

scanfn_str(e, s, t) ==
  IF s.count = e.max THEN Excess(s)
  ELSE IF t = NoText THEN Unvalued(s) ELSE Took(s, t)

scanfn_file(e, s, t) ==
  IF s.count = e.max THEN Excess(s)
  ELSE IF t = NoText THEN Unvalued(s) ELSE Took(s, t)

scanfn_date(e, s, t) ==
  IF s.count = e.max THEN Excess(s)
  ELSE IF t = NoText THEN Unvalued(s)
  ELSE IF "date" \notin t.fits THEN Refused(s, "EBADDATE") ELSE Took(s, t)

scanfn_rex(e, s, t) ==
  IF s.count = e.max THEN Excess(s)
  ELSE IF t = NoText THEN Unvalued(s)
  ELSE IF "rex" \notin t.fits THEN Refused(s, "REG_NOMATCH") ELSE Took(s, t)

Scan(i, t) ==
  LET e == argtable[i]  s == args[i] IN
  CASE e.kind = "lit"  -> scanfn_lit(e, s)
    [] e.kind = "int"  -> scanfn_int(e, s, t)
    [] e.kind = "dbl"  -> scanfn_double(e, s, t)
    [] e.kind = "str"  -> scanfn_str(e, s, t)
    [] e.kind = "file" -> scanfn_file(e, s, t)
    [] e.kind = "date" -> scanfn_date(e, s, t)
    [] e.kind = "rex"  -> scanfn_rex(e, s, t)

(* The error codes for which the errorfn of an entry has a message; what   *)
(* the end entry does not know it takes for the letter of a short option,  *)
(* what the file entry does not know it calls unknown, and the others are  *)
(* left to regerror.                                                       *)
Codes == {"EMINCOUNT", "EMAXCOUNT", "EBADINT", "EOVERFLOW", "EBADDOUBLE", "EBADDATE",
          "REG_NOMATCH", "ENOMATCH", "EMISSARG", "ELONGOPT", "ELIMIT", "letter"}
errorfn_lit    == {"EMINCOUNT", "EMAXCOUNT"}
errorfn_int    == {"EMINCOUNT", "EMAXCOUNT", "EBADINT", "EOVERFLOW"}
errorfn_double == {"EMINCOUNT", "EMAXCOUNT", "EBADDOUBLE"}
errorfn_str    == {"EMINCOUNT", "EMAXCOUNT"}
errorfn_date   == {"EMINCOUNT", "EMAXCOUNT", "EBADDATE"}
errorfn_file   == Codes
errorfn_rex    == Codes
errorfn_end    == Codes

Printed(e, code) ==
  code \in CASE e.kind = "lit"  -> errorfn_lit
             [] e.kind = "int"  -> errorfn_int
             [] e.kind = "dbl"  -> errorfn_double
             [] e.kind = "str"  -> errorfn_str
             [] e.kind = "file" -> errorfn_file
             [] e.kind = "date" -> errorfn_date
             [] e.kind = "rex"  -> errorfn_rex
             [] e.kind = "end"  -> errorfn_end

-----------------------------------------------------------------------------
(* What getopt_long is given: the names with val (an index from 0) and     *)
(* has_arg.  The two tables differ on an entry with ARG_HASOPTVALUE alone. *)
LongOptions ==
  UNION {{[name |-> n, val |-> i - 1,
           has_arg |-> IF "HASOPTVALUE" \in argtable[i].flags THEN 2
                       ELSE IF "HASVALUE" \in argtable[i].flags THEN 1 ELSE 0]
          : n \in argtable[i].longs} : i \in 1 .. EndIndex - 1}

ShortOptions ==
  UNION {{[name |-> n, val |-> i - 1,
           has_arg |-> Cardinality(argtable[i].flags \cap {"HASVALUE", "HASOPTVALUE"})]
          : n \in argtable[i].shorts} : i \in 1 .. EndIndex - 1}

find_shortoption(c) ==
  Min({i \in 1 .. EndIndex - 1 : c \in argtable[i].shorts})

(* The text of a token that is taken for the value of the option before    *)
(* it, or for a word after "--", whatever it looks like.                   *)
TextOf(token) ==
  IF token.type = "word" THEN token.text
  ELSE [sign |-> 1, prefix |-> "none", digits |-> -1, suffix |-> "other", fits |-> {}]

(* What getopt_long returns for the option at optind, what it leaves in    *)
(* getoptval, optarg and optopt (a letter, an index or, for 0, nothing),   *)
(* and where it goes on.                                                   *)
GetOpt ==
  LET token == argv[optind]
      known == {o \in IF token.type = "long" THEN LongOptions ELSE ShortOptions :
                  o.name = token.name}
      o == CHOOSE x \in known : TRUE
      Result(copt, val, optarg, optopt, next) ==
        [copt |-> copt, val |-> val, optarg |-> optarg, optopt |-> optopt, next |-> next]
  IN IF known = {} THEN Result("?", 0, NoText, IF token.type = "long" THEN {} ELSE {token.name},
                               optind + 1)
     ELSE IF o.has_arg = 0 /\ token.text # NoText
       THEN Result("?", 0, NoText, {o.val} \ {0}, optind + 1)
     ELSE IF o.has_arg # 1 \/ token.text # NoText
       THEN Result(token.type, o.val, token.text, {}, optind + 1)
     ELSE IF optind = Len(argv) THEN Result(":", 0, NoText, {}, optind + 1)
     ELSE Result(token.type, o.val, TextOf(argv[optind + 1]), {}, optind + 2)

-----------------------------------------------------------------------------
(* arg_parse: arg_reset, and the start of the tagged parse.                *)
ParseCall(line) ==
  /\ stage \in {"idle", "parsed"}
  /\ argv' = line
  /\ stage' = "tagged"
  /\ optind' = 1 /\ words' = <<>> /\ tabindex' = 1 /\ tentative' = NoError
  /\ args' = [i \in 1 .. EndIndex |-> ResetFn(args[i], argtable[i])]
  /\ errors' = <<>> /\ found' = <<>>
  /\ parses' = parses + 1
  /\ UNCHANGED argtable

AtOption(copt) == /\ stage = "tagged" /\ optind <= Len(argv)
                  /\ argv[optind].type \in {"long", "short"}
                  /\ GetOpt.copt = copt
                  /\ optind' = GetOpt.next
                  /\ UNCHANGED <<argtable, argv, stage, words, tabindex, tentative, parses>>

Empty(t) == t.prefix = "none" /\ t.digits < 0 /\ t.suffix = "none"

(* The value of an entry goes through its scanfn; the errors before it.    *)
Scanned(i, t, before) ==
  /\ args' = [args EXCEPT ![i] = Scan(i, t).s]
  /\ Registers(before \o IF Scan(i, t).code = "ok" THEN <<>>
                          ELSE <<Error(i, Scan(i, t).code)>>)

LongOption ==
  /\ AtOption("long")
  /\ LET i == GetOpt.val + 1  t == GetOpt.optarg IN
     Scanned(i, t, IF t # NoText /\ Empty(t) /\ "HASVALUE" \in argtable[i].flags
                   THEN <<Error(EndIndex, "EMISSARG")>> ELSE <<>>)

ShortOption ==
  /\ AtOption("short")
  /\ Scanned(find_shortoption(argv[optind].name), GetOpt.optarg, <<>>)

UnknownOption ==
  /\ AtOption("?")
  /\ Registers(<<Error(EndIndex, IF GetOpt.optopt = {} THEN "ELONGOPT" ELSE "letter")>>)
  /\ UNCHANGED args

MissingValue ==
  /\ AtOption(":")
  /\ Registers(<<Error(EndIndex, "EMISSARG")>>)
  /\ UNCHANGED args

(* getopt_long moves the words behind the options; "--" ends those.        *)
Permute ==
  /\ stage = "tagged" /\ optind <= Len(argv)
  /\ LET rest == SubSeq(argv, optind + 1, Len(argv)) IN
     \/ /\ argv[optind].type = "word"
        /\ words' = Append(words, argv[optind].text)
        /\ optind' = optind + 1
     \/ /\ argv[optind].type = "stop"
        /\ words' = words \o [k \in 1 .. Len(rest) |-> TextOf(rest[k])]
        /\ optind' = Len(argv) + 1
  /\ UNCHANGED <<argtable, argv, stage, tabindex, tentative, args, errors, found, parses>>

(* The return of arg_parse_tagged; optind is at the first of the words.    *)
TaggedEnd ==
  /\ stage = "tagged" /\ optind > Len(argv)
  /\ stage' = "untagged" /\ optind' = 1
  /\ UNCHANGED <<argtable, argv, words, tabindex, tentative, args, errors, found, parses>>

(* One round of arg_parse_untagged: the entry is not for words, the word   *)
(* is the entry's, or the next entry is tried.                             *)
AtEntry == /\ stage = "untagged" /\ tabindex < EndIndex /\ optind <= Len(words)
           /\ UNCHANGED <<argtable, argv, stage, words, errors, found, parses>>

SkipEntry ==
  /\ AtEntry
  /\ Tagged(argtable[tabindex]) \/ ~Scans(argtable[tabindex])
  /\ tabindex' = tabindex + 1
  /\ UNCHANGED <<optind, tentative, args>>

TryEntry ==
  /\ AtEntry
  /\ ~Tagged(argtable[tabindex]) /\ Scans(argtable[tabindex])
  /\ LET r == Scan(tabindex, words[optind]) IN
     /\ args' = [args EXCEPT ![tabindex] = r.s]
     /\ \/ r.code = "ok" /\ optind' = optind + 1 /\ tentative' = NoError /\ UNCHANGED tabindex
        \/ r.code # "ok" /\ tabindex' = tabindex + 1 /\ UNCHANGED optind
           /\ tentative' = Error(tabindex, r.code)

(* A word no entry took: the error of the last entry tried, then           *)
(* ARG_ENOMATCH.                                                           *)
LeftOver ==
  /\ stage = "untagged" /\ tabindex = EndIndex /\ optind <= Len(words)
  /\ Registers(<<IF tentative = NoError THEN Error(EndIndex, "ENOMATCH") ELSE tentative>>)
  /\ optind' = optind + 1 /\ tentative' = NoError
  /\ UNCHANGED <<argtable, argv, stage, words, tabindex, args, parses>>

(* The return of arg_parse_untagged: with no error there are checks.       *)
UntaggedEnd ==
  /\ stage = "untagged" /\ optind > Len(words)
  /\ stage' = IF errors = <<>> THEN "check" ELSE "parsed"
  /\ tabindex' = 1
  /\ UNCHANGED <<argtable, argv, optind, words, tentative, args, errors, found, parses>>

(* The checkfns; that of a regular expression frees its program.           *)
checkfn(e, s) == Scans(e) /\ s.count < e.min

CheckEntry ==
  /\ stage = "check"
  /\ Registers(IF checkfn(argtable[tabindex], args[tabindex])
               THEN <<Error(tabindex, "EMINCOUNT")>> ELSE <<>>)
  /\ args' = [args EXCEPT ![tabindex].compiled = 0]
  /\ stage' = IF tabindex = EndIndex THEN "parsed" ELSE "check"
  /\ tabindex' = tabindex + 1
  /\ UNCHANGED <<argtable, argv, optind, words, tentative, parses>>

(* The bound: a second call gets a shorter line.                           *)
Lines == IF stage \in {"idle", "parsed"}
         THEN SeqOf(ArgTokens(argtable), MaxArgs - 2 * parses) ELSE {}

OptNext ==
  \/ \E line \in Lines : ParseCall(line)
  \/ LongOption \/ ShortOption \/ UnknownOption \/ MissingValue
  \/ Permute \/ TaggedEnd
  \/ SkipEntry \/ TryEntry \/ LeftOver \/ UntaggedEnd
  \/ CheckEntry

OptSpec == OptInit /\ [][OptNext]_optVars

(* What main goes on with once the line is parsed.                         *)
Outcome == IF args[1].count > 0 THEN "usage"
           ELSE IF errors # <<>> THEN "errors" ELSE "service"

-----------------------------------------------------------------------------
(* A reference for the properties: what a line says to a table.  Role[p]   *)
(* is what the p-th token is.                                              *)
Named(table, token) ==
  {i \in 1 .. Len(table) - 1 :
     token.name \in IF token.type = "long" THEN table[i].longs ELSE table[i].shorts}
Wants(table, token) ==
  \E i \in Named(table, token) : table[i].flags = {"HASVALUE"} /\ token.text = NoText

RoleAfter(table, role, token) ==
  IF role \in {"stop", "rest"} THEN "rest"
  ELSE IF role = "wants" THEN "value"
  ELSE IF token.type \in {"word", "stop"} THEN token.type
  ELSE IF Wants(table, token) THEN "wants" ELSE "option"
Roles(table, line) ==
  LET Role[p \in 0 .. Len(line)] ==
        IF p = 0 THEN "start" ELSE RoleAfter(table, Role[p - 1], line[p])
  IN  Role

OptionAt(table, line, p)  == Roles(table, line)[p] \in {"option", "wants"}
OperandAt(table, line, p) == Roles(table, line)[p] \in {"word", "rest"}
ValueAt(table, line, p)   == IF Roles(table, line)[p] = "wants" THEN TextOf(line[p + 1])
                             ELSE line[p].text

(* The operands, and the values entry i is used with, up to each token.    *)
OperandsTo(table, line) ==
  LET operands[p \in 0 .. Len(line)] ==
        IF p = 0 THEN <<>>
        ELSE IF OperandAt(table, line, p) THEN Append(operands[p - 1], TextOf(line[p]))
        ELSE operands[p - 1]
  IN  operands
UsesTo(table, line, i) ==
  LET uses[p \in 0 .. Len(line)] ==
        IF p = 0 THEN <<>>
        ELSE IF OptionAt(table, line, p) /\ i \in Named(table, line[p])
          THEN Append(uses[p - 1], ValueAt(table, line, p))
        ELSE uses[p - 1]
  IN  uses
Operands(table, line) == OperandsTo(table, line)[Len(line)]
Uses(table, line, i)  == UsesTo(table, line, i)[Len(line)]

(* What a text means to an entry: nothing, or one value.                   *)
Multiple(t) ==
  IF t.digits < 0 THEN {}
  ELSE {t.sign * t.digits * IF t.suffix \in {"none", "space"} THEN 1 ELSE
        IF t.suffix \in {"KB", "kb_space"} THEN Kilo ELSE
        IF t.suffix = "MB" THEN Kilo * Kilo ELSE Kilo * Kilo * Kilo}
Meaning(e, t) ==
  CASE e.kind = "int"  -> IF t.suffix = "other" THEN {} ELSE Multiple(t) \cap IntMin .. IntMax
    [] e.kind = "dbl"  -> IF Empty(t) THEN {0}
                          ELSE IF t.suffix = "none" /\ t.prefix \in {"none", "X"} THEN Multiple(t) ELSE {}
    [] e.kind = "date" -> IF "date" \in t.fits THEN {t} ELSE {}
    [] e.kind = "rex"  -> IF "rex" \in t.fits THEN {t} ELSE {}
    [] OTHER           -> {t}

Untagged(table) == {i \in 1 .. Len(table) : Scans(table[i]) /\ ~Tagged(table[i])}

(* If each untagged entry i is to take split[i] of the operands: how many  *)
(* are taken up to it, and what an entry is asked to take.                 *)
TakenTo(table, split) ==
  LET taken[i \in 0 .. Len(table)] ==
        IF i = 0 THEN 0 ELSE taken[i - 1] + IF i \in Untagged(table) THEN split[i] ELSE 0
  IN  taken
Asked(table, line, split, i) ==
  LET taken == TakenTo(table, split) IN
  IF i \in Untagged(table) THEN SubSeq(Operands(table, line), taken[i - 1] + 1, taken[i])
  ELSE Uses(table, line, i)

(* The line is one the table describes.                                    *)
OptionFine(table, line, p) ==
  LET wants == Roles(table, line)[p] = "wants" IN
  /\ Named(table, line[p]) # {}
  /\ wants => p < Len(line)
  /\ \A i \in Named(table, line[p]) : line[p].text # NoText =>
       table[i].kind # "lit" /\ ~(line[p].type = "long" /\ Empty(line[p].text))
  /\ wants /\ line[p].type = "long" => ~Empty(TextOf(line[p + 1]))
Described(table, line, split) ==
  /\ TakenTo(table, split)[Len(table)] = Len(Operands(table, line))
  /\ \A p \in 1 .. Len(line) : OptionAt(table, line, p) => OptionFine(table, line, p)
  /\ \A i \in 1 .. Len(table) : Scans(table[i]) =>
       LET asked == Asked(table, line, split, i) IN
       /\ Len(asked) \in table[i].min .. table[i].max
       /\ \A k \in 1 .. Len(asked) : asked[k] = NoText \/ Meaning(table[i], asked[k]) # {}

(* The line is described, and there is one way at most to split it.        *)
Plainly(table, line) ==
  /\ Cardinality(Untagged(table)) <= 1
  /\ \E split \in [Untagged(table) -> 0 .. Len(Operands(table, line))] :
       Described(table, line, split)

(* arg_parse returns 0 only for a line the table describes; every option   *)
(* and operand of it is then counted by the entry it is for, in order, and *)
(* with the value its text means (etc_argtable2.c:492-556).  With one      *)
(* untagged entry at most, it returns 0 for each such line.  So main runs  *)
(* the service only as the line says, whatever was parsed before, and      *)
(* --help takes precedence over every error (main.c:63-81).                *)
OptionsUnderstood ==
  stage = "parsed" =>
    /\ errors = <<>> =>
         LET split == [i \in Untagged(argtable) |-> args[i].count] IN
         /\ Described(argtable, argv, split)
         /\ \A i \in 1 .. EndIndex : Scans(argtable[i]) =>
              LET asked == Asked(argtable, argv, split, i) IN
              /\ args[i].count = Len(asked)
              /\ argtable[i].kind # "lit" => \A k \in 1 .. args[i].count :
                   asked[k] # NoText => Meaning(argtable[i], asked[k]) = {args[i].vals[k]}
    /\ argtable = MainTable(argtable[EndIndex].max) =>
         LET uses == Uses(argtable, argv, 1) IN
         Outcome = "usage" <=> \E k \in 1 .. Len(uses) : uses[k] = NoText
    /\ Plainly(argtable, argv) => errors = <<>>

(* The end entry keeps the first errors, as many as it has room for, and   *)
(* says so when there were more; none of them is silent when printed, and  *)
(* no text is matched with a regular expression that is not compiled.      *)
ErrorsTold ==
  LET max == argtable[EndIndex].max IN
  /\ Len(errors) = Min({max, Len(found)})
  /\ \A k \in 1 .. Len(errors) :
       errors[k] = IF k = max /\ Len(found) > max THEN Error(EndIndex, "ELIMIT") ELSE found[k]
  /\ \A k \in 1 .. Len(errors) : Printed(argtable[errors[k].parent], errors[k].code)
  /\ stage \in {"tagged", "untagged"} =>
       \A i \in 1 .. EndIndex : argtable[i].kind = "rex" => args[i].compiled = 1
=============================================================================

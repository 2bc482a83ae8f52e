----------------------------- MODULE DumpBodies -----------------------------
(***************************************************************************)
(* The two bodies scanDump reads to the end: the rows of INSERT            *)
(* (dumpValues, internal/cmd/dumpvalues.go) and the columns of CREATE      *)
(* TABLE (checkTail, internal/cmd/dumpscan.go), one lexeme at a time, and  *)
(* beside them what a server would evaluate of the same lexemes.           *)
(*                                                                         *)
(* A lexeme stands for all lexemes the code treats alike: "name" for any   *)
(* word that is none of the others, function names included, "op" for any  *)
(* other operator, "sum" for a run like 1+1, "hexstr" for a string of      *)
(* hexadecimal digits.                                                     *)
(***************************************************************************)
EXTENDS Naturals

ValueWords ==
  {"VALUES", "NULL", "num", "sign", "name", "sum", "X", "N", "_utf8", "_gbk", "0x1F", "0x"}
Strings == {"str", "hexstr", "dqstr"}
Punctuation == {"(", ")", "comma", "op"}

Values0 == [state |-> "head", sign |-> FALSE, radix |-> FALSE]
BadValues == [Values0 EXCEPT !.state = "refused"]
ValueStates ==
  {"head", "column", "columnSep", "keyword", "tuple", "literal", "literalSep", "tupleSep",
   "introduced", "refused"}

(* space() with a sign pending: it waits for a number, anywhere else it is *)
(* a word out of place.                                                    *)
Spaced(v) == IF v.sign /\ v.state /= "literal" THEN BadValues ELSE v

To(v, state) == [v EXCEPT !.state = state, !.sign = FALSE]

(* Fault: X and N count as literals of their own. *)
ValueLiteral_Introducers(v, w) ==
  CASE v.sign /\ w /= "num" -> BadValues
    [] ~v.sign /\ w = "sign" -> [v EXCEPT !.sign = TRUE]
    [] w = "num" \/ (~v.sign /\ w \in {"NULL", "0x1F", "X", "N"}) -> To(v, "literalSep")
    [] ~v.sign /\ w = "_utf8" -> To(v, "introduced")
    [] OTHER -> BadValues

(* A word where a literal is expected; a sign may stand apart from its     *)
(* number.                                                                 *)
ValueLiteral(v, w) ==
  CASE ~v.sign /\ w = "sign" -> [v EXCEPT !.sign = TRUE]
    [] w = "num" \/ (~v.sign /\ w \in {"NULL", "0x1F"}) -> To(v, "literalSep")
    [] ~v.sign /\ w \in {"X", "N", "_utf8"} -> [To(v, "introduced") EXCEPT !.radix = w = "X"]
    [] OTHER -> BadValues

(* codeByte and space for a whole word. *)
ValueWord(v, w) ==
  CASE v.state \in {"head", "keyword"} /\ w = "VALUES" -> To(v, "tuple")
    [] v.state = "column" /\ w \notin {"sign", "sum"} -> To(v, "columnSep")
    [] v.state = "literal" -> ValueLiteral(v, w)
    [] OTHER -> BadValues

ValuePunct(v, p) ==
  LET t == Spaced(v)
  IN CASE p = "(" /\ t.state = "head" -> To(t, "column")
       [] p = "(" /\ t.state = "tuple" -> To(t, "literal")
       [] p = "comma" /\ t.state = "columnSep" -> To(t, "column")
       [] p = ")" /\ t.state = "columnSep" -> To(t, "keyword")
       [] p = "comma" /\ t.state = "literalSep" -> To(t, "literal")
       [] p = ")" /\ t.state = "literalSep" -> To(t, "tupleSep")
       [] p = "comma" /\ t.state = "tupleSep" -> To(t, "tuple")
       [] OTHER -> BadValues

(* startQuote, quoteText and endQuote of a string or a backquoted name. *)
ValueQuote(v, q) ==
  LET t == Spaced(v)
  IN CASE t.state = "column" /\ q = "id" -> To(t, "columnSep")
       [] t.state = "literal" /\ q \in Strings -> [t EXCEPT !.state = "literalSep"]
       [] t.state = "introduced" /\ q \in Strings /\ (t.radix => q = "hexstr") ->
            [To(t, "literalSep") EXCEPT !.radix = FALSE]
       [] OTHER -> BadValues

ValuesComplete(v) == v.state = "tupleSep" /\ ~v.sign
----------------------------------------------------------------------------
TailWords ==
  {"DEFAULT", "NULL", "num", "CURRENT_TIMESTAMP", "CHARSET", "COLLATE", "AS", "NOT", "name",
   "DATA", "DIRECTORY"}

Tail0 == [table |-> FALSE, word |-> "none", value |-> FALSE, after |-> FALSE, refused |-> FALSE]
Attributes == {"NOT", "NULL", "COLLATE"}
DefaultLiterals == {"NULL", "num", "CURRENT_TIMESTAMP"} \cup Strings
OptionWords == {"CHARSET", "COLLATE"}

(* Fault: anything may follow a literal default. *)
MayFollowDefault_Any(c, t) == TRUE

MayFollowDefault(c, t) ==
  t \in {"comma", ")"} \cup Attributes \/ (t = "(" /\ c.word = "CURRENT_TIMESTAMP")

TailRefuses(c, t) ==
  \/ c.word = "DATA" /\ t = "DIRECTORY"
  \/ c.table /\ t = "AS"
  \/ c.table /\ c.after /\ ~MayFollowDefault(c, t)
  \/ c.table /\ c.value /\ t \notin DefaultLiterals \cup OptionWords \cup {"sign"}

(* checkTail *)
CheckTail(c, t) ==
  CASE TailRefuses(c, t) -> [c EXCEPT !.refused = TRUE]
    [] ~TailRefuses(c, t) /\ c.table /\ c.value /\ t = "sign" -> c
    [] OTHER -> [c EXCEPT !.after = c.table /\ c.value /\ t \notin OptionWords,
                          !.value = c.table /\ t = "DEFAULT",
                          !.word = IF t \in TailWords THEN t ELSE "none"]
----------------------------------------------------------------------------
(* The server, which knows nothing of the checks above.  evaluates: it     *)
(* computes something other than a literal.                                *)
Rows0 == [in |-> "columns", last |-> "none", evaluates |-> FALSE]

Literals == {"NULL", "num", "0x1F"} \cup Strings

(* Between INSERT's table and VALUES stand names, after it literals; a     *)
(* sign needs a number and an introducer a string.                         *)
Computes(g, x) ==
  CASE g.in = "columns" -> \/ x \in Strings \cup {"op", "sign", "sum"}
                           \/ g.last \in {"name", "id"} /\ x \in {"name", "("}
    [] g.in = "rows" -> \/ x \in {"name", "id", "sum", "op", "0x", "_gbk"}
                        \/ g.last = "sign" /\ x /= "num"
                        \/ g.last \in {"X", "N", "_utf8"} /\ x \notin Strings
                        \/ g.last = "X" /\ x /= "hexstr"
                        \/ x \in Literals /\ g.last \notin {"(", "comma", "sign", "X", "N", "_utf8"}
    [] OTHER -> FALSE

(* VALUES without a row is no statement, and nothing of it runs. *)
HearRow(g, x) ==
  [in |-> CASE g.in = "columns" /\ x = "VALUES" -> "rows"
            [] g.in = "rows" /\ g.last = "VALUES" /\ x /= "(" -> "broken"
            [] OTHER -> g.in,
   last |-> x,
   evaluates |-> g.evaluates \/ (Computes(g, x) /\ ~(g.last = "VALUES" /\ x /= "("))]

(* DEFAULT and its value.  computes: where in the default it computes       *)
(* something, in the value itself, in what stands next to it, or later,    *)
(* behind a parenthesis, an attribute or an option's word.                 *)
Default0 == [in |-> "no", computes |-> {}]

(* A default ends with the column or before its next attribute; a sign     *)
(* stands before a number, the parenthesis of CURRENT_TIMESTAMP holds      *)
(* digits, NULL follows NOT and a collation's name COLLATE, or the         *)
(* statement is broken and nothing of it runs.                             *)
ColumnState(in, x) ==
  CASE in \in {"no", "option"} -> IF x = "DEFAULT" THEN "default" ELSE "no"
    [] in = "default" -> CASE x \in {"CHARSET", "COLLATE"} -> "option"
                           [] x = "sign" -> "signed"
                           [] x = "CURRENT_TIMESTAMP" -> "now"
                           [] OTHER -> "value"
    [] in = "signed" -> IF x = "num" THEN "value" ELSE "broken"
    [] in \in {"value", "now", "ended"} -> CASE x \in {"comma", ")", "NULL"} -> "no"
                                            [] x = "NOT" -> "not"
                                            [] x = "COLLATE" -> "collate"
                                            [] x = "(" /\ in = "now" -> "digits"
                                            [] OTHER -> "ended"
    [] in = "digits" -> IF x = "num" THEN "digits" ELSE IF x = ")" THEN "ended" ELSE "broken"
    [] in = "not" -> IF x = "NULL" THEN "no" ELSE "ended"
    [] in = "collate" -> "ended"
    [] OTHER -> "broken"

(* Anything else beside a default is an operator or a call, and computed.  *)
GoesOn(in, x) == x \notin {"comma", ")", "NULL", "NOT", "COLLATE"} /\ ~(x = "(" /\ in = "now")

ColumnComputes(in, x) ==
  CASE \/ in = "no" /\ x = "AS"
       \/ in = "default" /\ x \notin Literals \cup {"CURRENT_TIMESTAMP", "sign", "CHARSET", "COLLATE"}
         -> {"value"}
    [] in \in {"value", "now"} /\ GoesOn(in, x) -> {"next"}
    [] \/ in = "ended" /\ GoesOn(in, x)
       \/ in = "not" /\ x /= "NULL"
       \/ in = "option" /\ x = "("
         -> {"later"}
    [] OTHER -> {}

HearColumn(g, x) ==
  [in |-> ColumnState(g.in, x), computes |-> g.computes \cup ColumnComputes(g.in, x)]
=============================================================================

--------------------------- MODULE DumpStatement ---------------------------
(***************************************************************************)
(* stmtCheck of internal/cmd/dumpscan.go: the statements of a dump, token  *)
(* by token where they name or compute something and as wholes where they  *)
(* set or mention variables, beside the server that runs them.  DumpLexer  *)
(* models how the bytes of a dump become these tokens.                     *)
(***************************************************************************)
EXTENDS DumpNames, DumpBodies, FiniteSets

CONSTANTS
  Vars,        \* user variables the dump can name
  MaxTracked,  \* maxHeadTokens where it bounds the variables tracked
  MaxHead,     \* maxHeadTokens where it bounds the tokens of a head
  Sets,        \* the SET statements a dump may hold, sequences of assignments
  MaxNames     \* bound: the names in one DROP or LOCK

ASSUME BoundsAssumption == MaxTracked \in Nat /\ MaxHead \in Nat /\ MaxNames \in Nat

(* A variable's name carries its @, so it is no other name of a SET. *)
ASSUME VarsAssumption ==
  IsFiniteSet(Vars) /\ Vars \cap {"unnamed", "NAMES", "mode", "client", "other"} = {}

VARIABLES
  d,        \* the stmtCheck of the current statement
  u,        \* the userVars of the dump
  heard,    \* how the server reads the current, or else the last, statement
  session,  \* the server session: sql_mode and the client character set
  vals,     \* the user variables of the session
  writes    \* the user variables that triggers and routines mention

vars == <<d, u, heard, session, vals, writes>>

SysVars == {"mode", "client", "other"}
NoToken == P("none")

D0 == [tokens |-> <<>>, cur |-> NoToken, accepted |-> FALSE, inValues |-> FALSE,
       values |-> Values0, tail |-> Tail0, refused |-> FALSE]

U0 == [saved |-> [v \in Vars |-> "none"], poisoned |-> {}, all |-> FALSE]

(* place: what the server expects next; id: the name it is reading.        *)
Heard0 == [verb |-> "none", kind |-> "none", place |-> "verb", id |-> "none", names |-> 0, abroad |-> FALSE,
           row |-> Rows0, column |-> Default0]

(* importPreamble has put the session into a known state. *)
Init ==
  /\ d = D0 /\ u = U0 /\ heard = Heard0
  /\ session = [mode |-> "mode", client |-> "client"]
  /\ vals = [v \in Vars |-> "bad"]
  /\ writes = {}

Between == heard.place = "verb" /\ ~d.refused

(* What the elements of s, one after the other, make of a. *)
Through(Op(_, _), a, s) ==
  LET after[i \in 0 .. Len(s)] == IF i = 0 THEN a ELSE Op(after[i - 1], s[i])
  IN after[Len(s)]
----------------------------------------------------------------------------
(* The server reads names: a dot makes the name before it a database, and  *)
(* after that anything but the database's own name is abroad.              *)

NameNext(g, n) == [g EXCEPT !.place = "name", !.names = n]
Named(g, x) == [g EXCEPT !.place = "named", !.id = x]
Qualified(g) == [g EXCEPT !.place = "dot", !.abroad = @ \/ g.id /= "own"]
NamedDatabase(g, x) == [g EXCEPT !.place = "ended", !.abroad = x /= "own"]

After(g, x, kind) ==
  CASE x = "comma" /\ g.verb \in {"DROP", "LOCK"} -> NameNext(g, g.names + 1)
    [] kind = "w" /\ x = "ON" /\ g.kind = "TRIGGER" /\ g.names = 0 -> NameNext(g, 1)
    [] OTHER -> [g EXCEPT !.place = "after"]

HearVerb(x) ==
  [Heard0 EXCEPT !.verb = x,
                 !.place = CASE x \in {"CREATE", "DROP", "ALTER"} -> "kind"
                             [] x = "LOCK" -> "tables"
                             [] x = "INSERT" -> "name"
                             [] x = "USE" -> "database"
                             [] OTHER -> "after"]

(* A word that comes before a name. *)
Precedes(x, kind) == kind = "w" /\ x \in IfNotExists \cup {"INTO"}

HearPart(g, x, kind) ==
  CASE g.place = "kind" ->
         IF x \in Modifiers THEN [g EXCEPT !.kind = x]
         ELSE [g EXCEPT !.kind = x, !.place = IF x = "DATABASE" THEN "database" ELSE "name"]
    [] g.place = "tables" -> [g EXCEPT !.place = "name"]
    [] g.place \in {"name", "database"} /\ Precedes(x, kind) -> [g EXCEPT !.id = x]
    [] g.place = "database" /\ ~Precedes(x, kind) ->
         IF kind = "w" /\ x = "CHARACTER" THEN [g EXCEPT !.place = "after"]
         ELSE NamedDatabase(g, x)
    [] g.place = "name" /\ ~Precedes(x, kind) -> Named(g, x)
    [] g.place = "named" /\ x = "." -> Qualified(g)
    [] g.place = "dot" -> [g EXCEPT !.place = "ended"]
    [] OTHER -> After(g, x, kind)

HearText(g, text, kind) == Through(LAMBDA r, x : HearPart(r, x, kind), g, text)

(* The lexeme of a body that a token is. *)
Lexeme(t) ==
  CASE t.kind = "b" -> "id"
    [] t.kind \in {"p", "s"} -> t.text[1]
    [] OTHER -> IF Len(t.text) > 1 THEN "sum"
                ELSE IF t.text[1] \in ValueWords \cup TailWords THEN t.text[1] ELSE "name"

(* The server hears a token, and computes what a row or a column says. *)
Hear(g, t) ==
  LET h == IF g.place = "verb" THEN HearVerb(t.text[1]) ELSE HearText(g, t.text, t.kind)
      body == h.place = "after"
  IN [h EXCEPT !.row = IF body /\ h.verb = "INSERT" THEN HearRow(@, Lexeme(t)) ELSE @,
               !.column = IF body /\ h.verb = "CREATE" /\ h.kind = "TABLE"
                          THEN HearColumn(@, Lexeme(t)) ELSE @]
----------------------------------------------------------------------------
(* stmtCheck                                                               *)

ToValues(c, t) ==
  LET v == CASE t.kind = "w" \/ t.text = <<"sign">> -> ValueWord(c.values, Lexeme(t))
             [] t.kind = "p" /\ t.text /= <<"sign">> -> ValuePunct(c.values, t.text[1])
             [] OTHER -> ValueQuote(c.values, Lexeme(t))
  IN [c EXCEPT !.values = v, !.refused = @ \/ v.state = "refused"]

ToTail(c, t) ==
  LET tail == CheckTail(c.tail, Lexeme(t))
  IN [c EXCEPT !.tail = [tail EXCEPT !.refused = FALSE], !.refused = @ \/ tail.refused]

ToRows(c, tokens) == Through(ToValues, c, tokens)
ToColumns(c, tokens) == Through(ToTail, c, tokens)

(* A head is accepted: what follows the table's name goes to the check of  *)
(* the statement's body.                                                   *)
Accept(c) ==
  LET t == c.tokens
      k == KindAt(t)
      a == [c EXCEPT !.accepted = TRUE, !.tokens = <<>>]
      From(i) == SubSeq(t, i, Len(t))
  IN CASE Is(t, 1, {"INSERT"}) ->
            ToRows([a EXCEPT !.inValues = TRUE], From(NameEnd(t, InsertName(t))))
       [] Is(t, 1, {"CREATE"}) /\ Is(t, k, {"TABLE"}) ->
            ToColumns([a EXCEPT !.tail.table = TRUE],
                      From(NameEnd(t, SkipWords(t, k + 1, IfNotExists))))
       [] OTHER -> a

(* Fault: the tokens of an accepted head are kept. *)
Push_Keeps(c, t) ==
  LET p == [c EXCEPT !.tokens = Append(@, t)]
      says == CheckHead(p.tokens, FALSE)
  IN CASE c.refused -> c
       [] ~c.refused /\ c.accepted -> ToTail(c, t)
       [] ~c.refused /\ ~c.accepted /\ says = "refuse" -> [p EXCEPT !.refused = TRUE]
       [] ~c.refused /\ ~c.accepted /\ says = "yes" -> [Accept(p) EXCEPT !.tokens = p.tokens]
       [] OTHER -> [p EXCEPT !.refused = Len(p.tokens) > MaxHead]

Push(c, t) ==
  LET p == [c EXCEPT !.tokens = Append(@, t)]
      says == CheckHead(p.tokens, FALSE)
  IN CASE c.refused -> c
       [] ~c.refused /\ c.accepted -> ToTail(c, t)
       [] ~c.refused /\ ~c.accepted /\ says = "refuse" -> [p EXCEPT !.refused = TRUE]
       [] ~c.refused /\ ~c.accepted /\ says = "yes" -> Accept(p)
       [] OTHER -> [p EXCEPT !.refused = Len(p.tokens) > MaxHead]

Flush(c) == IF c.cur = NoToken THEN c ELSE Push([c EXCEPT !.cur = NoToken], c.cur)

(* space; in a body of rows it only ends a word. *)
Space(c) ==
  IF c.accepted /\ c.inValues
  THEN [c EXCEPT !.values = Spaced(@), !.refused = @ \/ Spaced(c.values).state = "refused"]
  ELSE Flush(c)

(* codeByte for a word, codeByte for punctuation, and the three steps of a *)
(* quote.  A word is pushed by what follows it, so punctuation right after *)
(* VALUES is not a row's.                                                  *)
Take(c, t) ==
  LET f == IF t.kind = "w" THEN c ELSE Flush(c)
  IN CASE c.accepted /\ c.inValues -> ToValues(c, t)
       [] ~(c.accepted /\ c.inValues) /\ t.kind = "w" -> [c EXCEPT !.cur = t]
       [] ~(c.accepted /\ c.inValues) /\ t.kind = "p" -> Push(f, t)
       [] OTHER -> IF f.accepted /\ f.inValues THEN ToValues(f, t) ELSE Push(f, t)

(* end *)
Ended(c) ==
  LET f == Space(c)
      says == CheckHead(f.tokens, TRUE)
      g == IF f.refused \/ f.accepted \/ f.tokens = <<>> THEN f
           ELSE IF says = "refuse" THEN [f EXCEPT !.refused = TRUE]
           ELSE IF says = "yes" THEN Accept(f) ELSE f
  IN [D0 EXCEPT !.refused = g.refused \/ (g.inValues /\ ~ValuesComplete(g.values))]
----------------------------------------------------------------------------
(* The tokens of a dump.  Bound: statements the server would not parse are *)
(* left out, so a token is one that may come at the server's place.        *)

Names ==
  {W(x) : x \in {"t", "own", "oth"}} \cup {B(x) : x \in {"t", "own", "oth"}}
  \cup {Word(x) : x \in {<<"own", ".", "t">>, <<"oth", ".", "t">>, <<"own", ".">>, <<"oth", ".">>}}

BeforeName(g) ==
  CASE g.verb = "INSERT" /\ g.id = "none" -> {W("INTO")}
    [] g.verb \notin {"INSERT", "LOCK"} /\ g.id = "none" -> {W("IF")}
    [] g.verb \notin {"INSERT", "LOCK"} /\ g.id = "IF" -> {W("EXISTS")}
    [] OTHER -> {}

Continuations(g) ==
  CASE g.verb = "INSERT" ->
         {W(x) : x \in ValueWords \ {"sign", "sum"}} \cup {B("t")}
         \cup {P(x) : x \in Punctuation \cup {"sign"}} \cup {S(x) : x \in Strings}
    [] g.kind = "TABLE" /\ g.verb = "CREATE" ->
         {W(x) : x \in TailWords} \cup {P(x) : x \in Punctuation \cup {"sign"}} \cup {S("str")}
    [] g.kind = "TRIGGER" /\ g.verb = "CREATE" -> {W("BEFORE")} \cup (IF g.names = 0 THEN {W("ON")} ELSE {})
    [] g.kind = "VIEW" /\ g.verb = "CREATE" -> {W("AS"), W("DATA"), W("DIRECTORY")}
    [] g.verb = "ALTER" -> {W("DISABLE"), W("KEYS")}
    [] g.verb \in {"DROP", "LOCK"} ->
         (IF g.place = "after" THEN {} ELSE {W("WRITE")})
         \cup (IF g.names < MaxNames - 1 THEN {P("comma")} ELSE {})
    [] OTHER -> {W("BEFORE")}

Verbs == {"INSERT", "CREATE", "DROP", "ALTER", "LOCK", "UNLOCK", "USE", "COMMIT", "SELECT"}

Tokens(g) ==
  CASE g.place = "verb" -> {W(x) : x \in Verbs}
    [] g.place = "kind" ->
         {W(x) : x \in Objects \cup {"DATABASE"} \cup (IF g.kind = "none" THEN {"DEFINER"} ELSE {})}
    [] g.place = "tables" -> {W("TABLES"), W("INSTANCE")}
    [] g.place = "database" -> {W("IF"), W("CHARACTER"), W("own"), W("oth"), B("own"), B("oth")}
    [] g.place = "name" -> Names \cup BeforeName(g)
    [] g.place = "dot" -> {W("t"), B("t")}
    [] g.place = "named" -> {Word(<<".">>), Word(<<".", "t">>)} \cup Continuations(g)
    [] OTHER -> Continuations(g)

(* Bound: no token while a variable is tracked; the tokens read here do    *)
(* not touch variables.                                                    *)
TokenArrives ==
  /\ ~d.refused /\ u = U0 /\ writes = {}
  /\ \E t \in Tokens(heard) :
       /\ t.kind = "w" => d.cur = NoToken
       /\ d' = Take(d, t)
       /\ heard' = Hear(heard, t)
  /\ UNCHANGED <<u, session, vals, writes>>

SpaceArrives ==
  /\ ~d.refused /\ d.cur /= NoToken
  /\ d' = Space(d)
  /\ UNCHANGED <<u, heard, session, vals, writes>>

StatementEnds ==
  /\ ~d.refused /\ ~Between
  /\ d' = Ended(d)
  /\ heard' = [Heard0 EXCEPT !.abroad = heard.abroad, !.row.evaluates = heard.row.evaluates,
                            !.column.computes = heard.column.computes]
  /\ UNCHANGED <<u, session, vals, writes>>
----------------------------------------------------------------------------
(* SET                                                                     *)

Right(kind, of) == [kind |-> kind, of |-> of]
Values == {Right(k, "none") : k \in {"safe", "bad"}}
FromVars == {Right(k, v) : k \in {"var", "expr"}, v \in Vars}

(* scope: none, the word GLOBAL, or the prefix @@GLOBAL. *)
Assignments ==
  [left : {"NAMES"}, scope : {"none"}, right : Values \cup {Right("default", "none")}]
  \cup [left : {"client", "other"}, scope : {"none"}, right : Values \cup FromVars]
  \cup [left : {"mode"}, scope : {"none", "word", "prefix"}, right : Values \cup FromVars]
  \cup [left : Vars, scope : {"none"}, right : Values \cup {Right("sys", s) : s \in SysVars}]

ASSUME SetsAssumption == Sets \subseteq Seq(Assignments)

Name(a) == IF a.scope = "prefix" THEN "global" ELSE a.left

Trusted(w, v, sysvar) == ~w.all /\ v \notin w.poisoned /\ w.saved[v] = sysvar

Saved(w) == {v \in Vars : w.saved[v] /= "none"}

Save(w, v, sysvar) ==
  IF Cardinality(Saved(w)) >= MaxTracked /\ v \notin Saved(w) THEN [w EXCEPT !.all = TRUE]
  ELSE [w EXCEPT !.saved[v] = sysvar]

(* ok: nothing refused so far. *)
Refused(s) == [s EXCEPT !.ok = FALSE]

SaveIn(s, v, sysvar) ==
  IF s.ok THEN [s EXCEPT !.u = Save(@, v, sysvar), !.set = @ \cup {v}] ELSE s

Restored(s, v, sysvar) ==
  IF Trusted(s.u, v, sysvar) THEN [s EXCEPT !.set = @ \cup {v}] ELSE Refused(s)

(* What decides where the server ends a quote. *)
Lexical == {"NAMES", "mode", "client"}

(* checkAssignment *)
CheckAssignment(s, a) ==
  CASE a.left \in Vars /\ a.right.kind = "sys" -> SaveIn(s, a.left, a.right.of)
    [] a.left \in Vars /\ a.right.kind /= "sys" -> Refused(s)
    [] a.left \notin Vars /\ a.right.kind = "var" -> Restored(s, a.right.of, Name(a))
    [] Name(a) \in Lexical /\ a.right.kind /= "var" /\ a.right.kind /= "safe" -> Refused(s)
    [] OTHER -> s

(* checkSet *)
CheckSet(w, as) == Through(CheckAssignment, [ok |-> TRUE, u |-> w, set |-> {}], as)

Mentions(as) ==
  ({as[i].left : i \in 1 .. Len(as)} \cap Vars)
  \cup {as[i].right.of : i \in {j \in 1 .. Len(as) : as[j].right.kind \in {"var", "expr"}}}

(* userVar: more references than fit make no variable trusted. *)
TooManyRefs(refs) == Cardinality(refs) > MaxTracked

(* Fault: a full table of poisoned variables takes no more. *)
PoisonOne_Full(w, name) ==
  CASE name = "unnamed" -> [w EXCEPT !.all = TRUE]
    [] name /= "unnamed" /\ Cardinality(w.poisoned) >= MaxTracked -> w
    [] OTHER -> [w EXCEPT !.poisoned = @ \cup {name}]

PoisonOne(w, name) ==
  IF name = "unnamed" \/ Cardinality(w.poisoned) >= MaxTracked THEN [w EXCEPT !.all = TRUE]
  ELSE [w EXCEPT !.poisoned = @ \cup {name}]

PoisonAll(w, order) == Through(PoisonOne, w, order)

(* end: what a statement mentions and did not account for is poisoned, in  *)
(* any order.                                                              *)
Poison(w, names) ==
  {PoisonAll(w, order) : order \in Surjection(1 .. Cardinality(names), names)}

(* The session after an assignment: the server runs them left to right. *)
Value(s, a) ==
  CASE a.right.kind = "var" -> s.vals[a.right.of]
    [] a.right.kind = "safe" -> IF a.left = "mode" THEN "mode" ELSE "client"
    [] a.right.kind = "sys" /\ a.right.of /= "other" -> s.session[a.right.of]
    [] OTHER -> "bad"

SetVar(s, v, x) == [s EXCEPT !.vals[v] = x]
SetSession(s, sysvar, x) == [s EXCEPT !.session[sysvar] = x]

Assign(s, a) ==
  CASE a.scope /= "none" \/ a.left = "other" -> s
    [] a.left \in Vars -> SetVar(s, a.left, IF a.right.kind = "sys" THEN Value(s, a) ELSE "bad")
    [] OTHER -> SetSession(s, IF a.left = "mode" THEN "mode" ELSE "client", Value(s, a))

RunSet(x, held, as) == Through(Assign, [session |-> x, vals |-> held], as)

SetStatement ==
  /\ Between
  /\ \E as \in Sets :
       LET checked == CheckSet(u, as)
           ran == RunSet(session, vals, as)
           w == IF TooManyRefs(Mentions(as)) THEN [checked.u EXCEPT !.all = TRUE] ELSE checked.u
       IN /\ checked.ok
          /\ u' \in Poison(w, Mentions(as) \ checked.set)
          /\ session' = ran.session /\ vals' = ran.vals
  /\ heard' = Heard0
  /\ UNCHANGED <<d, writes>>

(* A view, trigger, routine or event that mentions variables, some of them *)
(* the scanner cannot name: userVar for each, then end.  That startVar and *)
(* endVar report every variable of a program's text is assumed.            *)
StoredProgram ==
  /\ Between
  /\ \E names \in SUBSET (Vars \cup {"unnamed"}) \ {{}} :
       LET w == IF TooManyRefs(names) THEN [u EXCEPT !.all = TRUE] ELSE u
       IN /\ u' \in Poison(w, names)
          /\ writes' = writes \cup (IF "unnamed" \in names THEN Vars ELSE names)
  /\ heard' = Heard0
  /\ UNCHANGED <<d, session, vals>>

(* A later statement fires a trigger or calls a routine. *)
ProgramRuns ==
  /\ \E v \in writes : vals' = [vals EXCEPT ![v] = "bad"]
  /\ UNCHANGED <<d, u, heard, session, writes>>

Next ==
  \/ TokenArrives \/ SpaceArrives \/ StatementEnds
  \/ SetStatement \/ StoredProgram \/ ProgramRuns

Spec == Init /\ [][Next]_vars
----------------------------------------------------------------------------
(* What a text of a token is made of. *)
Atoms ==
  Verbs \cup Objects \cup IfNotExists \cup ValueWords \cup TailWords \cup Punctuation \cup Strings
  \cup {"DATABASE", "DEFINER", "INTO", "TABLES", "INSTANCE", "CHARACTER", "BEFORE", "ON", "DISABLE",
        "KEYS", "WRITE", "own", "oth", "t", ".", "none"}

Token == [kind : {"w", "p", "b", "s"}, text : Seq(Atoms) \ {<<>>}]

Checks ==
  [tokens : Seq(Token), cur : Token, accepted : BOOLEAN, inValues : BOOLEAN,
   values : [state : ValueStates, sign : BOOLEAN, radix : BOOLEAN],
   tail : [table : BOOLEAN, word : TailWords \cup {"none"}, value : BOOLEAN, after : BOOLEAN,
           refused : {FALSE}],
   refused : BOOLEAN]

UserVars == [saved : [Vars -> SysVars \cup {"none"}], poisoned : SUBSET Vars, all : BOOLEAN]

Places == {"verb", "kind", "tables", "database", "name", "named", "dot", "ended", "after"}

Kinds == Objects \cup {"DATABASE", "DEFINER", "none"}

RowReadings == [in : {"columns", "rows", "broken"}, last : Atoms \cup {"id"}, evaluates : BOOLEAN]
ColumnStates ==
  {"no", "default", "option", "signed", "value", "now", "digits", "not", "collate", "ended",
   "broken"}
ColumnReadings == [in : ColumnStates, computes : SUBSET {"value", "next", "later"}]

Readings ==
  [verb : Verbs \cup {"none"}, kind : Kinds, place : Places, id : Atoms, names : Nat,
   abroad : BOOLEAN, row : RowReadings, column : ColumnReadings]

SessionValues == {"mode", "client", "bad"}

(* Every variable has its type; tokens are kept only until the head is     *)
(* accepted, and not more than maxHeadTokens and one.                      *)
TypeOK ==
  /\ d \in Checks /\ Len(d.tokens) <= MaxHead + 1
  /\ d.accepted => d.tokens = <<>>
  /\ d.inValues => d.accepted
  /\ u \in UserVars
  /\ heard \in Readings
  /\ session \in [mode : SessionValues, client : SessionValues]
  /\ vals \in [Vars -> SessionValues]
  /\ writes \subseteq Vars

(* Whatever a dump saves, sets back and lets its triggers and routines     *)
(* write, the session keeps a sql_mode and a client character set under    *)
(* which quotes end where DumpLexer says (scanDump, "It assumes the        *)
(* session state importPreamble sets").                                    *)
SessionLexicallySafe == session.mode = "mode" /\ session.client = "client"

(* An accepted statement writes to the target database only, however its   *)
(* names are qualified: a dot kept in a word, apart, or after a quote.     *)
NamesStayHome == ~d.refused /\ (d.accepted \/ Between) => ~heard.abroad

(* The rows of an accepted INSERT are literals: the server reads no name,  *)
(* call or operator in them.                                               *)
LiteralRows == Between => ~heard.row.evaluates

(* The server computes nothing for the value of a column's default in an   *)
(* accepted CREATE TABLE, nor goes on computing next to it.  What stands   *)
(* later, behind CURRENT_TIMESTAMP's parenthesis, NOT, COLLATE or an       *)
(* option's word, checkTail lets pass, although its comment says that only *)
(* an attribute or the end of the column may follow a default.             *)
LiteralDefaults == Between => heard.column.computes \subseteq {"later"}
=============================================================================

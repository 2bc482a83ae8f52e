----------------------------- MODULE DumpNames -----------------------------
(***************************************************************************)
(* checkHead of internal/cmd/dumpscan.go for the statements that name      *)
(* something, and the checks of those names: what the tokens read so far   *)
(* decide, "yes", "refuse" or "more".                                      *)
(*                                                                         *)
(* A token has a kind, "w" word, "p" punctuation, "b" backquoted name, "s" *)
(* string, and its text cut at the dots a word keeps: oth.t is <<"oth",    *)
(* ".", "t">>.  The target database is "own"; TABLE stands for itself,     *)
(* VIEW for the objects without a body check, BEFORE for any other word.   *)
(***************************************************************************)
EXTENDS Naturals, Sequences, SequencesExt

W(x) == [kind |-> "w", text |-> <<x>>]
Word(text) == [kind |-> "w", text |-> text]
B(x) == [kind |-> "b", text |-> <<x>>]
S(x) == [kind |-> "s", text |-> <<x>>]
P(x) == [kind |-> "p", text |-> <<x>>]

Is(t, i, words) == i <= Len(t) /\ t[i].kind = "w" /\ Len(t[i].text) = 1 /\ t[i].text[1] \in words
DotFirst(t, i) == i <= Len(t) /\ t[i].kind = "w" /\ Head(t[i].text) = "."
DotLast(t, i) == t[i].kind = "w" /\ Last(t[i].text) = "."

More(final) == IF final THEN "refuse" ELSE "more"
YesIf(ok) == IF ok THEN "yes" ELSE "refuse"

(* The first token from i that is none of the words. *)
SkipWords(t, i, words) ==
  CHOOSE j \in i .. Len(t) + 1 : (\A k \in i .. j - 1 : Is(t, k, words)) /\ ~Is(t, j, words)

(* Where the first dot of a text is; 0 if there is none. *)
Dot(text) == SelectInSeq(text, LAMBDA x : x = ".")

(* What precedes the first dot is the target database. *)
QualifiedHome(text) == Dot(text) = 2 /\ text[1] = "own"

(* Fault: a qualifier written apart from its name is not seen. *)
CheckQualifier_Glued(t, i) ==
  t[i].kind = "w" /\ Dot(t[i].text) > 0 => QualifiedHome(t[i].text)

(* A name is unqualified or qualified with the target database. *)
CheckQualifier(t, i) ==
  IF t[i].kind = "w" /\ Dot(t[i].text) > 0 THEN QualifiedHome(t[i].text)
  ELSE DotFirst(t, i + 1) => t[i].text = <<"own">>

(* The index after the name at i: db.`name`, `db` . `name` or `db`.name. *)
NameEnd(t, i) ==
  CASE DotLast(t, i) -> i + 2
    [] ~DotLast(t, i) /\ Is(t, i + 1, {"."}) -> i + 3
    [] ~DotLast(t, i) /\ ~Is(t, i + 1, {"."}) /\ DotFirst(t, i + 1) -> i + 2
    [] OTHER -> i + 1

IfNotExists == {"IF", "NOT", "EXISTS"}

(* An unfinished name at the very end is neither refused nor accepted. *)
CheckObjectName(t, i, final) ==
  LET j == SkipWords(t, i, IfNotExists)
  IN CASE j > Len(t) -> More(final)
       [] j = Len(t) /\ ~final -> "more"
       [] OTHER -> IF ~CheckQualifier(t, j) THEN "refuse"
                   ELSE IF NameEnd(t, j) > Len(t) + 1 \/ (NameEnd(t, j) = Len(t) + 1 /\ ~final)
                        THEN "more" ELSE "yes"

(* The table after ON, among the eight tokens from the trigger's name. *)
CheckTriggerTable(t, i, final) ==
  LET ons == {j \in i + 1 .. i + 7 : Is(t, j, {"ON"})}
  IN CASE ons /= {} -> CheckObjectName(t, (CHOOSE j \in ons : \A k \in ons : j <= k) + 1, final)
       [] ons = {} /\ Len(t) < i + 7 -> More(final)
       [] OTHER -> "refuse"

CheckAlterTable(t, i, final) ==
  IF ~final THEN "more"
  ELSE YesIf(/\ i <= Len(t)
             /\ CheckQualifier(t, i)
             /\ Len(t) = NameEnd(t, i) + 1
             /\ Is(t, NameEnd(t, i), {"DISABLE", "ENABLE"}) /\ Is(t, Len(t), {"KEYS"}))

CheckAllNames(t, from) ==
  \A i \in from .. Len(t) : t[i].kind \in {"w", "b"} /\ ~DotFirst(t, i) => CheckQualifier(t, i)

CheckName(t) == t.kind \in {"w", "b", "s"} /\ t.text = <<"own">>

CheckDatabaseName(t, i, final) ==
  LET j == SkipWords(t, i, IfNotExists)
  IN CASE j > Len(t) -> More(final)
       [] Is(t, 1, {"ALTER"}) /\ Is(t, j, {"CHARACTER"}) -> "yes"
       [] OTHER -> YesIf(CheckName(t[j]))

Modifiers == {"DEFINER", "OR", "REPLACE"}
Objects == {"TABLE", "VIEW", "TRIGGER"}

(* Where CREATE, DROP or ALTER names the kind of its object; 0 if not yet. *)
KindAt(t) ==
  LET ks == {k \in 2 .. Len(t) : t[k].kind = "w" /\ ~Is(t, k, Modifiers)}
  IN IF ks = {} THEN 0 ELSE CHOOSE k \in ks : \A j \in ks : k <= j

(* checkDDL *)
CheckDDL(t, final) ==
  LET k == KindAt(t)
      named == CheckObjectName(t, k + 1, final)
  IN IF k = 0 THEN More(final)
     ELSE CASE Is(t, 1, {"DROP"}) /\ Is(t, k, Objects) ->
                 IF final THEN YesIf(CheckAllNames(t, k + 1)) ELSE "more"
            [] Is(t, 1, {"ALTER"}) /\ Is(t, k, {"TABLE"}) -> CheckAlterTable(t, k + 1, final)
            [] Is(t, 1, {"CREATE"}) /\ Is(t, k, Objects) ->
                 IF named = "yes" /\ Is(t, k, {"TRIGGER"}) THEN CheckTriggerTable(t, k + 1, final)
                 ELSE named
            [] ~Is(t, 1, {"DROP"}) /\ Is(t, k, {"DATABASE"}) -> CheckDatabaseName(t, k + 1, final)
            [] OTHER -> "refuse"

(* Where INSERT names its table. *)
InsertName(t) == SkipWords(t, 2, {"INTO"})

CheckLock(t, final) ==
  CASE Len(t) < 2 -> More(final)
    [] Len(t) >= 2 /\ ~Is(t, 2, {"TABLES"}) -> "refuse"
    [] Is(t, 1, {"UNLOCK"}) /\ Is(t, 2, {"TABLES"}) -> "yes"
    [] OTHER -> IF final THEN YesIf(CheckAllNames(t, 3)) ELSE "more"

(* checkHead; SET is modelled in DumpStatement. *)
CheckHead(t, final) ==
  CASE Is(t, 1, {"COMMIT"}) -> "yes"
    [] Is(t, 1, {"INSERT"}) ->
         LET i == InsertName(t)
             named == CheckObjectName(t, i, final)
         IN IF named = "yes" /\ (i > Len(t) \/ NameEnd(t, i) > Len(t) + 1) THEN More(final) ELSE named
    [] Is(t, 1, {"LOCK", "UNLOCK"}) -> CheckLock(t, final)
    [] Is(t, 1, {"USE"}) -> IF Len(t) < 2 THEN More(final) ELSE YesIf(CheckName(t[2]))
    [] Is(t, 1, {"CREATE", "DROP", "ALTER"}) -> CheckDDL(t, final)
    [] OTHER -> "refuse"
=============================================================================

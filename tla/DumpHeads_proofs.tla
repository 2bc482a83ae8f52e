-------------------------- MODULE DumpHeads_proofs --------------------------
(***************************************************************************)
(* checkHead and the server read the head of a statement alike: what the   *)
(* tokens so far decide, and what the server has heard of them by then,    *)
(* for heads of any length.                                                *)
(***************************************************************************)
EXTENDS DumpStatement, TLAPS

(* Names and the dots in them. *)
LEMMA DotForms ==
  ASSUME NEW x, x # "."
  PROVE  /\ Dot(<<x>>) = 0
         /\ Dot(<<x, ".">>) = 2
         /\ Dot(<<x, ".", "t">>) = 2
         /\ Dot(<<".">>) = 1
         /\ Dot(<<".", "t">>) = 1
<1>1. Dot(<<x>>) = 0
  BY DEF Dot, SelectInSeq
<1>2. Dot(<<x, ".">>) = 2
  BY DEF Dot, SelectInSeq, Min
<1>3. Dot(<<x, ".", "t">>) = 2
  BY DEF Dot, SelectInSeq, Min
<1>4. Dot(<<".">>) = 1
  BY DEF Dot, SelectInSeq, Min
<1>5. Dot(<<".", "t">>) = 1
  BY DEF Dot, SelectInSeq, Min
<1> QED BY <1>1, <1>2, <1>3, <1>4, <1>5

Plain == {"t", "own", "oth"}

(* How a name is written: in one token or in several. *)
OneWord(t) == t \in {W(x) : x \in Plain} \cup {B(x) : x \in Plain}
OpenWord(t) == t \in {Word(<<x, ".">>) : x \in {"own", "oth"}}
ClosedWord(t) == t \in {Word(<<x, ".", "t">>) : x \in {"own", "oth"}}

(* A token that starts at a dot. *)
Dotted(t) == t.kind = "w" /\ Head(t.text) = "."

(* A name is one word, one that ends in a dot, or one that is closed. *)
LEMMA NameForms ==
  ASSUME NEW t \in Names
  PROVE  OneWord(t) \/ OpenWord(t) \/ ClosedWord(t)
BY DEF Names, OneWord, OpenWord, ClosedWord, Plain, W, B, Word

(* A name of one token, followed by nothing or by a token. *)
LEMMA OneWordName ==
  ASSUME NEW T \in Seq(Token), NEW i \in 1 .. Len(T), OneWord(T[i])
  PROVE  /\ T[i].text[1] \in Plain /\ Len(T[i].text) = 1
         /\ CheckQualifier(T, i) <=> (i < Len(T) /\ Dotted(T[i + 1]) => T[i].text[1] = "own")
         /\ ~DotLast(T, i) /\ ~DotFirst(T, i)
<1>1. PICK x \in Plain : T[i] = W(x) \/ T[i] = B(x)
  BY DEF OneWord
<1>2. T[i].text = <<x>> /\ x # "." /\ Len(<<x>>) = 1 /\ <<x>>[1] = x
  BY <1>1 DEF W, B, Plain
<1>3. Dot(T[i].text) = 0
  BY <1>2, DotForms
<1>4. <<x>> = <<"own">> <=> x = "own"
  OBVIOUS
<1>5. DotFirst(T, i + 1) <=> i < Len(T) /\ Dotted(T[i + 1])
  BY DEF DotFirst, Dotted
<1>6. CheckQualifier(T, i) <=> (DotFirst(T, i + 1) => x = "own")
  BY <1>2, <1>3, <1>4 DEF CheckQualifier
<1>7. ~DotLast(T, i) /\ ~DotFirst(T, i)
  BY <1>2 DEF DotLast, DotFirst, Last
<1> QED BY <1>1, <1>2, <1>5, <1>6, <1>7

(* The name ends with its token unless a dot follows, and with what comes  *)
(* after the dot if one does.                                              *)
LEMMA OneWordEnd ==
  ASSUME NEW T \in Seq(Token), NEW i \in 1 .. Len(T), OneWord(T[i])
  PROVE  /\ (i < Len(T) => ~Dotted(T[i + 1])) => NameEnd(T, i) = i + 1
         /\ i < Len(T) /\ T[i + 1] = W(".") => NameEnd(T, i) = i + 3
         /\ i < Len(T) /\ T[i + 1] = Word(<<".", "t">>) => NameEnd(T, i) = i + 2
<1>1. ~DotLast(T, i)
  BY OneWordName
<1>2. DotFirst(T, i + 1) <=> i < Len(T) /\ Dotted(T[i + 1])
  BY DEF DotFirst, Dotted
<1>3. ASSUME Is(T, i + 1, {"."}) PROVE DotFirst(T, i + 1)
  BY <1>3 DEF Is, DotFirst
<1>4. CASE ~DotFirst(T, i + 1)
  <2>1. NameEnd(T, i) = i + 1
    BY <1>1, <1>3, <1>4 DEF NameEnd
  <2>2. Dotted(W(".")) /\ Dotted(Word(<<".", "t">>))
    BY DEF Dotted, W, Word
  <2> QED BY <1>2, <1>4, <2>1, <2>2
<1>5. CASE DotFirst(T, i + 1)
  <2>1. i < Len(T) /\ Dotted(T[i + 1])
    BY <1>2, <1>5
  <2>2. ASSUME T[i + 1] = W(".") PROVE NameEnd(T, i) = i + 3
    <3>1. Is(T, i + 1, {"."})
      BY <2>1, <2>2 DEF Is, W
    <3> QED BY <1>1, <3>1 DEF NameEnd
  <2>3. ASSUME T[i + 1] = Word(<<".", "t">>) PROVE NameEnd(T, i) = i + 2
    <3>1. ~Is(T, i + 1, {"."})
      BY <2>3 DEF Is, Word
    <3> QED BY <1>1, <1>5, <3>1 DEF NameEnd
  <2> QED BY <2>1, <2>2, <2>3
<1> QED BY <1>4, <1>5

(* A word with a dot in it or at its end. *)
LEMMA DottedWordName ==
  ASSUME NEW T \in Seq(Token), NEW i \in 1 .. Len(T), OpenWord(T[i]) \/ ClosedWord(T[i])
  PROVE  /\ T[i].text[1] \in {"own", "oth"}
         /\ CheckQualifier(T, i) <=> T[i].text[1] = "own"
         /\ ~DotFirst(T, i)
         /\ OpenWord(T[i]) => NameEnd(T, i) = i + 2
         /\ ClosedWord(T[i]) /\ (i < Len(T) => ~Dotted(T[i + 1])) => NameEnd(T, i) = i + 1
<1>1. PICK x \in {"own", "oth"} : T[i] = Word(<<x, ".">>) \/ T[i] = Word(<<x, ".", "t">>)
  BY DEF OpenWord, ClosedWord
<1>2. T[i].kind = "w" /\ T[i].text[1] = x
  BY <1>1 DEF Word
<1>3. Dot(T[i].text) = 2
  <2>1. Dot(<<x, ".">>) = 2 /\ Dot(<<x, ".", "t">>) = 2
    BY DotForms
  <2>2. T[i].text = <<x, ".">> \/ T[i].text = <<x, ".", "t">>
    BY <1>1 DEF Word
  <2> QED BY <2>1, <2>2
<1>4. CheckQualifier(T, i) <=> x = "own"
  BY <1>2, <1>3 DEF CheckQualifier, QualifiedHome
<1>5. ~DotFirst(T, i)
  BY <1>1 DEF DotFirst, Word
<1>6. ASSUME OpenWord(T[i]) PROVE NameEnd(T, i) = i + 2
  <2>1. DotLast(T, i)
    <3>1. PICK y \in {"own", "oth"} : T[i] = Word(<<y, ".">>)
      BY <1>6 DEF OpenWord
    <3>2. Last(<<y, ".">>) = "."
      BY DEF Last
    <3> QED BY <3>1, <3>2 DEF Word, DotLast
  <2> QED BY <2>1 DEF NameEnd
<1>7. ASSUME ClosedWord(T[i]), i < Len(T) => ~Dotted(T[i + 1]) PROVE NameEnd(T, i) = i + 1
  <2>1. ~DotLast(T, i)
    <3>1. PICK y \in {"own", "oth"} : T[i] = Word(<<y, ".", "t">>)
      BY <1>7 DEF ClosedWord
    <3>2. Last(<<y, ".", "t">>) = "t"
      BY DEF Last
    <3> QED BY <3>1, <3>2 DEF Word, DotLast
  <2>2. ~DotFirst(T, i + 1)
    BY <1>7 DEF DotFirst, Dotted
  <2>3. ASSUME Is(T, i + 1, {"."}) PROVE DotFirst(T, i + 1)
    BY <2>3 DEF Is, DotFirst
  <2> QED BY <2>1, <2>2, <2>3 DEF NameEnd
<1> QED BY <1>2, <1>4, <1>5, <1>6, <1>7
----------------------------------------------------------------------------
(* The server reads the parts of a text one after the other. *)
LEMMA HearOne ==
  ASSUME NEW g, NEW x, NEW kind
  PROVE  HearText(g, <<x>>, kind) = HearPart(g, x, kind)
<1> DEFINE F(f) == f = [i \in 0 .. 1 |-> IF i = 0 THEN g ELSE HearPart(f[i - 1], <<x>>[i], kind)]
           w == [i \in 0 .. 1 |-> IF i = 0 THEN g ELSE HearPart(g, x, kind)]
           c == CHOOSE f : F(f)
<1>1. F(w)
  OBVIOUS
<1>2. F(c)
  <2> HIDE DEF F
  <2> QED BY <1>1
<1>3. HearText(g, <<x>>, kind) = c[1]
  <2>1. Len(<<x>>) = 1
    OBVIOUS
  <2> QED BY <2>1 DEF HearText, Through
<1> HIDE DEF c
<1>4. c[0] = g
  BY <1>2
<1>5. c[1] = HearPart(c[1 - 1], <<x>>[1], kind)
  BY <1>2
<1> QED BY <1>3, <1>4, <1>5

(* A text of two parts is heard part by part. *)
LEMMA HearTwo ==
  ASSUME NEW g, NEW x, NEW y, NEW kind
  PROVE  HearText(g, <<x, y>>, kind) = HearPart(HearPart(g, x, kind), y, kind)
<1> DEFINE F(f) == f = [i \in 0 .. 2 |-> IF i = 0 THEN g ELSE HearPart(f[i - 1], <<x, y>>[i], kind)]
           h == HearPart(g, x, kind)
           w == [i \in 0 .. 2 |-> IF i = 0 THEN g ELSE IF i = 1 THEN h ELSE HearPart(h, y, kind)]
           c == CHOOSE f : F(f)
<1>1. F(w)
  <2>1. w[0] = g /\ w[1] = h
    OBVIOUS
  <2>2. ASSUME NEW i \in 0 .. 2
        PROVE  w[i] = IF i = 0 THEN g ELSE HearPart(w[i - 1], <<x, y>>[i], kind)
    <3>1. i = 0 \/ i = 1 \/ i = 2
      OBVIOUS
    <3>2. CASE i = 1
      BY <2>1, <3>2
    <3>3. CASE i = 2
      <4>1. w[i] = HearPart(h, y, kind) /\ i - 1 = 1 /\ <<x, y>>[i] = y
        BY <3>3
      <4> QED BY <2>1, <3>3, <4>1
    <3> QED BY <2>1, <3>1, <3>2, <3>3
  <2> QED BY <2>2
<1>2. F(c)
  <2> HIDE DEF F
  <2> QED BY <1>1
<1>3. HearText(g, <<x, y>>, kind) = c[2]
  <2>1. Len(<<x, y>>) = 2
    OBVIOUS
  <2> QED BY <2>1 DEF HearText, Through
<1> HIDE DEF c
<1>4. c[0] = g
  BY <1>2
<1>5. c[1] = HearPart(c[1 - 1], <<x, y>>[1], kind)
  BY <1>2
<1>6. c[2] = HearPart(c[2 - 1], <<x, y>>[2], kind)
  BY <1>2
<1>7. c[1] = h
  BY <1>4, <1>5
<1>8. c[2] = HearPart(c[1], y, kind)
  BY <1>6
<1> QED BY <1>3, <1>7, <1>8

(* So is one of three. *)
LEMMA HearThree ==
  ASSUME NEW g, NEW x, NEW y, NEW z, NEW kind
  PROVE  HearText(g, <<x, y, z>>, kind)
           = HearPart(HearPart(HearPart(g, x, kind), y, kind), z, kind)
<1> DEFINE F(f) == f = [i \in 0 .. 3 |-> IF i = 0 THEN g
                                          ELSE HearPart(f[i - 1], <<x, y, z>>[i], kind)]
           h == HearPart(g, x, kind)
           k == HearPart(h, y, kind)
           w == [i \in 0 .. 3 |-> IF i = 0 THEN g ELSE IF i = 1 THEN h
                                  ELSE IF i = 2 THEN k ELSE HearPart(k, z, kind)]
           c == CHOOSE f : F(f)
<1>1. F(w)
  <2>1. w[0] = g /\ w[1] = h /\ w[2] = k
    OBVIOUS
  <2>2. ASSUME NEW i \in 0 .. 3
        PROVE  w[i] = IF i = 0 THEN g ELSE HearPart(w[i - 1], <<x, y, z>>[i], kind)
    <3>1. i = 0 \/ i = 1 \/ i = 2 \/ i = 3
      OBVIOUS
    <3>2. CASE i = 1
      BY <2>1, <3>2
    <3>3. CASE i = 2
      <4>1. w[i] = HearPart(h, y, kind) /\ i - 1 = 1 /\ <<x, y, z>>[i] = y
        BY <3>3
      <4> QED BY <2>1, <3>3, <4>1
    <3>4. CASE i = 3
      <4>1. w[i] = HearPart(k, z, kind) /\ i - 1 = 2 /\ <<x, y, z>>[i] = z
        BY <3>4
      <4> QED BY <2>1, <3>4, <4>1
    <3> QED BY <2>1, <3>1, <3>2, <3>3, <3>4
  <2> QED BY <2>2
<1>2. F(c)
  <2> HIDE DEF F
  <2> QED BY <1>1
<1>3. HearText(g, <<x, y, z>>, kind) = c[3]
  <2>1. Len(<<x, y, z>>) = 3
    OBVIOUS
  <2> QED BY <2>1 DEF HearText, Through
<1> HIDE DEF c
<1>4. c[0] = g
  BY <1>2
<1>5. c[1] = HearPart(c[1 - 1], <<x, y, z>>[1], kind)
  BY <1>2
<1>6. c[2] = HearPart(c[2 - 1], <<x, y, z>>[2], kind)
  BY <1>2
<1>7. c[3] = HearPart(c[3 - 1], <<x, y, z>>[3], kind)
  BY <1>2
<1>8. c[1] = h
  BY <1>4, <1>5
<1>9. c[2] = HearPart(c[1], y, kind)
  BY <1>6
<1>10. c[3] = HearPart(c[2], z, kind)
  BY <1>7
<1> QED BY <1>3, <1>8, <1>9, <1>10

(* What the server has heard of the names, the rows and the columns. *)
LEMMA HearFields ==
  ASSUME NEW g, NEW t, NEW h \in Readings,
         h = IF g.place = "verb" THEN HearVerb(t.text[1]) ELSE HearText(g, t.text, t.kind)
  PROVE  /\ Hear(g, t).verb = h.verb /\ Hear(g, t).kind = h.kind
         /\ Hear(g, t).place = h.place /\ Hear(g, t).id = h.id
         /\ Hear(g, t).names = h.names /\ Hear(g, t).abroad = h.abroad
         /\ Hear(g, t).row = IF h.place = "after" /\ h.verb = "INSERT"
                             THEN HearRow(h.row, Lexeme(t)) ELSE h.row
         /\ Hear(g, t).column = IF h.place = "after" /\ h.verb = "CREATE" /\ h.kind = "TABLE"
                                THEN HearColumn(h.column, Lexeme(t)) ELSE h.column
<1> DEFINE row == IF h.place = "after" /\ h.verb = "INSERT"
                  THEN HearRow(h.row, Lexeme(t)) ELSE h.row
           column == IF h.place = "after" /\ h.verb = "CREATE" /\ h.kind = "TABLE"
                     THEN HearColumn(h.column, Lexeme(t)) ELSE h.column
<1>1. Hear(g, t) = [h EXCEPT !.row = row, !.column = column]
  BY DEF Hear
<1> HIDE DEF row, column
<1>2. /\ Hear(g, t).verb = h.verb /\ Hear(g, t).kind = h.kind
      /\ Hear(g, t).place = h.place /\ Hear(g, t).id = h.id
      /\ Hear(g, t).names = h.names
  BY <1>1 DEF Readings
<1>3. Hear(g, t).abroad = h.abroad
  BY <1>1 DEF Readings
<1>4. Hear(g, t).row = row /\ Hear(g, t).column = column
  BY <1>1 DEF Readings
<1> QED BY <1>2, <1>3, <1>4 DEF row, column

(* What follows a name is one word, mark, name or string, and no dot. *)
LEMMA ContinuationForms ==
  ASSUME NEW g, NEW t \in Continuations(g)
  PROVE  /\ t \in Token /\ t.text = <<t.text[1]>> /\ t.text[1] # "." /\ ~Dotted(t)
         /\ t.text[1] \in Atoms
<1>1. \A x \in Atoms : /\ W(x) \in Token /\ W(x).text = <<W(x).text[1]>> /\ W(x).text[1] = x
                        /\ W(x).kind = "w" /\ Head(W(x).text) = x
  BY DEF W, Token
<1>2. \A x \in Atoms : /\ P(x) \in Token /\ P(x).text = <<P(x).text[1]>> /\ P(x).text[1] = x
                        /\ P(x).kind = "p"
  BY DEF P, Token
<1>3. \A x \in Atoms : /\ B(x) \in Token /\ B(x).text = <<B(x).text[1]>> /\ B(x).text[1] = x
                        /\ B(x).kind = "b"
  BY DEF B, Token
<1>4. \A x \in Atoms : /\ S(x) \in Token /\ S(x).text = <<S(x).text[1]>> /\ S(x).text[1] = x
                        /\ S(x).kind = "s"
  BY DEF S, Token
<1> DEFINE Xs == ValueWords \cup TailWords \cup Punctuation \cup Strings
                   \cup {"sign", "t", "BEFORE", "ON", "AS", "DATA", "DIRECTORY", "DISABLE", "KEYS",
                         "WRITE", "comma"}
<1>5. \E x \in Xs : t = W(x) \/ t = P(x) \/ t = B(x) \/ t = S(x)
  <2>1. CASE g.verb = "INSERT"
    BY <2>1 DEF Continuations
  <2>2. CASE g.kind = "TABLE" /\ g.verb = "CREATE"
    <3>1. t \in {W(x) : x \in TailWords} \cup {P(x) : x \in Punctuation \cup {"sign"}} \cup {S("str")}
      BY <2>2 DEF Continuations
    <3>2. "str" \in Xs /\ TailWords \subseteq Xs /\ Punctuation \cup {"sign"} \subseteq Xs
      BY DEF Strings
    <3> HIDE DEF Xs
    <3> QED BY <3>1, <3>2
  <2>3. CASE g.kind = "TRIGGER" /\ g.verb = "CREATE"
    BY <2>3 DEF Continuations
  <2>4. CASE g.kind = "VIEW" /\ g.verb = "CREATE"
    BY <2>4 DEF Continuations
  <2>5. CASE g.verb = "ALTER"
    BY <2>5 DEF Continuations
  <2>6. CASE g.verb \in {"DROP", "LOCK"}
    BY <2>6 DEF Continuations
  <2>7. CASE /\ g.verb \notin {"INSERT", "ALTER", "DROP", "LOCK"}
             /\ g.verb = "CREATE" => g.kind \notin {"TABLE", "TRIGGER", "VIEW"}
    BY <2>7 DEF Continuations
  <2> QED BY <2>1, <2>2, <2>3, <2>4, <2>5, <2>6, <2>7
<1>6. Xs \subseteq Atoms
  BY DEF Atoms, ValueWords, TailWords, Punctuation
<1>7. "." \notin Xs
  BY DEF ValueWords, TailWords, Punctuation, Strings
<1> HIDE DEF Xs
<1> QED
  BY <1>1, <1>2, <1>3, <1>4, <1>5, <1>6, <1>7 DEF Dotted

(* What each move of the server changes, field by field: a name is next. *)
LEMMA NameNextFields ==
  ASSUME NEW g \in Readings, NEW n \in Nat, NEW h, h = NameNext(g, n)
  PROVE  /\ h \in Readings /\ h.place = "name" /\ h.names = n
         /\ h.verb = g.verb /\ h.kind = g.kind /\ h.id = g.id /\ h.abroad = g.abroad
         /\ h.row = g.row /\ h.column = g.column
BY DEF Readings, Places, NameNext

(* A name is read. *)
LEMMA NamedFields ==
  ASSUME NEW g \in Readings, NEW x \in Atoms, NEW h, h = Named(g, x)
  PROVE  /\ h \in Readings /\ h.place = "named" /\ h.id = x
         /\ h.verb = g.verb /\ h.kind = g.kind /\ h.names = g.names /\ h.abroad = g.abroad
         /\ h.row = g.row /\ h.column = g.column
BY DEF Readings, Places, Named

(* A dot makes the name before it a database. *)
LEMMA QualifiedFields ==
  ASSUME NEW g \in Readings, NEW h, h = Qualified(g)
  PROVE  /\ h \in Readings /\ h.place = "dot" /\ (h.abroad <=> g.abroad \/ g.id # "own")
         /\ h.verb = g.verb /\ h.kind = g.kind /\ h.names = g.names /\ h.id = g.id
         /\ h.row = g.row /\ h.column = g.column
BY DEF Readings, Places, Qualified

(* A database is named. *)
LEMMA NamedDatabaseFields ==
  ASSUME NEW g \in Readings, NEW x, NEW h, h = NamedDatabase(g, x)
  PROVE  /\ h \in Readings /\ h.place = "ended" /\ (h.abroad <=> x # "own")
         /\ h.verb = g.verb /\ h.kind = g.kind /\ h.names = g.names /\ h.id = g.id
         /\ h.row = g.row /\ h.column = g.column
BY DEF Readings, Places, NamedDatabase

(* Only the place changes. *)
LEMMA PlaceFields ==
  ASSUME NEW g \in Readings, NEW p \in Places, NEW h, h = [g EXCEPT !.place = p]
  PROVE  /\ h \in Readings /\ h.place = p /\ h.abroad = g.abroad
         /\ h.verb = g.verb /\ h.kind = g.kind /\ h.names = g.names /\ h.id = g.id
         /\ h.row = g.row /\ h.column = g.column
BY DEF Readings

(* Only the name being read changes. *)
LEMMA IdFields ==
  ASSUME NEW g \in Readings, NEW x \in Atoms, NEW h, h = [g EXCEPT !.id = x]
  PROVE  /\ h \in Readings /\ h.place = g.place /\ h.abroad = g.abroad
         /\ h.verb = g.verb /\ h.kind = g.kind /\ h.names = g.names /\ h.id = x
         /\ h.row = g.row /\ h.column = g.column
BY DEF Readings

(* After a name the server reads on, to the next name where a list or a    *)
(* trigger's ON asks for one.                                              *)
LEMMA HearContinuation ==
  ASSUME NEW g \in Readings, NEW t \in Continuations(g), g.place \in {"named", "ended", "after"},
         NEW h, h = HearText(g, t.text, t.kind)
  PROVE  /\ h \in Readings
         /\ h.verb = g.verb /\ h.kind = g.kind /\ h.id = g.id /\ h.abroad = g.abroad
         /\ h.row = g.row /\ h.column = g.column
         /\ (h.place = "after" /\ h.names = g.names) \/ h.place = "name"
         /\ h.place = "name" /\ g.verb \notin {"DROP", "LOCK"} =>
              t.kind = "w" /\ t.text[1] = "ON" /\ g.kind = "TRIGGER" /\ g.names = 0 /\ h.names = 1
         /\ t.kind = "w" /\ t.text[1] = "ON" /\ g.kind = "TRIGGER" /\ g.names = 0 /\ g.verb = "CREATE" =>
              h.place = "name"
<1> DEFINE x == t.text[1]
<1>1. h = HearPart(g, x, t.kind)
  BY ContinuationForms, HearOne
<1>2. x # "."
  BY ContinuationForms
<1> HIDE DEF x
<1>3. h = After(g, x, t.kind)
  BY <1>1, <1>2 DEF HearPart
<1>4. CASE x = "comma" /\ g.verb \in {"DROP", "LOCK"}
  <2>1. h = NameNext(g, g.names + 1)
    BY <1>3, <1>4 DEF After
  <2>2. g.names + 1 \in Nat
    BY DEF Readings
  <2>3. x # "ON"
    BY <1>4
  <2>4. /\ h \in Readings /\ h.place = "name"
        /\ h.verb = g.verb /\ h.kind = g.kind /\ h.id = g.id /\ h.abroad = g.abroad
        /\ h.row = g.row /\ h.column = g.column
    BY <2>1, <2>2, NameNextFields
  <2> QED BY <1>4, <2>3, <2>4 DEF x
<1>5. CASE ~(x = "comma" /\ g.verb \in {"DROP", "LOCK"})
           /\ t.kind = "w" /\ x = "ON" /\ g.kind = "TRIGGER" /\ g.names = 0
  <2>1. h = NameNext(g, 1)
    BY <1>3, <1>5 DEF After
  <2>3. /\ h \in Readings /\ h.place = "name" /\ h.names = 1
        /\ h.verb = g.verb /\ h.kind = g.kind /\ h.id = g.id /\ h.abroad = g.abroad
        /\ h.row = g.row /\ h.column = g.column
    BY <2>1, NameNextFields
  <2> QED BY <1>5, <2>3 DEF x
<1>6. CASE ~(x = "comma" /\ g.verb \in {"DROP", "LOCK"})
           /\ ~(t.kind = "w" /\ x = "ON" /\ g.kind = "TRIGGER" /\ g.names = 0)
  <2>1. h = [g EXCEPT !.place = "after"]
    BY <1>3, <1>6 DEF After
  <2> QED BY <1>6, <2>1 DEF Readings, Places, x
<1> QED BY <1>4, <1>5, <1>6

(* The words before a name, and their tokens. *)
LEMMA BeforeNameForms ==
  ASSUME NEW g, NEW t \in BeforeName(g)
  PROVE  \/ g.verb = "INSERT" /\ g.id = "none" /\ t = W("INTO")
         \/ g.verb \notin {"INSERT", "LOCK"} /\ g.id = "none" /\ t = W("IF")
         \/ g.verb \notin {"INSERT", "LOCK"} /\ g.id = "IF" /\ t = W("EXISTS")
BY DEF BeforeName

(* The names a dump writes are tokens. *)
LEMMA NamesAreTokens ==
  /\ Plain \subseteq Atoms /\ "." \in Atoms
  /\ \A x \in Plain : W(x) \in Token /\ B(x) \in Token
  /\ \A x \in Plain : Word(<<x, ".">>) \in Token /\ Word(<<x, ".", "t">>) \in Token
  /\ W(".") \in Token /\ Word(<<".", "t">>) \in Token
<1>1. Plain \subseteq Atoms /\ "." \in Atoms /\ "t" \in Atoms
  BY DEF Plain, Atoms
<1>2. ASSUME NEW x \in Plain
      PROVE  W(x) \in Token /\ B(x) \in Token /\ Word(<<x, ".">>) \in Token /\ Word(<<x, ".", "t">>) \in Token
  <2>1. x \in Atoms
    BY <1>1
  <2>2. W(x) \in Token
    BY <2>1 DEF W, Token
  <2>3. B(x) \in Token
    BY <2>1 DEF B, Token
  <2>4. Word(<<x, ".">>) \in Token
    BY <1>1, <2>1 DEF Word, Token
  <2>5. Word(<<x, ".", "t">>) \in Token
    BY <1>1, <2>1 DEF Word, Token
  <2> QED BY <2>2, <2>3, <2>4, <2>5
<1>3. W(".") \in Token
  BY <1>1 DEF W, Token
<1>4. Word(<<".", "t">>) \in Token
  BY <1>1 DEF Word, Token
<1> QED BY <1>1, <1>2, <1>3, <1>4

(* A word before the name is remembered. *)
LEMMA HearBeforeName ==
  ASSUME NEW g \in Readings, NEW t \in BeforeName(g), g.place = "name",
         NEW h, h = HearText(g, t.text, t.kind)
  PROVE  /\ h \in Readings /\ h.place = "name" /\ h.abroad = g.abroad
         /\ h.verb = g.verb /\ h.kind = g.kind /\ h.names = g.names
         /\ h.row = g.row /\ h.column = g.column
         /\ t = W(h.id) /\ h.id \in {"INTO", "IF", "EXISTS"}
         /\ t \in Token
<1>1. PICK x \in {"INTO", "IF", "EXISTS"} : t = W(x)
  BY BeforeNameForms
<1>2. h = HearPart(g, x, "w")
  BY <1>1, HearOne DEF W
<1>3. h = [g EXCEPT !.id = x]
  <2>1. Precedes(x, "w")
    BY DEF Precedes, IfNotExists
  <2> QED BY <1>2, <2>1 DEF HearPart
<1>4. x \in Atoms
  BY DEF Atoms, IfNotExists
<1>5. W(x) \in Token
  BY <1>4 DEF W, Token
<1> QED BY <1>1, <1>3, <1>4, <1>5, IdFields

(* A name, or as much of it as one word holds. *)
LEMMA HearName ==
  ASSUME NEW g \in Readings, NEW t \in Names, g.place = "name",
         NEW h, h = HearText(g, t.text, t.kind)
  PROVE  /\ h \in Readings /\ h.id = t.text[1] /\ h.id \in Plain
         /\ h.verb = g.verb /\ h.kind = g.kind /\ h.names = g.names
         /\ h.row = g.row /\ h.column = g.column
         /\ t \in Token
         /\ OneWord(t) => h.place = "named" /\ h.abroad = g.abroad /\ t.text = <<h.id>>
         /\ OpenWord(t) => h.place = "dot" /\ (h.abroad <=> g.abroad \/ h.id # "own")
         /\ ClosedWord(t) => h.place = "ended" /\ (h.abroad <=> g.abroad \/ h.id # "own")
<1>1. ASSUME NEW x \in Plain, NEW kind, NEW m, m = HearPart(g, x, kind)
      PROVE  m = Named(g, x) /\ x \in Atoms /\ x # "."
  <2>1. ~Precedes(x, kind)
    BY DEF Precedes, Plain, IfNotExists
  <2>2. m = Named(g, x)
    BY <1>1, <2>1 DEF HearPart
  <2> QED BY <2>2, NamesAreTokens DEF Plain
<1>2. CASE OneWord(t)
  <2>1. PICK x \in Plain : t = W(x) \/ t = B(x)
    BY <1>2 DEF OneWord
  <2>2. t.text = <<x>> /\ t.text[1] = x /\ t \in Token
    <3>1. W(x).text = <<x>> /\ B(x).text = <<x>> /\ <<x>>[1] = x
      BY DEF W, B
    <3> QED BY <2>1, <3>1, NamesAreTokens
  <2>3. h = Named(g, x) /\ x \in Atoms
    BY <1>1, <2>2, HearOne
  <2>4. ~OpenWord(t) /\ ~ClosedWord(t)
    BY <2>2 DEF OpenWord, ClosedWord, Word
  <2> QED BY <2>2, <2>3, <2>4, NamedFields
<1>3. CASE OpenWord(t)
  <2>1. PICK x \in {"own", "oth"} : t = Word(<<x, ".">>)
    BY <1>3 DEF OpenWord
  <2>2. t.text = <<x, ".">> /\ t.text[1] = x /\ t \in Token /\ x \in Plain
    BY <2>1, NamesAreTokens DEF Word, Plain
  <2> DEFINE m == HearPart(g, x, t.kind)
  <2>3. m = Named(g, x) /\ x \in Atoms
    BY <1>1, <2>2
  <2>4. h = HearPart(m, ".", t.kind)
    BY <2>2, HearTwo
  <2> HIDE DEF m
  <2>5. /\ m \in Readings /\ m.place = "named" /\ m.id = x
        /\ m.verb = g.verb /\ m.kind = g.kind /\ m.names = g.names /\ m.abroad = g.abroad
        /\ m.row = g.row /\ m.column = g.column
    BY <2>3, NamedFields
  <2>6. h = Qualified(m)
    BY <2>4, <2>5 DEF HearPart
  <2>7. ~OneWord(t) /\ ~ClosedWord(t)
    BY <2>2 DEF OneWord, ClosedWord, Word, W, B
  <2> QED BY <2>2, <2>5, <2>6, <2>7, QualifiedFields
<1>4. CASE ClosedWord(t)
  <2>1. PICK x \in {"own", "oth"} : t = Word(<<x, ".", "t">>)
    BY <1>4 DEF ClosedWord
  <2>2. t.text = <<x, ".", "t">> /\ t.text[1] = x /\ t \in Token /\ x \in Plain
    BY <2>1, NamesAreTokens DEF Word, Plain
  <2> DEFINE m == HearPart(g, x, t.kind)
             k == HearPart(m, ".", t.kind)
  <2>3. m = Named(g, x) /\ x \in Atoms
    BY <1>1, <2>2
  <2>4. h = HearPart(k, "t", t.kind)
    BY <2>2, HearThree
  <2> HIDE DEF m
  <2>5. /\ m \in Readings /\ m.place = "named" /\ m.id = x
        /\ m.verb = g.verb /\ m.kind = g.kind /\ m.names = g.names /\ m.abroad = g.abroad
        /\ m.row = g.row /\ m.column = g.column
    BY <2>3, NamedFields
  <2>6. k = Qualified(m)
    BY <2>5 DEF HearPart
  <2> HIDE DEF k
  <2>7. /\ k \in Readings /\ k.place = "dot" /\ (k.abroad <=> m.abroad \/ x # "own")
        /\ k.verb = m.verb /\ k.kind = m.kind /\ k.names = m.names /\ k.id = x
        /\ k.row = m.row /\ k.column = m.column
    BY <2>5, <2>6, QualifiedFields
  <2>8. h = [k EXCEPT !.place = "ended"]
    BY <2>4, <2>7 DEF HearPart
  <2>9. "ended" \in Places
    BY DEF Places
  <2>10. /\ h \in Readings /\ h.place = "ended" /\ h.abroad = k.abroad
         /\ h.verb = k.verb /\ h.kind = k.kind /\ h.names = k.names /\ h.id = k.id
         /\ h.row = k.row /\ h.column = k.column
    BY <2>7, <2>8, <2>9, PlaceFields
  <2>11. ~OneWord(t) /\ ~OpenWord(t)
    BY <2>2 DEF OneWord, OpenWord, Word, W, B
  <2> QED BY <2>2, <2>5, <2>7, <2>10, <2>11
<1> QED BY <1>2, <1>3, <1>4, NameForms

(* A dot after a name, and what comes after a dot. *)
LEMMA HearDot ==
  ASSUME NEW g \in Readings, NEW t \in {Word(<<".">>), Word(<<".", "t">>)}, g.place = "named",
         NEW h, h = HearText(g, t.text, t.kind)
  PROVE  /\ h \in Readings /\ (h.abroad <=> g.abroad \/ g.id # "own")
         /\ h.verb = g.verb /\ h.kind = g.kind /\ h.names = g.names /\ h.id = g.id
         /\ h.row = g.row /\ h.column = g.column
         /\ t \in Token
         /\ t = Word(<<".">>) => h.place = "dot"
         /\ t = Word(<<".", "t">>) => h.place = "ended"
<1> DEFINE k == HearPart(g, ".", t.kind)
<1>1. k = Qualified(g)
  BY DEF HearPart
<1> HIDE DEF k
<1>2. /\ k \in Readings /\ k.place = "dot" /\ (k.abroad <=> g.abroad \/ g.id # "own")
      /\ k.verb = g.verb /\ k.kind = g.kind /\ k.names = g.names /\ k.id = g.id
      /\ k.row = g.row /\ k.column = g.column
  BY <1>1, QualifiedFields
<1>3. CASE t = Word(<<".">>)
  <2>1. t.text = <<".">> /\ t # Word(<<".", "t">>)
    BY <1>3 DEF Word
  <2>2. h = k
    BY <2>1, HearOne DEF k
  <2>3. t \in Token
    BY <1>3, NamesAreTokens DEF W, Word
  <2> QED BY <1>2, <1>3, <2>1, <2>2, <2>3
<1>4. CASE t = Word(<<".", "t">>)
  <2>1. t.text = <<".", "t">> /\ t # Word(<<".">>)
    BY <1>4 DEF Word
  <2>2. h = HearPart(k, "t", t.kind)
    BY <2>1, HearTwo DEF k
  <2>3. h = [k EXCEPT !.place = "ended"]
    BY <1>2, <2>2 DEF HearPart
  <2>4. "ended" \in Places
    BY DEF Places
  <2>5. /\ h \in Readings /\ h.place = "ended" /\ h.abroad = k.abroad
        /\ h.verb = k.verb /\ h.kind = k.kind /\ h.names = k.names /\ h.id = k.id
        /\ h.row = k.row /\ h.column = k.column
    BY <1>2, <2>3, <2>4, PlaceFields
  <2>6. t \in Token
    BY <1>4, NamesAreTokens
  <2> QED BY <1>2, <1>4, <2>1, <2>5, <2>6
<1> QED BY <1>3, <1>4

(* The name after a dot ends the qualified name. *)
LEMMA HearAfterDot ==
  ASSUME NEW g \in Readings, NEW t \in {W("t"), B("t")}, g.place = "dot",
         NEW h, h = HearText(g, t.text, t.kind)
  PROVE  /\ h \in Readings /\ h.place = "ended" /\ h.abroad = g.abroad
         /\ h.verb = g.verb /\ h.kind = g.kind /\ h.names = g.names /\ h.id = g.id
         /\ h.row = g.row /\ h.column = g.column
         /\ t \in Token /\ ~Dotted(t)
<1>1. t.text = <<"t">> /\ "t" \in Plain
  BY DEF W, B, Plain
<1>2. h = HearPart(g, "t", t.kind)
  BY <1>1, HearOne
<1>3. h = [g EXCEPT !.place = "ended"]
  BY <1>2 DEF HearPart
<1>4. "ended" \in Places
  BY DEF Places
<1>5. t \in Token /\ ~Dotted(t)
  BY <1>1, NamesAreTokens DEF Dotted
<1> QED BY <1>3, <1>4, <1>5, PlaceFields
----------------------------------------------------------------------------
(* The name at n has been read as far as place says: id is the name or the *)
(* qualifier before the dot.                                               *)
Spelled(T, n, place, id) ==
  /\ n \in 1 .. Len(T)
  /\ OneWord(T[n]) \/ OpenWord(T[n]) \/ ClosedWord(T[n])
  /\ place = "named" => Len(T) = n /\ OneWord(T[n]) /\ T[n].text = <<id>>
  /\ place = "dot" =>
       \/ Len(T) = n /\ OpenWord(T[n])
       \/ Len(T) = n + 1 /\ OneWord(T[n]) /\ T[n + 1] = W(".")
  /\ place = "ended" =>
       \/ Len(T) = n /\ ClosedWord(T[n])
       \/ Len(T) = n + 1 /\ OneWord(T[n]) /\ T[n + 1] = Word(<<".", "t">>)
       \/ Len(T) = n + 1 /\ OpenWord(T[n])
       \/ Len(T) = n + 2 /\ OneWord(T[n]) /\ T[n + 1] = W(".")
  /\ place = "after" => NameEnd(T, n) <= Len(T)

(* The check sees the same name. *)
LEMMA SpelledEnd ==
  ASSUME NEW T \in Seq(Token), NEW n, NEW place, NEW id, Spelled(T, n, place, id)
  PROVE  /\ place \in {"named", "ended"} => NameEnd(T, n) = Len(T) + 1
         /\ place = "dot" => NameEnd(T, n) = Len(T) + 2
         /\ place = "after" => NameEnd(T, n) <= Len(T)
         /\ NameEnd(T, n) \in Nat /\ NameEnd(T, n) > n
         /\ ~DotFirst(T, n)
<1>1. n \in 1 .. Len(T) /\ n \in Nat /\ Len(T) \in Nat
  BY DEF Spelled
<1>2. ~DotFirst(T, n)
  BY <1>1, OneWordName, DottedWordName DEF Spelled
<1>3. NameEnd(T, n) \in Nat /\ NameEnd(T, n) > n
  BY <1>1 DEF NameEnd
<1>4. CASE place = "named"
  BY <1>1, <1>2, <1>3, <1>4, OneWordEnd DEF Spelled
<1>5. CASE place = "dot"
  BY <1>1, <1>2, <1>3, <1>5, OneWordEnd, DottedWordName DEF Spelled
<1>6. CASE place = "ended"
  <2>1. CASE Len(T) = n /\ ClosedWord(T[n])
    BY <1>1, <1>2, <1>3, <1>6, <2>1, DottedWordName
  <2>2. CASE Len(T) = n + 1 /\ OneWord(T[n]) /\ T[n + 1] = Word(<<".", "t">>)
    BY <1>1, <1>2, <1>3, <1>6, <2>2, OneWordEnd
  <2>3. CASE Len(T) = n + 1 /\ OpenWord(T[n])
    BY <1>1, <1>2, <1>3, <1>6, <2>3, DottedWordName
  <2>4. CASE Len(T) = n + 2 /\ OneWord(T[n]) /\ T[n + 1] = W(".")
    BY <1>1, <1>2, <1>3, <1>6, <2>4, OneWordEnd
  <2> QED BY <1>6, <2>1, <2>2, <2>3, <2>4 DEF Spelled
<1>7. CASE place \notin {"named", "dot", "ended"}
  BY <1>2, <1>3, <1>7 DEF Spelled
<1> QED BY <1>4, <1>5, <1>6, <1>7

(* What one more token adds to a head. *)
LEMMA Appended ==
  ASSUME NEW T \in Seq(Token), NEW t \in Token
  PROVE  /\ Append(T, t) \in Seq(Token) /\ Len(Append(T, t)) = Len(T) + 1 /\ Len(T) \in Nat
         /\ \A i \in 1 .. Len(T) : Append(T, t)[i] = T[i]
         /\ Append(T, t)[Len(T) + 1] = t
OBVIOUS

(* What follows a name and is no dot does not change it. *)
LEMMA SameName ==
  ASSUME NEW T \in Seq(Token), NEW t \in Token, NEW n \in 1 .. Len(T),
         OneWord(T[n]) \/ OpenWord(T[n]) \/ ClosedWord(T[n]),
         n = Len(T) => ~Dotted(t)
  PROVE  /\ NameEnd(Append(T, t), n) = NameEnd(T, n)
         /\ CheckQualifier(Append(T, t), n) <=> CheckQualifier(T, n)
<1> DEFINE A == Append(T, t)
<1>1. /\ A \in Seq(Token) /\ Len(A) = Len(T) + 1 /\ Len(T) \in Nat
      /\ \A i \in 1 .. Len(T) : A[i] = T[i]
      /\ A[Len(T) + 1] = t
  BY Appended
<1> HIDE DEF A
<1>2. A[n] = T[n] /\ n \in Nat
  BY <1>1
<1>3. DotFirst(A, n + 1) <=> DotFirst(T, n + 1)
  <2>1. CASE n < Len(T)
    BY <1>1, <2>1 DEF DotFirst
  <2>2. CASE n = Len(T)
    BY <1>1, <2>2 DEF DotFirst, Dotted
  <2> QED BY <1>1, <2>1, <2>2
<1>4. Is(A, n + 1, {"."}) <=> Is(T, n + 1, {"."})
  <2>1. CASE n < Len(T)
    BY <1>1, <2>1 DEF Is
  <2>2. CASE n = Len(T)
    <3>1. \A X \in Seq(Token) : Is(X, n + 1, {"."}) => DotFirst(X, n + 1)
      BY DEF Is, DotFirst
    <3> QED BY <1>1, <1>3, <2>2, <3>1 DEF DotFirst, Dotted
  <2> QED BY <1>1, <2>1, <2>2
<1>5. DotLast(A, n) <=> DotLast(T, n)
  BY <1>2 DEF DotLast
<1>6. NameEnd(A, n) = NameEnd(T, n)
  BY <1>3, <1>4, <1>5 DEF NameEnd
<1>7. CheckQualifier(A, n) <=> CheckQualifier(T, n)
  BY <1>2, <1>3 DEF CheckQualifier
<1> QED BY <1>6, <1>7 DEF A

(* A name starts. *)
LEMMA NameStarts ==
  ASSUME NEW g \in Readings, NEW T \in Seq(Token), NEW t \in Names, g.place = "name",
         NEW h, h = HearText(g, t.text, t.kind)
  PROVE  /\ Spelled(Append(T, t), Len(T) + 1, h.place, h.id)
         /\ h.abroad <=> g.abroad \/ ~CheckQualifier(Append(T, t), Len(T) + 1)
         /\ h.place \in {"named", "dot", "ended"}
<1> DEFINE A == Append(T, t)
           n == Len(T) + 1
<1>1. /\ h.id = t.text[1] /\ t \in Token
      /\ OneWord(t) => h.place = "named" /\ h.abroad = g.abroad /\ t.text = <<h.id>>
      /\ OpenWord(t) => h.place = "dot" /\ (h.abroad <=> g.abroad \/ h.id # "own")
      /\ ClosedWord(t) => h.place = "ended" /\ (h.abroad <=> g.abroad \/ h.id # "own")
  BY HearName
<1>2. A \in Seq(Token) /\ Len(A) = n /\ n \in 1 .. Len(A) /\ A[n] = t
  BY <1>1, Appended
<1> HIDE DEF A, n
<1>3. CASE OneWord(t)
  <2>1. CheckQualifier(A, n)
    BY <1>2, <1>3, OneWordName
  <2>2. Spelled(A, n, "named", h.id)
    BY <1>1, <1>2, <1>3 DEF Spelled
  <2> QED BY <1>1, <1>3, <2>1, <2>2 DEF A, n
<1>4. CASE OpenWord(t)
  <2>1. CheckQualifier(A, n) <=> h.id = "own"
    BY <1>1, <1>2, <1>4, DottedWordName
  <2>2. Spelled(A, n, "dot", h.id)
    BY <1>1, <1>2, <1>4 DEF Spelled
  <2> QED BY <1>1, <1>4, <2>1, <2>2 DEF A, n
<1>5. CASE ClosedWord(t)
  <2>1. CheckQualifier(A, n) <=> h.id = "own"
    BY <1>1, <1>2, <1>5, DottedWordName
  <2>2. Spelled(A, n, "ended", h.id)
    BY <1>1, <1>2, <1>5 DEF Spelled
  <2> QED BY <1>1, <1>5, <2>1, <2>2 DEF A, n
<1> QED BY <1>3, <1>4, <1>5, NameForms

(* What comes at the places of a name. *)
LEMMA TokensAfterName ==
  ASSUME NEW g, NEW t \in Tokens(g), g.place \in {"named", "dot", "ended", "after"}
  PROVE  /\ g.place = "dot" => t \in {W("t"), B("t")}
         /\ g.place = "named" => t \in {Word(<<".">>), Word(<<".", "t">>)} \cup Continuations(g)
         /\ g.place \in {"ended", "after"} => t \in Continuations(g)
<1>1. CASE g.place = "dot"
  BY <1>1 DEF Tokens
<1>2. CASE g.place = "named"
  BY <1>2 DEF Tokens
<1>3. CASE g.place \in {"ended", "after"}
  BY <1>3 DEF Tokens
<1> QED BY <1>1, <1>2, <1>3

(* How a name goes on; Same says that nothing but its place changes. *)
Same(g, h) ==
  /\ h.verb = g.verb /\ h.kind = g.kind /\ h.id = g.id
  /\ h.row = g.row /\ h.column = g.column

(* The next token of a name that has begun: it is spelled on, or done. *)
LEMMA NameGoesOn ==
  ASSUME NEW g \in Readings, NEW T \in Seq(Token), NEW n, NEW t \in Tokens(g),
         g.place \in {"named", "dot", "ended", "after"}, Spelled(T, n, g.place, g.id),
         NEW h, h = HearText(g, t.text, t.kind)
  PROVE  /\ h \in Readings /\ t \in Token /\ Same(g, h)
         /\ h.place # "name" => h.names = g.names /\ Spelled(Append(T, t), n, h.place, h.id)
         /\ h.place \in {"name", "after"} =>
              /\ g.place # "dot" /\ t \in Continuations(g)
              /\ Spelled(Append(T, t), n, "after", h.id)
              /\ NameEnd(Append(T, t), n) = NameEnd(T, n)
         /\ h.place \in {"name", "dot", "ended", "after"}
         /\ \/ /\ CheckQualifier(Append(T, t), n) <=> CheckQualifier(T, n)
               /\ h.abroad = g.abroad
            \/ /\ CheckQualifier(T, n) /\ n = Len(T)
               /\ h.abroad <=> g.abroad \/ ~CheckQualifier(Append(T, t), n)
<1> DEFINE A == Append(T, t)
<1>0. n \in 1 .. Len(T) /\ n \in Nat /\ Len(T) \in Nat
  BY DEF Spelled
<1>1. CASE g.place = "dot"
  <2>1. t \in {W("t"), B("t")}
    BY <1>1, TokensAfterName
  <2>2. /\ h \in Readings /\ h.place = "ended" /\ h.abroad = g.abroad
        /\ h.verb = g.verb /\ h.kind = g.kind /\ h.names = g.names /\ h.id = g.id
        /\ h.row = g.row /\ h.column = g.column
        /\ t \in Token /\ ~Dotted(t)
    BY <1>1, <2>1, HearAfterDot
  <2>3. /\ A \in Seq(Token) /\ Len(A) = Len(T) + 1
        /\ \A i \in 1 .. Len(T) : A[i] = T[i]
    BY <2>2, Appended
  <2>4. CheckQualifier(A, n) <=> CheckQualifier(T, n)
    BY <1>0, <2>2, SameName DEF Spelled
  <2> HIDE DEF A
  <2>5. A[n] = T[n] /\ (n + 1 <= Len(T) => A[n + 1] = T[n + 1])
    BY <1>0, <2>3
  <2>6. Spelled(A, n, "ended", h.id)
    BY <1>0, <1>1, <2>3, <2>5 DEF Spelled
  <2> QED BY <1>1, <2>2, <2>4, <2>6 DEF A, Same
<1>2. CASE g.place # "dot" /\ t \in Continuations(g)
  <2>1. /\ h \in Readings
        /\ h.verb = g.verb /\ h.kind = g.kind /\ h.id = g.id /\ h.abroad = g.abroad
        /\ h.row = g.row /\ h.column = g.column
        /\ (h.place = "after" /\ h.names = g.names) \/ h.place = "name"
    BY <1>2, HearContinuation
  <2>2. t \in Token /\ ~Dotted(t)
    BY <1>2, ContinuationForms
  <2>3. A \in Seq(Token) /\ Len(A) = Len(T) + 1 /\ \A i \in 1 .. Len(T) : A[i] = T[i]
    BY <2>2, Appended
  <2>4. NameEnd(A, n) = NameEnd(T, n) /\ (CheckQualifier(A, n) <=> CheckQualifier(T, n))
    BY <1>0, <2>2, SameName DEF Spelled
  <2>5. NameEnd(T, n) <= Len(T) + 1 /\ NameEnd(T, n) \in Nat
    <3>1. g.place \in {"named", "ended"} => NameEnd(T, n) = Len(T) + 1
      BY SpelledEnd
    <3>2. g.place = "after" => NameEnd(T, n) <= Len(T)
      BY SpelledEnd
    <3>3. NameEnd(T, n) \in Nat
      BY SpelledEnd
    <3> QED BY <1>0, <1>2, <3>1, <3>2, <3>3
  <2> HIDE DEF A
  <2>6. Spelled(A, n, "after", h.id)
    BY <1>0, <2>3, <2>4, <2>5 DEF Spelled
  <2> QED BY <1>2, <2>1, <2>2, <2>4, <2>6 DEF A, Same
<1>3. CASE g.place # "dot" /\ t \notin Continuations(g)
  <2>1. g.place = "named" /\ t \in {Word(<<".">>), Word(<<".", "t">>)}
    BY <1>3, TokensAfterName
  <2>2. /\ h \in Readings /\ (h.abroad <=> g.abroad \/ g.id # "own")
        /\ h.verb = g.verb /\ h.kind = g.kind /\ h.names = g.names /\ h.id = g.id
        /\ h.row = g.row /\ h.column = g.column
        /\ t \in Token
        /\ t = Word(<<".">>) => h.place = "dot"
        /\ t = Word(<<".", "t">>) => h.place = "ended"
    BY <2>1, HearDot
  <2>3. A \in Seq(Token) /\ Len(A) = Len(T) + 1 /\ A[Len(T) + 1] = t /\ \A i \in 1 .. Len(T) : A[i] = T[i]
    BY <2>2, Appended
  <2> HIDE DEF A
  <2>4. Len(T) = n /\ OneWord(T[n]) /\ T[n].text = <<g.id>>
    BY <2>1 DEF Spelled
  <2>5. A[n] = T[n] /\ A[n + 1] = t /\ Len(A) = n + 1
    BY <1>0, <2>3, <2>4
  <2>6. CheckQualifier(T, n)
    BY <1>0, <2>4, OneWordName
  <2>7. CheckQualifier(A, n) <=> g.id = "own"
    <3>1. Dotted(t)
      BY <2>1 DEF Dotted, Word
    <3>2. n \in 1 .. Len(A) /\ n < Len(A) /\ OneWord(A[n]) /\ A[n].text[1] = g.id
      BY <1>0, <2>4, <2>5
    <3> QED BY <2>3, <2>5, <3>1, <3>2, OneWordName
  <2>8. Spelled(A, n, h.place, h.id) /\ h.place \in {"dot", "ended"}
    <3>1. CASE t = Word(<<".">>)
      BY <1>0, <2>2, <2>4, <2>5, <3>1 DEF Spelled, W, Word
    <3>2. CASE t = Word(<<".", "t">>)
      BY <1>0, <2>2, <2>4, <2>5, <3>2 DEF Spelled
    <3> QED BY <2>1, <3>1, <3>2
  <2> QED BY <1>3, <2>2, <2>4, <2>6, <2>7, <2>8 DEF A, Same
<1> QED BY <1>1, <1>2, <1>3
----------------------------------------------------------------------------
(* What checkHead finds in the tokens of a head.                           *)

(* SkipWords stops at the first token that is none of the words. *)
LEMMA SkipTo ==
  ASSUME NEW T \in Seq(Token), NEW words, NEW a \in Nat, NEW j \in a .. Len(T) + 1,
         \A k \in a .. j - 1 : Is(T, k, words), ~Is(T, j, words)
  PROVE  SkipWords(T, a, words) = j
<1> DEFINE Skips(m) == (\A k \in a .. m - 1 : Is(T, k, words)) /\ ~Is(T, m, words)
<1>1. j \in Nat /\ Len(T) \in Nat
  OBVIOUS
<1>2. ASSUME NEW m \in a .. Len(T) + 1, Skips(m) PROVE m = j
  <2>1. m < j => m \in a .. j - 1
    OBVIOUS
  <2>2. j < m => j \in a .. m - 1
    OBVIOUS
  <2> QED BY <1>2, <2>1, <2>2
<1>3. Skips(j)
  OBVIOUS
<1> HIDE DEF Skips
<1>4. (CHOOSE m \in a .. Len(T) + 1 : Skips(m)) = j
  BY <1>2, <1>3
<1> QED BY <1>4 DEF SkipWords, Skips

(* KindAt finds the first word that is no modifier. *)
LEMMA KindFound ==
  ASSUME NEW T \in Seq(Token), NEW k \in 2 .. Len(T),
         \A i \in 2 .. k - 1 : T[i] = W("DEFINER"),
         T[k].kind = "w", ~Is(T, k, Modifiers)
  PROVE  KindAt(T) = k
<1> DEFINE ks == {i \in 2 .. Len(T) : T[i].kind = "w" /\ ~Is(T, i, Modifiers)}
<1>1. \A i \in 2 .. k - 1 : Is(T, i, Modifiers)
  BY DEF Is, W, Modifiers
<1>2. k \in ks /\ \A i \in ks : k <= i
  BY <1>1
<1>3. \A m \in ks : (\A i \in ks : m <= i) => m = k
  BY <1>2
<1> HIDE DEF ks
<1>4. ks # {} /\ (CHOOSE m \in ks : \A i \in ks : m <= i) = k
  BY <1>2, <1>3
<1> QED BY <1>4 DEF KindAt, ks

(* While there are only modifiers it finds nothing. *)
LEMMA KindToCome ==
  ASSUME NEW T \in Seq(Token), \A i \in 2 .. Len(T) : T[i] = W("DEFINER")
  PROVE  KindAt(T) = 0
<1>1. \A i \in 2 .. Len(T) : Is(T, i, Modifiers)
  BY DEF Is, W, Modifiers
<1> QED BY <1>1 DEF KindAt

(* checkHead goes by the first word. *)
LEMMA HeadByVerb ==
  ASSUME NEW T \in Seq(Token), NEW v, Len(T) >= 1, T[1] = W(v), NEW final \in BOOLEAN
  PROVE  /\ \A words : Is(T, 1, words) <=> v \in words
         /\ v = "COMMIT" => CheckHead(T, final) = "yes"
         /\ v \in {"LOCK", "UNLOCK"} => CheckHead(T, final) = CheckLock(T, final)
         /\ v = "USE" =>
              CheckHead(T, final) = IF Len(T) < 2 THEN More(final) ELSE YesIf(CheckName(T[2]))
         /\ v \in {"CREATE", "DROP", "ALTER"} => CheckHead(T, final) = CheckDDL(T, final)
         /\ v \notin {"COMMIT", "INSERT", "LOCK", "UNLOCK", "USE", "CREATE", "DROP", "ALTER"} =>
              CheckHead(T, final) = "refuse"
<1>1. \A words : Is(T, 1, words) <=> v \in words
  BY DEF Is, W
<1>2. CASE v = "COMMIT"
  BY <1>1, <1>2 DEF CheckHead
<1>3. CASE v \in {"LOCK", "UNLOCK"}
  BY <1>1, <1>3 DEF CheckHead
<1>4. CASE v \in {"CREATE", "DROP", "ALTER"}
  BY <1>1, <1>4 DEF CheckHead
<1>5. CASE v \notin {"COMMIT", "INSERT", "LOCK", "UNLOCK", "USE", "CREATE", "DROP", "ALTER"}
  BY <1>1, <1>5 DEF CheckHead
<1>6. CASE v = "USE"
  BY <1>1, <1>6 DEF CheckHead
<1> QED BY <1>1, <1>2, <1>3, <1>4, <1>5, <1>6

(* A name is none of the words around it. *)
LEMMA NameIsNoWord ==
  ASSUME NEW T \in Seq(Token), NEW n \in 1 .. Len(T), NEW words, words \cap Plain = {},
         OneWord(T[n]) \/ OpenWord(T[n]) \/ ClosedWord(T[n])
  PROVE  ~Is(T, n, words)
<1>1. CASE OneWord(T[n])
  BY <1>1, OneWordName DEF Is
<1>2. CASE OpenWord(T[n])
  <2>1. PICK x \in {"own", "oth"} : T[n] = Word(<<x, ".">>)
    BY <1>2 DEF OpenWord
  <2>2. Len(T[n].text) = 2
    BY <2>1 DEF Word
  <2> QED BY <2>2 DEF Is
<1>3. CASE ClosedWord(T[n])
  <2>1. PICK x \in {"own", "oth"} : T[n] = Word(<<x, ".", "t">>)
    BY <1>3 DEF ClosedWord
  <2>2. Len(T[n].text) = 3
    BY <2>1 DEF Word
  <2> QED BY <2>2 DEF Is
<1> QED BY <1>1, <1>2, <1>3

(* What checkObjectName says of the name at j. *)
LEMMA ObjectNameSays ==
  ASSUME NEW T \in Seq(Token), NEW i \in Nat \ {0}, NEW j \in i .. Len(T) + 1,
         \A k \in i .. j - 1 : Is(T, k, IfNotExists), NEW final \in BOOLEAN
  PROVE  /\ j = Len(T) + 1 => CheckObjectName(T, i, final) = IF final THEN "refuse" ELSE "more"
         /\ \A place, id :
              Spelled(T, j, place, id) /\ place \in {"named", "dot", "ended", "after"} =>
                CheckObjectName(T, i, final) =
                  IF ~final /\ j = Len(T) THEN "more"
                  ELSE IF ~CheckQualifier(T, j) THEN "refuse"
                  ELSE IF place = "dot" \/ (place # "after" /\ ~final) THEN "more" ELSE "yes"
<1>0. Len(T) \in Nat /\ j \in Nat
  OBVIOUS
<1>1. CASE j = Len(T) + 1
  <2>1. ~Is(T, j, IfNotExists)
    BY <1>0, <1>1 DEF Is
  <2>2. SkipWords(T, i, IfNotExists) = j
    BY <2>1, SkipTo
  <2>3. CheckObjectName(T, i, final) = More(final)
    BY <1>0, <1>1, <2>2 DEF CheckObjectName
  <2>4. \A place, id : ~Spelled(T, j, place, id)
    BY <1>0, <1>1 DEF Spelled
  <2> QED BY <2>3, <2>4 DEF More
<1>2. CASE j # Len(T) + 1
  <2> SUFFICES ASSUME NEW place, NEW id,
                      Spelled(T, j, place, id), place \in {"named", "dot", "ended", "after"}
               PROVE  CheckObjectName(T, i, final) =
                  IF ~final /\ j = Len(T) THEN "more"
                  ELSE IF ~CheckQualifier(T, j) THEN "refuse"
                  ELSE IF place = "dot" \/ (place # "after" /\ ~final) THEN "more" ELSE "yes"
    BY <1>2
  <2>1. j \in 1 .. Len(T) /\ ~Is(T, j, IfNotExists)
    <3>1. IfNotExists \cap Plain = {}
      BY DEF IfNotExists, Plain
    <3> QED BY <3>1, NameIsNoWord DEF Spelled
  <2>2. SkipWords(T, i, IfNotExists) = j
    BY <2>1, SkipTo
  <2>3. /\ place \in {"named", "ended"} => NameEnd(T, j) = Len(T) + 1
        /\ place = "dot" => NameEnd(T, j) = Len(T) + 2
        /\ place = "after" => NameEnd(T, j) <= Len(T)
        /\ NameEnd(T, j) \in Nat /\ NameEnd(T, j) > j
    BY SpelledEnd
  <2>4. CASE ~final /\ j = Len(T)
    BY <1>0, <2>2, <2>4 DEF CheckObjectName
  <2>5. CASE ~(~final /\ j = Len(T))
    <3>1. CheckObjectName(T, i, final) =
            IF ~CheckQualifier(T, j) THEN "refuse"
            ELSE IF NameEnd(T, j) > Len(T) + 1 \/ (NameEnd(T, j) = Len(T) + 1 /\ ~final)
                 THEN "more" ELSE "yes"
      BY <1>0, <2>1, <2>2, <2>5 DEF CheckObjectName
    <3> QED BY <1>0, <2>3, <2>5, <3>1
  <2> QED BY <2>4, <2>5
<1> QED BY <1>1, <1>2
----------------------------------------------------------------------------
(* INSERT: the words before the table, its name, and one token of the body *)
(* when the head is complete.                                              *)
InsertShape(T, g, j) ==
  /\ T[1] = W("INSERT") /\ g.verb = "INSERT" /\ g.kind = "none" /\ g.column = Default0
  /\ j \in 2 .. Len(T) + 1
  /\ \A i \in 2 .. j - 1 : T[i] = W("INTO")
  /\ \/ g.place = "name" /\ j = Len(T) + 1 /\ ~g.abroad /\ g.row = Rows0
     \/ /\ g.place \in {"named", "dot", "ended", "after"} /\ Spelled(T, j, g.place, g.id)
        /\ g.abroad <=> ~CheckQualifier(T, j)
        /\ IF g.place = "after"
           THEN NameEnd(T, j) = Len(T) /\ g.row = HearRow(Rows0, Lexeme(T[Len(T)]))
           ELSE g.row = Rows0

(* What checkHead says of the head of an INSERT. *)
LEMMA InsertSays ==
  ASSUME NEW T \in Seq(Token), NEW g \in Readings, NEW j, Len(T) >= 1, InsertShape(T, g, j),
         NEW final \in BOOLEAN
  PROVE  /\ InsertName(T) = j
         /\ CheckHead(T, final) =
              IF j = Len(T) + 1 THEN IF final THEN "refuse" ELSE "more"
              ELSE IF ~final /\ j = Len(T) THEN "more"
              ELSE IF ~CheckQualifier(T, j) THEN "refuse"
              ELSE IF g.place = "dot" \/ (g.place # "after" /\ ~final) THEN "more" ELSE "yes"
<1> DEFINE named == CheckObjectName(T, j, final)
<1>0. Len(T) \in Nat /\ j \in Nat \ {0} /\ j \in j .. Len(T) + 1 /\ j \in 2 .. Len(T) + 1
  BY DEF InsertShape
<1>1. ~Is(T, j, {"INTO"})
  <2>1. CASE j = Len(T) + 1
    BY <1>0, <2>1 DEF Is
  <2>2. CASE j # Len(T) + 1
    <3>1. {"INTO"} \cap Plain = {}
      BY DEF Plain
    <3>2. Spelled(T, j, g.place, g.id)
      BY <2>2 DEF InsertShape
    <3> QED BY <3>1, <3>2, NameIsNoWord DEF Spelled
  <2> QED BY <2>1, <2>2
<1>2. InsertName(T) = j
  <2>1. \A i \in 2 .. j - 1 : Is(T, i, {"INTO"})
    <3>1. \A i \in 2 .. j - 1 : T[i] = W("INTO") /\ i <= Len(T)
      BY <1>0 DEF InsertShape
    <3> QED BY <3>1 DEF Is, W
  <2> QED BY <1>0, <1>1, <2>1, SkipTo DEF InsertName
<1>3. CheckHead(T, final) =
        IF named = "yes" /\ (j > Len(T) \/ NameEnd(T, j) > Len(T) + 1) THEN More(final) ELSE named
  <2>1. \A words : Is(T, 1, words) <=> "INSERT" \in words
    BY HeadByVerb DEF InsertShape
  <2> QED BY <1>2, <2>1 DEF CheckHead
<1>4. \A k \in j .. j - 1 : Is(T, k, IfNotExists)
  BY <1>0
<1>5. CASE j = Len(T) + 1
  <2>1. named = IF final THEN "refuse" ELSE "more"
    BY <1>0, <1>4, <1>5, ObjectNameSays
  <2> QED BY <1>2, <1>3, <1>5, <2>1
<1>6. CASE j # Len(T) + 1
  <2>1. Spelled(T, j, g.place, g.id) /\ g.place \in {"named", "dot", "ended", "after"}
    BY <1>6 DEF InsertShape
  <2>2. named = IF ~final /\ j = Len(T) THEN "more"
                ELSE IF ~CheckQualifier(T, j) THEN "refuse"
                ELSE IF g.place = "dot" \/ (g.place # "after" /\ ~final) THEN "more" ELSE "yes"
    BY <1>0, <1>4, <2>1, ObjectNameSays
  <2>3. g.place # "dot" => NameEnd(T, j) <= Len(T) + 1
    BY <1>0, <2>1, SpelledEnd
  <2>4. j <= Len(T)
    BY <1>0, <1>6
  <2>5. NameEnd(T, j) \in Nat
    BY <2>1, SpelledEnd
  <2>6. named = "yes" => ~(j > Len(T) \/ NameEnd(T, j) > Len(T) + 1)
    BY <1>0, <2>2, <2>3, <2>4, <2>5
  <2> QED BY <1>2, <1>3, <1>6, <2>2, <2>6
<1> QED BY <1>5, <1>6

(* A token more keeps it in its shape. *)
LEMMA InsertGoesOn ==
  ASSUME NEW T \in Seq(Token), NEW g \in Readings, NEW j, Len(T) >= 1, InsertShape(T, g, j),
         CheckHead(T, FALSE) = "more", NEW t \in Tokens(g), NEW h, h = Hear(g, t)
  PROVE  t \in Token /\ \E k : InsertShape(Append(T, t), h, k)
<1> DEFINE A == Append(T, t)
           m == HearText(g, t.text, t.kind)
<1>0. Len(T) \in Nat /\ j \in Nat /\ T[1] = W("INSERT") /\ g.verb = "INSERT" /\ g.kind = "none"
  BY DEF InsertShape
<1>1. CASE g.place = "name"
  <2>1. j = Len(T) + 1 /\ ~g.abroad /\ g.row = Rows0 /\ g.column = Default0
    BY <1>1 DEF InsertShape, Spelled
  <2>2. t \in Names \/ t \in BeforeName(g)
    BY <1>1 DEF Tokens
  <2>3. CASE t \in BeforeName(g)
    <3>1. t = W("INTO")
      BY <1>0, <2>3, BeforeNameForms
    <3>2. /\ m \in Readings /\ m.place = "name" /\ m.abroad = g.abroad /\ t \in Token
          /\ m.verb = g.verb /\ m.kind = g.kind /\ m.row = g.row /\ m.column = g.column
      BY <1>1, <2>3, HearBeforeName
    <3> HIDE DEF m
    <3>3. /\ h.verb = m.verb /\ h.kind = m.kind /\ h.place = m.place /\ h.abroad = m.abroad
          /\ h.row = m.row /\ h.column = m.column
      BY <1>1, <3>2, HearFields DEF m
    <3>4. Len(A) = Len(T) + 1 /\ A[Len(T) + 1] = t /\ \A i \in 1 .. Len(T) : A[i] = T[i]
      BY <3>2, Appended
    <3> HIDE DEF A
    <3>5. \A i \in 2 .. (j + 1) - 1 : A[i] = W("INTO")
      BY <1>0, <2>1, <3>1, <3>4 DEF InsertShape
    <3>6. InsertShape(A, h, j + 1)
      BY <1>0, <2>1, <3>2, <3>3, <3>4, <3>5 DEF InsertShape
    <3> QED BY <3>2, <3>6 DEF A
  <2>4. CASE t \in Names
    <3>1. /\ m \in Readings /\ m.verb = g.verb /\ m.kind = g.kind
          /\ m.row = g.row /\ m.column = g.column /\ t \in Token
      BY <1>1, <2>4, HearName
    <3>2. /\ Spelled(A, Len(T) + 1, m.place, m.id)
          /\ m.abroad <=> g.abroad \/ ~CheckQualifier(A, Len(T) + 1)
          /\ m.place \in {"named", "dot", "ended"}
      BY <1>1, <2>4, NameStarts
    <3> HIDE DEF m
    <3>3. /\ h.verb = m.verb /\ h.kind = m.kind /\ h.place = m.place /\ h.abroad = m.abroad
          /\ h.id = m.id /\ h.row = m.row /\ h.column = m.column
      BY <1>1, <3>1, <3>2, HearFields DEF m
    <3>4. Len(A) = Len(T) + 1 /\ \A i \in 1 .. Len(T) : A[i] = T[i]
      BY <3>1, Appended
    <3> HIDE DEF A
    <3>5. \A i \in 2 .. j - 1 : A[i] = W("INTO")
      BY <1>0, <2>1, <3>4 DEF InsertShape
    <3>6. InsertShape(A, h, j)
      BY <1>0, <2>1, <3>1, <3>2, <3>3, <3>4, <3>5 DEF InsertShape
    <3> QED BY <3>1, <3>6 DEF A
  <2> QED BY <2>2, <2>3, <2>4
<1>2. CASE g.place # "name"
  <2>1. /\ g.place \in {"named", "dot", "ended", "after"} /\ Spelled(T, j, g.place, g.id)
        /\ g.abroad <=> ~CheckQualifier(T, j)
        /\ g.place # "after" => g.row = Rows0
        /\ g.column = Default0
    BY <1>2 DEF InsertShape
  <2>2. g.place # "after"
    <3>1. ASSUME g.place = "after" PROVE j # Len(T) /\ j # Len(T) + 1
      BY <1>0, <2>1, <3>1, SpelledEnd
    <3> QED BY <2>1, <3>1, InsertSays
  <2>3. /\ m \in Readings /\ t \in Token /\ Same(g, m)
        /\ m.place # "name" => m.names = g.names /\ Spelled(A, j, m.place, m.id)
        /\ m.place \in {"name", "after"} =>
             /\ g.place # "dot" /\ t \in Continuations(g)
             /\ Spelled(A, j, "after", m.id)
             /\ NameEnd(A, j) = NameEnd(T, j)
        /\ m.place \in {"name", "dot", "ended", "after"}
        /\ \/ /\ CheckQualifier(A, j) <=> CheckQualifier(T, j)
              /\ m.abroad = g.abroad
           \/ /\ CheckQualifier(T, j) /\ j = Len(T)
              /\ m.abroad <=> g.abroad \/ ~CheckQualifier(A, j)
    BY <2>1, NameGoesOn
  <2>4. m.place # "name"
    <3>1. ASSUME m.place = "name" PROVE FALSE
      <4>1. t \in Continuations(g) /\ g.place \in {"named", "ended", "after"}
        BY <2>1, <2>3, <3>1
      <4>2. g.kind = "TRIGGER"
        BY <1>0, <3>1, <4>1, HearContinuation
      <4> QED BY <1>0, <4>2
    <3> QED BY <3>1
  <2>5. m.place = "after" => NameEnd(A, j) = Len(T) + 1
    <3>1. g.place \in {"named", "ended"} => NameEnd(T, j) = Len(T) + 1
      BY <2>1, SpelledEnd
    <3> QED BY <2>1, <2>2, <2>3, <3>1
  <2> HIDE DEF m
  <2>6. /\ h.verb = m.verb /\ h.kind = m.kind /\ h.place = m.place /\ h.abroad = m.abroad
        /\ h.id = m.id /\ h.column = m.column
        /\ h.row = IF m.place = "after" THEN HearRow(m.row, Lexeme(t)) ELSE m.row
    BY <1>0, <1>2, <2>1, <2>3, HearFields DEF m, Same
  <2>7. Len(A) = Len(T) + 1 /\ A[Len(T) + 1] = t /\ \A i \in 1 .. Len(T) : A[i] = T[i]
    BY <2>3, Appended
  <2> HIDE DEF A
  <2>8. j \in 2 .. Len(A) + 1 /\ A[1] = W("INSERT") /\ \A i \in 2 .. j - 1 : A[i] = W("INTO")
    BY <1>0, <2>7 DEF InsertShape
  <2>9. h.abroad <=> ~CheckQualifier(A, j)
    BY <2>1, <2>3, <2>6
  <2>10. InsertShape(A, h, j)
    BY <1>0, <2>1, <2>2, <2>3, <2>4, <2>5, <2>6, <2>7, <2>8, <2>9 DEF InsertShape, Same
  <2> QED BY <2>3, <2>10 DEF A
<1> QED BY <1>1, <1>2
----------------------------------------------------------------------------
(* CREATE, DROP and ALTER.                                                 *)

(* The words up to the kind of the object. *)
Kinded(T, g, k) ==
  /\ k \in 2 .. Len(T)
  /\ \A i \in 2 .. k - 1 : T[i] = W("DEFINER")
  /\ T[k] = W(g.kind) /\ g.kind \in Objects \cup {"DATABASE"}

(* KindAt finds the kind of the object. *)
LEMMA KindedAt ==
  ASSUME NEW T \in Seq(Token), NEW g, NEW k, Kinded(T, g, k)
  PROVE  /\ KindAt(T) = k /\ k \in Nat /\ k # 0
         /\ \A words : Is(T, k, words) <=> g.kind \in words
<1>1. k \in 2 .. Len(T) /\ T[k] = W(g.kind)
  BY DEF Kinded
<1>2. \A words : Is(T, k, words) <=> g.kind \in words
  BY <1>1 DEF Is, W
<1>3. g.kind \notin Modifiers /\ T[k].kind = "w"
  BY <1>1 DEF Kinded, Modifiers, Objects, W
<1>4. KindAt(T) = k
  BY <1>1, <1>2, <1>3, KindFound DEF Kinded
<1> QED BY <1>1, <1>2, <1>4

(* It still does with a token more. *)
LEMMA KindedGrows ==
  ASSUME NEW T \in Seq(Token), NEW t \in Token, NEW g, NEW h, NEW k, Kinded(T, g, k),
         h.kind = g.kind
  PROVE  Kinded(Append(T, t), h, k)
<1> DEFINE A == Append(T, t)
<1>1. Len(A) = Len(T) + 1 /\ Len(T) \in Nat /\ \A i \in 1 .. Len(T) : A[i] = T[i]
  BY Appended
<1> HIDE DEF A
<1>2. Kinded(A, h, k)
  BY <1>1 DEF Kinded
<1> QED BY <1>2 DEF A

(* checkDDL goes by the verb and the kind. *)
LEMMA DDLSays ==
  ASSUME NEW T \in Seq(Token), NEW g, NEW k, Len(T) >= 1, T[1] = W(g.verb), Kinded(T, g, k),
         NEW final \in BOOLEAN
  PROVE  /\ g.verb = "DROP" /\ g.kind \in Objects =>
              CheckHead(T, final) = IF final THEN YesIf(CheckAllNames(T, k + 1)) ELSE "more"
         /\ g.verb = "ALTER" /\ g.kind = "TABLE" =>
              CheckHead(T, final) = CheckAlterTable(T, k + 1, final)
         /\ g.verb = "CREATE" /\ g.kind \in Objects =>
              CheckHead(T, final) =
                IF CheckObjectName(T, k + 1, final) = "yes" /\ g.kind = "TRIGGER"
                THEN CheckTriggerTable(T, k + 1, final) ELSE CheckObjectName(T, k + 1, final)
         /\ g.verb \in {"CREATE", "ALTER"} /\ g.kind = "DATABASE" =>
              CheckHead(T, final) = CheckDatabaseName(T, k + 1, final)
         /\ g.verb = "DROP" /\ g.kind = "DATABASE" => CheckHead(T, final) = "refuse"
         /\ g.verb = "ALTER" /\ g.kind \in {"VIEW", "TRIGGER"} => CheckHead(T, final) = "refuse"
<1>1. KindAt(T) = k /\ k # 0 /\ (\A words : Is(T, k, words) <=> g.kind \in words)
  BY KindedAt
<1>2. \A words : Is(T, 1, words) <=> g.verb \in words
  BY HeadByVerb
<1>3. g.verb \in {"CREATE", "DROP", "ALTER"} => CheckHead(T, final) = CheckDDL(T, final)
  BY HeadByVerb
<1>4. CASE g.verb = "DROP" /\ g.kind \in Objects
  BY <1>1, <1>2, <1>3, <1>4 DEF CheckDDL, Objects
<1>5. CASE g.verb = "ALTER" /\ g.kind = "TABLE"
  BY <1>1, <1>2, <1>3, <1>5 DEF CheckDDL, Objects
<1>6. CASE g.verb = "CREATE" /\ g.kind \in Objects
  BY <1>1, <1>2, <1>3, <1>6 DEF CheckDDL, Objects
<1>7. CASE g.verb \in {"CREATE", "ALTER"} /\ g.kind = "DATABASE"
  BY <1>1, <1>2, <1>3, <1>7 DEF CheckDDL, Objects
<1>8. CASE g.verb = "DROP" /\ g.kind = "DATABASE"
  BY <1>1, <1>2, <1>3, <1>8 DEF CheckDDL, Objects
<1>9. CASE g.verb = "ALTER" /\ g.kind \in {"VIEW", "TRIGGER"}
  BY <1>1, <1>2, <1>3, <1>9 DEF CheckDDL, Objects
<1> QED BY <1>4, <1>5, <1>6, <1>7, <1>8, <1>9 DEF Objects

(* A token t at the name at n, or after it, and what the server hears of it. *)
Goes(T, g, t, n, h) ==
  /\ t \in Token /\ h.verb = g.verb /\ h.kind = g.kind /\ h.id = g.id
  /\ h.place \in {"name", "dot", "ended", "after"}
  /\ h.place # "name" => h.names = g.names /\ Spelled(Append(T, t), n, h.place, h.id)
  /\ h.place \in {"name", "after"} =>
       /\ g.place # "dot" /\ t \in Continuations(g)
       /\ Spelled(Append(T, t), n, "after", h.id)
       /\ NameEnd(Append(T, t), n) = NameEnd(T, n)
  /\ h.place = "name" =>
       \/ g.verb \in {"DROP", "LOCK"}
       \/ t.kind = "w" /\ t.text[1] = "ON" /\ g.kind = "TRIGGER" /\ g.names = 0 /\ h.names = 1
  /\ t = W("ON") /\ g.kind = "TRIGGER" /\ g.names = 0 /\ g.verb = "CREATE" => h.place = "name"
  /\ \/ /\ CheckQualifier(Append(T, t), n) <=> CheckQualifier(T, n)
        /\ h.abroad = g.abroad
     \/ /\ CheckQualifier(T, n) /\ n = Len(T)
        /\ h.abroad <=> g.abroad \/ ~CheckQualifier(Append(T, t), n)
  /\ h.row = IF h.place = "after" /\ h.verb = "INSERT" THEN HearRow(g.row, Lexeme(t)) ELSE g.row
  /\ h.column = IF h.place = "after" /\ h.verb = "CREATE" /\ h.kind = "TABLE"
                THEN HearColumn(g.column, Lexeme(t)) ELSE g.column

(* NameGoesOn, for a whole token: the body is heard too. *)
LEMMA HeardGoesOn ==
  ASSUME NEW g \in Readings, NEW T \in Seq(Token), NEW n, NEW t \in Tokens(g),
         g.place \in {"named", "dot", "ended", "after"}, Spelled(T, n, g.place, g.id),
         NEW h, h = Hear(g, t)
  PROVE  Goes(T, g, t, n, h)
<1> DEFINE A == Append(T, t)
           m == HearText(g, t.text, t.kind)
<1>1. /\ m \in Readings /\ t \in Token /\ Same(g, m)
      /\ m.place # "name" => m.names = g.names /\ Spelled(A, n, m.place, m.id)
      /\ m.place \in {"name", "after"} =>
           /\ g.place # "dot" /\ t \in Continuations(g)
           /\ Spelled(A, n, "after", m.id)
           /\ NameEnd(A, n) = NameEnd(T, n)
      /\ m.place \in {"name", "dot", "ended", "after"}
      /\ \/ /\ CheckQualifier(A, n) <=> CheckQualifier(T, n)
            /\ m.abroad = g.abroad
         \/ /\ CheckQualifier(T, n) /\ n = Len(T)
            /\ m.abroad <=> g.abroad \/ ~CheckQualifier(A, n)
  <2>1. \A x : x = m =>
          /\ x \in Readings /\ t \in Token /\ Same(g, x)
          /\ x.place # "name" => x.names = g.names /\ Spelled(A, n, x.place, x.id)
          /\ x.place \in {"name", "after"} =>
               /\ g.place # "dot" /\ t \in Continuations(g)
               /\ Spelled(A, n, "after", x.id)
               /\ NameEnd(A, n) = NameEnd(T, n)
          /\ x.place \in {"name", "dot", "ended", "after"}
          /\ \/ /\ CheckQualifier(A, n) <=> CheckQualifier(T, n)
                /\ x.abroad = g.abroad
             \/ /\ CheckQualifier(T, n) /\ n = Len(T)
                /\ x.abroad <=> g.abroad \/ ~CheckQualifier(A, n)
    BY NameGoesOn
  <2> HIDE DEF m, A
  <2> QED BY <2>1
<1>2. m.place = "name" =>
        \/ g.verb \in {"DROP", "LOCK"}
        \/ t.kind = "w" /\ t.text[1] = "ON" /\ g.kind = "TRIGGER" /\ g.names = 0 /\ m.names = 1
  BY <1>1, HearContinuation
<1>6. t = W("ON") /\ g.kind = "TRIGGER" /\ g.names = 0 /\ g.verb = "CREATE" => m.place = "name"
  <2> SUFFICES ASSUME t = W("ON"), g.kind = "TRIGGER", g.names = 0, g.verb = "CREATE"
               PROVE  m.place = "name"
    OBVIOUS
  <2>1. t.kind = "w" /\ t.text[1] = "ON"
    BY DEF W
  <2>2. t \notin {W("t"), B("t"), Word(<<".">>), Word(<<".", "t">>)}
    BY <2>1 DEF W, B, Word
  <2>3. t \in Continuations(g) /\ g.place # "dot"
    BY <2>2, TokensAfterName
  <2> QED BY <2>1, <2>3, HearContinuation
<1> HIDE DEF m, A
<1>3. /\ h.verb = m.verb /\ h.kind = m.kind /\ h.place = m.place /\ h.id = m.id
      /\ h.names = m.names /\ h.abroad = m.abroad
      /\ h.row = IF m.place = "after" /\ m.verb = "INSERT" THEN HearRow(m.row, Lexeme(t)) ELSE m.row
      /\ h.column = IF m.place = "after" /\ m.verb = "CREATE" /\ m.kind = "TABLE"
                    THEN HearColumn(m.column, Lexeme(t)) ELSE m.column
  BY <1>1, HearFields DEF m
<1>4. /\ m.verb = g.verb /\ m.kind = g.kind /\ m.id = g.id
      /\ m.row = g.row /\ m.column = g.column
  BY <1>1 DEF Same
<1>5. \/ /\ CheckQualifier(A, n) <=> CheckQualifier(T, n)
         /\ h.abroad = g.abroad
      \/ /\ CheckQualifier(T, n) /\ n = Len(T)
         /\ h.abroad <=> g.abroad \/ ~CheckQualifier(A, n)
  BY <1>1, <1>3
<1> QED BY <1>1, <1>2, <1>3, <1>4, <1>5, <1>6 DEF A, Goes
----------------------------------------------------------------------------
(* CREATE: the words before the name, the name, one token of the body of a *)
(* table or a view, and for a trigger the tokens up to ON.                 *)
CreateShape(T, g, k, j) ==
  /\ T[1] = W("CREATE") /\ g.verb = "CREATE" /\ g.row = Rows0 /\ g.names = 0
  /\ Kinded(T, g, k) /\ g.kind \in Objects
  /\ j \in k + 1 .. Len(T) + 1
  /\ \A i \in k + 1 .. j - 1 : T[i] \in {W("IF"), W("EXISTS")}
  /\ \A i \in k + 2 .. Len(T) : g.kind = "TRIGGER" => ~Is(T, i, {"ON"})
  /\ \/ g.place = "name" /\ j = Len(T) + 1 /\ ~g.abroad /\ g.column = Default0
     \/ /\ g.place \in {"named", "dot", "ended", "after"} /\ Spelled(T, j, g.place, g.id)
        /\ g.id \in Plain
        /\ g.abroad <=> ~CheckQualifier(T, j)
        /\ g.place = "after" /\ g.kind # "TRIGGER" => NameEnd(T, j) = Len(T)
        /\ g.column = IF g.place = "after" /\ g.kind = "TABLE"
                      THEN HearColumn(Default0, Lexeme(T[Len(T)])) ELSE Default0

(* What checkHead says of the head of a CREATE. *)
LEMMA CreateSays ==
  ASSUME NEW T \in Seq(Token), NEW g \in Readings, NEW k, NEW j, Len(T) >= 1, CreateShape(T, g, k, j),
         NEW final \in BOOLEAN
  PROVE  /\ KindAt(T) = k
         /\ j <= Len(T) => SkipWords(T, k + 1, IfNotExists) = j
         /\ CheckHead(T, final) =
              IF j = Len(T) + 1 THEN IF final THEN "refuse" ELSE "more"
              ELSE IF ~final /\ j = Len(T) THEN "more"
              ELSE IF ~CheckQualifier(T, j) THEN "refuse"
              ELSE IF g.place = "dot" \/ (g.place # "after" /\ ~final) THEN "more"
              ELSE IF g.kind # "TRIGGER" THEN "yes"
              ELSE IF Len(T) < k + 8 /\ ~final THEN "more" ELSE "refuse"
<1> DEFINE named == CheckObjectName(T, k + 1, final)
<1>0. /\ Len(T) \in Nat /\ k \in Nat /\ k >= 2 /\ k + 1 \in Nat \ {0} /\ j \in k + 1 .. Len(T) + 1
      /\ T[1] = W("CREATE") /\ g.verb = "CREATE"
      /\ Kinded(T, g, k) /\ g.kind \in Objects
  BY DEF CreateShape, Kinded
<1>1. KindAt(T) = k
  BY <1>0, KindedAt
<1>2. \A i \in k + 1 .. j - 1 : Is(T, i, IfNotExists)
  <2>1. \A i \in k + 1 .. j - 1 : T[i] \in {W("IF"), W("EXISTS")} /\ i <= Len(T)
    BY <1>0 DEF CreateShape
  <2> QED BY <2>1 DEF Is, W, IfNotExists
<1>3. CheckHead(T, final) =
        IF named = "yes" /\ g.kind = "TRIGGER" THEN CheckTriggerTable(T, k + 1, final) ELSE named
  BY <1>0, DDLSays
<1>4. g.kind = "TRIGGER" =>
        CheckTriggerTable(T, k + 1, final) = IF Len(T) < k + 8 /\ ~final THEN "more" ELSE "refuse"
  <2> SUFFICES ASSUME g.kind = "TRIGGER"
               PROVE  CheckTriggerTable(T, k + 1, final)
                        = IF Len(T) < k + 8 /\ ~final THEN "more" ELSE "refuse"
    OBVIOUS
  <2>1. \A i \in k + 2 .. k + 8 : ~Is(T, i, {"ON"})
    <3>1. \A i \in k + 2 .. Len(T) : ~Is(T, i, {"ON"})
      BY DEF CreateShape
    <3>2. \A i \in Nat : i > Len(T) => ~Is(T, i, {"ON"})
      BY <1>0 DEF Is
    <3> QED BY <1>0, <3>1, <3>2
  <2>2. (k + 1) + 1 = k + 2 /\ (k + 1) + 7 = k + 8
    BY <1>0
  <2>3. {i \in (k + 1) + 1 .. (k + 1) + 7 : Is(T, i, {"ON"})} = {}
    BY <1>0, <2>1, <2>2
  <2>4. CheckTriggerTable(T, k + 1, final) =
          IF Len(T) < (k + 1) + 7 THEN More(final) ELSE "refuse"
    BY <2>3 DEF CheckTriggerTable
  <2> QED BY <2>2, <2>4 DEF More
<1>5. CASE j = Len(T) + 1
  <2>1. named = IF final THEN "refuse" ELSE "more"
    BY <1>0, <1>2, <1>5, ObjectNameSays
  <2> QED BY <1>0, <1>1, <1>3, <1>5, <2>1
<1>6. CASE j # Len(T) + 1
  <2>1. Spelled(T, j, g.place, g.id) /\ g.place \in {"named", "dot", "ended", "after"}
    BY <1>6 DEF CreateShape
  <2>2. named = IF ~final /\ j = Len(T) THEN "more"
                ELSE IF ~CheckQualifier(T, j) THEN "refuse"
                ELSE IF g.place = "dot" \/ (g.place # "after" /\ ~final) THEN "more" ELSE "yes"
    BY <1>0, <1>2, <2>1, ObjectNameSays
  <2>3. SkipWords(T, k + 1, IfNotExists) = j
    <3>1. IfNotExists \cap Plain = {}
      BY DEF IfNotExists, Plain
    <3>2. ~Is(T, j, IfNotExists)
      BY <2>1, <3>1, NameIsNoWord DEF Spelled
    <3> QED BY <1>0, <1>2, <3>2, SkipTo
  <2> QED BY <1>1, <1>3, <1>4, <1>6, <2>2, <2>3
<1> QED BY <1>5, <1>6

(* CREATE TRIGGER from its ON, which is at o. *)
TriggerShape(T, g, k, j, o) ==
  /\ T[1] = W("CREATE") /\ g.verb = "CREATE" /\ g.row = Rows0 /\ g.column = Default0 /\ g.names = 1
  /\ Kinded(T, g, k) /\ g.kind = "TRIGGER"
  /\ j \in k + 1 .. Len(T)
  /\ \A i \in k + 1 .. j - 1 : T[i] \in {W("IF"), W("EXISTS")}
  /\ Spelled(T, j, "after", "none") /\ CheckQualifier(T, j)
  /\ o \in k + 2 .. k + 8 /\ o <= Len(T) /\ Is(T, o, {"ON"})
  /\ \A i \in k + 2 .. Len(T) : i # o => ~Is(T, i, {"ON"})
  /\ g.id \in Plain
  /\ \/ g.place = "name" /\ o = Len(T) /\ ~g.abroad
     \/ /\ g.place \in {"named", "dot", "ended", "after"} /\ Spelled(T, o + 1, g.place, g.id)
        /\ g.abroad <=> ~CheckQualifier(T, o + 1)

(* What checkHead says of a CREATE TRIGGER from its ON. *)
LEMMA TriggerSays ==
  ASSUME NEW T \in Seq(Token), NEW g \in Readings, NEW k, NEW j, NEW o, Len(T) >= 1,
         TriggerShape(T, g, k, j, o), NEW final \in BOOLEAN
  PROVE  CheckHead(T, final) =
           IF o = Len(T) THEN IF final THEN "refuse" ELSE "more"
           ELSE IF ~final /\ o + 1 = Len(T) THEN "more"
           ELSE IF ~CheckQualifier(T, o + 1) THEN "refuse"
           ELSE IF g.place = "dot" \/ (g.place # "after" /\ ~final) THEN "more" ELSE "yes"
<1>0. /\ Len(T) \in Nat /\ k \in Nat /\ k >= 2 /\ k + 1 \in Nat \ {0} /\ j \in k + 1 .. Len(T) + 1
      /\ o \in k + 2 .. k + 8 /\ o \in Nat /\ o <= Len(T)
      /\ T[1] = W("CREATE") /\ g.verb = "CREATE" /\ g.kind = "TRIGGER"
      /\ Kinded(T, g, k) /\ j # Len(T) + 1
  BY DEF TriggerShape, Kinded
<1>1. CheckObjectName(T, k + 1, final) = "yes"
  <2>1. \A i \in k + 1 .. j - 1 : Is(T, i, IfNotExists)
    <3>1. \A i \in k + 1 .. j - 1 : T[i] \in {W("IF"), W("EXISTS")} /\ i <= Len(T)
      BY <1>0 DEF TriggerShape
    <3> QED BY <3>1 DEF Is, W, IfNotExists
  <2>2. Spelled(T, j, "after", "none") /\ CheckQualifier(T, j)
    BY DEF TriggerShape
  <2>3. j # Len(T)
    BY <1>0, <2>2, SpelledEnd
  <2> QED BY <1>0, <2>1, <2>2, <2>3, ObjectNameSays
<1>2. CheckHead(T, final) = CheckTriggerTable(T, k + 1, final)
  BY <1>0, <1>1, DDLSays DEF Objects
<1>3. CheckTriggerTable(T, k + 1, final) = CheckObjectName(T, o + 1, final)
  <2> DEFINE ons == {i \in (k + 1) + 1 .. (k + 1) + 7 : Is(T, i, {"ON"})}
  <2>1. (k + 1) + 1 = k + 2 /\ (k + 1) + 7 = k + 8
    BY <1>0
  <2>2. o \in ons
    BY <1>0, <2>1 DEF TriggerShape
  <2>3. \A i \in ons : i = o
    <3>1. \A i \in ons : i \in k + 2 .. Len(T)
      BY <1>0, <2>1 DEF Is
    <3> QED BY <3>1 DEF TriggerShape
  <2>4. o <= o
    BY <1>0
  <2> HIDE DEF ons
  <2>5. \A m \in ons : o <= m
    BY <2>3, <2>4
  <2>6. \A m \in ons : (\A i \in ons : m <= i) => m = o
    BY <2>3
  <2>7. (CHOOSE m \in ons : \A i \in ons : m <= i) = o /\ ons # {}
    BY <2>2, <2>5, <2>6
  <2> QED BY <2>7 DEF CheckTriggerTable, ons
<1>4. \A i \in o + 1 .. (o + 1) - 1 : Is(T, i, IfNotExists)
  BY <1>0
<1>5. o + 1 \in Nat \ {0} /\ o + 1 \in o + 1 .. Len(T) + 1 /\ (o = Len(T) <=> o + 1 = Len(T) + 1)
  BY <1>0
<1>6. CASE o = Len(T)
  BY <1>2, <1>3, <1>4, <1>5, <1>6, ObjectNameSays
<1>7. CASE o # Len(T)
  <2>1. Spelled(T, o + 1, g.place, g.id) /\ g.place \in {"named", "dot", "ended", "after"}
    BY <1>7 DEF TriggerShape
  <2>2. CheckObjectName(T, o + 1, final) =
          IF ~final /\ o + 1 = Len(T) THEN "more"
          ELSE IF ~CheckQualifier(T, o + 1) THEN "refuse"
          ELSE IF g.place = "dot" \/ (g.place # "after" /\ ~final) THEN "more" ELSE "yes"
    BY <1>4, <1>5, <2>1, ObjectNameSays
  <2> QED BY <1>2, <1>3, <1>7, <2>2
<1> QED BY <1>6, <1>7

(* Only ON is ON, and it comes once. *)
LEMMA TriggerTokens ==
  ASSUME NEW g, NEW t \in Tokens(g), g.verb = "CREATE", g.kind = "TRIGGER",
         g.place \in {"name", "named", "dot", "ended", "after"}
  PROVE  (t = W("ON") /\ g.names = 0) \/ ~(t.kind = "w" /\ t.text = <<"ON">>)
<1>1. CASE t \in Names
  <2>1. CASE OneWord(t)
    BY <2>1 DEF OneWord, Plain, W, B
  <2>2. CASE OpenWord(t)
    BY <2>2 DEF OpenWord, Word
  <2>3. CASE ClosedWord(t)
    BY <2>3 DEF ClosedWord, Word
  <2> QED BY <1>1, <2>1, <2>2, <2>3, NameForms
<1>2. CASE t \in BeforeName(g)
  BY <1>2, BeforeNameForms DEF W
<1>3. CASE t \in {W("t"), B("t"), Word(<<".">>), Word(<<".", "t">>)}
  BY <1>3 DEF W, B, Word
<1>4. CASE t \in Continuations(g)
  <2>1. t \in {W("BEFORE")} \cup (IF g.names = 0 THEN {W("ON")} ELSE {})
    BY <1>4 DEF Continuations
  <2>2. W("BEFORE").text # <<"ON">>
    BY DEF W
  <2> QED BY <2>1, <2>2
<1>5. CASE g.place = "name"
  BY <1>1, <1>2, <1>5 DEF Tokens
<1> QED BY <1>3, <1>4, <1>5, TokensAfterName
----------------------------------------------------------------------------
(* The heads without a name of their own yet.                              *)

(* CREATE, DROP or ALTER until the kind of the object. *)
KindShape(T, g) ==
  /\ g.verb \in {"CREATE", "DROP", "ALTER"} /\ T[1] = W(g.verb)
  /\ \A i \in 2 .. Len(T) : T[i] = W("DEFINER")
  /\ g.place = "kind" /\ g.names = 0 /\ g.id = "none" /\ ~g.abroad
  /\ g.row = Rows0 /\ g.column = Default0

(* LOCK, COMMIT and UNLOCK alone. *)
WordShape(T, g) ==
  /\ Len(T) = 1 /\ T[1] = W(g.verb) /\ g.kind = "none" /\ ~g.abroad
  /\ \/ g.verb = "LOCK" /\ g.place = "tables"
     \/ g.verb \in {"COMMIT", "UNLOCK"} /\ g.place = "after"
  /\ g.row = Rows0 /\ g.column = Default0

NamePlaces == {"name", "named", "dot", "ended", "after"}

(* ALTER TABLE, whose name ends where DISABLE or ENABLE stands.  IF is a   *)
(* name to the check, and then the words it wants do not follow.           *)
AlterShape(T, g, k) ==
  /\ T[1] = W("ALTER") /\ g.verb = "ALTER" /\ Kinded(T, g, k) /\ g.kind = "TABLE"
  /\ g.row = Rows0 /\ g.column = Default0
  /\ \/ g.place = "name" /\ Len(T) = k /\ g.id = "none" /\ ~g.abroad
     \/ /\ g.place \in {"named", "dot", "ended", "after"} /\ Spelled(T, k + 1, g.place, g.id)
        /\ g.abroad => ~CheckQualifier(T, k + 1)
     \/ g.place = "name" /\ g.id = "IF" /\ Len(T) = k + 1 /\ T[k + 1] = W("IF") /\ ~g.abroad
     \/ /\ g.place \in NamePlaces
        /\ Len(T) >= k + 2 /\ T[k + 1] = W("IF") /\ ~Is(T, k + 2, {"DISABLE", "ENABLE"})

(* A name the server takes to another database. *)
Foreign(T, i) == T[i].kind \in {"w", "b"} /\ ~DotFirst(T, i) /\ ~CheckQualifier(T, i)

(* DROP and LOCK: names from k + 1 on. *)
ListShape(T, g, k) ==
  /\ \/ T[1] = W("DROP") /\ g.verb = "DROP" /\ Kinded(T, g, k) /\ g.kind \in Objects
     \/ /\ T[1] = W("LOCK") /\ g.verb = "LOCK" /\ g.kind = "none"
        /\ k = 2 /\ Len(T) >= 2 /\ T[2] = W("TABLES")
  /\ g.row = Rows0 /\ g.column = Default0
  /\ g.abroad => \E i \in k + 1 .. Len(T) : Foreign(T, i)
  /\ g.place # "name" =>
       /\ g.place \in {"named", "dot", "ended", "after"}
       /\ \E n \in k + 1 .. Len(T) : Spelled(T, n, g.place, g.id)

Databases == {W("own"), W("oth"), B("own"), B("oth")}

(* USE and CREATE or ALTER DATABASE: the name is to come at a. *)
DatabaseShape(T, g, a) ==
  /\ \/ T[1] = W("USE") /\ g.verb = "USE" /\ g.kind = "none" /\ a = 2 /\ Len(T) <= 2
     \/ /\ g.verb \in {"CREATE", "ALTER"} /\ T[1] = W(g.verb)
        /\ a \in Nat /\ Kinded(T, g, a - 1) /\ g.kind = "DATABASE"
  /\ g.row = Rows0 /\ g.column = Default0
  /\ \A i \in a .. Len(T) - 1 : T[i] = W("IF")
  /\ \/ /\ g.place = "database" /\ ~g.abroad
        /\ Len(T) >= a => T[Len(T)] = W("IF") /\ g.verb # "USE"
     \/ /\ g.place = "ended" /\ Len(T) >= a /\ T[Len(T)] \in Databases
        /\ g.abroad => T[Len(T)].text[1] # "own"
     \/ g.place = "after" /\ Len(T) >= a /\ T[Len(T)] = W("CHARACTER") /\ ~g.abroad

(* What the server has heard of a head. *)
Shape(T, g) ==
  \/ KindShape(T, g)
  \/ WordShape(T, g)
  \/ \E j \in 0 .. Len(T) + 1 : InsertShape(T, g, j)
  \/ \E k, j \in 0 .. Len(T) + 1 : CreateShape(T, g, k, j)
  \/ \E k, j, o \in 0 .. Len(T) + 1 : TriggerShape(T, g, k, j, o)
  \/ \E k \in 0 .. Len(T) : AlterShape(T, g, k)
  \/ \E k \in 0 .. Len(T) : ListShape(T, g, k)
  \/ \E a \in 0 .. Len(T) + 1 : DatabaseShape(T, g, a)
----------------------------------------------------------------------------
(* What the server has heard keeps its type.                               *)

(* The lexeme of a token is one of the texts, or a quoted name. *)
LEMMA LexemeTyped ==
  ASSUME NEW t \in Token
  PROVE  Lexeme(t) \in Atoms \cup {"id"}
<1>1. t.text[1] \in Atoms /\ "sum" \in Atoms /\ "name" \in Atoms
  BY DEF Token, Atoms, ValueWords
<1>2. t.kind \in {"w", "p", "b", "s"}
  BY DEF Token
<1> QED BY <1>1, <1>2 DEF Lexeme

(* Rows and columns go on. *)
LEMMA BodiesTyped ==
  ASSUME NEW x \in Atoms \cup {"id"}, NEW r \in RowReadings, NEW c \in ColumnReadings
  PROVE  HearRow(r, x) \in RowReadings /\ HearColumn(c, x) \in ColumnReadings
<1>1. HearRow(r, x) \in RowReadings
  BY DEF HearRow, RowReadings
<1>2. HearColumn(c, x) \in ColumnReadings
  <2>1. c.in \in ColumnStates /\ c.computes \subseteq {"value", "next", "later"}
    BY DEF ColumnReadings
  <2>2. ColumnState(c.in, x) \in ColumnStates
    BY <2>1 DEF ColumnState, ColumnStates
  <2>3. ColumnComputes(c.in, x) \subseteq {"value", "next", "later"}
    BY DEF ColumnComputes
  <2> QED BY <2>1, <2>2, <2>3 DEF HearColumn, ColumnReadings
<1> QED BY <1>1, <1>2

(* What the server makes of a token before it looks at rows and columns. *)
Read(g, t) == IF g.place = "verb" THEN HearVerb(t.text[1]) ELSE HearText(g, t.text, t.kind)

(* The verb. *)
LEMMA ReadVerb ==
  ASSUME NEW g, NEW t \in Tokens(g), g.place = "verb", NEW m, m = Read(g, t)
  PROVE  /\ t = W(m.verb) /\ m.verb \in Verbs /\ t \in Token /\ m \in Readings
         /\ m.kind = "none" /\ m.id = "none" /\ m.names = 0 /\ ~m.abroad
         /\ m.row = Rows0 /\ m.column = Default0
         /\ m.place = CASE m.verb \in {"CREATE", "DROP", "ALTER"} -> "kind"
                        [] m.verb = "LOCK" -> "tables"
                        [] m.verb = "INSERT" -> "name"
                        [] m.verb = "USE" -> "database"
                        [] OTHER -> "after"
<1>1. PICK x \in Verbs : t = W(x)
  BY DEF Tokens
<1> DEFINE p == CASE x \in {"CREATE", "DROP", "ALTER"} -> "kind"
                  [] x = "LOCK" -> "tables"
                  [] x = "INSERT" -> "name"
                  [] x = "USE" -> "database"
                  [] OTHER -> "after"
<1>2. m = [Heard0 EXCEPT !.verb = x, !.place = p]
  <2>1. t.text[1] = x
    BY <1>1 DEF W
  <2> QED BY <2>1 DEF Read, HearVerb
<1>3. p \in Places
  BY DEF Places
<1>4. x \in Atoms
  BY DEF Atoms
<1>5. t \in Token
  BY <1>1, <1>4 DEF W, Token
<1> HIDE DEF p
<1>6. /\ m.verb = x /\ m.kind = "none" /\ m.id = "none" /\ m.names = 0 /\ ~m.abroad
      /\ m.row = Rows0 /\ m.column = Default0 /\ m.place = p
  BY <1>2 DEF Heard0
<1>7. Rows0 \in RowReadings /\ Default0 \in ColumnReadings /\ "none" \in Atoms
  BY DEF Rows0, RowReadings, Default0, ColumnReadings, ColumnStates, Atoms
<1>8. m \in Readings
  <2>1. m = [verb |-> x, kind |-> "none", place |-> p, id |-> "none", names |-> 0,
             abroad |-> FALSE, row |-> Rows0, column |-> Default0]
    BY <1>2 DEF Heard0
  <2>2. "none" \in Kinds
    BY DEF Kinds
  <2> QED BY <1>3, <1>7, <2>1, <2>2 DEF Readings
<1> QED BY <1>1, <1>5, <1>6, <1>8 DEF p

(* The kind of an object, and TABLES after LOCK. *)
LEMMA ReadKind ==
  ASSUME NEW g \in Readings, NEW t \in Tokens(g), g.place = "kind", NEW m, m = Read(g, t)
  PROVE  /\ m \in Readings /\ t \in Token /\ t = W(m.kind)
         /\ m.kind \in Objects \cup {"DATABASE", "DEFINER"}
         /\ m.verb = g.verb /\ m.id = g.id /\ m.names = g.names /\ m.abroad = g.abroad
         /\ m.row = g.row /\ m.column = g.column
         /\ m.place = CASE m.kind = "DEFINER" -> "kind"
                        [] m.kind = "DATABASE" -> "database"
                        [] OTHER -> "name"
<1>1. PICK x \in Objects \cup {"DATABASE", "DEFINER"} : t = W(x)
  BY DEF Tokens
<1>2. m = HearPart(g, x, "w")
  BY <1>1, HearOne DEF W, Read
<1>3. x \in Atoms /\ x \in Kinds
  BY DEF Atoms, Objects, Kinds
<1>4. t \in Token
  BY <1>1, <1>3 DEF W, Token
<1>5. CASE x = "DEFINER"
  <2>1. m = [g EXCEPT !.kind = x]
    BY <1>2, <1>5 DEF HearPart, Modifiers
  <2> QED BY <1>1, <1>3, <1>4, <1>5, <2>1 DEF Readings
<1>6. CASE x # "DEFINER"
  <2> DEFINE p == IF x = "DATABASE" THEN "database" ELSE "name"
  <2>1. x \notin Modifiers
    BY <1>6 DEF Objects, Modifiers
  <2>2. m = [g EXCEPT !.kind = x, !.place = p]
    BY <1>2, <2>1 DEF HearPart
  <2>3. p \in Places
    BY DEF Places
  <2> HIDE DEF p
  <2>4. m \in Readings
    BY <1>3, <2>2, <2>3 DEF Readings
  <2>5. /\ m.kind = x /\ m.place = p /\ m.verb = g.verb /\ m.id = g.id /\ m.names = g.names
        /\ m.row = g.row /\ m.column = g.column
    BY <2>2 DEF Readings
  <2>6. m.abroad = g.abroad
    BY <2>2 DEF Readings
  <2> QED BY <1>1, <1>4, <1>6, <2>4, <2>5, <2>6 DEF p
<1> QED BY <1>5, <1>6

(* After LOCK comes TABLES or INSTANCE. *)
LEMMA ReadTables ==
  ASSUME NEW g \in Readings, NEW t \in Tokens(g), g.place = "tables", NEW m, m = Read(g, t)
  PROVE  /\ m \in Readings /\ t \in Token /\ m.place = "name"
         /\ t = W("TABLES") \/ t = W("INSTANCE")
         /\ m.verb = g.verb /\ m.kind = g.kind /\ m.id = g.id /\ m.names = g.names
         /\ m.abroad = g.abroad /\ m.row = g.row /\ m.column = g.column
<1>1. PICK x \in {"TABLES", "INSTANCE"} : t = W(x)
  BY DEF Tokens
<1>2. m = HearPart(g, x, "w")
  BY <1>1, HearOne DEF W, Read
<1>3. m = [g EXCEPT !.place = "name"] /\ "name" \in Places
  BY <1>2 DEF HearPart, Places
<1>4. x \in Atoms
  BY DEF Atoms
<1>5. t \in Token
  BY <1>1, <1>4 DEF W, Token
<1> QED BY <1>1, <1>3, <1>5, PlaceFields

(* The name of a database, or what comes before or instead of it. *)
LEMMA ReadDatabase ==
  ASSUME NEW g \in Readings, NEW t \in Tokens(g), g.place = "database", NEW m, m = Read(g, t)
  PROVE  /\ m \in Readings /\ t \in Token
         /\ m.verb = g.verb /\ m.kind = g.kind /\ m.names = g.names
         /\ m.row = g.row /\ m.column = g.column
         /\ \/ t = W("IF") /\ m.place = "database" /\ m.abroad = g.abroad
            \/ t = W("CHARACTER") /\ m.place = "after" /\ m.abroad = g.abroad
            \/ t \in Databases /\ m.place = "ended" /\ (m.abroad <=> t.text[1] # "own")
<1>0. t = W("IF") \/ t = W("CHARACTER") \/ t \in Databases
  BY DEF Tokens, Databases
<1>1. {"IF", "CHARACTER", "own", "oth"} \subseteq Atoms
  BY DEF Atoms, IfNotExists
<1>2. t \in Token
  <2>1. \A x \in Atoms : W(x) \in Token /\ B(x) \in Token
    BY DEF W, B, Token
  <2> QED BY <1>0, <1>1, <2>1 DEF Databases
<1>3. CASE t = W("IF")
  <2>1. m = HearPart(g, "IF", "w")
    BY <1>3, HearOne DEF W, Read
  <2>2. m = [g EXCEPT !.id = "IF"]
    BY <2>1 DEF HearPart, Precedes, IfNotExists
  <2> QED BY <1>1, <1>2, <1>3, <2>2, IdFields
<1>4. CASE t = W("CHARACTER")
  <2>1. m = HearPart(g, "CHARACTER", "w")
    BY <1>4, HearOne DEF W, Read
  <2>2. m = [g EXCEPT !.place = "after"] /\ "after" \in Places
    BY <2>1 DEF HearPart, Precedes, IfNotExists, Places
  <2> QED BY <1>2, <1>4, <2>2, PlaceFields
<1>5. CASE t \in Databases
  <2>1. PICK x \in {"own", "oth"} : t.text = <<x>> /\ t.text[1] = x
    BY <1>5 DEF Databases, W, B
  <2>2. m = HearPart(g, x, t.kind)
    BY <2>1, HearOne DEF Read
  <2>3. m = NamedDatabase(g, x)
    BY <2>2 DEF HearPart, Precedes, IfNotExists
  <2> QED BY <1>2, <1>5, <2>1, <2>3, NamedDatabaseFields
<1> QED BY <1>0, <1>3, <1>4, <1>5

(* No token is NoToken, and what is heard of the statement as a whole. *)
LEMMA ReadTyped ==
  ASSUME NEW g \in Readings, NEW t \in Tokens(g), NEW m, m = Read(g, t)
  PROVE  /\ m \in Readings /\ t \in Token
         /\ g.place # "verb" =>
              m.verb = g.verb /\ m.row = g.row /\ m.column = g.column
         /\ g.place \notin {"verb", "kind"} => m.kind = g.kind
         /\ g.place \in NamePlaces => m.place \in NamePlaces
<1>1. g.place \in Places
  BY DEF Readings
<1>2. CASE g.place \in {"verb", "kind", "tables", "database"}
  BY <1>2, ReadVerb, ReadKind, ReadTables, ReadDatabase DEF NamePlaces
<1>3. CASE g.place = "name"
  <2>1. t \in Names \/ t \in BeforeName(g)
    BY <1>3 DEF Tokens
  <2>2. m = HearText(g, t.text, t.kind)
    BY <1>3 DEF Read
  <2> QED BY <1>3, <2>1, <2>2, HearName, HearBeforeName, NameForms DEF NamePlaces
<1>4. CASE g.place \in {"named", "dot", "ended", "after"}
  <2>1. m = HearText(g, t.text, t.kind)
    BY <1>4 DEF Read
  <2>2. CASE g.place = "dot"
    BY <2>1, <2>2, TokensAfterName, HearAfterDot DEF NamePlaces
  <2>3. CASE g.place # "dot" /\ t \in Continuations(g)
    BY <1>4, <2>1, <2>3, HearContinuation, ContinuationForms DEF NamePlaces
  <2>4. CASE g.place # "dot" /\ t \notin Continuations(g)
    BY <1>4, <2>1, <2>4, TokensAfterName, HearDot DEF NamePlaces
  <2> QED BY <2>2, <2>3, <2>4
<1> QED BY <1>1, <1>2, <1>3, <1>4 DEF Places

(* A reading keeps its type, and its verb and kind once they are read. *)
LEMMA HearTyped ==
  ASSUME NEW g \in Readings, NEW t \in Tokens(g), NEW h, h = Hear(g, t)
  PROVE  /\ h \in Readings /\ t \in Token
         /\ g.place # "verb" => h.verb = g.verb
         /\ g.place \notin {"verb", "kind"} => h.kind = g.kind
         /\ g.place \in NamePlaces => h.place \in NamePlaces
         /\ g.place # "verb" =>
              /\ h.row = IF h.place = "after" /\ h.verb = "INSERT"
                         THEN HearRow(g.row, Lexeme(t)) ELSE g.row
              /\ h.column = IF h.place = "after" /\ h.verb = "CREATE" /\ h.kind = "TABLE"
                            THEN HearColumn(g.column, Lexeme(t)) ELSE g.column
<1> DEFINE m == Read(g, t)
           row == IF m.place = "after" /\ m.verb = "INSERT"
                  THEN HearRow(m.row, Lexeme(t)) ELSE m.row
           column == IF m.place = "after" /\ m.verb = "CREATE" /\ m.kind = "TABLE"
                     THEN HearColumn(m.column, Lexeme(t)) ELSE m.column
<1>1. /\ m \in Readings /\ t \in Token
      /\ g.place # "verb" => m.verb = g.verb /\ m.row = g.row /\ m.column = g.column
      /\ g.place \notin {"verb", "kind"} => m.kind = g.kind
      /\ g.place \in NamePlaces => m.place \in NamePlaces
  BY ReadTyped
<1>2. h = [m EXCEPT !.row = row, !.column = column]
  BY DEF Hear, Read
<1> HIDE DEF m
<1>3. row \in RowReadings /\ column \in ColumnReadings
  BY <1>1, LexemeTyped, BodiesTyped DEF Readings
<1>4. /\ h.verb = m.verb /\ h.kind = m.kind /\ h.place = m.place
      /\ h.row = row /\ h.column = column
  BY <1>1, HearFields DEF m, Read
<1> HIDE DEF row, column
<1>5. h \in Readings
  BY <1>1, <1>2, <1>3 DEF Readings
<1> QED BY <1>1, <1>4, <1>5 DEF row, column
----------------------------------------------------------------------------
(* A head goes on: the next token leaves what was heard in a shape, or the *)
(* check refuses it.                                                       *)

(* Everything about an unfinished head is still harmless. *)
Harmless(g) == ~g.abroad /\ g.row = Rows0 /\ g.column = Default0

(* Append(T, t) read as g: refused at once, or in a shape. *)
Follows(T, g) == CheckHead(T, FALSE) = "refuse" \/ Shape(T, g)

(* The fields of a reading that no body is part of yet. *)
LEMMA HearHead ==
  ASSUME NEW g, NEW t, NEW m \in Readings, m = Read(g, t), NEW h, h = Hear(g, t),
         m.place = "after" => m.verb # "INSERT" /\ ~(m.verb = "CREATE" /\ m.kind = "TABLE")
  PROVE  /\ h.verb = m.verb /\ h.kind = m.kind /\ h.place = m.place /\ h.id = m.id
         /\ h.names = m.names /\ h.abroad = m.abroad /\ h.row = m.row /\ h.column = m.column
BY HearFields DEF Read

(* Before the kind of its object no statement is decided. *)
LEMMA KindSays ==
  ASSUME NEW T \in Seq(Token), Len(T) >= 1, NEW g, KindShape(T, g), NEW final \in BOOLEAN
  PROVE  CheckHead(T, final) = More(final)
<1>1. g.verb \in {"CREATE", "DROP", "ALTER"} /\ T[1] = W(g.verb) /\ \A i \in 2 .. Len(T) : T[i] = W("DEFINER")
  BY DEF KindShape
<1>2. CheckHead(T, final) = CheckDDL(T, final)
  BY <1>1, HeadByVerb
<1>3. KindAt(T) = 0
  BY <1>1, KindToCome
<1> QED BY <1>2, <1>3 DEF CheckDDL

(* Before the kind, a token more leaves the head refused or in a shape. *)
LEMMA KindGoesOn ==
  ASSUME NEW T \in Seq(Token), Len(T) >= 1, NEW g \in Readings, KindShape(T, g),
         NEW t \in Tokens(g), NEW h, h = Hear(g, t)
  PROVE  Follows(Append(T, t), h)
<1> DEFINE A == Append(T, t)
           m == Read(g, t)
           k == Len(T) + 1
<1>1. /\ g.verb \in {"CREATE", "DROP", "ALTER"} /\ T[1] = W(g.verb)
      /\ \A i \in 2 .. Len(T) : T[i] = W("DEFINER")
      /\ g.place = "kind" /\ g.names = 0 /\ g.id = "none" /\ ~g.abroad
      /\ g.row = Rows0 /\ g.column = Default0
  BY DEF KindShape
<1>2. /\ m \in Readings /\ t \in Token /\ t = W(m.kind)
      /\ m.kind \in Objects \cup {"DATABASE", "DEFINER"}
      /\ m.verb = g.verb /\ m.id = g.id /\ m.names = g.names /\ m.abroad = g.abroad
      /\ m.row = g.row /\ m.column = g.column
      /\ m.place = CASE m.kind = "DEFINER" -> "kind"
                     [] m.kind = "DATABASE" -> "database"
                     [] OTHER -> "name"
  BY <1>1, ReadKind
<1> HIDE DEF m
<1>3. /\ h.verb = m.verb /\ h.kind = m.kind /\ h.place = m.place /\ h.id = m.id
      /\ h.names = m.names /\ h.abroad = m.abroad /\ h.row = m.row /\ h.column = m.column
  BY <1>2, HearHead DEF m
<1>4. /\ A \in Seq(Token) /\ Len(A) = k /\ k \in Nat /\ Len(T) \in Nat /\ k >= 2
      /\ \A i \in 1 .. Len(T) : A[i] = T[i]
      /\ A[k] = t
  BY <1>2, Appended
<1> HIDE DEF A, k
<1>5. A[1] = W(h.verb)
  BY <1>1, <1>2, <1>3, <1>4
<1>6. \A i \in 2 .. k - 1 : A[i] = W("DEFINER")
  BY <1>1, <1>4 DEF k
<1>7. CASE m.kind = "DEFINER"
  <2>1. \A i \in 2 .. Len(A) : A[i] = W("DEFINER")
    BY <1>2, <1>4, <1>6, <1>7
  <2>2. KindShape(A, h)
    BY <1>1, <1>2, <1>3, <1>5, <1>7, <2>1 DEF KindShape
  <2> QED BY <2>2 DEF Follows, Shape, A
<1>8. CASE m.kind # "DEFINER"
  <2>1. Kinded(A, h, k)
    BY <1>2, <1>3, <1>4, <1>6, <1>8 DEF Kinded
  <2>2. CASE g.verb = "CREATE" /\ m.kind \in Objects
    <3>1. h.place = "name"
      BY <1>2, <1>3, <2>2 DEF Objects
    <3>2. CreateShape(A, h, k, k + 1)
      BY <1>1, <1>2, <1>3, <1>4, <1>5, <2>1, <2>2, <3>1 DEF CreateShape
    <3>3. k \in 0 .. Len(A) + 1 /\ k + 1 \in 0 .. Len(A) + 1
      BY <1>4
    <3>4. Shape(A, h)
      BY <3>2, <3>3 DEF Shape
    <3> QED BY <3>4 DEF Follows, A
  <2>3. CASE g.verb = "ALTER" /\ m.kind = "TABLE"
    <3>1. AlterShape(A, h, k)
      BY <1>1, <1>2, <1>3, <1>4, <1>5, <2>1, <2>3 DEF AlterShape
    <3>2. k \in 0 .. Len(A)
      BY <1>4
    <3> QED BY <3>1, <3>2 DEF Follows, Shape, A
  <2>4. CASE g.verb = "DROP" /\ m.kind \in Objects
    <3>1. h.place = "name"
      BY <1>2, <1>3, <2>4 DEF Objects
    <3>2. ListShape(A, h, k)
      BY <1>1, <1>2, <1>3, <1>4, <1>5, <2>1, <2>4, <3>1 DEF ListShape
    <3>3. k \in 0 .. Len(A)
      BY <1>4
    <3> QED BY <3>2, <3>3 DEF Follows, Shape, A
  <2>5. CASE g.verb \in {"CREATE", "ALTER"} /\ m.kind = "DATABASE"
    <3>1. h.place = "database" /\ (k + 1) - 1 = k
      BY <1>2, <1>3, <1>4, <2>5
    <3>2. DatabaseShape(A, h, k + 1)
      BY <1>1, <1>2, <1>3, <1>4, <1>5, <2>1, <2>5, <3>1 DEF DatabaseShape
    <3>3. k + 1 \in 0 .. Len(A) + 1
      BY <1>4
    <3> QED BY <3>2, <3>3 DEF Follows, Shape, A
  <2>6. CASE \/ g.verb = "DROP" /\ m.kind = "DATABASE"
             \/ g.verb = "ALTER" /\ m.kind \in {"VIEW", "TRIGGER"}
    <3>1. Len(A) >= 1
      BY <1>4
    <3>2. CheckHead(A, FALSE) = "refuse"
      BY <1>2, <1>3, <1>4, <1>5, <2>1, <2>6, <3>1, DDLSays
    <3> QED BY <3>2 DEF Follows, A
  <2> QED BY <1>1, <1>2, <1>8, <2>2, <2>3, <2>4, <2>5, <2>6 DEF Objects
<1> QED BY <1>7, <1>8

(* checkHead of LOCK and UNLOCK. *)
LEMMA LockSays ==
  ASSUME NEW T \in Seq(Token), Len(T) >= 1, NEW v \in {"LOCK", "UNLOCK"}, T[1] = W(v),
         NEW final \in BOOLEAN
  PROVE  /\ Len(T) = 1 => CheckHead(T, final) = More(final)
         /\ Len(T) > 1 /\ ~Is(T, 2, {"TABLES"}) => CheckHead(T, final) = "refuse"
         /\ Len(T) > 1 /\ Is(T, 2, {"TABLES"}) /\ v = "LOCK" =>
              CheckHead(T, final) = IF final THEN YesIf(CheckAllNames(T, 3)) ELSE "more"
<1>1. CheckHead(T, final) = CheckLock(T, final)
  BY HeadByVerb
<1>2. Is(T, 1, {"UNLOCK"}) <=> v = "UNLOCK"
  BY HeadByVerb
<1>3. Len(T) \in Nat /\ (Is(T, 2, {"TABLES"}) => Len(T) >= 2)
  BY DEF Is
<1>4. CASE Len(T) = 1
  BY <1>1, <1>3, <1>4 DEF CheckLock
<1>5. CASE Len(T) > 1 /\ ~Is(T, 2, {"TABLES"})
  <2>1. ~(Len(T) < 2) /\ Len(T) >= 2
    BY <1>3, <1>5
  <2>2. CheckLock(T, final) = "refuse"
    BY <1>5, <2>1 DEF CheckLock
  <2>3. CheckHead(T, final) = "refuse"
    BY <1>1, <2>2
  <2>4. Len(T) # 1
    <3>1. \A n \in Nat : n >= 2 => n # 1
      OBVIOUS
    <3> QED BY <1>3, <2>1, <3>1
  <2> QED BY <1>5, <2>3, <2>4
<1>6. CASE Len(T) > 1 /\ Is(T, 2, {"TABLES"}) /\ v = "LOCK"
  BY <1>1, <1>2, <1>3, <1>6 DEF CheckLock
<1> QED BY <1>4, <1>5, <1>6

(* LOCK, UNLOCK and COMMIT. *)
LEMMA WordSays ==
  ASSUME NEW T \in Seq(Token), NEW g, WordShape(T, g), NEW final \in BOOLEAN
  PROVE  CheckHead(T, final) = IF g.verb = "COMMIT" THEN "yes" ELSE More(final)
<1>1. Len(T) = 1 /\ T[1] = W(g.verb) /\ g.verb \in {"LOCK", "COMMIT", "UNLOCK"}
  BY DEF WordShape
<1>2. CASE g.verb = "COMMIT"
  BY <1>1, <1>2, HeadByVerb
<1>3. CASE g.verb # "COMMIT"
  BY <1>1, <1>3, LockSays
<1> QED BY <1>2, <1>3

(* So it does after the one word of LOCK or COMMIT. *)
LEMMA WordGoesOn ==
  ASSUME NEW T \in Seq(Token), NEW g \in Readings, WordShape(T, g),
         CheckHead(T, FALSE) = "more", NEW t \in Tokens(g), NEW h, h = Hear(g, t)
  PROVE  Follows(Append(T, t), h)
<1> DEFINE A == Append(T, t)
           m == Read(g, t)
<1>1. Len(T) = 1 /\ T[1] = W(g.verb) /\ g.row = Rows0 /\ g.column = Default0 /\ ~g.abroad /\ g.kind = "none"
  BY DEF WordShape
<1>2. t \in Token
  BY HearTyped
<1>3. A \in Seq(Token) /\ Len(A) = 2 /\ A[1] = T[1] /\ A[2] = t
  <2>1. /\ A \in Seq(Token) /\ Len(A) = Len(T) + 1 /\ A[Len(T) + 1] = t
        /\ \A i \in 1 .. Len(T) : A[i] = T[i]
    BY <1>2, Appended
  <2> HIDE DEF A
  <2> QED BY <1>1, <2>1
<1> HIDE DEF A
<1>4. CASE g.verb = "LOCK" /\ g.place = "tables"
  <2>1. /\ m \in Readings /\ m.place = "name"
        /\ t = W("TABLES") \/ t = W("INSTANCE")
        /\ m.verb = g.verb /\ m.kind = g.kind /\ m.abroad = g.abroad
        /\ m.row = g.row /\ m.column = g.column
    BY <1>4, ReadTables
  <2> HIDE DEF m
  <2>2. /\ h.verb = m.verb /\ h.kind = m.kind /\ h.place = m.place
        /\ h.abroad = m.abroad /\ h.row = m.row /\ h.column = m.column
    BY <2>1, HearHead DEF m
  <2>3. CASE t = W("TABLES")
    <3>1. ListShape(A, h, 2)
      BY <1>1, <1>3, <1>4, <2>1, <2>2, <2>3 DEF ListShape
    <3>2. 2 \in 0 .. Len(A)
      BY <1>3
    <3> QED BY <3>1, <3>2 DEF Follows, Shape, A
  <2>4. CASE t = W("INSTANCE")
    <3>1. ~Is(A, 2, {"TABLES"})
      BY <1>3, <2>4 DEF Is, W
    <3>2. CheckHead(A, FALSE) = "refuse"
      <4>1. A[1] = W("LOCK") /\ Len(A) >= 1 /\ Len(A) > 1
        BY <1>1, <1>3, <1>4
      <4> QED BY <1>3, <3>1, <4>1, LockSays
    <3> QED BY <3>2 DEF Follows, A
  <2> QED BY <2>1, <2>3, <2>4
<1>5. CASE g.verb = "UNLOCK" /\ g.place = "after"
  <2>1. t = W("BEFORE")
    <3>1. t \in Continuations(g)
      BY <1>5, TokensAfterName
    <3> QED BY <1>1, <1>5, <3>1 DEF Continuations
  <2>2. ~Is(A, 2, {"TABLES"})
    BY <1>3, <2>1 DEF Is, W
  <2>3. CheckHead(A, FALSE) = "refuse"
    <3>1. A[1] = W("UNLOCK") /\ Len(A) >= 1 /\ Len(A) > 1
      BY <1>1, <1>3, <1>5
    <3> QED BY <1>3, <2>2, <3>1, LockSays
  <2> QED BY <2>3 DEF Follows, A
<1>6. g.verb # "COMMIT"
  BY WordSays
<1> QED BY <1>4, <1>5, <1>6 DEF WordShape
----------------------------------------------------------------------------
(* DROP and LOCK.                                                          *)

(* A name abroad stays one. *)
LEMMA ForeignStays ==
  ASSUME NEW T \in Seq(Token), NEW t \in Token, NEW i \in 1 .. Len(T), Foreign(T, i)
  PROVE  Foreign(Append(T, t), i)
<1> DEFINE A == Append(T, t)
<1>1. /\ Len(A) = Len(T) + 1 /\ Len(T) \in Nat /\ \A n \in 1 .. Len(T) : A[n] = T[n]
  BY Appended
<1> HIDE DEF A
<1>2. A[i] = T[i] /\ i \in Nat
  BY <1>1
<1>3. ~DotFirst(A, i) /\ A[i].kind \in {"w", "b"}
  BY <1>1, <1>2 DEF Foreign, DotFirst
<1>4. ASSUME DotFirst(T, i + 1) PROVE DotFirst(A, i + 1)
  <2>1. i + 1 \in 1 .. Len(T)
    BY <1>1, <1>2, <1>4 DEF DotFirst
  <2> QED BY <1>1, <1>4, <2>1 DEF DotFirst
<1>5. ~CheckQualifier(A, i)
  BY <1>2, <1>4 DEF Foreign, CheckQualifier
<1> QED BY <1>3, <1>5 DEF Foreign, A

(* A list is decided at its end, and not while a name of it is abroad. *)
LEMMA ListSays ==
  ASSUME NEW T \in Seq(Token), Len(T) >= 1, NEW g, NEW k, ListShape(T, g, k)
  PROVE  /\ CheckHead(T, FALSE) = "more"
         /\ g.abroad => CheckHead(T, TRUE) = "refuse"
<1>1. /\ CheckHead(T, FALSE) = "more"
      /\ CheckHead(T, TRUE) = YesIf(CheckAllNames(T, k + 1))
  <2>1. CASE T[1] = W("DROP") /\ g.verb = "DROP" /\ Kinded(T, g, k) /\ g.kind \in Objects
    BY <2>1, DDLSays
  <2>2. CASE T[1] = W("LOCK") /\ k = 2 /\ Len(T) >= 2 /\ T[2] = W("TABLES")
    <3>1. Is(T, 2, {"TABLES"})
      BY <2>2 DEF Is, W
    <3>2. Len(T) > 1 /\ k + 1 = 3
      BY <2>2
    <3> QED BY <2>2, <3>1, <3>2, LockSays
  <2> QED BY <2>1, <2>2 DEF ListShape
<1>2. ASSUME g.abroad PROVE ~CheckAllNames(T, k + 1)
  BY <1>2 DEF ListShape, CheckAllNames, Foreign
<1> QED BY <1>1, <1>2 DEF YesIf

(* So it does in the list of a DROP or a LOCK. *)
LEMMA ListGoesOn ==
  ASSUME NEW T \in Seq(Token), Len(T) >= 1, NEW g \in Readings, NEW k, ListShape(T, g, k),
         NEW t \in Tokens(g), NEW h, h = Hear(g, t)
  PROVE  Follows(Append(T, t), h)
<1> DEFINE A == Append(T, t)
           m == Read(g, t)
<1>0. /\ k \in 2 .. Len(T) /\ Len(T) \in Nat
      /\ g.verb \in {"DROP", "LOCK"} /\ g.row = Rows0 /\ g.column = Default0
  BY DEF ListShape, Kinded
<1>1. t \in Token /\ h.verb = g.verb /\ (g.place \notin {"verb", "kind"} => h.kind = g.kind)
  BY HearTyped, <1>0 DEF ListShape
<1>2. A \in Seq(Token) /\ Len(A) = Len(T) + 1 /\ A[Len(T) + 1] = t /\ \A i \in 1 .. Len(T) : A[i] = T[i]
  BY <1>1, Appended
<1>3. \A i \in 1 .. Len(T) : Foreign(T, i) => Foreign(A, i)
  BY <1>1, ForeignStays
<1>4. g.place = "name" \/ /\ g.place \in {"named", "dot", "ended", "after"}
                          /\ \E n \in k + 1 .. Len(T) : Spelled(T, n, g.place, g.id)
  BY DEF ListShape
<1>5. h.row = Rows0 /\ h.column = Default0
  <2>1. g.place # "verb" /\ h.verb \notin {"INSERT", "CREATE"}
    BY <1>0, <1>1, <1>4
  <2> QED BY <1>0, <2>1, HearTyped
<1>6. \/ h.verb = "DROP" /\ A[1] = W("DROP") /\ Kinded(A, h, k) /\ h.kind \in Objects
      \/ /\ h.verb = "LOCK" /\ A[1] = W("LOCK") /\ h.kind = "none"
         /\ k = 2 /\ Len(A) >= 2 /\ A[2] = W("TABLES")
  <2>1. h.kind = g.kind
    BY <1>1, <1>4
  <2>2. CASE g.verb = "DROP"
    <3>1. Kinded(T, g, k) /\ T[1] = W("DROP") /\ g.kind \in Objects
      BY <2>2 DEF ListShape
    <3>2. Kinded(A, h, k)
      BY <1>1, <2>1, <3>1, KindedGrows
    <3> QED BY <1>0, <1>1, <1>2, <2>1, <2>2, <3>1, <3>2
  <2>3. CASE g.verb = "LOCK"
    BY <1>0, <1>1, <1>2, <2>1, <2>3 DEF ListShape
  <2> QED BY <1>0, <2>2, <2>3
<1>7. /\ h.place # "name" =>
           /\ h.place \in {"named", "dot", "ended", "after"}
           /\ \E n \in k + 1 .. Len(A) : Spelled(A, n, h.place, h.id)
      /\ h.abroad => g.abroad \/ \E i \in k + 1 .. Len(A) : Foreign(A, i)
  <2>1. CASE g.place = "name" /\ t \in BeforeName(g)
    <3>1. m \in Readings /\ m.place = "name" /\ m.abroad = g.abroad
      BY <2>1, HearBeforeName DEF Read
    <3> HIDE DEF m
    <3>2. h.place = m.place /\ h.abroad = m.abroad
      BY <3>1, HearHead DEF m
    <3> QED BY <3>1, <3>2
  <2>2. CASE g.place = "name" /\ t \in Names
    <3>1. m \in Readings /\ m.place \in {"named", "dot", "ended"}
      BY <2>2, HearName, NameForms DEF Read
    <3>2. /\ Spelled(A, Len(T) + 1, m.place, m.id)
          /\ m.abroad <=> g.abroad \/ ~CheckQualifier(A, Len(T) + 1)
      BY <2>2, NameStarts DEF Read
    <3> HIDE DEF m, A
    <3>3. h.place = m.place /\ h.abroad = m.abroad /\ h.id = m.id
      BY <3>1, HearHead DEF m
    <3>4. Len(T) + 1 \in k + 1 .. Len(A)
      BY <1>0, <1>2
    <3>5. ~DotFirst(A, Len(T) + 1)
      BY <1>2, <3>2, SpelledEnd
    <3>6. t.kind \in {"w", "b"}
      BY <2>2 DEF Names, W, B, Word
    <3>7. ~CheckQualifier(A, Len(T) + 1) => Foreign(A, Len(T) + 1)
      BY <1>2, <3>5, <3>6 DEF Foreign
    <3> QED BY <3>1, <3>2, <3>3, <3>4, <3>7
  <2>3. CASE g.place # "name"
    <3>1. PICK n \in k + 1 .. Len(T) : Spelled(T, n, g.place, g.id)
      BY <1>4, <2>3
    <3>2. /\ h.place \in {"name", "dot", "ended", "after"}
          /\ h.place # "name" => Spelled(A, n, h.place, h.id)
          /\ \/ h.abroad = g.abroad
             \/ h.abroad <=> g.abroad \/ ~CheckQualifier(A, n)
      BY <1>4, <2>3, <3>1, HeardGoesOn DEF Goes
    <3>3. n \in k + 1 .. Len(A) /\ n \in 1 .. Len(T)
      BY <1>0, <1>2
    <3>4. ~CheckQualifier(A, n) => Foreign(A, n)
      <4>1. OneWord(T[n]) \/ OpenWord(T[n]) \/ ClosedWord(T[n])
        BY <3>1 DEF Spelled
      <4>2. T[n].kind \in {"w", "b"}
        BY <4>1 DEF OneWord, OpenWord, ClosedWord, W, B, Word
      <4>3. ~DotFirst(T, n)
        BY <3>1, SpelledEnd
      <4> HIDE DEF A
      <4>4. A[n] = T[n] /\ n <= Len(T) /\ n <= Len(A)
        BY <1>2, <3>3
      <4> QED BY <4>2, <4>3, <4>4 DEF Foreign, DotFirst
    <3> HIDE DEF A
    <3> QED BY <3>2, <3>3, <3>4
  <2>4. g.place = "name" => t \in Names \cup BeforeName(g)
    BY DEF Tokens
  <2> QED BY <2>1, <2>2, <2>3, <2>4
<1>8. g.abroad => \E i \in k + 1 .. Len(A) : Foreign(A, i)
  <2>1. g.abroad => \E i \in k + 1 .. Len(T) : Foreign(T, i)
    BY DEF ListShape
  <2> HIDE DEF A
  <2>2. \A i \in k + 1 .. Len(T) : i \in k + 1 .. Len(A) /\ i \in 1 .. Len(T)
    BY <1>0, <1>2
  <2> QED BY <1>3, <2>1, <2>2
<1> HIDE DEF A
<1>9. ListShape(A, h, k)
  BY <1>5, <1>6, <1>7, <1>8 DEF ListShape
<1>10. k \in 0 .. Len(A)
  BY <1>0, <1>2
<1> QED BY <1>9, <1>10 DEF Follows, Shape, A
----------------------------------------------------------------------------
(* ALTER TABLE is decided at its end, which must be the end of its name    *)
(* and two words.                                                          *)
LEMMA AlterSays ==
  ASSUME NEW T \in Seq(Token), Len(T) >= 1, NEW g, NEW k, AlterShape(T, g, k)
  PROVE  /\ CheckHead(T, FALSE) = "more"
         /\ g.abroad => CheckHead(T, TRUE) = "refuse"
<1>0. /\ k \in 2 .. Len(T) /\ Len(T) \in Nat /\ k \in Nat /\ T[1] = W("ALTER") /\ g.verb = "ALTER"
      /\ Kinded(T, g, k) /\ g.kind = "TABLE"
  BY DEF AlterShape, Kinded
<1>1. \A final \in BOOLEAN : CheckHead(T, final) = CheckAlterTable(T, k + 1, final)
  BY <1>0, DDLSays
<1>2. CheckHead(T, FALSE) = "more"
  BY <1>1 DEF CheckAlterTable
<1>3. ASSUME g.abroad, ~CheckQualifier(T, k + 1) PROVE CheckHead(T, TRUE) = "refuse"
  BY <1>1, <1>3 DEF CheckAlterTable, YesIf
<1>4. ASSUME Len(T) >= k + 2, T[k + 1] = W("IF"), ~Is(T, k + 2, {"DISABLE", "ENABLE"})
      PROVE  CheckHead(T, TRUE) = "refuse"
  <2>1. k + 1 \in 1 .. Len(T) /\ (k + 1) + 1 = k + 2
    BY <1>0, <1>4
  <2>2. T[k + 1].kind = "w" /\ T[k + 1].text = <<"IF">>
    BY <1>4 DEF W
  <2>3. Dot(T[k + 1].text) = 0 /\ ~DotLast(T, k + 1) /\ T[k + 1].text # <<"own">>
    <3>1. Dot(<<"IF">>) = 0
      BY DotForms
    <3>2. Last(<<"IF">>) = "IF" /\ <<"IF">> # <<"own">>
      BY DEF Last
    <3> QED BY <2>2, <3>1, <3>2 DEF DotLast
  <2>4. CASE DotFirst(T, k + 2)
    <3>1. ~CheckQualifier(T, k + 1)
      BY <2>1, <2>3, <2>4 DEF CheckQualifier
    <3> QED BY <1>1, <3>1 DEF CheckAlterTable, YesIf
  <2>5. CASE ~DotFirst(T, k + 2)
    <3>1. Is(T, k + 2, {"."}) => DotFirst(T, k + 2)
      BY DEF Is, DotFirst
    <3>2. NameEnd(T, k + 1) = k + 2
      BY <2>1, <2>3, <2>5, <3>1 DEF NameEnd
    <3> QED BY <1>1, <1>4, <3>2 DEF CheckAlterTable, YesIf
  <2> QED BY <2>4, <2>5
<1> QED BY <1>2, <1>3, <1>4 DEF AlterShape

(* So it does in an ALTER TABLE. *)
LEMMA AlterGoesOn ==
  ASSUME NEW T \in Seq(Token), Len(T) >= 1, NEW g \in Readings, NEW k, AlterShape(T, g, k),
         NEW t \in Tokens(g), NEW h, h = Hear(g, t)
  PROVE  Follows(Append(T, t), h)
<1> DEFINE A == Append(T, t)
           m == Read(g, t)
<1>0. /\ k \in 2 .. Len(T) /\ Len(T) \in Nat /\ k \in Nat /\ T[1] = W("ALTER") /\ g.verb = "ALTER"
      /\ Kinded(T, g, k) /\ g.kind = "TABLE" /\ g.row = Rows0 /\ g.column = Default0
  BY DEF AlterShape, Kinded
<1>1. t \in Token
  BY HearTyped
<1>2. A \in Seq(Token) /\ Len(A) = Len(T) + 1 /\ A[Len(T) + 1] = t /\ \A i \in 1 .. Len(T) : A[i] = T[i]
  BY <1>1, Appended
<1> HIDE DEF A
<1>3. k \in 0 .. Len(A)
  BY <1>0, <1>2
<1>4. SUFFICES AlterShape(A, h, k)
  BY <1>3 DEF Follows, Shape, A
<1>5. ASSUME g.place \notin {"verb", "kind"}
      PROVE  /\ A[1] = W("ALTER") /\ h.verb = "ALTER" /\ Kinded(A, h, k) /\ h.kind = "TABLE"
             /\ h.row = Rows0 /\ h.column = Default0
  <2>1. h.verb = "ALTER" /\ h.kind = "TABLE" /\ h.row = Rows0 /\ h.column = Default0
    BY <1>0, <1>5, HearTyped
  <2>2. Kinded(A, h, k)
    BY <1>0, <1>1, <2>1, KindedGrows DEF A
  <2> QED BY <1>0, <1>2, <2>1, <2>2
<1>6. CASE g.place = "name" /\ Len(T) = k /\ g.id = "none" /\ ~g.abroad
  <2>1. CASE t \in Names
    <3>1. m \in Readings /\ m.place \in {"named", "dot", "ended"}
      BY <1>6, <2>1, HearName, NameForms DEF Read
    <3>2. /\ Spelled(A, Len(T) + 1, m.place, m.id)
          /\ m.abroad <=> g.abroad \/ ~CheckQualifier(A, Len(T) + 1)
      BY <1>6, <2>1, NameStarts DEF Read, A
    <3> HIDE DEF m
    <3>3. h.place = m.place /\ h.abroad = m.abroad /\ h.id = m.id
      BY <3>1, HearHead DEF m
    <3> QED BY <1>5, <1>6, <3>1, <3>2, <3>3 DEF AlterShape
  <2>2. CASE t \in BeforeName(g)
    <3>1. t = W("IF")
      BY <1>0, <1>6, <2>2, BeforeNameForms
    <3>2. m \in Readings /\ m.place = "name" /\ m.abroad = g.abroad /\ t = W(m.id)
      BY <1>6, <2>2, HearBeforeName DEF Read
    <3> HIDE DEF m
    <3>3. h.place = m.place /\ h.abroad = m.abroad /\ h.id = m.id
      BY <3>2, HearHead DEF m
    <3>4. m.id = "IF"
      BY <3>1, <3>2 DEF W
    <3> QED BY <1>2, <1>5, <1>6, <3>1, <3>2, <3>3, <3>4 DEF AlterShape
  <2> QED BY <1>6, <2>1, <2>2 DEF Tokens
<1>7. CASE /\ g.place \in {"named", "dot", "ended", "after"} /\ Spelled(T, k + 1, g.place, g.id)
           /\ g.abroad => ~CheckQualifier(T, k + 1)
  <2>1. /\ h.place \in {"name", "dot", "ended", "after"}
        /\ h.place # "name" => Spelled(A, k + 1, h.place, h.id)
        /\ h.place = "name" => g.verb \in {"DROP", "LOCK"} \/ g.kind = "TRIGGER"
        /\ \/ /\ CheckQualifier(A, k + 1) <=> CheckQualifier(T, k + 1)
              /\ h.abroad = g.abroad
           \/ /\ CheckQualifier(T, k + 1)
              /\ h.abroad <=> g.abroad \/ ~CheckQualifier(A, k + 1)
    BY <1>7, HeardGoesOn DEF A, Goes
  <2> QED BY <1>0, <1>5, <1>7, <2>1 DEF AlterShape
<1>8. CASE g.place = "name" /\ g.id = "IF" /\ Len(T) = k + 1 /\ T[k + 1] = W("IF") /\ ~g.abroad
  <2>1. ~Is(A, k + 2, {"DISABLE", "ENABLE"})
    <3>1. k + 2 \in 1 .. Len(A) /\ A[k + 2] = t
      BY <1>0, <1>2, <1>8
    <3>2. CASE t \in Names
      <4>1. {"DISABLE", "ENABLE"} \cap Plain = {}
        BY DEF Plain
      <4> QED BY <1>2, <3>1, <3>2, <4>1, NameForms, NameIsNoWord
    <3>3. CASE t \in BeforeName(g)
      BY <3>1, <3>3, BeforeNameForms DEF Is, W
    <3> QED BY <1>8, <3>2, <3>3 DEF Tokens
  <2>2. A[k + 1] = W("IF") /\ Len(A) >= k + 2
    BY <1>0, <1>2, <1>8
  <2>3. h.place \in NamePlaces
    BY <1>8, HearTyped DEF NamePlaces
  <2> QED BY <1>5, <1>8, <2>1, <2>2, <2>3 DEF AlterShape
<1>9. CASE /\ g.place \in NamePlaces
           /\ Len(T) >= k + 2 /\ T[k + 1] = W("IF") /\ ~Is(T, k + 2, {"DISABLE", "ENABLE"})
  <2>1. A[k + 1] = W("IF") /\ A[k + 2] = T[k + 2] /\ Len(A) >= k + 2
    BY <1>0, <1>2, <1>9
  <2>2. ~Is(A, k + 2, {"DISABLE", "ENABLE"})
    BY <1>0, <1>9, <2>1 DEF Is
  <2>3. g.place \notin {"verb", "kind"} /\ h.place \in NamePlaces
    BY <1>9, HearTyped DEF NamePlaces
  <2> QED BY <1>5, <2>1, <2>2, <2>3 DEF AlterShape
<1> QED BY <1>6, <1>7, <1>8, <1>9 DEF AlterShape
----------------------------------------------------------------------------
(* USE and the statements about a database are decided by its name.        *)
LEMMA DatabaseSays ==
  ASSUME NEW T \in Seq(Token), Len(T) >= 1, NEW g, NEW a, DatabaseShape(T, g, a),
         NEW final \in BOOLEAN
  PROVE  /\ g.place = "database" => CheckHead(T, final) = More(final)
         /\ g.place # "database" => CheckHead(T, final) \in {"yes", "refuse"}
         /\ CheckHead(T, final) = "yes" => ~g.abroad /\ g.place \in {"ended", "after"}
<1>1. ASSUME NEW t, t \in Databases
      PROVE  /\ CheckName(t) <=> t.text[1] = "own"
             /\ t.kind \in {"w", "b"} /\ t.text[1] \in {"own", "oth"}
  <2>1. PICK x \in {"own", "oth"} : t = W(x) \/ t = B(x)
    BY <1>1 DEF Databases
  <2>2. t.text = <<x>> /\ t.text[1] = x /\ t.kind \in {"w", "b"}
    BY <2>1 DEF W, B
  <2>3. <<x>> = <<"own">> <=> x = "own"
    OBVIOUS
  <2> QED BY <2>2, <2>3 DEF CheckName
<1>2. ~CheckName(W("CHARACTER"))
  <2>1. <<"CHARACTER">> # <<"own">>
    OBVIOUS
  <2> QED BY <2>1 DEF CheckName, W
<1>3. Len(T) \in Nat /\ g.place \in {"database", "ended", "after"}
  BY DEF DatabaseShape
<1>4. CASE T[1] = W("USE") /\ g.verb = "USE" /\ a = 2 /\ Len(T) <= 2
  <2>0. \A n \in Nat : n <= 2 /\ n >= 2 => n = 2
    OBVIOUS
  <2>1. CheckHead(T, final) = IF Len(T) < 2 THEN More(final) ELSE YesIf(CheckName(T[2]))
    BY <1>4, HeadByVerb
  <2>2. CASE g.place = "database"
    <3>1. Len(T) < 2
      BY <1>3, <1>4, <2>2 DEF DatabaseShape
    <3>2. CheckHead(T, final) = More(final)
      BY <2>1, <3>1
    <3> QED BY <2>2, <3>2 DEF More
  <2>3. CASE g.place = "ended"
    <3>1. Len(T) = 2 /\ T[2] \in Databases /\ (g.abroad => T[2].text[1] # "own")
      <4>1. Len(T) >= a /\ T[Len(T)] \in Databases /\ (g.abroad => T[Len(T)].text[1] # "own")
        BY <2>3 DEF DatabaseShape
      <4> QED BY <1>3, <1>4, <2>0, <4>1
    <3>2. CheckHead(T, final) = YesIf(CheckName(T[2]))
      BY <2>1, <3>1
    <3> QED BY <1>1, <2>3, <3>1, <3>2 DEF YesIf
  <2>4. CASE g.place = "after"
    <3>1. Len(T) = 2 /\ T[2] = W("CHARACTER")
      <4>1. Len(T) >= a /\ T[Len(T)] = W("CHARACTER")
        BY <2>4 DEF DatabaseShape
      <4> QED BY <1>3, <1>4, <2>0, <4>1
    <3>2. CheckHead(T, final) = "refuse"
      BY <1>2, <2>1, <3>1 DEF YesIf
    <3> QED BY <2>4, <3>2
  <2> QED BY <1>3, <2>2, <2>3, <2>4
<1>5. CASE /\ g.verb \in {"CREATE", "ALTER"} /\ T[1] = W(g.verb)
           /\ a \in Nat /\ Kinded(T, g, a - 1) /\ g.kind = "DATABASE"
  <2>0. a \in Nat /\ a >= 2 /\ a - 1 <= Len(T) /\ (a - 1) + 1 = a
    BY <1>3, <1>5 DEF Kinded
  <2>1. CheckHead(T, final) = CheckDatabaseName(T, a, final)
    BY <1>5, <2>0, DDLSays
  <2>2. \A i \in a .. Len(T) - 1 : Is(T, i, IfNotExists)
    <3>1. \A i \in a .. Len(T) - 1 : T[i] = W("IF") /\ i <= Len(T)
      BY <1>3, <2>0 DEF DatabaseShape
    <3> QED BY <3>1 DEF Is, W, IfNotExists
  <2>3. CASE g.place = "database"
    <3>1. \A i \in a .. (Len(T) + 1) - 1 : Is(T, i, IfNotExists)
      <4>1. Len(T) >= a => Is(T, Len(T), IfNotExists)
        BY <1>3, <2>3 DEF DatabaseShape, Is, W, IfNotExists
      <4> QED BY <1>3, <2>0, <2>2, <4>1
    <3>2. ~Is(T, Len(T) + 1, IfNotExists)
      BY <1>3 DEF Is
    <3>3. SkipWords(T, a, IfNotExists) = Len(T) + 1
      <4>1. Len(T) + 1 \in a .. Len(T) + 1
        BY <1>3, <2>0
      <4> QED BY <2>0, <3>1, <3>2, <4>1, SkipTo
    <3>4. CheckHead(T, final) = More(final)
      <4>1. Len(T) + 1 > Len(T)
        BY <1>3
      <4>2. ~Is(T, Len(T) + 1, {"CHARACTER"})
        BY <1>3 DEF Is
      <4> QED BY <2>1, <3>3, <4>1, <4>2 DEF CheckDatabaseName
    <3> QED BY <2>3, <3>4 DEF More
  <2>4. ASSUME Len(T) >= a, ~Is(T, Len(T), IfNotExists)
        PROVE  SkipWords(T, a, IfNotExists) = Len(T) /\ ~(Len(T) > Len(T))
    BY <1>3, <2>0, <2>2, <2>4, SkipTo
  <2>5. CASE g.place = "ended"
    <3>1. Len(T) >= a /\ T[Len(T)] \in Databases /\ (g.abroad => T[Len(T)].text[1] # "own")
      BY <2>5 DEF DatabaseShape
    <3>2. ~Is(T, Len(T), IfNotExists) /\ ~Is(T, Len(T), {"CHARACTER"})
      BY <1>1, <3>1 DEF Is, IfNotExists
    <3>3. CheckHead(T, final) = YesIf(CheckName(T[Len(T)]))
      BY <2>1, <2>4, <3>1, <3>2 DEF CheckDatabaseName
    <3> QED BY <1>1, <2>5, <3>1, <3>3 DEF YesIf
  <2>6. CASE g.place = "after"
    <3>1. Len(T) >= a /\ T[Len(T)] = W("CHARACTER") /\ ~g.abroad
      BY <2>6 DEF DatabaseShape
    <3>2. ~Is(T, Len(T), IfNotExists)
      BY <3>1 DEF Is, W, IfNotExists
    <3>3. CheckHead(T, final) \in {"yes", "refuse"}
      <4>1. SkipWords(T, a, IfNotExists) = Len(T) /\ ~(Len(T) > Len(T))
        BY <2>4, <3>1, <3>2
      <4>2. CASE Is(T, 1, {"ALTER"}) /\ Is(T, Len(T), {"CHARACTER"})
        BY <2>1, <4>1, <4>2 DEF CheckDatabaseName
      <4>3. CASE ~(Is(T, 1, {"ALTER"}) /\ Is(T, Len(T), {"CHARACTER"}))
        BY <2>1, <4>1, <4>3 DEF CheckDatabaseName, YesIf
      <4> QED BY <4>2, <4>3
    <3> QED BY <2>6, <3>1, <3>3
  <2> QED BY <1>3, <2>3, <2>5, <2>6
<1> QED BY <1>4, <1>5 DEF DatabaseShape

(* So it does where a database is named. *)
LEMMA DatabaseGoesOn ==
  ASSUME NEW T \in Seq(Token), Len(T) >= 1, NEW g \in Readings, NEW a, DatabaseShape(T, g, a),
         CheckHead(T, FALSE) = "more", NEW t \in Tokens(g), NEW h, h = Hear(g, t)
  PROVE  Follows(Append(T, t), h)
<1> DEFINE A == Append(T, t)
           m == Read(g, t)
<1>0. g.place = "database" /\ g.row = Rows0 /\ g.column = Default0
  BY DatabaseSays DEF DatabaseShape
<1>1. /\ t \in Token /\ m \in Readings /\ m.verb = g.verb /\ m.kind = g.kind
      /\ m.row = g.row /\ m.column = g.column
      /\ \/ t = W("IF") /\ m.place = "database" /\ m.abroad = g.abroad
         \/ t = W("CHARACTER") /\ m.place = "after" /\ m.abroad = g.abroad
         \/ t \in Databases /\ m.place = "ended" /\ (m.abroad <=> t.text[1] # "own")
  BY <1>0, ReadDatabase
<1>2. A \in Seq(Token) /\ Len(A) = Len(T) + 1 /\ A[Len(T) + 1] = t /\ \A i \in 1 .. Len(T) : A[i] = T[i]
  BY <1>1, Appended
<1> HIDE DEF A, m
<1>3. g.verb # "INSERT" /\ ~(g.verb = "CREATE" /\ g.kind = "TABLE")
  BY DEF DatabaseShape
<1>4. /\ h.verb = g.verb /\ h.kind = g.kind /\ h.place = m.place /\ h.abroad = m.abroad
      /\ h.row = Rows0 /\ h.column = Default0
  BY <1>0, <1>1, <1>3, HearHead DEF m
<1>5. Len(T) \in Nat /\ a \in Nat /\ ~g.abroad /\ a <= Len(T) + 1 /\ a >= 1
  BY <1>0 DEF DatabaseShape, Kinded
<1>6. \A i \in a .. Len(T) : T[i] = W("IF") /\ A[i] = W("IF")
  <2>1. \A i \in a .. Len(T) : T[i] = W("IF")
    BY <1>0, <1>5 DEF DatabaseShape
  <2> QED BY <1>2, <1>5, <2>1
<1>7. \/ /\ A[1] = W("USE") /\ h.verb = "USE" /\ h.kind = "none" /\ a = 2 /\ Len(A) = 2 /\ g.verb = "USE"
      \/ /\ h.verb \in {"CREATE", "ALTER"} /\ A[1] = W(h.verb) /\ g.verb # "USE"
         /\ a \in Nat /\ Kinded(A, h, a - 1) /\ h.kind = "DATABASE"
  <2>1. CASE T[1] = W("USE") /\ g.verb = "USE" /\ g.kind = "none" /\ a = 2 /\ Len(T) <= 2
    <3>1. ~(Len(T) >= 2)
      BY <1>0, <2>1 DEF DatabaseShape
    <3>2. \A n \in Nat : n >= 1 /\ ~(n >= 2) => n = 1 /\ n + 1 = 2
      OBVIOUS
    <3> QED BY <1>2, <1>4, <1>5, <2>1, <3>1, <3>2
  <2>2. CASE /\ g.verb \in {"CREATE", "ALTER"} /\ T[1] = W(g.verb)
             /\ a \in Nat /\ Kinded(T, g, a - 1) /\ g.kind = "DATABASE"
    <3>1. Kinded(A, h, a - 1)
      BY <1>1, <1>4, <2>2, KindedGrows DEF A
    <3> QED BY <1>2, <1>4, <1>5, <2>2, <3>1
  <2> QED BY <2>1, <2>2 DEF DatabaseShape
<1>8. \A i \in a .. Len(A) - 1 : A[i] = W("IF")
  BY <1>2, <1>5, <1>6
<1>9. Len(A) >= a /\ A[Len(A)] = t /\ a \in 0 .. Len(A) + 1
  BY <1>2, <1>5
<1>10. CASE g.verb = "USE" /\ t = W("IF")
  <2>1. A[2] = W("IF") /\ Len(A) = 2 /\ A[1] = W("USE")
    BY <1>7, <1>9, <1>10
  <2>2. Len(A) >= 1 /\ ~(Len(A) < 2)
    BY <2>1
  <2>3. CheckHead(A, FALSE) = YesIf(CheckName(A[2]))
    BY <1>2, <2>1, <2>2, HeadByVerb
  <2>4. ~CheckName(A[2])
    <3>1. <<"IF">> # <<"own">>
      OBVIOUS
    <3> QED BY <2>1, <3>1 DEF CheckName, W
  <2> QED BY <2>3, <2>4 DEF Follows, YesIf, A
<1>11. CASE ~(g.verb = "USE" /\ t = W("IF"))
  <2>1. \/ /\ h.place = "database" /\ ~h.abroad
           /\ Len(A) >= a => A[Len(A)] = W("IF") /\ h.verb # "USE"
        \/ /\ h.place = "ended" /\ Len(A) >= a /\ A[Len(A)] \in Databases
           /\ h.abroad => A[Len(A)].text[1] # "own"
        \/ h.place = "after" /\ Len(A) >= a /\ A[Len(A)] = W("CHARACTER") /\ ~h.abroad
    BY <1>1, <1>4, <1>5, <1>9, <1>11
  <2>2. DatabaseShape(A, h, a)
    BY <1>4, <1>7, <1>8, <2>1 DEF DatabaseShape
  <2> QED BY <1>9, <2>2 DEF Follows, Shape, A
<1> QED BY <1>10, <1>11
----------------------------------------------------------------------------
(* CREATE of a table, view or trigger goes on, to the table of a trigger   *)
(* when ON comes.                                                          *)
LEMMA OnSays ==
  ASSUME NEW T \in Seq(Token), Len(T) >= 1, NEW g, NEW k, NEW j, T[1] = W("CREATE"),
         g.verb = "CREATE", g.kind = "TRIGGER", Kinded(T, g, k),
         j \in k + 1 .. Len(T), Spelled(T, j, "after", g.id),
         \A i \in k + 1 .. j - 1 : T[i] \in {W("IF"), W("EXISTS")},
         \A i \in k + 2 .. Len(T) - 1 : ~Is(T, i, {"ON"}),
         CheckHead(T, FALSE) # "refuse"
  PROVE  CheckQualifier(T, j) /\ Len(T) \in k + 2 .. k + 8
<1>0. k \in 2 .. Len(T) /\ k \in Nat /\ Len(T) \in Nat /\ k + 1 \in Nat \ {0} /\ j \in k + 1 .. Len(T) + 1
  BY DEF Kinded
<1>1. j < Len(T)
  BY <1>0, SpelledEnd
<1>2. \A i \in k + 1 .. j - 1 : Is(T, i, IfNotExists)
  <2>1. \A i \in k + 1 .. j - 1 : i <= Len(T)
    BY <1>0
  <2> QED BY <2>1 DEF Is, W, IfNotExists
<1> DEFINE named == CheckObjectName(T, k + 1, FALSE)
<1>3. named = IF CheckQualifier(T, j) THEN "yes" ELSE "refuse"
  <2>1. named = IF ~FALSE /\ j = Len(T) THEN "more"
                ELSE IF ~CheckQualifier(T, j) THEN "refuse" ELSE "yes"
    BY <1>0, <1>2, ObjectNameSays
  <2>2. j # Len(T)
    BY <1>0, <1>1
  <2> QED BY <2>1, <2>2
<1>4. CheckHead(T, FALSE) = IF named = "yes" THEN CheckTriggerTable(T, k + 1, FALSE) ELSE named
  BY DDLSays DEF Objects
<1>5. CheckQualifier(T, j)
  BY <1>3, <1>4
<1>6. ASSUME Len(T) > k + 8 PROVE FALSE
  <2>1. (k + 1) + 1 = k + 2 /\ (k + 1) + 7 = k + 8
    BY <1>0
  <2>2. \A i \in k + 2 .. k + 8 : ~Is(T, i, {"ON"})
    BY <1>0, <1>6
  <2>3. {i \in (k + 1) + 1 .. (k + 1) + 7 : Is(T, i, {"ON"})} = {}
    BY <2>1, <2>2
  <2>4. ~(Len(T) < (k + 1) + 7)
    BY <1>0, <1>6
  <2>5. CheckTriggerTable(T, k + 1, FALSE) = "refuse"
    BY <2>3, <2>4 DEF CheckTriggerTable
  <2> QED BY <1>3, <1>4, <1>5, <2>5
<1> QED BY <1>0, <1>1, <1>5, <1>6

(* So it does in a CREATE, up to the ON of a trigger. *)
LEMMA CreateGoesOn ==
  ASSUME NEW T \in Seq(Token), Len(T) >= 1, NEW g \in Readings, NEW k, NEW j,
         CreateShape(T, g, k, j), CheckHead(T, FALSE) = "more",
         NEW t \in Tokens(g), NEW h, h = Hear(g, t)
  PROVE  Follows(Append(T, t), h)
<1> DEFINE A == Append(T, t)
           m == Read(g, t)
<1>0. /\ T[1] = W("CREATE") /\ g.verb = "CREATE" /\ g.row = Rows0 /\ g.names = 0
      /\ Kinded(T, g, k) /\ g.kind \in Objects
      /\ j \in k + 1 .. Len(T) + 1 /\ k \in 2 .. Len(T) /\ k \in Nat /\ j \in Nat /\ Len(T) \in Nat
      /\ \A i \in k + 1 .. j - 1 : T[i] \in {W("IF"), W("EXISTS")}
      /\ \A i \in k + 2 .. Len(T) : g.kind = "TRIGGER" => ~Is(T, i, {"ON"})
  BY DEF CreateShape, Kinded
<1>1. t \in Token
  BY HearTyped
<1>2. /\ A \in Seq(Token) /\ Len(A) = Len(T) + 1 /\ A[Len(T) + 1] = t
      /\ \A i \in 1 .. Len(T) : A[i] = T[i]
  BY <1>1, Appended
<1> HIDE DEF A
<1>3. g.place \in NamePlaces
  BY DEF CreateShape, NamePlaces
<1>4. A[1] = W("CREATE") /\ h.verb = "CREATE" /\ h.kind = g.kind /\ h.row = Rows0 /\ Kinded(A, h, k)
  <2>1. h.verb = "CREATE" /\ h.kind = g.kind /\ h.row = Rows0
    BY <1>0, <1>3, HearTyped DEF NamePlaces
  <2>2. Kinded(A, h, k)
    BY <1>0, <1>1, <2>1, KindedGrows DEF A
  <2> QED BY <1>0, <1>2, <2>1, <2>2
<1>5. \A i \in k + 1 .. j - 1 : A[i] \in {W("IF"), W("EXISTS")}
  BY <1>0, <1>2
<1>6. ASSUME g.kind = "TRIGGER" => ~Is(A, Len(T) + 1, {"ON"})
      PROVE  \A i \in k + 2 .. Len(A) : h.kind = "TRIGGER" => ~Is(A, i, {"ON"})
  <2> SUFFICES ASSUME NEW i \in k + 2 .. Len(A), g.kind = "TRIGGER" PROVE ~Is(A, i, {"ON"})
    BY <1>4
  <2>1. CASE i = Len(T) + 1
    BY <1>6, <2>1
  <2>2. CASE i # Len(T) + 1
    <3>1. i \in 1 .. Len(T) /\ i \in k + 2 .. Len(T)
      BY <1>0, <1>2, <2>2
    <3>2. A[i] = T[i] /\ i <= Len(T)
      BY <1>2, <3>1
    <3> QED BY <1>0, <3>1, <3>2 DEF Is
  <2> QED BY <2>1, <2>2
<1>7. ASSUME NEW n \in 0 .. Len(A) + 1, CreateShape(A, h, k, n) PROVE Follows(A, h)
  <2>1. k \in 0 .. Len(A) + 1
    BY <1>0, <1>2
  <2> QED BY <1>7, <2>1 DEF Follows, Shape
<1>8. CASE g.place = "name" /\ t \in BeforeName(g)
  <2>0. j = Len(T) + 1 /\ ~g.abroad /\ g.column = Default0
    BY <1>8 DEF CreateShape
  <2>1. /\ m \in Readings /\ m.place = "name" /\ m.abroad = g.abroad /\ m.names = g.names
        /\ m.column = g.column
    BY <1>8, HearBeforeName DEF Read
  <2> HIDE DEF m
  <2>2. h.place = m.place /\ h.abroad = m.abroad /\ h.names = m.names /\ h.column = m.column
    BY <2>1, HearHead DEF m
  <2>3. t \in {W("IF"), W("EXISTS")}
    BY <1>0, <1>8, BeforeNameForms
  <2>4. ~Is(A, Len(T) + 1, {"ON"})
    BY <1>2, <2>3 DEF Is, W
  <2>5. \A i \in k + 1 .. (j + 1) - 1 : A[i] \in {W("IF"), W("EXISTS")}
    BY <1>0, <1>2, <1>5, <2>0, <2>3
  <2>6. CreateShape(A, h, k, j + 1)
    BY <1>0, <1>2, <1>4, <1>6, <2>0, <2>1, <2>2, <2>4, <2>5 DEF CreateShape
  <2>7. j + 1 \in 0 .. Len(A) + 1
    BY <1>0, <1>2
  <2> QED BY <1>7, <2>6, <2>7 DEF A
<1>9. CASE g.place = "name" /\ t \in Names
  <2>0. j = Len(T) + 1 /\ ~g.abroad /\ g.column = Default0
    BY <1>9 DEF CreateShape
  <2>1. /\ m \in Readings /\ m.names = g.names /\ m.column = g.column /\ m.id \in Plain
        /\ m.place \in {"named", "dot", "ended"}
    BY <1>9, HearName, NameForms DEF Read
  <2>2. /\ Spelled(A, Len(T) + 1, m.place, m.id)
        /\ m.abroad <=> g.abroad \/ ~CheckQualifier(A, Len(T) + 1)
    BY <1>9, NameStarts DEF Read, A
  <2> HIDE DEF m
  <2>3. /\ h.place = m.place /\ h.abroad = m.abroad /\ h.names = m.names /\ h.column = m.column
        /\ h.id = m.id
    BY <2>1, HearHead DEF m
  <2>4. ~Is(A, Len(T) + 1, {"ON"})
    <3>1. {"ON"} \cap Plain = {}
      BY DEF Plain
    <3>2. Len(T) + 1 \in 1 .. Len(A)
      BY <1>0, <1>2
    <3> QED BY <1>2, <1>9, <3>1, <3>2, NameForms, NameIsNoWord
  <2>5. CreateShape(A, h, k, j)
    BY <1>0, <1>2, <1>4, <1>5, <1>6, <2>0, <2>1, <2>2, <2>3, <2>4 DEF CreateShape
  <2>6. j \in 0 .. Len(A) + 1
    BY <1>0, <1>2
  <2> QED BY <1>7, <2>5, <2>6 DEF A
<1>10. CASE g.place # "name"
  <2>1. /\ g.place \in {"named", "dot", "ended", "after"} /\ Spelled(T, j, g.place, g.id)
        /\ g.id \in Plain
        /\ g.abroad <=> ~CheckQualifier(T, j)
    BY <1>10 DEF CreateShape
  <2>2. g.place = "after" => g.kind = "TRIGGER"
    <3>1. j # Len(T) + 1
      BY <1>0, <2>1 DEF Spelled
    <3>2. ASSUME g.place = "after" PROVE j # Len(T)
      BY <1>0, <2>1, <3>2, SpelledEnd
    <3> QED BY <3>1, <3>2, CreateSays
  <2>3. g.column = Default0
    BY <1>10, <2>2 DEF CreateShape
  <2> DEFINE On == t = W("ON") /\ g.kind = "TRIGGER" /\ g.names = 0 /\ g.verb = "CREATE"
  <2>3a. Goes(T, g, t, j, h)
    BY <2>1, HeardGoesOn
  <2>4. /\ h.id = g.id
        /\ h.place \in {"name", "dot", "ended", "after"}
        /\ h.place # "name" => h.names = g.names /\ Spelled(A, j, h.place, h.id)
        /\ h.place \in {"name", "after"} =>
             /\ g.place # "dot" /\ t \in Continuations(g)
             /\ Spelled(A, j, "after", h.id)
             /\ NameEnd(A, j) = NameEnd(T, j)
        /\ h.place = "name" =>
             \/ g.verb \in {"DROP", "LOCK"}
             \/ t.kind = "w" /\ t.text[1] = "ON" /\ g.kind = "TRIGGER" /\ g.names = 0 /\ h.names = 1
        /\ t = W("ON") /\ g.kind = "TRIGGER" /\ g.names = 0 /\ g.verb = "CREATE" => h.place = "name"
        /\ h.column = IF h.place = "after" /\ h.verb = "CREATE" /\ h.kind = "TABLE"
                      THEN HearColumn(g.column, Lexeme(t)) ELSE g.column
    BY <2>3a DEF A, Goes
  <2>5. \/ /\ CheckQualifier(A, j) <=> CheckQualifier(T, j)
           /\ h.abroad = g.abroad
        \/ /\ CheckQualifier(T, j)
           /\ h.abroad <=> g.abroad \/ ~CheckQualifier(A, j)
    BY <2>3a DEF A, Goes
  <2>6. h.abroad <=> ~CheckQualifier(A, j)
    BY <2>1, <2>5
  <2>7. j \in k + 1 .. Len(A) /\ j \in 0 .. Len(A) + 1
    BY <1>0, <1>2
  <2>8. CASE h.place # "name"
    <3>1. h.place = "after" /\ h.kind # "TRIGGER" => NameEnd(A, j) = Len(A)
      <4>1. g.place \in {"named", "ended"} => NameEnd(T, j) = Len(T) + 1
        BY <2>1, SpelledEnd
      <4> QED BY <1>2, <1>4, <2>1, <2>2, <2>4, <4>1
    <3>2. g.kind = "TRIGGER" => ~Is(A, Len(T) + 1, {"ON"})
      <4> SUFFICES ASSUME g.kind = "TRIGGER" PROVE ~Is(A, Len(T) + 1, {"ON"})
        OBVIOUS
      <4>1. t # W("ON")
        BY <1>0, <2>4, <2>8
      <4>2. ~(t.kind = "w" /\ t.text = <<"ON">>)
        BY <1>0, <2>1, <4>1, TriggerTokens
      <4>3. t.kind = "w" /\ Len(t.text) = 1 /\ t.text[1] = "ON" => t.text = <<"ON">>
        BY <1>1 DEF Token
      <4> QED BY <1>2, <4>2, <4>3 DEF Is
    <3>3. A[Len(A)] = t
      BY <1>2
    <3>4. h.names = 0 /\ Spelled(A, j, h.place, h.id) /\ h.id \in Plain
      BY <1>0, <2>1, <2>4, <2>8
    <3>5. h.column = IF h.place = "after" /\ h.kind = "TABLE"
                     THEN HearColumn(Default0, Lexeme(A[Len(A)])) ELSE Default0
      BY <1>4, <2>3, <2>4, <3>3
    <3>6. \A i \in k + 2 .. Len(A) : h.kind = "TRIGGER" => ~Is(A, i, {"ON"})
      BY <1>6, <3>2
    <3>7. j \in k + 1 .. Len(A) + 1 /\ h.place \in {"named", "dot", "ended", "after"} /\ h.kind \in Objects
      BY <1>0, <1>4, <2>4, <2>7, <2>8
    <3>8. CreateShape(A, h, k, j)
      BY <1>4, <1>5, <2>6, <3>1, <3>4, <3>5, <3>6, <3>7 DEF CreateShape
    <3> QED BY <1>7, <2>7, <3>8 DEF A
  <2>9. CASE h.place = "name"
    <3>1. /\ t.kind = "w" /\ t.text[1] = "ON" /\ g.kind = "TRIGGER" /\ h.names = 1
          /\ Spelled(A, j, "after", h.id)
      BY <1>0, <2>4, <2>9
    <3>2. Is(A, Len(A), {"ON"})
      <4>1. t.text = <<t.text[1]>>
        BY <2>4, <2>9, ContinuationForms
      <4>2. Len(t.text) = 1
        <5>1. \A x : Len(<<x>>) = 1
          OBVIOUS
        <5> QED BY <4>1, <5>1
      <4> QED BY <1>2, <3>1, <4>2 DEF Is
    <3>3. \A i \in k + 2 .. Len(A) - 1 : ~Is(A, i, {"ON"})
      <4> SUFFICES ASSUME NEW i \in k + 2 .. Len(A) - 1 PROVE ~Is(A, i, {"ON"})
        OBVIOUS
      <4>1. i \in k + 2 .. Len(T) /\ i \in 1 .. Len(T) /\ i <= Len(T)
        BY <1>0, <1>2
      <4> QED BY <1>0, <1>2, <3>1, <4>1 DEF Is
    <3>4. CASE CheckHead(A, FALSE) = "refuse"
      BY <3>4 DEF Follows, A
    <3>5. CASE CheckHead(A, FALSE) # "refuse"
      <4>1. Len(A) >= 1 /\ h.kind = "TRIGGER"
        BY <1>0, <1>2, <1>4, <3>1
      <4>2. CheckQualifier(A, j) /\ Len(A) \in k + 2 .. k + 8
        BY <1>2, <1>4, <1>5, <2>7, <3>1, <3>3, <3>5, <4>1, OnSays
      <4>3. h.column = Default0 /\ ~h.abroad /\ h.id \in Plain
        BY <2>1, <2>3, <2>4, <2>6, <2>9, <4>2
      <4>4. Spelled(A, j, "after", "none")
        BY <3>1 DEF Spelled
      <4>5. \A i \in k + 2 .. Len(A) : i # Len(A) => ~Is(A, i, {"ON"})
        BY <1>0, <1>2, <3>3
      <4>6. TriggerShape(A, h, k, j, Len(A))
        BY <1>2, <1>4, <1>5, <2>7, <2>9, <3>1, <3>2, <4>1, <4>2, <4>3, <4>4, <4>5 DEF TriggerShape
      <4>7. k \in 0 .. Len(A) + 1 /\ Len(A) \in 0 .. Len(A) + 1
        BY <1>0, <1>2
      <4> QED BY <2>7, <4>6, <4>7 DEF Follows, Shape, A
    <3> QED BY <3>4, <3>5
  <2> QED BY <2>8, <2>9
<1> QED BY <1>8, <1>9, <1>10 DEF Tokens, A

(* So it does from that ON on. *)
LEMMA TriggerGoesOn ==
  ASSUME NEW T \in Seq(Token), Len(T) >= 1, NEW g \in Readings, NEW k, NEW j, NEW o,
         TriggerShape(T, g, k, j, o), NEW t \in Tokens(g), NEW h, h = Hear(g, t)
  PROVE  Follows(Append(T, t), h)
<1> DEFINE A == Append(T, t)
           m == Read(g, t)
<1>0. /\ T[1] = W("CREATE") /\ g.verb = "CREATE" /\ g.row = Rows0 /\ g.column = Default0 /\ g.names = 1
      /\ Kinded(T, g, k) /\ g.kind = "TRIGGER" /\ g.id \in Plain
      /\ j \in k + 1 .. Len(T) /\ k \in 2 .. Len(T) /\ k \in Nat /\ j \in Nat /\ Len(T) \in Nat
      /\ o \in k + 2 .. k + 8 /\ o \in Nat /\ o <= Len(T) /\ Is(T, o, {"ON"})
  BY DEF TriggerShape, Kinded
<1>1. t \in Token
  BY HearTyped
<1>2. /\ A \in Seq(Token) /\ Len(A) = Len(T) + 1 /\ A[Len(T) + 1] = t
      /\ \A i \in 1 .. Len(T) : A[i] = T[i]
  BY <1>1, Appended
<1> HIDE DEF A
<1>3. g.place \in NamePlaces
  BY DEF TriggerShape, NamePlaces
<1>4. /\ A[1] = W("CREATE") /\ h.verb = "CREATE" /\ h.kind = "TRIGGER" /\ Kinded(A, h, k)
      /\ h.row = Rows0 /\ h.column = Default0
  <2>1. h.verb = "CREATE" /\ h.kind = "TRIGGER" /\ h.row = Rows0 /\ h.column = Default0
    BY <1>0, <1>3, HearTyped DEF NamePlaces
  <2>2. Kinded(A, h, k)
    BY <1>0, <1>1, <2>1, KindedGrows DEF A
  <2> QED BY <1>0, <1>2, <2>1, <2>2
<1>5. \A i \in k + 1 .. j - 1 : A[i] \in {W("IF"), W("EXISTS")}
  <2>1. \A i \in k + 1 .. j - 1 : T[i] \in {W("IF"), W("EXISTS")}
    BY DEF TriggerShape
  <2> QED BY <1>0, <1>2, <2>1
<1>6. Spelled(A, j, "after", "none") /\ CheckQualifier(A, j)
  <2>1. Spelled(T, j, "after", "none") /\ CheckQualifier(T, j)
    BY DEF TriggerShape
  <2>2. j < Len(T) /\ j \in 1 .. Len(T) /\ NameEnd(T, j) <= Len(T) /\ NameEnd(T, j) \in Nat
    BY <1>0, <2>1, SpelledEnd
  <2>3. OneWord(T[j]) \/ OpenWord(T[j]) \/ ClosedWord(T[j])
    BY <2>1 DEF Spelled
  <2>4. NameEnd(A, j) = NameEnd(T, j) /\ (CheckQualifier(A, j) <=> CheckQualifier(T, j))
    BY <1>1, <2>2, <2>3, SameName DEF A
  <2> QED BY <1>0, <1>2, <2>1, <2>2, <2>3, <2>4 DEF Spelled
<1>7. Is(A, o, {"ON"}) /\ \A i \in k + 2 .. Len(A) : i # o => ~Is(A, i, {"ON"})
  <2>1. Is(A, o, {"ON"})
    <3>1. A[o] = T[o] /\ o <= Len(A)
      BY <1>0, <1>2
    <3> QED BY <1>0, <3>1 DEF Is
  <2>2. ~Is(A, Len(T) + 1, {"ON"})
    <3>1. ~(t.kind = "w" /\ t.text = <<"ON">>)
      BY <1>0, <1>3, TriggerTokens DEF NamePlaces
    <3>2. t.kind = "w" /\ Len(t.text) = 1 /\ t.text[1] = "ON" => t.text = <<"ON">>
      BY <1>1 DEF Token
    <3> QED BY <1>2, <3>1, <3>2 DEF Is
  <2>3. \A i \in k + 2 .. Len(T) : i # o => ~Is(A, i, {"ON"})
    <3>1. \A i \in k + 2 .. Len(T) : i # o => ~Is(T, i, {"ON"})
      BY DEF TriggerShape
    <3>2. \A i \in k + 2 .. Len(T) : A[i] = T[i] /\ i <= Len(T)
      BY <1>0, <1>2
    <3> QED BY <3>1, <3>2 DEF Is
  <2>4. \A i \in k + 2 .. Len(A) : i \in k + 2 .. Len(T) \/ i = Len(T) + 1
    BY <1>0, <1>2
  <2> QED BY <2>1, <2>2, <2>3, <2>4
<1>8. ASSUME h.names = 1, h.id \in Plain, h.place \in {"named", "dot", "ended", "after"},
             Spelled(A, o + 1, h.place, h.id), h.abroad <=> ~CheckQualifier(A, o + 1)
      PROVE  Follows(A, h)
  <2>1. j \in k + 1 .. Len(A) /\ o <= Len(A)
    BY <1>0, <1>2
  <2>2. TriggerShape(A, h, k, j, o)
    BY <1>0, <1>4, <1>5, <1>6, <1>7, <1>8, <2>1 DEF TriggerShape
  <2>3. k \in 0 .. Len(A) + 1 /\ j \in 0 .. Len(A) + 1 /\ o \in 0 .. Len(A) + 1
    BY <1>0, <1>2
  <2> QED BY <2>2, <2>3 DEF Follows, Shape
<1>9. CASE g.place = "name"
  <2>1. o = Len(T) /\ ~g.abroad
    BY <1>9 DEF TriggerShape
  <2>2. t \in Names
    <3>1. t \notin BeforeName(g)
      BY <1>0, BeforeNameForms DEF Plain
    <3> QED BY <1>9, <3>1 DEF Tokens
  <2>3. /\ m \in Readings /\ m.names = g.names /\ m.id \in Plain
        /\ m.place \in {"named", "dot", "ended"}
    BY <1>9, <2>2, HearName, NameForms DEF Read
  <2>4. /\ Spelled(A, Len(T) + 1, m.place, m.id)
        /\ m.abroad <=> g.abroad \/ ~CheckQualifier(A, Len(T) + 1)
    BY <1>9, <2>2, NameStarts DEF Read, A
  <2> HIDE DEF m
  <2>5. h.place = m.place /\ h.abroad = m.abroad /\ h.names = m.names /\ h.id = m.id
    BY <2>3, HearHead DEF m
  <2> QED BY <1>0, <1>8, <2>1, <2>3, <2>4, <2>5 DEF A
<1>10. CASE g.place # "name"
  <2>1. /\ g.place \in {"named", "dot", "ended", "after"} /\ Spelled(T, o + 1, g.place, g.id)
        /\ g.abroad <=> ~CheckQualifier(T, o + 1)
    BY <1>10 DEF TriggerShape
  <2>2. Goes(T, g, t, o + 1, h)
    BY <2>1, HeardGoesOn
  <2>3. h.place # "name"
    BY <1>0, <2>2 DEF Goes
  <2>4. /\ h.id = g.id /\ h.names = g.names /\ h.place \in {"dot", "ended", "after"}
        /\ Spelled(A, o + 1, h.place, h.id)
    BY <2>2, <2>3 DEF Goes, A
  <2>5. h.abroad <=> ~CheckQualifier(A, o + 1)
    BY <2>1, <2>2 DEF Goes, A
  <2> QED BY <1>0, <1>8, <2>4, <2>5 DEF A
<1> QED BY <1>9, <1>10
----------------------------------------------------------------------------
(* A statement starts with its verb; the others than these are refused.    *)
LEMMA HeadStarts ==
  ASSUME NEW g \in Readings, g.place = "verb", NEW t \in Tokens(g), NEW h, h = Hear(g, t)
  PROVE  t \in Token /\ h \in Readings /\ Follows(<<t>>, h)
<1> DEFINE T == <<t>>
           m == Read(g, t)
<1>1. /\ t = W(m.verb) /\ m.verb \in Verbs /\ t \in Token /\ m \in Readings
      /\ m.kind = "none" /\ m.id = "none" /\ m.names = 0 /\ ~m.abroad
      /\ m.row = Rows0 /\ m.column = Default0
      /\ m.place = CASE m.verb \in {"CREATE", "DROP", "ALTER"} -> "kind"
                     [] m.verb = "LOCK" -> "tables"
                     [] m.verb = "INSERT" -> "name"
                     [] m.verb = "USE" -> "database"
                     [] OTHER -> "after"
  BY ReadVerb
<1> HIDE DEF m
<1>2. T \in Seq(Token) /\ Len(T) = 1 /\ T[1] = t
  BY <1>1
<1> HIDE DEF T
<1>3. /\ h.verb = m.verb /\ h.kind = m.kind /\ h.place = m.place /\ h.id = m.id
      /\ h.names = m.names /\ h.abroad = m.abroad /\ h.row = m.row /\ h.column = m.column
  <2>1. m.place = "after" => m.verb # "INSERT" /\ ~(m.verb = "CREATE" /\ m.kind = "TABLE")
    BY <1>1
  <2> QED BY <1>1, <2>1, HearHead DEF m
<1>4. h \in Readings
  BY HearTyped
<1>5. Follows(T, h)
  <2>1. CASE m.verb \in {"CREATE", "DROP", "ALTER"}
    <3>1. \A i \in 2 .. Len(T) : T[i] = W("DEFINER")
      BY <1>2
    <3>2. KindShape(T, h)
      BY <1>1, <1>2, <1>3, <2>1, <3>1 DEF KindShape
    <3> QED BY <3>2 DEF Follows, Shape
  <2>2. CASE m.verb \in {"LOCK", "COMMIT", "UNLOCK"}
    <3>1. WordShape(T, h)
      BY <1>1, <1>2, <1>3, <2>2 DEF WordShape
    <3> QED BY <3>1 DEF Follows, Shape
  <2>3. CASE m.verb = "INSERT"
    <3>1. InsertShape(T, h, 2)
      BY <1>1, <1>2, <1>3, <2>3 DEF InsertShape
    <3>2. 2 \in 0 .. Len(T) + 1
      BY <1>2
    <3> QED BY <3>1, <3>2 DEF Follows, Shape
  <2>4. CASE m.verb = "USE"
    <3>1. DatabaseShape(T, h, 2)
      BY <1>1, <1>2, <1>3, <2>4 DEF DatabaseShape
    <3>2. 2 \in 0 .. Len(T) + 1
      BY <1>2
    <3> QED BY <3>1, <3>2 DEF Follows, Shape
  <2>5. CASE m.verb = "SELECT"
    <3>1. CheckHead(T, FALSE) = "refuse"
      <4>1. T[1] = W(m.verb) /\ Len(T) >= 1
        BY <1>1, <1>2, <2>5
      <4>2. \A v : T[1] = W(v) => \A words : Is(T, 1, words) <=> v \in words
        BY <1>2, <4>1, HeadByVerb
      <4>3. \A words : Is(T, 1, words) <=> m.verb \in words
        BY <4>1, <4>2
      <4>4. /\ ~Is(T, 1, {"COMMIT"}) /\ ~Is(T, 1, {"INSERT"}) /\ ~Is(T, 1, {"LOCK", "UNLOCK"})
            /\ ~Is(T, 1, {"USE"}) /\ ~Is(T, 1, {"CREATE", "DROP", "ALTER"})
        BY <2>5, <4>3
      <4> QED BY <4>4, Zenon DEF CheckHead
    <3> QED BY <3>1 DEF Follows
  <2> QED BY <1>1, <2>1, <2>2, <2>3, <2>4, <2>5 DEF Verbs
<1> QED BY <1>1, <1>4, <1>5 DEF T
----------------------------------------------------------------------------
(* A head goes on.                                                         *)
LEMMA HeadGoesOn ==
  ASSUME NEW T \in Seq(Token), Len(T) >= 1, NEW g \in Readings, Shape(T, g),
         CheckHead(T, FALSE) = "more", NEW t \in Tokens(g), NEW h, h = Hear(g, t)
  PROVE  Follows(Append(T, t), h)
<1>1. CASE KindShape(T, g)
  BY <1>1, KindGoesOn
<1>2. CASE WordShape(T, g)
  BY <1>2, WordGoesOn
<1>3. CASE \E j \in 0 .. Len(T) + 1 : InsertShape(T, g, j)
  <2>1. PICK j \in 0 .. Len(T) + 1 : InsertShape(T, g, j)
    BY <1>3
  <2>2. PICK k : InsertShape(Append(T, t), h, k)
    BY <2>1, InsertGoesOn
  <2>3. t \in Token
    BY HearTyped
  <2>4. k \in 0 .. Len(Append(T, t)) + 1
    <3>1. Len(Append(T, t)) \in Nat
      BY <2>3, Appended
    <3> QED BY <2>2, <3>1 DEF InsertShape
  <2> QED BY <2>2, <2>4 DEF Follows, Shape
<1>4. CASE \E k, j \in 0 .. Len(T) + 1 : CreateShape(T, g, k, j)
  BY <1>4, CreateGoesOn
<1>5. CASE \E k, j, o \in 0 .. Len(T) + 1 : TriggerShape(T, g, k, j, o)
  BY <1>5, TriggerGoesOn
<1>6. CASE \E k \in 0 .. Len(T) : AlterShape(T, g, k)
  BY <1>6, AlterGoesOn
<1>7. CASE \E k \in 0 .. Len(T) : ListShape(T, g, k)
  BY <1>7, ListGoesOn
<1>8. CASE \E a \in 0 .. Len(T) + 1 : DatabaseShape(T, g, a)
  BY <1>8, DatabaseGoesOn
<1> QED BY <1>1, <1>2, <1>3, <1>4, <1>5, <1>6, <1>7, <1>8 DEF Shape

(* A head that ends undecided, and is not refused then, is harmless. *)
LEMMA HeadEnds ==
  ASSUME NEW T \in Seq(Token), Len(T) >= 1, NEW g \in Readings, Shape(T, g),
         CheckHead(T, FALSE) = "more", CheckHead(T, TRUE) # "refuse"
  PROVE  Harmless(g)
<1>0. Len(T) \in Nat
  OBVIOUS
<1>1. CASE KindShape(T, g)
  BY <1>1 DEF KindShape, Harmless
<1>2. CASE WordShape(T, g)
  BY <1>2 DEF WordShape, Harmless
<1>3. CASE \E j \in 0 .. Len(T) + 1 : InsertShape(T, g, j)
  <2>1. PICK j \in 0 .. Len(T) + 1 : InsertShape(T, g, j)
    BY <1>3
  <2>2. CheckHead(T, TRUE) = IF j = Len(T) + 1 THEN "refuse"
                             ELSE IF ~CheckQualifier(T, j) THEN "refuse"
                             ELSE IF g.place = "dot" THEN "more" ELSE "yes"
    BY <2>1, InsertSays
  <2>3. CheckHead(T, FALSE) = IF j = Len(T) + 1 THEN "more"
                              ELSE IF j = Len(T) THEN "more"
                              ELSE IF ~CheckQualifier(T, j) THEN "refuse"
                              ELSE IF g.place # "after" THEN "more" ELSE "yes"
    BY <2>1, InsertSays
  <2>4. CheckQualifier(T, j) /\ j # Len(T) + 1
    BY <2>2
  <2>5. g.place # "after"
    <3>1. SUFFICES ASSUME g.place = "after" PROVE FALSE
      OBVIOUS
    <3>2. j = Len(T)
      BY <2>3, <2>4, <3>1
    <3>3. NameEnd(T, j) = Len(T) /\ Spelled(T, j, "after", g.id)
      BY <2>1, <3>1 DEF InsertShape
    <3>4. NameEnd(T, j) > j
      BY <3>3, SpelledEnd
    <3> QED BY <1>0, <3>2, <3>3, <3>4
  <2> QED BY <2>1, <2>4, <2>5 DEF InsertShape, Harmless
<1>4. CASE \E k, j \in 0 .. Len(T) + 1 : CreateShape(T, g, k, j)
  <2>1. PICK k, j \in 0 .. Len(T) + 1 : CreateShape(T, g, k, j)
    BY <1>4
  <2>2. CheckHead(T, TRUE) = IF j = Len(T) + 1 THEN "refuse"
                             ELSE IF ~CheckQualifier(T, j) THEN "refuse"
                             ELSE IF g.place = "dot" THEN "more"
                             ELSE IF g.kind # "TRIGGER" THEN "yes" ELSE "refuse"
    BY <2>1, CreateSays
  <2>3. CheckHead(T, FALSE) = IF j = Len(T) + 1 THEN "more"
                              ELSE IF j = Len(T) THEN "more"
                              ELSE IF ~CheckQualifier(T, j) THEN "refuse"
                              ELSE IF g.place # "after" THEN "more"
                              ELSE IF g.kind # "TRIGGER" THEN "yes"
                              ELSE IF Len(T) < k + 8 THEN "more" ELSE "refuse"
    BY <2>1, CreateSays
  <2>4. CheckQualifier(T, j) /\ j # Len(T) + 1
    BY <2>2
  <2>5. g.place # "after" \/ g.kind = "TRIGGER"
    <3>1. SUFFICES ASSUME g.place = "after", g.kind # "TRIGGER" PROVE FALSE
      OBVIOUS
    <3>2. j = Len(T)
      BY <2>3, <2>4, <3>1
    <3>3. NameEnd(T, j) = Len(T) /\ Spelled(T, j, "after", g.id)
      BY <2>1, <3>1 DEF CreateShape
    <3>4. NameEnd(T, j) > j
      BY <3>3, SpelledEnd
    <3> QED BY <1>0, <3>2, <3>3, <3>4
  <2> QED BY <2>1, <2>4, <2>5 DEF CreateShape, Harmless
<1>5. CASE \E k, j, o \in 0 .. Len(T) + 1 : TriggerShape(T, g, k, j, o)
  <2>1. PICK k, j, o \in 0 .. Len(T) + 1 : TriggerShape(T, g, k, j, o)
    BY <1>5
  <2>2. CheckHead(T, TRUE) = IF o = Len(T) THEN "refuse"
                             ELSE IF ~CheckQualifier(T, o + 1) THEN "refuse"
                             ELSE IF g.place = "dot" THEN "more" ELSE "yes"
    BY <2>1, TriggerSays
  <2> QED BY <2>1, <2>2 DEF TriggerShape, Harmless
<1>6. CASE \E k \in 0 .. Len(T) : AlterShape(T, g, k)
  BY <1>6, AlterSays DEF AlterShape, Harmless
<1>7. CASE \E k \in 0 .. Len(T) : ListShape(T, g, k)
  BY <1>7, ListSays DEF ListShape, Harmless
<1>8. CASE \E a \in 0 .. Len(T) + 1 : DatabaseShape(T, g, a)
  <2>1. PICK a \in 0 .. Len(T) + 1 : DatabaseShape(T, g, a)
    BY <1>8
  <2>2. g.place = "database"
    BY <2>1, DatabaseSays
  <2> QED BY <2>1, <2>2 DEF DatabaseShape, Harmless
<1> QED BY <1>1, <1>2, <1>3, <1>4, <1>5, <1>6, <1>7, <1>8 DEF Shape
=============================================================================

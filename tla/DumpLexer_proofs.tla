------------------------- MODULE DumpLexer_proofs -------------------------
(***************************************************************************)
(* The scanner and the programs that read the dump stay together, for any  *)
(* dump and any longest delimiter.                                         *)
(***************************************************************************)
EXTENDS DumpLexer, WellFoundedInduction, TLAPS

(* What holds of 0 and passes from each number to the next holds up to n. *)
LEMMA UpTo ==
  ASSUME NEW n \in Nat, NEW Q,
         0 \in Q, \A i \in 1 .. n : i - 1 \in Q => i \in Q
  PROVE  0 .. n \subseteq Q
<1> DEFINE T == (0 .. n) \ Q
<1>1. SUFFICES ASSUME T # {} PROVE FALSE
  OBVIOUS
<1>2. T \subseteq Nat
  OBVIOUS
<1>3. PICK x \in T : \A y \in T : <<y, x>> \notin OpToRel(<, Nat)
  BY <1>1, <1>2, NatLessThanWellFounded, WFMin
<1>4. x \in 1 .. n /\ x - 1 \in 0 .. n /\ x - 1 < x
  OBVIOUS
<1>5. x - 1 \notin T
  BY <1>2, <1>3, <1>4 DEF OpToRel
<1> QED
  BY <1>4, <1>5
----------------------------------------------------------------------------
(* Reading several bytes.                                                  *)

(* w[i] is where a reader of q is after i bytes. *)
Steps(k, r, q, n, w) == w[0] = r /\ \A i \in 1 .. n : w[i] = Read(k, w[i - 1], q[i])

(* A reader that reads q ends where any record of its states ends. *)
LEMMA ReadAllSteps ==
  ASSUME NEW k, NEW r, NEW q, NEW n \in Nat, Len(q) = n, NEW w,
         Steps(k, r, q, n, w)
  PROVE  ReadAll(k, r, q) = w[n]
<1> DEFINE F(f) == f = [i \in 0 .. n |-> IF i = 0 THEN r ELSE Read(k, f[i - 1], q[i])]
           c == CHOOSE f : F(f)
           Q == {i \in 0 .. n : c[i] = w[i]}
<1> USE DEF Steps
<1>1. ReadAll(k, r, q) = c[n]
  BY DEF ReadAll
<1>2. F(c)
  <2> DEFINE v == [i \in 0 .. n |-> w[i]]
  <2>1. F(v)
    <3>1. \A i \in 0 .. n : v[i] = w[i]
      OBVIOUS
    <3>2. \A i \in 1 .. n : v[i - 1] = w[i - 1] /\ i \in 0 .. n
      OBVIOUS
    <3>3. ASSUME NEW i \in 0 .. n PROVE v[i] = IF i = 0 THEN r ELSE Read(k, v[i - 1], q[i])
      <4>1. CASE i = 0
        BY <3>1, <4>1
      <4>2. CASE i # 0
        <5>1. i \in 1 .. n
          BY <4>2
        <5> HIDE DEF v
        <5> QED BY <3>1, <3>2, <4>2, <5>1
      <4> QED BY <4>1, <4>2
    <3> QED BY <3>3
  <2> HIDE DEF F, v
  <2> QED BY <2>1
<1> HIDE DEF c
<1>3. 0 \in Q
  BY <1>2
<1>4. ASSUME NEW i \in 1 .. n, i - 1 \in Q PROVE i \in Q
  <2>1. i \in 0 .. n /\ i # 0 /\ c[i - 1] = w[i - 1]
    BY <1>4
  <2>2. c[i] = Read(k, c[i - 1], q[i])
    BY <1>2, <2>1
  <2>3. w[i] = Read(k, w[i - 1], q[i])
    BY <2>1
  <2> QED BY <2>1, <2>2, <2>3
<1>5. n \in Q
  <2> HIDE DEF Q
  <2>1. 0 .. n \subseteq Q
    BY <1>3, <1>4, UpTo
  <2> QED BY <2>1
<1> QED BY <1>1, <1>5

(* No byte, one and two. *)
LEMMA ReadNone ==
  ASSUME NEW k, NEW r, NEW q, Len(q) = 0
  PROVE  ReadAll(k, r, q) = r
<1> DEFINE w == [i \in 0 .. 0 |-> r]
<1>1. w[0] = r
  OBVIOUS
<1> HIDE DEF w
<1>2. Steps(k, r, q, 0, w)
  BY <1>1 DEF Steps
<1> QED BY <1>1, <1>2, ReadAllSteps

(* The state after one byte. *)
LEMMA ReadOne ==
  ASSUME NEW k, NEW r, NEW q, Len(q) = 1
  PROVE  ReadAll(k, r, q) = Read(k, r, q[1])
<1> DEFINE x == Read(k, r, q[1])
           w == [i \in 0 .. 1 |-> IF i = 0 THEN r ELSE x]
<1>1. w[0] = r /\ w[1] = x
  OBVIOUS
<1> HIDE DEF w
<1>2. \A i \in 1 .. 1 : w[i] = Read(k, w[i - 1], q[i])
  <2> TAKE i \in 1 .. 1
  <2>1. i = 1 /\ i - 1 = 0
    OBVIOUS
  <2> QED BY <1>1, <2>1
<1> HIDE DEF x
<1>3. ReadAll(k, r, q) = w[1]
  <2>1. 1 \in Nat
    OBVIOUS
  <2>2. Steps(k, r, q, 1, w)
    BY <1>1, <1>2 DEF Steps
  <2> QED BY <2>1, <2>2, ReadAllSteps
<1> QED BY <1>1, <1>3 DEF x

(* The state after two. *)
LEMMA ReadTwo ==
  ASSUME NEW k, NEW r, NEW q, Len(q) = 2
  PROVE  ReadAll(k, r, q) = Read(k, Read(k, r, q[1]), q[2])
<1> DEFINE x == Read(k, r, q[1])
           y == Read(k, x, q[2])
           w == [i \in 0 .. 2 |-> IF i = 0 THEN r ELSE IF i = 1 THEN x ELSE y]
<1>1. w[0] = r /\ w[1] = x /\ w[2] = y
  OBVIOUS
<1> HIDE DEF w
<1>2. \A i \in 1 .. 2 : w[i] = Read(k, w[i - 1], q[i])
  <2> TAKE i \in 1 .. 2
  <2>1. (i = 1 /\ i - 1 = 0) \/ (i = 2 /\ i - 1 = 1)
    OBVIOUS
  <2> QED BY <1>1, <2>1
<1> HIDE DEF x, y
<1>3. ReadAll(k, r, q) = w[2]
  <2>1. 2 \in Nat
    OBVIOUS
  <2>2. Steps(k, r, q, 2, w)
    BY <1>1, <1>2 DEF Steps
  <2> QED BY <2>1, <2>2, ReadAllSteps
<1> QED BY <1>1, <1>3 DEF x, y
----------------------------------------------------------------------------
(* What a byte does to a reader.                                           *)

(* A byte begins what it begins. *)
LEMMA PendingForms ==
  ASSUME NEW k, NEW r \in ReaderStates, NEW b \in Bytes
  PROVE  /\ Pending(k, r, b) \in Pends
         /\ b \in {"slash", "colon", "bs", "outfile"} => Pending(k, r, b) = b
         /\ b = "dash" => Pending(k, r, b) = IF k = "mariadb" /\ r.bol /\ r.new THEN "firstdash" ELSE "dash"
         /\ b = "star" => Pending(k, r, b) = IF r.cond THEN "star" ELSE "none"
         /\ b \in {"system", "use", "delimiter"} => Pending(k, r, b) = IF r.bol THEN b ELSE "word"
         /\ b \in {"w", "M", "ver", "nines"} => Pending(k, r, b) = "word"
         /\ b \in Quotes \cup Space \cup {"hash", "bang", "plus", "semi", "eq"} => Pending(k, r, b) = "none"
BY DEF Pending, Bytes, Quotes, Space, WordBytes, Pends, WordPends

(* The fields of a reader after a byte of code. *)
LEMMA FreshFields ==
  ASSUME NEW k, NEW r \in ReaderStates, NEW b \in Bytes,
         NEW x, x = Fresh(k, r, b)
  PROVE  /\ x \in ReaderStates
         /\ x.in = IF b \in Quotes THEN b ELSE IF b = "hash" THEN "lc" ELSE "code"
         /\ x.cond = r.cond
         /\ x.pend = Pending(k, r, b)
         /\ x.bol = (b = "nl" \/ (r.bol /\ b = "sp"))
         /\ x.new = (Ends(r, b) \/ (r.new /\ b \in Space \cup {"hash"}))
         /\ x.ends = IF Ends(r, b) THEN 1 - r.ends ELSE r.ends
         /\ x.delim = r.delim
         /\ x.semis = IF b = "semi" /\ ~Ends(r, b) THEN r.semis + 1 ELSE 0
<1> DEFINE p == Pending(k, r, b)
           e == Ends(r, b)
<1>1. p \in Pends
  BY PendingForms
<1>2. e \in BOOLEAN
  BY DEF Ends
<1> HIDE DEF p, e
<1>3. x = [r EXCEPT !.in = IF b \in Quotes THEN b ELSE IF b = "hash" THEN "lc" ELSE "code",
                    !.pend = p,
                    !.bol = b = "nl" \/ (@ /\ b = "sp"),
                    !.new = e \/ (@ /\ b \in Space \cup {"hash"}),
                    !.ends = IF e THEN 1 - @ ELSE @,
                    !.semis = IF b = "semi" /\ ~e THEN @ + 1 ELSE 0]
  BY DEF Fresh, p, e
<1> DEFINE i == IF b \in Quotes THEN b ELSE IF b = "hash" THEN "lc" ELSE "code"
           bol == b = "nl" \/ (r.bol /\ b = "sp")
           new == e \/ (r.new /\ b \in Space \cup {"hash"})
           ends == IF e THEN 1 - r.ends ELSE r.ends
           semis == IF b = "semi" /\ ~e THEN r.semis + 1 ELSE 0
<1>4. i \in Places /\ bol \in BOOLEAN /\ new \in BOOLEAN /\ ends \in {0, 1} /\ semis \in Nat
  BY <1>2 DEF ReaderStates, Places, Quotes
<1>5. x = [r EXCEPT !.in = i, !.pend = p, !.bol = bol, !.new = new, !.ends = ends, !.semis = semis]
  BY <1>3
<1> HIDE DEF i, bol, new, ends, semis
<1>6. /\ x \in ReaderStates
      /\ x.in = i /\ x.cond = r.cond /\ x.pend = p /\ x.bol = bol /\ x.new = new /\ x.ends = ends
      /\ x.delim = r.delim /\ x.semis = semis
  BY <1>1, <1>4, <1>5 DEF ReaderStates
<1> QED BY <1>6 DEF i, bol, new, ends, semis, p, e

(* The fields of a reader in a comment. *)
LEMMA SkipFields ==
  ASSUME NEW r \in ReaderStates, NEW b, NEW x, x = Skip(r, b)
  PROVE  /\ x \in ReaderStates
         /\ x.in = "ml" /\ x.cond = r.cond /\ x.pend = (IF b = "star" THEN "star" ELSE "none")
         /\ x.bol = r.bol /\ x.new = r.new /\ x.ends = r.ends /\ x.delim = r.delim /\ x.semis = r.semis
<1> DEFINE p == IF b = "star" THEN "star" ELSE "none"
<1>1. x = [r EXCEPT !.in = "ml", !.pend = p]
  BY DEF Skip
<1>2. p \in Pends /\ "ml" \in Places
  BY DEF Pends, Places
<1> HIDE DEF p
<1>3. /\ x \in ReaderStates
      /\ x.in = "ml" /\ x.cond = r.cond /\ x.pend = p
      /\ x.bol = r.bol /\ x.new = r.new /\ x.ends = r.ends /\ x.delim = r.delim /\ x.semis = r.semis
  BY <1>1, <1>2 DEF ReaderStates
<1> QED BY <1>3 DEF p
----------------------------------------------------------------------------
(* Reading one byte, by where the reader is.                               *)

(* The reader goes on to x at i, with p pending. *)
Goes(r, x, i, c, p) ==
  /\ x \in ReaderStates
  /\ x.in = i /\ x.cond = c /\ x.pend = p
  /\ x.bol = r.bol /\ x.new = r.new /\ x.ends = r.ends /\ x.delim = r.delim /\ x.semis = r.semis

(* It goes on to x with a byte of code that completes nothing. *)
Begins(k, r, c, b, x) ==
  /\ x \in ReaderStates
  /\ x.in = IF b \in Quotes THEN b ELSE IF b = "hash" THEN "lc" ELSE "code"
  /\ x.cond = c
  /\ x.bol = (b = "nl" \/ (r.bol /\ b = "sp"))
  /\ x.new = (Ends(r, b) \/ (r.new /\ b \in Space \cup {"hash"}))
  /\ x.ends = IF Ends(r, b) THEN 1 - r.ends ELSE r.ends
  /\ x.delim = r.delim
  /\ x.semis = IF b = "semi" /\ ~Ends(r, b) THEN r.semis + 1 ELSE 0
  /\ b \in {"slash", "colon", "bs", "outfile"} => x.pend = b
  /\ b = "dash" => x.pend = IF k = "mariadb" /\ r.bol /\ r.new THEN "firstdash" ELSE "dash"
  /\ b = "star" => x.pend = IF c THEN "star" ELSE "none"
  /\ b \in {"system", "use", "delimiter"} => x.pend = IF r.bol THEN b ELSE "word"
  /\ b \in {"w", "M", "ver", "nines"} => x.pend = "word"
  /\ b \in Quotes \cup Space \cup {"hash", "bang", "plus", "semi", "eq"} => x.pend = "none"

AfterStar(b) == IF b = "star" THEN "star" ELSE "none"

(* The reader of a comment skips. *)
LEMMA SkipGoes ==
  ASSUME NEW r \in ReaderStates, NEW b
  PROVE  Goes(r, Skip(r, b), "ml", r.cond, AfterStar(b))
BY SkipFields DEF Goes, AfterStar

(* A reader to which only in, pend and cond happen goes on. *)
LEMMA GoesOn ==
  ASSUME NEW r \in ReaderStates, NEW p \in Pends
  PROVE  /\ Goes(r, [r EXCEPT !.pend = p], r.in, r.cond, p)
         /\ \A i \in Places : Goes(r, [r EXCEPT !.in = i], i, r.cond, r.pend)
         /\ \A i \in Places : Goes(r, [r EXCEPT !.in = i, !.pend = p], i, r.cond, p)
         /\ \A c \in BOOLEAN : Goes(r, [r EXCEPT !.pend = p, !.cond = c], r.in, c, p)
BY DEF Goes, ReaderStates

(* The last EXCEPT wins. *)
LEMMA GoesTwice ==
  ASSUME NEW r \in ReaderStates, NEW i \in Places, NEW p \in Pends, NEW c \in BOOLEAN,
         NEW t, t = [r EXCEPT !.pend = p]
  PROVE  /\ Goes(r, [t EXCEPT !.in = i], i, r.cond, p)
         /\ Goes(r, [t EXCEPT !.cond = c], r.in, c, p)
<1>1. Goes(r, t, r.in, r.cond, p)
  BY GoesOn
<1> HIDE DEF Goes
<1>2. t \in ReaderStates
  BY <1>1 DEF Goes
<1>3. Goes(t, [t EXCEPT !.in = i], i, t.cond, t.pend)
  BY <1>2, GoesOn
<1>4. Goes(t, [t EXCEPT !.cond = c], t.in, c, t.pend)
  BY <1>2 DEF Goes, ReaderStates
<1> QED
  <2> DEFINE x == [t EXCEPT !.in = i]
             y == [t EXCEPT !.cond = c]
  <2>1. Goes(t, x, i, t.cond, t.pend) /\ Goes(t, y, t.in, c, t.pend)
    BY <1>3, <1>4
  <2> HIDE DEF x, y
  <2>2. Goes(r, x, i, r.cond, p) /\ Goes(r, y, r.in, c, p)
    BY <1>1, <2>1 DEF Goes
  <2> QED BY <2>2 DEF x, y

(* A byte that begins something, from a reader in code. *)
LEMMA FreshBegins ==
  ASSUME NEW k, NEW r \in ReaderStates, NEW b \in Bytes
  PROVE  Begins(k, r, r.cond, b, Fresh(k, r, b))
<1> DEFINE x == Fresh(k, r, b)
<1> HIDE DEF x
<1> QED BY FreshFields, PendingForms DEF Begins, x

(* The same in a version comment that has just begun. *)
LEMMA FreshInCond ==
  ASSUME NEW k, NEW r \in ReaderStates, NEW b \in Bytes, NEW c \in BOOLEAN
  PROVE  Begins(k, r, c, b, Fresh(k, [r EXCEPT !.cond = c], b))
<1> DEFINE t == [r EXCEPT !.cond = c]
           x == Fresh(k, t, b)
<1>1. t \in ReaderStates /\ t.cond = c /\ t.bol = r.bol /\ t.new = r.new /\ t.ends = r.ends
      /\ t.delim = r.delim /\ t.semis = r.semis
  BY DEF ReaderStates
<1> HIDE DEF t
<1>2. Begins(k, t, t.cond, b, x)
  BY <1>1, FreshBegins
<1> HIDE DEF x
<1>3. Begins(k, r, c, b, x)
  BY <1>1, <1>2 DEF Begins, Ends
<1> QED BY <1>3 DEF x, t

(* What completes nothing begins what it begins. *)
CompletesNothing(k, p, b) ==
  /\ p \notin {"opened", "openedM", "version", "bs", "system", "outfile"}
  /\ p = "slash" => b # "star"
  /\ p = "star" => b # "slash"
  /\ p \in {"firstdash", "dash", "dashes"} => b # "dash"
  /\ p = "dashes" => b # "sp"
  /\ p = "colon" => b # "eq" \/ IsClient(k)
  /\ p \in WordPends => b \notin WordBytes
  /\ p = "use" => b = "nl"
  /\ p = "delimiter" => b # "sp"

(* Code of which nothing comes. *)
LEMMA ReadPlain ==
  ASSUME NEW k, NEW r \in ReaderStates, NEW b \in Bytes,
         r.in = "code", CompletesNothing(k, r.pend, b)
  PROVE  Begins(k, r, r.cond, b, Read(k, r, b))
<1>1. ReadCode(k, r, b) = Fresh(k, r, b)
  BY DEF ReadCode, CompletesNothing, WordBytes, WordPends
<1>2. Read(k, r, b) = ReadCode(k, r, b)
  BY DEF Read, Quotes
<1> QED BY <1>1, <1>2, FreshBegins

(* Code that completes what was pending. *)
LEMMA ReadCompletes ==
  ASSUME NEW k, NEW r \in ReaderStates, NEW b \in Bytes,
         r.in = "code"
  PROVE  /\ r.pend = "slash" /\ b = "star" => Goes(r, Read(k, r, b), "code", r.cond, "opened")
         /\ r.pend = "star" /\ b = "slash" => Goes(r, Read(k, r, b), "code", FALSE, "none")
         /\ r.pend = "firstdash" /\ b = "dash" => Goes(r, Read(k, r, b), "lc", r.cond, "none")
         /\ r.pend \in {"dash", "dashes"} /\ b = "dash" => Goes(r, Read(k, r, b), "code", r.cond, "dashes")
         /\ r.pend = "dashes" /\ b = "sp" => Goes(r, Read(k, r, b), "lc", r.cond, "none")
         /\ r.pend = "bs" /\ b = "dash" => Goes(r, Read(k, r, b), "code", r.cond, "none")
         /\ r.pend \in WordPends /\ b \in WordBytes => Goes(r, Read(k, r, b), "code", r.cond, "word")
         /\ r.pend = "use" /\ b \notin WordBytes \cup {"nl"} => Goes(r, Read(k, r, b), "lc", r.cond, "none")
<1> DEFINE t == [r EXCEPT !.pend = "none"]
<1>1. Read(k, r, b) = ReadCode(k, r, b)
  BY DEF Read, Quotes
<1>2. {"code", "lc"} \subseteq Places /\ {"opened", "none", "dashes", "word"} \subseteq Pends
  BY DEF Places, Pends, WordPends
<1>3. CASE r.pend = "slash" /\ b = "star"
  <2>1. ReadCode(k, r, b) = [r EXCEPT !.pend = "opened"]
    BY <1>3 DEF ReadCode, WordPends
  <2> QED BY <1>1, <1>2, <1>3, <2>1, GoesOn DEF WordPends
<1>4. CASE r.pend = "star" /\ b = "slash"
  <2>1. ReadCode(k, r, b) = [t EXCEPT !.cond = FALSE]
    BY <1>4 DEF ReadCode, WordPends
  <2> HIDE DEF t
  <2>2. Goes(r, [t EXCEPT !.cond = FALSE], r.in, FALSE, "none")
    BY <1>2, GoesTwice DEF t
  <2> QED BY <1>1, <1>4, <2>1, <2>2 DEF WordPends
<1>5. CASE r.pend = "firstdash" /\ b = "dash"
  <2>1. ReadCode(k, r, b) = [t EXCEPT !.in = "lc"]
    BY <1>5 DEF ReadCode, WordPends
  <2> HIDE DEF t
  <2>2. Goes(r, [t EXCEPT !.in = "lc"], "lc", r.cond, "none")
    BY <1>2, GoesTwice DEF t
  <2> QED BY <1>1, <1>5, <2>1, <2>2 DEF WordPends
<1>6. CASE r.pend \in {"dash", "dashes"} /\ b = "dash"
  <2>1. ReadCode(k, r, b) = [r EXCEPT !.pend = "dashes"]
    BY <1>6 DEF ReadCode, WordPends
  <2> QED BY <1>1, <1>2, <1>6, <2>1, GoesOn DEF WordPends
<1>7. CASE r.pend = "dashes" /\ b = "sp"
  <2>1. ReadCode(k, r, b) = [t EXCEPT !.in = "lc"]
    BY <1>7 DEF ReadCode, WordPends
  <2> HIDE DEF t
  <2>2. Goes(r, [t EXCEPT !.in = "lc"], "lc", r.cond, "none")
    BY <1>2, GoesTwice DEF t
  <2> QED BY <1>1, <1>7, <2>1, <2>2 DEF WordPends
<1>8. CASE r.pend = "bs" /\ b = "dash"
  <2>1. ReadCode(k, r, b) = [r EXCEPT !.pend = "none"]
    BY <1>8 DEF ReadCode, WordPends
  <2> QED BY <1>1, <1>2, <1>8, <2>1, GoesOn DEF WordPends
<1>9. CASE r.pend \in WordPends /\ b \in WordBytes
  <2>1. ReadCode(k, r, b) = [r EXCEPT !.pend = "word"]
    BY <1>9 DEF ReadCode, WordPends, WordBytes
  <2> QED BY <1>1, <1>2, <1>9, <2>1, GoesOn DEF WordPends, WordBytes
<1>10. CASE r.pend = "use" /\ b \notin WordBytes \cup {"nl"}
  <2>1. ReadCode(k, r, b) = [t EXCEPT !.in = "lc"]
    BY <1>10 DEF ReadCode, WordPends
  <2> HIDE DEF t
  <2>2. Goes(r, [t EXCEPT !.in = "lc"], "lc", r.cond, "none")
    BY <1>2, GoesTwice DEF t
  <2> QED BY <1>1, <1>10, <2>1, <2>2 DEF WordPends
<1> HIDE DEF t
<1> QED BY <1>3, <1>4, <1>5, <1>6, <1>7, <1>8, <1>9, <1>10

(* The byte after the opening of a comment. *)
LEMMA ReadOpened ==
  ASSUME NEW k, NEW r \in ReaderStates, NEW b \in Bytes,
         r.in = "code", r.pend \in {"opened", "openedM"}
  PROVE  /\ b = "bang" => Goes(r, Read(k, r, b), "code", r.cond, "version")
         /\ r.pend = "opened" /\ b = "M" /\ KnowsM(k) => Goes(r, Read(k, r, b), "code", r.cond, "openedM")
         /\ r.pend = "opened" /\ b = "M" /\ ~KnowsM(k) => Goes(r, Read(k, r, b), "ml", r.cond, "none")
         /\ b \notin {"bang", "plus", "M"} => Goes(r, Read(k, r, b), "ml", r.cond, AfterStar(b))
         /\ r.pend = "openedM" /\ b # "bang" => Goes(r, Read(k, r, b), "ml", r.cond, AfterStar(b))
<1>1. Read(k, r, b) = ReadCode(k, r, b)
  BY DEF Read, Quotes
<1>2. ReadCode(k, r, b) = Opened(k, r, b)
  BY DEF ReadCode, WordPends
<1>3. {"version", "openedM"} \subseteq Pends
  BY DEF Pends
<1>4. CASE b = "bang"
  <2>1. Opened(k, r, b) = [r EXCEPT !.pend = "version"]
    BY <1>4 DEF Opened
  <2> QED BY <1>1, <1>2, <1>3, <1>4, <2>1, GoesOn
<1>5. CASE r.pend = "opened" /\ b = "M" /\ KnowsM(k)
  <2>1. Opened(k, r, b) = [r EXCEPT !.pend = "openedM"]
    BY <1>5 DEF Opened
  <2> QED BY <1>1, <1>2, <1>3, <1>5, <2>1, GoesOn
<1>6. CASE (r.pend = "opened" /\ b = "M" /\ ~KnowsM(k)) \/ b \notin {"bang", "plus", "M"} \/ (r.pend = "openedM" /\ b # "bang")
  <2>1. Opened(k, r, b) = Skip(r, b)
    BY <1>6 DEF Opened
  <2>2. b = "M" => AfterStar(b) = "none"
    BY DEF AfterStar
  <2> QED BY <1>1, <1>2, <1>6, <2>1, <2>2, SkipGoes
<1> QED BY <1>4, <1>5, <1>6

(* A server that does not run the version comment. *)
SkipsVersion(k, b) == k = "old" \/ (b = "nines" /\ ~IsClient(k))

(* The byte after the bang. *)
LEMMA ReadVersion ==
  ASSUME NEW k, NEW r \in ReaderStates, NEW b \in Bytes,
         r.in = "code", r.pend = "version"
  PROVE  /\ SkipsVersion(k, b) => Goes(r, Read(k, r, b), "ml", r.cond, AfterStar(b))
         /\ ~SkipsVersion(k, b) /\ b \in {"ver", "nines"} => Goes(r, Read(k, r, b), "code", TRUE, "none")
         /\ ~SkipsVersion(k, b) /\ b \notin {"ver", "nines"} => Begins(k, r, TRUE, b, Read(k, r, b))
<1>1. Read(k, r, b) = ReadCode(k, r, b)
  BY DEF Read, Quotes
<1>2. ReadCode(k, r, b) = Version(k, r, b)
  BY DEF ReadCode, WordPends
<1>3. CASE SkipsVersion(k, b)
  <2>1. Version(k, r, b) = Skip(r, b)
    BY <1>3 DEF Version, SkipsVersion
  <2> QED BY <1>1, <1>2, <1>3, <2>1, SkipGoes
<1>4. CASE ~SkipsVersion(k, b) /\ b \in {"ver", "nines"}
  <2>1. Version(k, r, b) = [r EXCEPT !.pend = "none", !.cond = TRUE]
    BY <1>4 DEF Version, SkipsVersion
  <2>2. "none" \in Pends
    BY DEF Pends
  <2>3. \A c \in BOOLEAN : Goes(r, [r EXCEPT !.pend = "none", !.cond = c], r.in, c, "none")
    BY <2>2, GoesOn
  <2> QED BY <1>1, <1>2, <1>4, <2>1, <2>3
<1>5. CASE ~SkipsVersion(k, b) /\ b \notin {"ver", "nines"}
  <2>1. Version(k, r, b) = Fresh(k, [r EXCEPT !.cond = TRUE], b)
    BY <1>5 DEF Version, SkipsVersion
  <2>2. \A c \in BOOLEAN : Begins(k, r, c, b, Fresh(k, [r EXCEPT !.cond = c], b))
    BY FreshInCond
  <2> QED BY <1>1, <1>2, <1>5, <2>1, <2>2
<1> QED BY <1>3, <1>4, <1>5

(* A byte in quotes. *)
LEMMA ReadInQuote ==
  ASSUME NEW k, NEW r \in ReaderStates, NEW b \in Bytes,
         r.in \in Quotes
  PROVE  /\ r.pend = "bs" => Goes(r, Read(k, r, b), r.in, r.cond, "none")
         /\ r.pend = "none" /\ b = "bs" /\ r.in # "bq" => Goes(r, Read(k, r, b), r.in, r.cond, "bs")
         /\ r.pend = "none" /\ b = r.in => Goes(r, Read(k, r, b), "code", r.cond, "none")
         /\ r.pend = "none" /\ b \notin {"bs", r.in} => Goes(r, Read(k, r, b), r.in, r.cond, "none")
<1>1. Read(k, r, b) = ReadQuoted(k, r, b)
  BY DEF Read, Quotes
<1>2. {"bs", "none"} \subseteq Pends /\ r.pend \in Pends /\ "code" \in Places
  BY DEF Pends, Places, ReaderStates
<1>3. CASE r.pend = "bs"
  <2>1. ReadQuoted(k, r, b) = [r EXCEPT !.pend = "none"]
    BY <1>3 DEF ReadQuoted
  <2> QED BY <1>1, <1>2, <1>3, <2>1, GoesOn
<1>4. CASE r.pend = "none" /\ b = "bs" /\ r.in # "bq"
  <2>1. ReadQuoted(k, r, b) = [r EXCEPT !.pend = "bs"]
    BY <1>4 DEF ReadQuoted, Quotes
  <2>2. Goes(r, [r EXCEPT !.pend = "bs"], r.in, r.cond, "bs")
    BY <1>2, GoesOn
  <2> QED BY <1>1, <1>4, <2>1, <2>2 DEF Quotes
<1>5. CASE r.pend = "none" /\ b = r.in
  <2>1. ReadQuoted(k, r, b) = [r EXCEPT !.in = "code"]
    BY <1>5 DEF ReadQuoted, Quotes
  <2> QED BY <1>1, <1>2, <1>5, <2>1, GoesOn DEF Quotes
<1>6. CASE r.pend = "none" /\ b \notin {"bs", r.in}
  <2>1. ReadQuoted(k, r, b) = r
    BY <1>6 DEF ReadQuoted
  <2> QED BY <1>1, <1>6, <2>1 DEF Goes
<1> QED BY <1>3, <1>4, <1>5, <1>6

(* A byte of a comment. *)
LEMMA ReadInComment ==
  ASSUME NEW k, NEW r \in ReaderStates, NEW b \in Bytes,
         r.in = "ml"
  PROVE  /\ r.pend = "star" /\ b = "slash" => Goes(r, Read(k, r, b), "code", r.cond, "none")
         /\ r.pend # "star" \/ b # "slash" => Goes(r, Read(k, r, b), "ml", r.cond, AfterStar(b))
<1>1. "code" \in Places /\ "none" \in Pends
  BY DEF Places, Pends
<1>2. CASE r.pend = "star" /\ b = "slash"
  <2>1. Read(k, r, b) = [r EXCEPT !.in = "code", !.pend = "none"]
    BY <1>2 DEF Read, Quotes
  <2> QED BY <1>1, <1>2, <2>1, GoesOn
<1>3. CASE r.pend # "star" \/ b # "slash"
  <2>1. Read(k, r, b) = Skip(r, b)
    BY <1>3 DEF Read, Quotes
  <2> QED BY <1>3, <2>1, SkipGoes
<1> QED BY <1>2, <1>3

(* The reader is at the beginning of a line. *)
Lines(r, x) ==
  /\ x \in ReaderStates
  /\ x.in = "code" /\ x.cond = r.cond /\ x.pend = r.pend /\ x.bol
  /\ x.new = r.new /\ x.ends = r.ends /\ x.delim = r.delim /\ x.semis = r.semis

(* A byte of a line that is dropped. *)
LEMMA ReadInLine ==
  ASSUME NEW k, NEW r \in ReaderStates, NEW b \in Bytes,
         r.in = "lc"
  PROVE  /\ b = "nl" => Lines(r, Read(k, r, b))
         /\ b # "nl" => Goes(r, Read(k, r, b), "lc", r.cond, r.pend)
<1>1. CASE b = "nl"
  <2>1. Read(k, r, b) = [r EXCEPT !.in = "code", !.bol = TRUE]
    BY <1>1 DEF Read, Quotes
  <2>2. \A c \in BOOLEAN : c => Lines(r, [r EXCEPT !.in = "code", !.bol = c])
    BY DEF Lines, ReaderStates, Places
  <2> QED BY <1>1, <2>1, <2>2
<1>2. CASE b # "nl"
  <2>1. Read(k, r, b) = r
    BY <1>2 DEF Read, Quotes
  <2> QED BY <1>2, <2>1 DEF Goes
<1> QED BY <1>1, <1>2

(* The reader counts semicolons: x is r but for where it is and how many. *)
Counts(r, x, d) ==
  /\ x \in ReaderStates
  /\ x.in = "argument" /\ x.cond = r.cond /\ x.pend = "none" /\ x.bol = r.bol /\ x.new = r.new
  /\ x.ends = r.ends /\ x.semis = r.semis /\ x.delim = d

(* A byte of the argument of DELIMITER. *)
LEMMA ReadArgument ==
  ASSUME NEW k, NEW r \in ReaderStates, NEW b \in Bytes
  PROVE  /\ r.in = "code" /\ r.pend = "delimiter" /\ b = "sp" => Counts(r, Read(k, r, b), 0)
         /\ r.in = "argument" /\ r.pend = "none" /\ b = "semi" => Counts(r, Read(k, r, b), r.delim + 1)
         /\ r.in = "argument" /\ r.pend = "none" /\ b = "sp" => Counts(r, Read(k, r, b), r.delim)
         /\ r.in = "argument" /\ b = "nl" => Lines(r, Read(k, r, b))
<1>1. CASE r.in = "code" /\ r.pend = "delimiter" /\ b = "sp"
  <2>1. Read(k, r, b) = ReadCode(k, r, b)
    BY <1>1 DEF Read, Quotes
  <2> DEFINE t == [r EXCEPT !.pend = "none"]
  <2>2. ReadCode(k, r, b) = [t EXCEPT !.in = "argument", !.delim = 0]
    BY <1>1 DEF ReadCode, WordPends, WordBytes
  <2>3. Goes(r, t, r.in, r.cond, "none")
    <3>1. "none" \in Pends
      BY DEF Pends
    <3> QED BY <3>1, GoesOn
  <2> HIDE DEF t
  <2>4. Counts(t, [t EXCEPT !.in = "argument", !.delim = 0], 0)
    BY <2>3 DEF Counts, Goes, ReaderStates, Places
  <2> DEFINE x == [t EXCEPT !.in = "argument", !.delim = 0]
  <2> HIDE DEF x
  <2>5. Counts(r, x, 0)
    BY <2>3, <2>4 DEF Counts, Goes, x
  <2> QED BY <1>1, <2>1, <2>2, <2>5 DEF x
<1>2. CASE r.in = "argument" /\ r.pend = "none" /\ b = "semi"
  <2>1. Read(k, r, b) = [r EXCEPT !.delim = @ + 1]
    BY <1>2 DEF Read, Quotes
  <2> QED BY <1>2, <2>1 DEF Counts, ReaderStates
<1>3. CASE r.in = "argument" /\ r.pend = "none" /\ b = "sp"
  <2>1. Read(k, r, b) = r
    BY <1>3 DEF Read, Quotes
  <2> QED BY <1>3, <2>1 DEF Counts
<1>4. CASE r.in = "argument" /\ b = "nl"
  <2>1. Read(k, r, b) = [r EXCEPT !.in = "code", !.bol = TRUE]
    BY <1>4 DEF Read, Quotes
  <2>2. \A c \in BOOLEAN : c => Lines(r, [r EXCEPT !.in = "code", !.bol = c])
    BY DEF Lines, ReaderStates, Places
  <2> QED BY <1>4, <2>1, <2>2
<1> QED BY <1>1, <1>2, <1>3, <1>4
----------------------------------------------------------------------------
(* The scanner and one reader.                                             *)

(* The i-th byte, or that there is none, is known. *)
Seen(i) == i <= Len(win) \/ eof

(* It is known to be none of bs. *)
Known(i, bs) == Seen(i) /\ At(i) \notin bs

Blank == Space \cup {"eof"}

(* Where the scanner can be with what it is in. *)
ScannerOK ==
  /\ s.state # "code" => s.at = "rest"
  /\ s.state = "comment" => ~s.cond
  /\ s.at \in {"skip", "lc", "open", "version", "delimiter"} => ~s.cond
  /\ s.word # "none" => s.at = "rest" /\ s.state = "code"

ReadsLineStart(r) ==
  s.at \in {"bol", "indent"} /\ r.in = "code" /\ r.cond = s.cond /\ r.bol

(* lineStart found no client command at the first byte of the line. *)
FirstByte ==
  /\ Known(1, {"sp"})
  /\ At(1) \in {"system", "use"} => Seen(2) /\ At(2) \in WordBytes
  /\ At(1) = "delimiter" => Known(2, {"sp"})

(* What is pending is not completed by the bytes that come: the scanner     *)
(* looked at them when it read what is pending.                            *)
PendingIsCode(k, r) ==
  \/ r.pend \in {"none", "word"}
  \/ r.pend = "slash" /\ Known(1, {"star"})
  \/ r.pend = "star" /\ Known(1, {"slash"})
  \/ r.pend = "dash" /\ Seen(1) /\ (At(1) = "dash" => Known(2, Blank))
  \/ r.pend = "dashes" /\ Known(1, Blank) /\ (At(1) = "dash" => Known(2, Blank))
  \/ r.pend = "colon" /\ (IsClient(k) \/ Known(1, {"eq"}))
  \/ r.pend \in {"system", "use"} /\ Seen(1) /\ At(1) \in WordBytes
  \/ r.pend = "delimiter" /\ Known(1, {"sp"})
  \/ r.pend = "outfile" /\ s.word = "outfile"
  \/ r.pend = "version" /\ s.cond /\ ~s.dead /\ Known(1, {"ver", "nines"})

ReadsCode(k, r) ==
  /\ s.at = "rest" /\ s.state = "code" /\ r.in = "code"
  /\ r.cond = (s.cond /\ r.pend # "version")
  /\ r.bol => FirstByte
  /\ s.word # "none" => r.pend \in WordPends
  /\ PendingIsCode(k, r)

ReadsQuote(r) ==
  /\ s.at = "rest" /\ s.state \in Quotes /\ r.in = s.state /\ r.cond = s.cond
  /\ r.pend = "none" \/ (r.pend = "bs" /\ eof /\ win = <<>>)

(* A star in a comment is not its end. *)
StarIsText(r) ==
  r.pend = "none" \/ (r.pend = "star" /\ s.at = "rest" /\ Known(1, {"slash"}))

(* The reader does not run the version comment. *)
Skips(r) ==
  s.cond /\ s.at \in {"bol", "indent", "rest", "use"} /\ r.in = "ml" /\ ~r.cond /\ StarIsText(r)

ReadsComment(r) ==
  /\ s.at = "rest" /\ s.state = "comment" /\ ~r.cond
  /\ \/ r.in = "ml" /\ StarIsText(r)
     \/ /\ r.in = "code" /\ r.pend = "opened"
        /\ Known(1, {"bang", "plus"}) /\ (At(1) = "M" => Known(2, {"bang"}))
     \/ r.in = "code" /\ r.pend = "openedM" /\ Known(1, {"bang"})

ReadsOpening(r) == s.at = "open" /\ r.in = "code" /\ r.pend = "opened" /\ ~r.cond

ReadsVersion(r) ==
  /\ s.at = "version" /\ ~r.cond
  /\ \/ r.in = "code" /\ r.pend = "version"
     \/ r.in = "ml" /\ r.pend = "none"

(* The rest of the line is dropped: by some readers only once they have    *)
(* read the dashes and the space.                                          *)
DropsLine(r) ==
  /\ s.at \in {"skip", "lc"} /\ ~r.cond
  /\ \/ r.in = "lc" /\ r.pend = "none"
     \/ r.in = "code" /\ r.pend = "dashes" /\ Seen(1) /\ At(1) \in Blank
     \/ /\ s.at = "skip" /\ r.in = "code" /\ r.pend \in {"dash", "firstdash"}
        /\ Seen(2) /\ At(1) = "dash" /\ At(2) \in Blank
     \/ /\ s.at = "skip" /\ r.in = "code" /\ r.pend = "none"
        /\ At(1) = "hash" \/ (Seen(3) /\ DashComment(1))

ReadsUse(r) ==
  /\ s.at = "use" /\ r.cond = s.cond
  /\ \/ r.in = "lc" /\ r.pend = "none"
     \/ r.in = "code" /\ r.pend = "use" /\ Known(1, WordBytes)

ReadsArgument(r) ==
  /\ s.at = "delimiter" /\ ~r.cond
  /\ \/ r.in = "argument" /\ r.pend = "none" /\ r.delim = s.arg
     \/ r.in = "code" /\ r.pend = "delimiter" /\ s.arg = 0 /\ Seen(1) /\ At(1) = "sp"

(* The semicolons read are not the beginning of a delimiter. *)
SemisAreCode(r) ==
  r.semis > 0 =>
    /\ r.in = "code" /\ r.pend = "none" /\ s.at = "rest" /\ s.state = "code"
    /\ \E i \in 1 .. s.delim - r.semis : Known(i, {"semi"})

(* The statement they are in, the delimiter and what is new in both.       *)
SameStatement(k, r) ==
  /\ r.ends = s.ends
  /\ r.in # "argument" => r.delim = s.delim
  /\ r.in # "ml" => (s.dead => IsClient(k))
  /\ r.new => s.first /\ s.cur = "none" /\ ~s.cond /\ r.pend = "none" /\ r.in \in {"code", "lc"}
  /\ r.bol => r.in = "code" /\ r.pend = "none" /\ r.semis = 0

Place(k, r) ==
  \/ ReadsLineStart(r) \/ ReadsCode(k, r) \/ ReadsQuote(r) \/ Skips(r) \/ ReadsComment(r)
  \/ ReadsOpening(r) \/ ReadsVersion(r) \/ DropsLine(r) \/ ReadsUse(r) \/ ReadsArgument(r)

Follows(k, r) == SameStatement(k, r) /\ SemisAreCode(r) /\ Place(k, r)

LexInv ==
  /\ TypeOK
  /\ verdict # "refused" => ScannerOK /\ \A k \in Readers : Follows(k, readers[k])

(* The invariant holds at the beginning. *)
LEMMA LexInit == Init => LexInv
<1> SUFFICES ASSUME Init PROVE LexInv
  OBVIOUS
<1>1. ReaderInit \in ReaderStates
  BY DEF ReaderInit, ReaderStates, Places, Pends
<1>2. TypeOK
  <2>1. 1 \in 1 .. MaxDelimiter /\ 0 \in 0 .. MaxDelimiter
    BY MaxDelimiterAssumption
  <2>2. s \in Scanner /\ ~s.dead
    BY <2>1 DEF Init, Scanner
  <2>3. readers \in [Readers -> ReaderStates]
    BY <1>1 DEF Init
  <2>4. win \in Seq(Bytes) /\ Len(win) <= 3
    BY DEF Init
  <2>5. eof \in BOOLEAN /\ verdict \in {"reading", "refused", "accepted"}
    BY DEF Init
  <2> QED BY <2>2, <2>3, <2>4, <2>5 DEF TypeOK
<1>3. ScannerOK
  BY DEF Init, ScannerOK
<1>4. ASSUME NEW k \in Readers PROVE Follows(k, readers[k])
  <2>1. readers[k] = ReaderInit
    BY <1>4 DEF Init
  <2>2. Follows(k, ReaderInit)
    BY DEF Init, Follows, SameStatement, SemisAreCode, Place, ReadsLineStart, ReaderInit
  <2> QED BY <2>1, <2>2
<1> QED BY <1>2, <1>3, <1>4 DEF LexInv
----------------------------------------------------------------------------
(* What the invariant says of the scanner.                                 *)

(* It implies what the runs check. *)
LEMMA LexInvImplies ==
  LexInv => ReadersAgree /\ StatementsSplitTogether /\ NoClientCommand
<1> SUFFICES ASSUME LexInv PROVE ReadersAgree /\ StatementsSplitTogether /\ NoClientCommand
  OBVIOUS
<1>1. ASSUME verdict # "refused", NEW k \in Readers PROVE readers[k].in # "command"
  BY <1>1 DEF LexInv, Follows, Place, ReadsLineStart, ReadsCode, ReadsQuote, Skips, ReadsComment,
     ReadsOpening, ReadsVersion, DropsLine, ReadsUse, ReadsArgument, Quotes
<1>2. ASSUME Settled, NEW k \in Readers
      PROVE  readers[k].ends = s.ends /\ readers[k].delim = s.delim
  BY <1>2 DEF LexInv, Settled, Follows, SameStatement, Place, ReadsLineStart, ReadsCode, ReadsQuote, Skips,
     ReadsComment, ReadsOpening, ReadsVersion, DropsLine, ReadsUse, ReadsArgument, Quotes
<1>3. ASSUME Settled, NEW k \in Readers, NEW r, r = readers[k]
      PROVE  \/ r.pend \in {"opened", "openedM", "version"}
             \/ r.in = s.state /\ r.cond = s.cond
             \/ r.in = "ml" /\ s.state = "comment"
             \/ r.in = "ml" /\ s.cond /\ s.state /= "comment"
  <2>1. Place(k, r) /\ ScannerOK /\ s.at \in {"bol", "indent", "rest"} /\ TypeOK
    BY <1>3 DEF LexInv, Settled, Follows
  <2> QED BY <2>1 DEF ScannerOK, Place, ReadsLineStart, ReadsCode, ReadsQuote, Skips,
     ReadsComment, ReadsOpening, ReadsVersion, DropsLine, ReadsUse, ReadsArgument, Quotes, TypeOK, Scanner
<1>4. ReadersAgree
  BY <1>3 DEF ReadersAgree
<1>5. StatementsSplitTogether
  BY <1>2 DEF StatementsSplitTogether
<1>6. NoClientCommand
  BY <1>1 DEF NoClientCommand
<1> QED BY <1>4, <1>5, <1>6

(* A reader with the word OUTFILE read it with the scanner. *)
LEMMA NoFileWordRead == LexInv /\ (verdict = "accepted" => s.word # "outfile") => NoFileWord
<1> SUFFICES ASSUME LexInv, verdict = "accepted" => s.word # "outfile" PROVE NoFileWord
  OBVIOUS
<1>1. ASSUME verdict # "refused", NEW k \in Readers, NEW r, r = readers[k]
      PROVE  /\ r.in \notin {"file", "assign"}
             /\ r.in = "code" /\ r.pend = "outfile" => s.word = "outfile"
  <2>1. SameStatement(k, r) /\ Place(k, r) /\ ScannerOK
    BY <1>1 DEF LexInv, Follows
  <2>2. r.in \notin {"file", "assign"}
    BY <2>1 DEF Place, ReadsLineStart, ReadsCode, ReadsQuote, Skips, ReadsComment,
       ReadsOpening, ReadsVersion, DropsLine, ReadsUse, ReadsArgument, Quotes
  <2>3. CASE r.in = "code" /\ r.pend = "outfile"
    BY <2>1, <2>3 DEF SameStatement, Place, ReadsLineStart, ReadsCode, PendingIsCode, ReadsQuote, Skips,
       ReadsComment, ReadsOpening, ReadsVersion, DropsLine, ReadsUse, ReadsArgument, Quotes
  <2> QED BY <2>2, <2>3
<1> QED BY <1>1 DEF NoFileWord, Settled
----------------------------------------------------------------------------
(* What is consumed.                                                       *)

(* Nothing: only the scanner moves. *)
LEMMA ConsumesNothing ==
  ASSUME TypeOK, NEW t, Consume(0, t)
  PROVE  /\ s' = t /\ win' = win /\ eof' = eof /\ verdict' = verdict /\ readers' = readers
<1>1. win \in Seq(Bytes) /\ readers \in [Readers -> ReaderStates]
  BY DEF TypeOK
<1>2. SubSeq(win, 0 + 1, Len(win)) = win
  BY <1>1
<1>3. Len(SubSeq(win, 1, 0)) = 0
  BY <1>1
<1>4. readers' = readers
  BY <1>1, <1>3, ReadNone DEF Consume
<1> QED BY <1>2, <1>4 DEF Consume

(* The bytes left when n are consumed. *)
LEMMA ConsumesBytes ==
  ASSUME TypeOK, NEW n \in Nat, n <= Len(win), NEW t, Consume(n, t)
  PROVE  /\ s' = t /\ eof' = eof /\ verdict' = verdict
         /\ win' \in Seq(Bytes) /\ Len(win') = Len(win) - n
         /\ Len(SubSeq(win, 1, n)) = n
         /\ \A i \in 1 .. n : SubSeq(win, 1, n)[i] = At(i) /\ At(i) \in Bytes
         /\ \A i \in Nat \ {0} : At(i)' = At(n + i) /\ (Seen(i)' <=> Seen(n + i))
         /\ readers' = [k \in Readers |-> ReadAll(k, readers[k], SubSeq(win, 1, n))]
<1>1. win \in Seq(Bytes) /\ Len(win) \in Nat
  BY DEF TypeOK
<1>2. s' = t /\ eof' = eof /\ verdict' = verdict /\ win' = SubSeq(win, n + 1, Len(win))
      /\ readers' = [k \in Readers |-> ReadAll(k, readers[k], SubSeq(win, 1, n))]
  BY DEF Consume
<1>3. /\ win' \in Seq(Bytes) /\ Len(win') = Len(win) - n
      /\ \A i \in 1 .. Len(win) - n : win'[i] = win[n + i]
  BY <1>1, <1>2
<1>4. /\ Len(SubSeq(win, 1, n)) = n
      /\ \A i \in 1 .. n : SubSeq(win, 1, n)[i] = win[i] /\ win[i] \in Bytes
  BY <1>1
<1>5. \A i \in 1 .. n : At(i) = win[i]
  BY <1>1 DEF At
<1>6. ASSUME NEW i \in Nat \ {0} PROVE At(i)' = At(n + i) /\ (Seen(i)' <=> Seen(n + i))
  BY <1>1, <1>2, <1>3 DEF At, Seen
<1> QED BY <1>2, <1>3, <1>4, <1>5, <1>6

(* What comes next when one byte is consumed. *)
Shift1 ==
  /\ At(1)' = At(2) /\ At(2)' = At(3)
  /\ Seen(1)' <=> Seen(2)
  /\ Seen(2)' <=> Seen(3)

(* The same for two. *)
Shift2 ==
  /\ At(1)' = At(3) /\ At(2)' = At(4)
  /\ Seen(1)' <=> Seen(3)
  /\ Seen(2)' <=> Seen(4)

(* One byte is consumed, and read by all. *)
LEMMA ConsumesOne ==
  ASSUME TypeOK, 1 <= Len(win), NEW t, Consume(1, t)
  PROVE  /\ s' = t /\ eof' = eof /\ verdict' = verdict
         /\ win' \in Seq(Bytes) /\ Len(win') = Len(win) - 1 /\ At(1) \in Bytes
         /\ \A i \in Nat \ {0} : At(i)' = At(1 + i) /\ (Seen(i)' <=> Seen(1 + i))
         /\ Shift1
         /\ readers' = [k \in Readers |-> Read(k, readers[k], At(1))]
<1>1. /\ s' = t /\ eof' = eof /\ verdict' = verdict
      /\ win' \in Seq(Bytes) /\ Len(win') = Len(win) - 1
      /\ Len(SubSeq(win, 1, 1)) = 1
      /\ \A i \in 1 .. 1 : SubSeq(win, 1, 1)[i] = At(i) /\ At(i) \in Bytes
      /\ \A i \in Nat \ {0} : At(i)' = At(1 + i) /\ (Seen(i)' <=> Seen(1 + i))
      /\ readers' = [k \in Readers |-> ReadAll(k, readers[k], SubSeq(win, 1, 1))]
  BY ConsumesBytes
<1>2. SubSeq(win, 1, 1)[1] = At(1) /\ At(1) \in Bytes
  BY <1>1
<1>3. \A k \in Readers : ReadAll(k, readers[k], SubSeq(win, 1, 1)) = Read(k, readers[k], At(1))
  <2> DEFINE q == SubSeq(win, 1, 1)
  <2>1. Len(q) = 1 /\ q[1] = At(1)
    BY <1>1, <1>2
  <2> HIDE DEF q
  <2>2. \A k \in Readers : ReadAll(k, readers[k], q) = Read(k, readers[k], At(1))
    BY <2>1, ReadOne
  <2> QED BY <2>2 DEF q
<1>4. readers' = [k \in Readers |-> Read(k, readers[k], At(1))]
  BY <1>1, <1>3
<1>5. Shift1
  <2>1. 1 \in Nat \ {0} /\ 2 \in Nat \ {0} /\ 1 + 1 = 2 /\ 1 + 2 = 3
    OBVIOUS
  <2> QED BY <1>1, <2>1 DEF Shift1
<1> QED BY <1>1, <1>2, <1>4, <1>5

(* Two bytes are. *)
LEMMA ConsumesTwo ==
  ASSUME TypeOK, 2 <= Len(win), NEW t, Consume(2, t)
  PROVE  /\ s' = t /\ eof' = eof /\ verdict' = verdict
         /\ win' \in Seq(Bytes) /\ Len(win') = Len(win) - 2 /\ At(1) \in Bytes /\ At(2) \in Bytes
         /\ Shift2
         /\ readers' = [k \in Readers |-> Read(k, Read(k, readers[k], At(1)), At(2))]
<1>1. /\ s' = t /\ eof' = eof /\ verdict' = verdict
      /\ win' \in Seq(Bytes) /\ Len(win') = Len(win) - 2
      /\ Len(SubSeq(win, 1, 2)) = 2
      /\ \A i \in 1 .. 2 : SubSeq(win, 1, 2)[i] = At(i) /\ At(i) \in Bytes
      /\ \A i \in Nat \ {0} : At(i)' = At(2 + i) /\ (Seen(i)' <=> Seen(2 + i))
      /\ readers' = [k \in Readers |-> ReadAll(k, readers[k], SubSeq(win, 1, 2))]
  BY ConsumesBytes
<1>2. SubSeq(win, 1, 2)[1] = At(1) /\ At(1) \in Bytes /\ SubSeq(win, 1, 2)[2] = At(2) /\ At(2) \in Bytes
  BY <1>1
<1>3. \A k \in Readers : ReadAll(k, readers[k], SubSeq(win, 1, 2)) = Read(k, Read(k, readers[k], At(1)), At(2))
  <2> DEFINE q == SubSeq(win, 1, 2)
  <2>1. Len(q) = 2 /\ q[1] = At(1) /\ q[2] = At(2)
    BY <1>1, <1>2
  <2> HIDE DEF q
  <2>2. \A k \in Readers : ReadAll(k, readers[k], q) = Read(k, Read(k, readers[k], At(1)), At(2))
    BY <2>1, ReadTwo
  <2> QED BY <2>2 DEF q
<1>4. readers' = [k \in Readers |-> Read(k, Read(k, readers[k], At(1)), At(2))]
  BY <1>1, <1>3
<1>5. Shift2
  <2>1. 1 \in Nat \ {0} /\ 2 \in Nat \ {0} /\ 2 + 1 = 3 /\ 2 + 2 = 4
    OBVIOUS
  <2> QED BY <1>1, <2>1 DEF Shift2
<1> QED BY <1>1, <1>2, <1>4, <1>5
----------------------------------------------------------------------------
(* A byte of code.                                                         *)

(* next and Peek: what code looks at before it takes its first byte. *)
LooksAhead ==
  /\ 1 <= Len(win) /\ Seen(1)
  /\ At(1) = "dash" => Seen(2) /\ (At(2) = "dash" => Seen(3))
  /\ At(1) \in {"slash", "colon", "bs", "star"} => Seen(2)
  /\ At(1) = "semi" => \A i \in 1 .. s.delim : Seen(i)

(* The scanner looks ahead before it takes a byte of code. *)
LEMMA CodeLooksAhead ==
  ASSUME TypeOK, InLine, s.state = "code"
  PROVE  LooksAhead
<1>1. win \in Seq(Bytes) /\ Len(win) \in Nat /\ Len(win) # 0 /\ s.delim \in 1 .. MaxDelimiter
  BY DEF TypeOK, InLine, Scanner
<1>2. Len(win) >= Need \/ eof
  BY DEF InLine, Ready
<1>3. At(1) = "dash" => Need = IF At(2) = "dash" THEN 3 ELSE 2
  BY DEF InLine, Need, Quotes
<1>4. At(1) \in {"slash", "colon", "bs", "star"} => Need = 2
  BY DEF InLine, Need, Quotes
<1>5. At(1) = "semi" => Need = s.delim
  BY DEF InLine, Need, Quotes
<1>6. \A i \in Nat : Seen(i) <=> (i <= Len(win) \/ eof)
  BY DEF Seen
<1>7. 1 <= Len(win) /\ Seen(1)
  BY <1>1, <1>6
<1>8. At(1) = "dash" => Seen(2) /\ (At(2) = "dash" => Seen(3))
  BY <1>1, <1>2, <1>3, <1>6
<1>9. At(1) \in {"slash", "colon", "bs", "star"} => Seen(2)
  BY <1>1, <1>2, <1>4, <1>6
<1>10. At(1) = "semi" => \A i \in 1 .. s.delim : Seen(i)
  BY <1>1, <1>2, <1>5, <1>6
<1> QED BY <1>7, <1>8, <1>9, <1>10 DEF LooksAhead

(* How a reader in code takes a byte of code b, at x afterwards. *)
CodeStep(k, r, b, x) ==
  \/ r.pend = "version" /\ Goes(r, x, "ml", FALSE, AfterStar(b))
  \/ b = "dash" /\ r.pend \in {"dash", "dashes"} /\ Goes(r, x, "code", s.cond, "dashes")
  \/ b \in WordBytes /\ r.pend \in WordPends /\ Goes(r, x, "code", s.cond, "word")
  \/ /\ Begins(k, r, s.cond, b, x)
     /\ b \in WordBytes => r.pend \notin WordPends
     /\ b = "dash" => r.pend \notin {"dash", "dashes"}

(* A reader that reads or skips code. *)
LEMMA InCodeReaders ==
  ASSUME NEW k, NEW r, Follows(k, r), ScannerOK, s.at = "rest", s.state = "code"
  PROVE  ReadsCode(k, r) \/ Skips(r)
BY DEF Follows, Place, ReadsLineStart, ReadsQuote, ReadsComment, ReadsOpening, ReadsVersion,
   DropsLine, ReadsUse, ReadsArgument, Quotes

(* Nothing pending is completed by a byte of code. *)
LEMMA CodeByte ==
  ASSUME NEW k, NEW r \in ReaderStates, ReadsCode(k, r), At(1) \in Bytes, ~WordRefused,
         s.cond \in BOOLEAN
  PROVE  CodeStep(k, r, At(1), Read(k, r, At(1)))
<1> DEFINE b == At(1)
           x == Read(k, r, b)
<1>1. PendingIsCode(k, r) /\ r.in = "code" /\ r.cond = (s.cond /\ r.pend # "version")
  BY DEF ReadsCode
<1>2. b \in Bytes /\ b = At(1)
  OBVIOUS
<1>9. SUFFICES CodeStep(k, r, b, x)
  OBVIOUS
<1> HIDE DEF b, x
<1>0. b \in WordBytes \/ s.word # "outfile"
  BY DEF WordRefused, b
<1>7. r.pend # "version" => r.cond = s.cond
  BY <1>1 DEF ReaderStates
<1>8. b = At(1) /\ x = Read(k, r, b)
  BY DEF b, x
<1>3. CASE r.pend = "version"
  <2>1. s.cond /\ ~s.dead /\ b \notin {"ver", "nines"} /\ r.cond = FALSE
    BY <1>1, <1>2, <1>3 DEF PendingIsCode, Known, WordPends
  <2>2. CASE k = "old"
    <3>1. Goes(r, x, "ml", r.cond, AfterStar(b))
      BY <1>1, <1>2, <1>3, <2>2, <1>8, ReadVersion DEF SkipsVersion
    <3> QED BY <1>3, <2>1, <3>1 DEF CodeStep
  <2>3. CASE k # "old"
    <3>1. Begins(k, r, TRUE, b, x)
      BY <1>1, <1>2, <1>3, <2>1, <2>3, <1>8, ReadVersion DEF SkipsVersion
    <3>2. s.cond = TRUE
      BY <1>1, <2>1 DEF ReaderStates, Begins
    <3> QED BY <1>3, <3>1, <3>2 DEF CodeStep, WordPends
  <2> QED BY <2>2, <2>3
<1>4. CASE r.pend \in {"dash", "dashes"} /\ b = "dash"
  <2>1. Goes(r, x, "code", r.cond, "dashes")
    BY <1>1, <1>2, <1>4, <1>8, ReadCompletes
  <2> QED BY <1>4, <1>7, <2>1 DEF CodeStep
<1>5. CASE r.pend \in WordPends /\ b \in WordBytes
  <2>1. Goes(r, x, "code", r.cond, "word")
    BY <1>1, <1>2, <1>5, <1>8, ReadCompletes
  <2> QED BY <1>5, <1>7, <2>1 DEF CodeStep, WordPends
<1>6. CASE r.pend # "version" /\ ~(r.pend \in {"dash", "dashes"} /\ b = "dash") /\ ~(r.pend \in WordPends /\ b \in WordBytes)
  <2>1. CompletesNothing(k, r.pend, b)
    BY <1>0, <1>1, <1>2, <1>6 DEF CompletesNothing, PendingIsCode, Known, Blank, Space, WordPends
  <2>2. Begins(k, r, r.cond, b, x)
    BY <1>1, <1>2, <2>1, <1>8, ReadPlain
  <2> QED BY <1>6, <1>7, <2>2 DEF CodeStep
<1> QED BY <1>3, <1>4, <1>5, <1>6

(* A reader that skips the version comment skips the byte. *)
LEMMA SkippedByte ==
  ASSUME NEW k \in Readers, NEW r \in ReaderStates, NEW x, x = readers'[k], x = Read(k, r, At(1)),
         s \in Scanner, SameStatement(k, r), SemisAreCode(r), Skips(r), At(1) \in Bytes,
         s'.cond = s.cond, s'.delim = s.delim, s'.ends = s.ends,
         s'.at \in {"bol", "indent", "rest", "use"},
         At(1) = "star" => s'.at = "rest" /\ Known(1, {"slash"})'
  PROVE  x \in ReaderStates /\ Follows(k, readers[k])'
<1>1. r.in = "ml" /\ s.cond /\ r.cond = FALSE /\ ~r.new /\ ~r.bol /\ r.semis = 0
  BY DEF Skips, SameStatement, SemisAreCode, ReaderStates
<1>2. r.pend # "star" \/ At(1) # "slash"
  BY DEF Skips, StarIsText, Known
<1>3. Goes(r, x, "ml", r.cond, AfterStar(At(1)))
  BY <1>1, <1>2, ReadInComment
<1>4. Skips(readers[k])'
  BY <1>1, <1>3 DEF Skips, Goes, StarIsText, AfterStar
<1>5. SameStatement(k, readers[k])' /\ SemisAreCode(readers[k])'
  BY <1>1, <1>3 DEF SameStatement, SemisAreCode, Goes
<1>6. x \in ReaderStates
  BY <1>3 DEF Goes
<1> QED BY <1>4, <1>5, <1>6 DEF Follows, Place

(* So does one that finds, after the bang, that it does not run the        *)
(* comment.                                                                *)
LEMMA BecomesSkipped ==
  ASSUME NEW k \in Readers, NEW r \in ReaderStates, NEW x, x = readers'[k],
         SameStatement(k, r), SemisAreCode(r), ReadsCode(k, r), r.pend = "version",
         Goes(r, x, "ml", FALSE, AfterStar(At(1))),
         s'.cond = s.cond, s'.delim = s.delim, s'.ends = s.ends,
         s'.at \in {"bol", "indent", "rest", "use"},
         At(1) = "star" => s'.at = "rest" /\ Known(1, {"slash"})'
  PROVE  x \in ReaderStates /\ Follows(k, readers[k])'
<1>1. s.cond /\ ~r.bol /\ ~r.new /\ r.semis = 0 /\ r.delim = s.delim
  BY DEF ReadsCode, PendingIsCode, SameStatement, SemisAreCode, WordPends, ReaderStates
<1>2. Skips(readers[k])'
  BY <1>1 DEF Skips, Goes, StarIsText, AfterStar
<1>3. SameStatement(k, readers[k])' /\ SemisAreCode(readers[k])'
  BY <1>1 DEF SameStatement, SemisAreCode, Goes
<1> QED BY <1>2, <1>3 DEF Follows, Place, Goes

(* The scanner stays in code. *)
StaysInCode ==
  /\ s'.at = "rest" /\ s'.state = "code"
  /\ s'.cond = s.cond /\ s'.dead = s.dead /\ s'.delim = s.delim /\ s'.ends = s.ends

(* A statement that has not begun still has not. *)
KeepsFirst == s.first /\ s.cur = "none" => s'.first /\ s'.cur = "none"

(* The window moves on by one byte. *)
OneByte ==
  /\ Shift1
  /\ \A i \in Nat \ {0} : At(i)' = At(1 + i) /\ (Seen(i)' <=> Seen(1 + i))

(* What code passes of one byte that it keeps as code. *)
PassedAsCode ==
  /\ s.at = "rest" /\ s.state = "code"
  /\ At(1) \in Bytes \ {"nl"} /\ LooksAhead /\ Plain /\ ~WordRefused
  /\ ~(At(1) = "colon" /\ At(2) = "eq" /\ ~s.dead)
  /\ At(1) = "dash" => s.dead \/ StartsWithWord(s)

(* Its effect on the scanner. *)
TakenAsCode ==
  /\ StaysInCode
  /\ At(1) = "sp" => KeepsFirst
  /\ At(1) \in WordBytes =>
       s'.word = IF s.word = "none" /\ At(1) = "outfile" THEN "outfile" ELSE "other"
  /\ At(1) \notin WordBytes => s'.word = "none"

(* A reader of code takes the byte as code too. *)
LEMMA PlainByte ==
  ASSUME NEW k \in Readers, NEW r \in ReaderStates, NEW x, x = readers'[k],
         s \in Scanner, s.dead => s.cond, ScannerOK, SameStatement(k, r), SemisAreCode(r), ReadsCode(k, r),
         PassedAsCode, TakenAsCode, OneByte, CodeStep(k, r, At(1), x)
  PROVE  x \in ReaderStates /\ Follows(k, readers[k])'
<1> DEFINE b == At(1)
<1>1. b \in Bytes /\ b \notin Quotes \cup {"bs", "hash", "nl"}
  BY DEF PassedAsCode, Plain
<1>2. r.delim = s.delim /\ r.ends = s.ends /\ s.delim \in Nat /\ s.delim >= 1 /\ r.semis \in Nat
      /\ s.cond \in BOOLEAN /\ r.bol \in BOOLEAN /\ r.new \in BOOLEAN
  BY MaxDelimiterAssumption DEF SameStatement, ReadsCode, Scanner, ReaderStates
<1>3. b = "semi" => ~Ends(r, b)
  <2> SUFFICES ASSUME b = "semi", r.semis + 1 = r.delim PROVE FALSE
    BY DEF Ends
  <2>1. CASE r.semis = 0
    <3>1. IsDelimiter
      BY <1>2, <2>1 DEF IsDelimiter
    <3> QED BY <3>1 DEF PassedAsCode, Plain
  <2>2. CASE r.semis > 0
    <3>1. PICK i \in 1 .. s.delim - r.semis : Known(i, {"semi"})
      BY <2>2 DEF SemisAreCode
    <3>2. i = 1
      BY <1>2, <3>1
    <3> QED BY <3>1, <3>2 DEF Known
  <2> QED BY <1>2, <2>1, <2>2
<1>4. ~Ends(r, b)
  BY <1>3 DEF Ends
<1>5. ASSUME NEW i \in Nat \ {0} PROVE At(i)' = At(1 + i) /\ (Seen(i)' <=> Seen(1 + i))
  BY DEF OneByte
<1>6. StaysInCode /\ (b = "sp" => KeepsFirst)
  BY DEF TakenAsCode
<1>7. CASE r.pend = "version" /\ Goes(r, x, "ml", FALSE, AfterStar(b))
  <2>1. b = "star" => Known(1, {"slash"})'
    <3>1. s.cond
      BY <1>7 DEF ReadsCode, PendingIsCode, WordPends
    <3> QED BY <3>1 DEF PassedAsCode, LooksAhead, Plain, CommentEndsAt, OneByte, Shift1, Known
  <2>2. s'.cond = s.cond /\ s'.delim = s.delim /\ s'.ends = s.ends /\ s'.at = "rest"
    BY <1>6 DEF StaysInCode
  <2> QED BY <1>7, <2>1, <2>2, BecomesSkipped
<1>8. CASE b = "dash" /\ r.pend \in {"dash", "dashes"} /\ Goes(r, x, "code", s.cond, "dashes")
  <2>1. ~r.bol /\ ~r.new /\ r.semis = 0
    BY <1>2, <1>8 DEF SameStatement, SemisAreCode
  <2>2. Known(1, Blank)' /\ (At(1)' = "dash" => Known(2, Blank)')
    <3>1. Seen(2) /\ At(2) \notin Blank
      BY <1>8 DEF ReadsCode, PendingIsCode, Known, WordPends
    <3>2. At(2) = "dash" => Seen(3) /\ At(3) \notin Blank
      BY <1>8 DEF PassedAsCode, LooksAhead, Plain, DashComment, Blank
    <3> QED BY <3>1, <3>2 DEF OneByte, Shift1, Known, Blank
  <2>3. ReadsCode(k, readers[k])'
    BY <1>2, <1>6, <1>8, <2>1, <2>2 DEF ReadsCode, PendingIsCode, StaysInCode, Goes, TakenAsCode, WordBytes
  <2>4. SameStatement(k, readers[k])' /\ SemisAreCode(readers[k])'
    BY <1>2, <1>6, <1>8, <2>1 DEF SameStatement, SemisAreCode, Goes, StaysInCode, ReadsCode
  <2>5. x \in ReaderStates
    BY <1>8 DEF Goes
  <2> QED BY <2>3, <2>4, <2>5 DEF Follows, Place
<1>9. CASE b \in WordBytes /\ r.pend \in WordPends /\ Goes(r, x, "code", s.cond, "word")
  <2>1. ~r.bol /\ ~r.new /\ r.semis = 0
    BY <1>2, <1>9 DEF SameStatement, SemisAreCode, WordPends
  <2>2. ReadsCode(k, readers[k])'
    BY <1>2, <1>6, <1>9, <2>1 DEF ReadsCode, PendingIsCode, StaysInCode, Goes, WordPends
  <2>3. SameStatement(k, readers[k])' /\ SemisAreCode(readers[k])'
    BY <1>2, <1>6, <1>9, <2>1 DEF SameStatement, SemisAreCode, Goes, StaysInCode, ReadsCode
  <2>4. x \in ReaderStates
    BY <1>9 DEF Goes
  <2> QED BY <2>2, <2>3, <2>4 DEF Follows, Place
<1>10. CASE /\ Begins(k, r, s.cond, b, x) /\ (b \in WordBytes => r.pend \notin WordPends)
            /\ (b = "dash" => r.pend \notin {"dash", "dashes"})
  <2>1. x \in ReaderStates /\ x.in = "code" /\ x.cond = s.cond /\ x.delim = r.delim /\ x.ends = r.ends
        /\ x.bol = (r.bol /\ b = "sp") /\ x.new = (r.new /\ b = "sp")
        /\ x.semis = IF b = "semi" THEN r.semis + 1 ELSE 0
    BY <1>1, <1>4, <1>10 DEF Begins, Space
  <2>2. ~x.bol
    BY <1>2, <2>1 DEF ReadsCode, FirstByte, Known
  <2>3. x.new => b = "sp" /\ r.new
    BY <1>2, <2>1
  <2>4. b \in {"sp", "semi", "bang", "plus", "eq"} => x.pend = "none"
    BY <1>10 DEF Begins, Space
  <2>5. PendingIsCode(k, readers[k])' /\ x.pend # "version"
    <3>1. CASE b \in {"sp", "semi", "bang", "plus", "eq"}
      BY <2>4, <3>1 DEF PendingIsCode
    <3>2. CASE b = "slash"
      <4>1. Known(1, {"star"})'
        BY <3>2 DEF PassedAsCode, LooksAhead, Plain, OneByte, Shift1, Known
      <4> QED BY <1>10, <3>2, <4>1 DEF PendingIsCode, Begins
    <3>3. CASE b = "star"
      <4>1. s.cond => Known(1, {"slash"})'
        BY <3>3 DEF PassedAsCode, LooksAhead, Plain, CommentEndsAt, OneByte, Shift1, Known
      <4> QED BY <1>10, <3>3, <4>1 DEF PendingIsCode, Begins
    <3>4. CASE b = "dash"
      <4>1. ~r.new
        BY <3>4 DEF SameStatement, PassedAsCode, StartsWithWord
      <4>2. x.pend = "dash"
        BY <1>10, <3>4, <4>1 DEF Begins
      <4>3. Seen(1)' /\ (At(1)' = "dash" => Known(2, Blank)')
        BY <3>4 DEF PassedAsCode, LooksAhead, Plain, DashComment, OneByte, Shift1, Known, Blank
      <4> QED BY <4>2, <4>3 DEF PendingIsCode
    <3>5. CASE b = "colon"
      <4>1. IsClient(k) \/ Known(1, {"eq"})'
        BY <3>5 DEF PassedAsCode, LooksAhead, OneByte, Shift1, Known, SameStatement, ReadsCode
      <4> QED BY <1>10, <3>5, <4>1 DEF PendingIsCode, Begins
    <3>6. CASE b = "outfile"
      <4>1. s.word = "none"
        BY <1>10, <3>6 DEF ReadsCode, WordBytes
      <4>2. s'.word = "outfile"
        BY <3>6, <4>1 DEF TakenAsCode, WordBytes
      <4> QED BY <1>10, <3>6, <4>2 DEF PendingIsCode, Begins
    <3>7. CASE b \in {"w", "M", "ver", "nines"} \/ (b \in {"system", "use", "delimiter"} /\ ~r.bol)
      BY <1>10, <3>7 DEF PendingIsCode, Begins
    <3>8. CASE b \in {"system", "use"} /\ r.bol
      <4>1. Seen(1)' /\ At(1)' \in WordBytes
        BY <3>8 DEF ReadsCode, FirstByte, OneByte, Shift1
      <4> QED BY <1>10, <3>8, <4>1 DEF PendingIsCode, Begins
    <3>9. CASE b = "delimiter" /\ r.bol
      <4>1. Known(1, {"sp"})'
        BY <3>9 DEF ReadsCode, FirstByte, OneByte, Shift1, Known
      <4> QED BY <1>10, <3>9, <4>1 DEF PendingIsCode, Begins
    <3> QED BY <1>1, <3>1, <3>2, <3>3, <3>4, <3>5, <3>6, <3>7, <3>8, <3>9
            DEF Bytes, Quotes, Space, WordBytes
  <2>6. s'.word # "none" => x.pend \in WordPends
    <3>1. b \in WordBytes => x.pend \in WordPends
      BY <1>10 DEF Begins, WordBytes, WordPends
    <3> QED BY <3>1 DEF TakenAsCode
  <2>7. ReadsCode(k, readers[k])'
    <3>1. x.cond = (s'.cond /\ x.pend # "version")
      BY <1>2, <1>6, <2>1, <2>5 DEF StaysInCode
    <3> QED BY <1>6, <2>1, <2>2, <2>5, <2>6, <3>1 DEF ReadsCode, StaysInCode
  <2>8. SameStatement(k, readers[k])'
    BY <1>2, <1>6, <2>1, <2>2, <2>3, <2>4 DEF SameStatement, KeepsFirst, StaysInCode, ReadsCode
  <2>9. SemisAreCode(readers[k])'
    <3> SUFFICES ASSUME x.semis > 0
                 PROVE  x.pend = "none" /\ \E i \in 1 .. s.delim - x.semis : Known(i, {"semi"})'
      BY <1>2, <1>6, <2>1 DEF SemisAreCode, StaysInCode
    <3>1. b = "semi" /\ x.semis = r.semis + 1 /\ x.pend = "none"
      BY <2>1, <2>4
    <3>2. \E i \in 2 .. s.delim - r.semis : Known(i, {"semi"})
      <4>1. CASE r.semis = 0
        <5>1. PICK i \in 1 .. s.delim : At(i) # "semi"
          BY DEF PassedAsCode, Plain, IsDelimiter
        <5>2. Known(i, {"semi"}) /\ i # 1
          BY <3>1, <5>1 DEF PassedAsCode, LooksAhead, Known
        <5> QED BY <1>2, <4>1, <5>1, <5>2
      <4>2. CASE r.semis > 0
        <5>1. PICK i \in 1 .. s.delim - r.semis : Known(i, {"semi"})
          BY <4>2 DEF SemisAreCode
        <5>2. i # 1
          BY <3>1, <5>1 DEF Known
        <5> QED BY <1>2, <5>1, <5>2
      <4> QED BY <1>2, <4>1, <4>2
    <3>3. PICK i \in 2 .. s.delim - r.semis : Known(i, {"semi"})
      BY <3>2
    <3>4. i - 1 \in 1 .. s.delim - x.semis /\ i - 1 \in Nat \ {0} /\ 1 + (i - 1) = i
      BY <1>2, <3>1, <3>3
    <3>5. At(i - 1)' = At(i) /\ (Seen(i - 1)' <=> Seen(i))
      BY <1>5, <3>4
    <3>6. Known(i - 1, {"semi"})'
      BY <3>3, <3>5 DEF Known
    <3> QED BY <3>1, <3>4, <3>6
  <2> QED BY <2>1, <2>7, <2>8, <2>9 DEF Follows, Place
<1> QED BY <1>7, <1>8, <1>9, <1>10 DEF CodeStep
----------------------------------------------------------------------------
(* The scanner's own steps.                                                *)

(* What few steps change. *)
Keeps(t, u) ==
  u.cond = t.cond /\ u.dead = t.dead /\ u.delim = t.delim /\ u.ends = t.ends /\ u.arg = t.arg

(* The scanner's fields after flush. *)
LEMMA FlushFields ==
  ASSUME NEW t \in Scanner
  PROVE  /\ Flush(t) \in Scanner /\ Keeps(t, Flush(t))
         /\ Flush(t).at = t.at /\ Flush(t).state = t.state /\ Flush(t).word = t.word
         /\ Flush(t).cur = "none" /\ Flush(t).first = (t.first /\ t.cur = "none")
<1> DEFINE f == t.first /\ t.cur = "none"
<1>1. f \in BOOLEAN
  OBVIOUS
<1>2. Flush(t) = [t EXCEPT !.cur = "none", !.first = f]
  BY DEF Flush
<1> HIDE DEF f
<1>3. [t EXCEPT !.cur = "none", !.first = f] \in Scanner
  BY <1>1 DEF Scanner
<1> QED BY <1>1, <1>2, <1>3 DEF Scanner, Keeps, f

(* And after endWord. *)
LEMMA EndedFields ==
  ASSUME s \in Scanner
  PROVE  /\ Ended \in Scanner /\ Keeps(s, Ended)
         /\ Ended.at = s.at /\ Ended.state = s.state /\ Ended.word = "none"
         /\ Ended.cur = s.cur /\ Ended.first = s.first
BY DEF Ended, Scanner, Keeps

(* Both, as most of code's steps do. *)
LEMMA FlushEnded ==
  ASSUME s \in Scanner
  PROVE  /\ Flush(Ended) \in Scanner /\ Keeps(s, Flush(Ended))
         /\ Flush(Ended).at = s.at /\ Flush(Ended).state = s.state /\ Flush(Ended).word = "none"
         /\ Flush(Ended).cur = "none" /\ Flush(Ended).first = (s.first /\ s.cur = "none")
<1>1. Ended \in Scanner /\ Keeps(s, Ended) /\ Ended.at = s.at /\ Ended.state = s.state
      /\ Ended.word = "none" /\ Ended.cur = s.cur /\ Ended.first = s.first
  BY EndedFields
<1> DEFINE e == Ended
<1> HIDE DEF e
<1>2. /\ Flush(e) \in Scanner /\ Keeps(e, Flush(e))
      /\ Flush(e).at = e.at /\ Flush(e).state = e.state /\ Flush(e).word = e.word
      /\ Flush(e).cur = "none" /\ Flush(e).first = (e.first /\ e.cur = "none")
  BY <1>1, FlushFields DEF e
<1> QED BY <1>1, <1>2 DEF e, Keeps
----------------------------------------------------------------------------
(* One step.                                                               *)

(* The invariant holds after a step if the parts do. *)
LEMMA InvAgain ==
  ASSUME LexInv, verdict = "reading", verdict' = verdict, eof' = eof,
         win' \in Seq(Bytes), Len(win') <= Len(win),
         s' \in Scanner, s'.dead => s'.cond, ScannerOK', NEW g, readers' = [k \in Readers |-> g[k]],
         \A k \in Readers : readers'[k] \in ReaderStates /\ Follows(k, readers[k])'
  PROVE  LexInv'
<1>1. readers' \in [Readers -> ReaderStates]
  OBVIOUS
<1>2. TypeOK'
  <2>1. Len(win') <= 3 \/ Len(win') <= MaxDelimiter
    <3>1. Len(win') \in Nat /\ Len(win) \in Nat
      BY DEF LexInv, TypeOK
    <3> QED BY <3>1, MaxDelimiterAssumption DEF LexInv, TypeOK
  <2> QED BY <1>1, <2>1 DEF LexInv, TypeOK
<1> QED BY <1>2 DEF LexInv

(* A refusal keeps it. *)
LEMMA RefuseKeeps ==
  ASSUME LexInv, Refuse
  PROVE  LexInv'
<1>1. win' \in Seq(Bytes) /\ Len(win') <= 3
  BY DEF Refuse
<1>2. verdict' = "refused" /\ eof' = eof /\ s' = s /\ readers' = readers
  BY DEF Refuse
<1> QED BY <1>1, <1>2 DEF LexInv, TypeOK

(* A byte that the scanner keeps as code. *)
LEMMA CodeKeeps ==
  ASSUME LexInv, verdict = "reading", NEW t \in Scanner, Consume(1, t), PassedAsCode,
         Keeps(s, t), t.at = "rest", t.state = "code",
         At(1) = "sp" => (s.first /\ s.cur = "none" => t.first /\ t.cur = "none"),
         At(1) \in WordBytes =>
           t.word = IF s.word = "none" /\ At(1) = "outfile" THEN "outfile" ELSE "other",
         At(1) \notin WordBytes => t.word = "none"
  PROVE  LexInv'
<1>1. TypeOK /\ s \in Scanner /\ (s.dead => s.cond) /\ ScannerOK
      /\ readers \in [Readers -> ReaderStates]
      /\ \A k \in Readers : Follows(k, readers[k])
  BY DEF LexInv, TypeOK
<1>2. /\ s' = t /\ eof' = eof /\ verdict' = verdict
      /\ win' \in Seq(Bytes) /\ Len(win') = Len(win) - 1 /\ At(1) \in Bytes
      /\ \A i \in Nat \ {0} : At(i)' = At(1 + i) /\ (Seen(i)' <=> Seen(1 + i))
      /\ Shift1
      /\ readers' = [k \in Readers |-> Read(k, readers[k], At(1))]
  BY <1>1, ConsumesOne DEF PassedAsCode, LooksAhead
<1>3. OneByte
  BY <1>2 DEF OneByte
<1>4. TakenAsCode
  BY <1>2 DEF TakenAsCode, StaysInCode, KeepsFirst, Keeps
<1>5. ASSUME NEW k \in Readers PROVE readers'[k] \in ReaderStates /\ Follows(k, readers[k])'
  <2> DEFINE r == readers[k]
             x == readers'[k]
  <2>1. r \in ReaderStates /\ x = Read(k, r, At(1)) /\ Follows(k, r) /\ s.at = "rest" /\ s.state = "code"
    BY <1>1, <1>2 DEF PassedAsCode
  <2>2. SameStatement(k, r) /\ SemisAreCode(r)
    BY <2>1 DEF Follows
  <2>3. x = readers'[k]
    OBVIOUS
  <2> HIDE DEF r, x
  <2>4. CASE ReadsCode(k, r)
    <3>1. ~WordRefused /\ s.cond \in BOOLEAN
      BY <1>1 DEF PassedAsCode, Scanner
    <3>2. CodeStep(k, r, At(1), x)
      BY <1>2, <2>1, <2>4, <3>1, CodeByte
    <3>3. x \in ReaderStates /\ Follows(k, readers[k])'
      BY <1>1, <1>3, <1>4, <2>1, <2>2, <2>3, <2>4, <3>2, PlainByte
    <3> QED BY <2>3, <3>3
  <2>5. CASE Skips(r)
    <3>1. At(1) = "star" => s'.at = "rest" /\ Known(1, {"slash"})'
      BY <1>2, <2>5 DEF Skips, PassedAsCode, LooksAhead, Plain, CommentEndsAt, Shift1, Known
    <3>2. s'.cond = s.cond /\ s'.delim = s.delim /\ s'.ends = s.ends /\ s'.at = "rest"
      BY <1>2 DEF Keeps
    <3>3. x \in ReaderStates /\ Follows(k, readers[k])'
      BY <1>1, <1>2, <2>1, <2>2, <2>3, <2>5, <3>1, <3>2, SkippedByte
    <3> QED BY <2>3, <3>3
  <2> QED BY <1>1, <2>1, <2>4, <2>5, InCodeReaders
<1>6. s'.dead => s'.cond
  BY <1>1, <1>2 DEF Keeps
<1>7. ScannerOK'
  BY <1>2 DEF ScannerOK
<1>8. Len(win') <= Len(win)
  BY <1>1, <1>2 DEF TypeOK
<1> DEFINE g == [k \in Readers |-> Read(k, readers[k], At(1))]
<1>9. readers' = [k \in Readers |-> g[k]]
  BY <1>2
<1> HIDE DEF g
<1> QED BY <1>2, <1>5, <1>6, <1>7, <1>8, <1>9, InvAgain

(* A word byte. *)
LEMMA WordKeeps ==
  ASSUME LexInv, verdict = "reading", Word
  PROVE  LexInv'
<1> DEFINE w == IF s.word = "none" /\ At(1) = "outfile" THEN "outfile" ELSE "other"
           p == IF s.cur = "quote" THEN Flush(s) ELSE s
           t == IF s.dead THEN [s EXCEPT !.word = w]
                ELSE [p EXCEPT !.word = w, !.cur = "word", !.started = TRUE]
<1>1. TypeOK /\ s \in Scanner
  BY DEF LexInv, TypeOK
<1>2. Consume(1, t)
  BY DEF Word
<1>3. PassedAsCode
  <2>1. LooksAhead
    BY <1>1, CodeLooksAhead DEF Word, InCode
  <2>2. At(1) \in Bytes /\ At(1) \in WordBytes
    BY DEF Word, Bytes
  <2> QED BY <2>1, <2>2 DEF Word, InCode, InLine, PassedAsCode, WordRefused, WordBytes
<1>4. p \in Scanner /\ Keeps(s, p) /\ p.at = s.at /\ p.state = s.state
  BY <1>1, FlushFields DEF Keeps
<1>5. w \in {"none", "outfile", "other"}
  OBVIOUS
<1>6. t \in Scanner /\ Keeps(s, t) /\ t.at = s.at /\ t.state = s.state /\ t.word = w
  <2>1. CASE s.dead
    <3> DEFINE u == [s EXCEPT !.word = w]
    <3>1. t = u
      BY <2>1
    <3> HIDE DEF t, w
    <3>2. u \in Scanner /\ Keeps(s, u) /\ u.at = s.at /\ u.state = s.state /\ u.word = w
      BY <1>1, <1>5 DEF Scanner, Keeps
    <3> QED BY <3>1, <3>2
  <2>2. CASE ~s.dead
    <3> DEFINE u(b) == [p EXCEPT !.word = w, !.cur = "word", !.started = b]
    <3>1. t = u(TRUE)
      BY <2>2
    <3> HIDE DEF t, w, p
    <3>2. \A b \in BOOLEAN : u(b) \in Scanner /\ Keeps(p, u(b)) /\ u(b).at = p.at /\ u(b).state = p.state /\ u(b).word = w
      BY <1>4, <1>5 DEF Scanner, Keeps
    <3> HIDE DEF u
    <3> QED BY <1>4, <3>1, <3>2 DEF Keeps
  <2> QED BY <2>1, <2>2
<1>7. s.at = "rest" /\ s.state = "code" /\ At(1) \in WordBytes /\ At(1) # "sp"
  BY DEF Word, InCode, InLine, WordBytes
<1>8. At(1) \in WordBytes => t.word = IF s.word = "none" /\ At(1) = "outfile" THEN "outfile" ELSE "other"
  BY <1>6
<1> HIDE DEF t
<1> QED BY <1>2, <1>3, <1>6, <1>7, <1>8, CodeKeeps

(* A space. *)
LEMMA CodeSpaceKeeps ==
  ASSUME LexInv, verdict = "reading", CodeSpace
  PROVE  LexInv'
<1> DEFINE t == IF s.dead THEN Ended ELSE Flush(Ended)
<1>1. TypeOK /\ s \in Scanner
  BY DEF LexInv, TypeOK
<1>2. Consume(1, t)
  BY DEF CodeSpace
<1>3. PassedAsCode
  <2>1. LooksAhead
    BY <1>1, CodeLooksAhead DEF CodeSpace, InCode
  <2> QED BY <2>1 DEF CodeSpace, InCode, InLine, PassedAsCode, RefusedInCode, Bytes, Space
<1>4. t \in Scanner /\ Keeps(s, t) /\ t.at = s.at /\ t.state = s.state /\ t.word = "none"
      /\ (s.first /\ s.cur = "none" => t.first /\ t.cur = "none")
  BY <1>1, FlushEnded, EndedFields
<1>5. s.at = "rest" /\ s.state = "code" /\ At(1) \notin WordBytes
  BY DEF CodeSpace, InCode, InLine, WordBytes
<1> HIDE DEF t
<1> QED BY <1>2, <1>3, <1>4, <1>5, CodeKeeps

(* Punctuation. *)
LEMMA PunctuationKeeps ==
  ASSUME LexInv, verdict = "reading", Punctuation
  PROVE  LexInv'
<1> DEFINE f == Flush(Ended)
           t == IF s.dead THEN Ended ELSE [f EXCEPT !.first = FALSE, !.started = TRUE]
<1>1. TypeOK /\ s \in Scanner
  BY DEF LexInv, TypeOK
<1>2. CASE ~s.dead /\ ~StartsWithWord(s)
  BY <1>2, RefuseKeeps DEF Punctuation
<1>3. CASE s.dead \/ StartsWithWord(s)
  <2>1. Consume(1, t)
    BY <1>3 DEF Punctuation
  <2>2. PassedAsCode
    <3>1. LooksAhead
      BY <1>1, CodeLooksAhead DEF Punctuation, InCode
    <3>2. At(1) \in Bytes
      BY <1>1, <2>1, <3>1, ConsumesOne DEF LooksAhead
    <3> QED BY <1>3, <3>1, <3>2 DEF Punctuation, InCode, InLine, PassedAsCode, RefusedInCode
  <2>3. f \in Scanner /\ Keeps(s, f) /\ f.at = s.at /\ f.state = s.state /\ f.word = "none"
    BY <1>1, FlushEnded
  <2>4. Ended \in Scanner /\ Keeps(s, Ended) /\ Ended.at = s.at /\ Ended.state = s.state /\ Ended.word = "none"
    BY <1>1, EndedFields
  <2>5. t \in Scanner /\ Keeps(s, t) /\ t.at = s.at /\ t.state = s.state /\ t.word = "none"
    <3> DEFINE u(a, b) == [f EXCEPT !.first = a, !.started = b]
    <3>1. t = IF s.dead THEN Ended ELSE u(FALSE, TRUE)
      OBVIOUS
    <3> HIDE DEF t, f
    <3>2. \A a, b \in BOOLEAN : u(a, b) \in Scanner /\ Keeps(f, u(a, b)) /\ u(a, b).at = f.at
             /\ u(a, b).state = f.state /\ u(a, b).word = f.word
      BY <2>3 DEF Scanner, Keeps
    <3> HIDE DEF u
    <3> QED BY <2>3, <2>4, <3>1, <3>2 DEF Keeps
  <2>6. s.at = "rest" /\ s.state = "code" /\ At(1) \notin WordBytes /\ At(1) # "sp"
    BY DEF Punctuation, InCode, InLine
  <2> HIDE DEF t
  <2> QED BY <2>1, <2>2, <2>5, <2>6, CodeKeeps
<1> QED BY <1>2, <1>3

(* One byte is consumed, and every reader follows. *)
LEMMA StepOne ==
  ASSUME LexInv, verdict = "reading", NEW t \in Scanner, 1 <= Len(win), Consume(1, t),
         t.dead => t.cond, ScannerOK',
         \A k \in Readers : readers'[k] \in ReaderStates /\ Follows(k, readers[k])'
  PROVE  LexInv'
<1>1. TypeOK
  BY DEF LexInv
<1> DEFINE g == [k \in Readers |-> Read(k, readers[k], At(1))]
<1>2. s' = t /\ eof' = eof /\ verdict' = verdict /\ win' \in Seq(Bytes) /\ Len(win') = Len(win) - 1
      /\ readers' = [k \in Readers |-> g[k]]
  BY <1>1, ConsumesOne
<1>3. Len(win') <= Len(win)
  BY <1>1, <1>2 DEF TypeOK
<1> HIDE DEF g
<1> QED BY <1>2, <1>3, InvAgain

(* Two bytes are. *)
LEMMA StepTwo ==
  ASSUME LexInv, verdict = "reading", NEW t \in Scanner, 2 <= Len(win), Consume(2, t),
         t.dead => t.cond, ScannerOK',
         \A k \in Readers : readers'[k] \in ReaderStates /\ Follows(k, readers[k])'
  PROVE  LexInv'
<1>1. TypeOK
  BY DEF LexInv
<1> DEFINE g == [k \in Readers |-> Read(k, Read(k, readers[k], At(1)), At(2))]
<1>2. s' = t /\ eof' = eof /\ verdict' = verdict /\ win' \in Seq(Bytes) /\ Len(win') = Len(win) - 2
      /\ readers' = [k \in Readers |-> g[k]]
  BY <1>1, ConsumesTwo
<1>3. Len(win') <= Len(win)
  BY <1>1, <1>2 DEF TypeOK
<1> HIDE DEF g
<1> QED BY <1>2, <1>3, InvAgain

(* No byte is. *)
LEMMA StepNone ==
  ASSUME LexInv, verdict = "reading", NEW t \in Scanner, Consume(0, t),
         t.dead => t.cond, ScannerOK',
         \A k \in Readers : Follows(k, readers[k])'
  PROVE  LexInv'
<1>1. TypeOK /\ win \in Seq(Bytes) /\ Len(win) <= Len(win) /\ readers \in [Readers -> ReaderStates]
  BY DEF LexInv, TypeOK
<1>2. s' = t /\ eof' = eof /\ verdict' = verdict /\ win' = win /\ readers' = readers
  BY <1>1, ConsumesNothing
<1>3. readers' = [k \in Readers |-> readers[k]] /\ \A k \in Readers : readers'[k] \in ReaderStates
  BY <1>1, <1>2
<1> QED BY <1>1, <1>2, <1>3, InvAgain

(* What the invariant says before a step that takes a byte. *)
LEMMA Before ==
  ASSUME LexInv, verdict = "reading"
  PROVE  /\ TypeOK /\ s \in Scanner /\ (s.dead => s.cond) /\ ScannerOK /\ s.cond \in BOOLEAN
         /\ Len(win) \in Nat /\ win \in Seq(Bytes)
         /\ \A k \in Readers : readers[k] \in ReaderStates
         /\ \A k \in Readers : SameStatement(k, readers[k]) /\ SemisAreCode(readers[k]) /\ Place(k, readers[k])
BY DEF LexInv, TypeOK, Scanner, Follows
----------------------------------------------------------------------------
(* Lines and quotes.                                                       *)

(* The end of a line of code. *)
LEMMA EndCodeLine ==
  ASSUME LexInv, verdict = "reading", InLine, At(1) = "nl", s.state = "code", s.word # "outfile",
         Consume(1, [Flush(s) EXCEPT !.at = "bol", !.word = "none"])
  PROVE  LexInv'
<1> DEFINE f == Flush(s)
           t == [f EXCEPT !.at = "bol", !.word = "none"]
<1>1. /\ TypeOK /\ s \in Scanner /\ (s.dead => s.cond) /\ ScannerOK /\ s.cond \in BOOLEAN
      /\ Len(win) \in Nat /\ win \in Seq(Bytes)
      /\ \A k \in Readers : readers[k] \in ReaderStates
      /\ \A k \in Readers : SameStatement(k, readers[k]) /\ SemisAreCode(readers[k]) /\ Place(k, readers[k])
  BY Before
<1>2. f \in Scanner /\ Keeps(s, f) /\ f.state = s.state /\ f.cur = "none" /\ f.first = (s.first /\ s.cur = "none")
  BY <1>1, FlushFields
<1> HIDE DEF f
<1>3. t \in Scanner /\ Keeps(f, t) /\ t.at = "bol" /\ t.word = "none" /\ t.state = f.state /\ t.cur = f.cur /\ t.first = f.first
  BY <1>2 DEF Scanner, Keeps
<1>4. Consume(1, t) /\ 1 <= Len(win)
  BY <1>1 DEF f, InLine
<1> HIDE DEF t
<1>5. Keeps(s, t) /\ t.state = "code" /\ (s.first /\ s.cur = "none" => t.first /\ t.cur = "none")
  BY <1>2, <1>3 DEF Keeps
<1>6. s' = t /\ Shift1 /\ readers' = [k \in Readers |-> Read(k, readers[k], At(1))] /\ At(1) \in Bytes
  BY <1>1, <1>4, ConsumesOne
<1>7. ASSUME NEW k \in Readers PROVE readers'[k] \in ReaderStates /\ Follows(k, readers[k])'
  <2> DEFINE r == readers[k]
             x == readers'[k]
  <2>1. r \in ReaderStates /\ x = Read(k, r, At(1)) /\ SameStatement(k, r) /\ SemisAreCode(r) /\ Follows(k, r)
    BY <1>1, <1>6 DEF Follows
  <2>2. x = readers'[k]
    OBVIOUS
  <2> HIDE DEF r, x
  <2>3. s'.cond = s.cond /\ s'.delim = s.delim /\ s'.ends = s.ends /\ s'.dead = s.dead /\ s'.at = "bol"
    BY <1>3, <1>5, <1>6 DEF Keeps
  <2>4. CASE Skips(r)
    <3>1. x \in ReaderStates /\ Follows(k, readers[k])'
      BY <1>1, <1>6, <2>1, <2>2, <2>3, <2>4, SkippedByte
    <3> QED BY <2>2, <3>1
  <2>5. CASE ReadsCode(k, r)
    <3>1. ~WordRefused
      BY DEF WordRefused
    <3>2. CodeStep(k, r, At(1), x)
      BY <1>1, <1>6, <2>1, <2>5, <3>1, CodeByte
    <3>3. CASE r.pend = "version" /\ Goes(r, x, "ml", FALSE, AfterStar(At(1)))
      <4>1. x \in ReaderStates /\ Follows(k, readers[k])'
        BY <2>1, <2>2, <2>3, <2>5, <3>3, BecomesSkipped
      <4> QED BY <2>2, <4>1
    <3>4. CASE Begins(k, r, s.cond, At(1), x)
      <4>1. x \in ReaderStates /\ x.in = "code" /\ x.cond = s.cond /\ x.bol /\ x.pend = "none" /\ x.semis = 0
            /\ x.ends = r.ends /\ x.delim = r.delim /\ (x.new => r.new)
        BY <3>4 DEF Begins, Ends, Quotes, Space
      <4>2. ReadsLineStart(readers[k])'
        BY <2>2, <2>3, <4>1 DEF ReadsLineStart
      <4>3. SameStatement(k, readers[k])' /\ SemisAreCode(readers[k])'
        BY <1>5, <1>6, <2>1, <2>2, <2>3, <2>5, <4>1 DEF SameStatement, SemisAreCode, ReadsCode
      <4> QED BY <2>2, <4>1, <4>2, <4>3 DEF Follows, Place
    <3> QED BY <3>2, <3>3, <3>4 DEF CodeStep, WordBytes
  <2> QED BY <1>1, <2>1, <2>4, <2>5, InCodeReaders DEF InLine
<1>8. ScannerOK'
  BY <1>3, <1>5, <1>6 DEF ScannerOK
<1>9. t.dead => t.cond
  BY <1>1, <1>5 DEF Keeps
<1> QED BY <1>3, <1>4, <1>7, <1>8, <1>9, StepOne

(* next: what a quote or a comment looks at before it takes its first byte. *)
LEMMA QuoteLooksAhead ==
  ASSUME TypeOK, InLine, s.state \in Quotes \cup {"comment"}
  PROVE  /\ 1 <= Len(win)
         /\ At(1) = "star" => Seen(2)
         /\ s.state \in Quotes /\ At(1) \in {"bs", s.state} => Seen(2)
         /\ s.state \in Quotes /\ At(1) = "bs" /\ At(2) = "star" => Seen(3)
<1>1. win \in Seq(Bytes) /\ Len(win) \in Nat /\ Len(win) # 0
  BY DEF TypeOK, InLine
<1>2. Len(win) >= Need \/ eof
  BY DEF InLine, Ready
<1>3. s.at = "rest"
  BY DEF InLine
<1>4. At(1) = "star" => Need = 2
  BY <1>3 DEF Need, Quotes
<1>5. s.state \in Quotes /\ At(1) = s.state => Need = 2
  BY <1>3 DEF Need, Quotes
<1>6. s.state \in Quotes /\ At(1) = "bs" => Need = IF At(2) = "star" THEN 3 ELSE 2
  BY <1>3 DEF Need, Quotes
<1>7. \A i \in Nat : Seen(i) <=> (i <= Len(win) \/ eof)
  BY DEF Seen
<1>8. At(1) = "star" => Seen(2)
  BY <1>1, <1>2, <1>4, <1>7
<1>9. s.state \in Quotes /\ At(1) \in {"bs", s.state} => Seen(2)
  BY <1>1, <1>2, <1>5, <1>6, <1>7
<1>10. s.state \in Quotes /\ At(1) = "bs" /\ At(2) = "star" => Seen(3)
  BY <1>1, <1>2, <1>6, <1>7
<1> QED BY <1>1, <1>8, <1>9, <1>10

(* Who is in a quote with the scanner, and who in a comment. *)
LEMMA QuoteReaders ==
  ASSUME NEW k, NEW r, Place(k, r), ScannerOK, s.at = "rest"
  PROVE  /\ s.state \in Quotes => ReadsQuote(r) \/ Skips(r)
         /\ s.state = "comment" => ReadsComment(r)
BY DEF Place, ReadsLineStart, ReadsCode, ReadsQuote, ReadsComment, ReadsOpening, ReadsVersion,
   DropsLine, ReadsUse, ReadsArgument, Quotes, ScannerOK, Skips

(* A byte of a comment. *)
LEMMA CommentByte ==
  ASSUME LexInv, verdict = "reading", InLine, s.state = "comment",
         ~(At(1) = "star" /\ At(2) = "slash"), Consume(1, s)
  PROVE  LexInv'
<1>1. /\ TypeOK /\ s \in Scanner /\ (s.dead => s.cond) /\ ScannerOK /\ s.cond \in BOOLEAN
      /\ Len(win) \in Nat /\ win \in Seq(Bytes)
      /\ \A k \in Readers : readers[k] \in ReaderStates
      /\ \A k \in Readers : SameStatement(k, readers[k]) /\ SemisAreCode(readers[k]) /\ Place(k, readers[k])
  BY Before
<1>2. 1 <= Len(win) /\ (At(1) = "star" => Seen(2)) /\ s.at = "rest"
  BY <1>1, QuoteLooksAhead DEF InLine
<1>3. s' = s /\ Shift1 /\ readers' = [k \in Readers |-> Read(k, readers[k], At(1))] /\ At(1) \in Bytes
  BY <1>1, <1>2, ConsumesOne
<1>4. At(1) = "star" => Known(1, {"slash"})'
  BY <1>2, <1>3 DEF Shift1, Known
<1>5. ASSUME NEW k \in Readers PROVE readers'[k] \in ReaderStates /\ Follows(k, readers[k])'
  <2> DEFINE r == readers[k]
             x == readers'[k]
  <2>1. r \in ReaderStates /\ x = Read(k, r, At(1)) /\ SameStatement(k, r) /\ SemisAreCode(r) /\ ReadsComment(r)
    BY <1>1, <1>2, <1>3, QuoteReaders
  <2>2. x = readers'[k]
    OBVIOUS
  <2> HIDE DEF r, x
  <2>3. ~r.new /\ ~r.bol /\ r.semis = 0 /\ r.cond = FALSE
    BY <2>1 DEF ReadsComment, SameStatement, SemisAreCode, ReaderStates, StarIsText
  <2>4. CASE r.in = "code" /\ r.pend = "opened" /\ At(1) = "M" /\ KnowsM(k)
    <3>1. Goes(r, x, "code", r.cond, "openedM")
      BY <1>3, <2>1, <2>4, ReadOpened
    <3>2. Known(1, {"bang"})'
      BY <1>3, <2>1, <2>4 DEF ReadsComment, Known, Shift1
    <3>3. ReadsComment(readers[k])'
      BY <1>2, <1>3, <2>2, <2>3, <3>1, <3>2 DEF ReadsComment, Goes
    <3>4. SameStatement(k, readers[k])' /\ SemisAreCode(readers[k])'
      BY <1>3, <2>1, <2>2, <2>3, <2>4, <3>1 DEF SameStatement, SemisAreCode, Goes
    <3> QED BY <2>2, <3>1, <3>3, <3>4 DEF Goes, Follows, Place
  <2>5. CASE ~(r.in = "code" /\ r.pend = "opened" /\ At(1) = "M" /\ KnowsM(k))
    <3>1. Goes(r, x, "ml", r.cond, AfterStar(At(1)))
      <4>1. CASE r.in = "ml"
        <5>1. r.pend # "star" \/ At(1) # "slash"
          BY <2>1, <4>1 DEF ReadsComment, StarIsText, Known
        <5> QED BY <1>3, <2>1, <4>1, <5>1, ReadInComment
      <4>2. CASE r.in = "code" /\ r.pend = "opened"
        <5>1. At(1) \notin {"bang", "plus"} /\ (At(1) = "M" => AfterStar(At(1)) = "none")
          BY <2>1, <4>2 DEF ReadsComment, Known, AfterStar
        <5> QED BY <1>3, <2>1, <2>5, <4>2, <5>1, ReadOpened
      <4>3. CASE r.in = "code" /\ r.pend = "openedM"
        <5>1. At(1) # "bang"
          BY <2>1, <4>3 DEF ReadsComment, Known
        <5> QED BY <1>3, <2>1, <4>3, <5>1, ReadOpened
      <4> QED BY <2>1, <4>1, <4>2, <4>3 DEF ReadsComment
    <3>2. ReadsComment(readers[k])'
      BY <1>2, <1>3, <1>4, <2>2, <2>3, <3>1 DEF ReadsComment, Goes, StarIsText, AfterStar
    <3>3. SameStatement(k, readers[k])' /\ SemisAreCode(readers[k])'
      BY <1>3, <2>1, <2>2, <2>3, <3>1 DEF SameStatement, SemisAreCode, Goes, ReadsComment
    <3> QED BY <2>2, <3>1, <3>2, <3>3 DEF Goes, Follows, Place
  <2> QED BY <2>4, <2>5
<1>6. ScannerOK'
  BY <1>1, <1>3 DEF ScannerOK
<1> QED BY <1>1, <1>2, <1>5, <1>6, StepOne

(* The end of a comment. *)
LEMMA CommentEnds ==
  ASSUME LexInv, verdict = "reading", InLine, s.state = "comment",
         At(1) = "star", At(2) = "slash", Consume(2, [s EXCEPT !.state = "code"])
  PROVE  LexInv'
<1> DEFINE t == [s EXCEPT !.state = "code"]
<1>1. /\ TypeOK /\ s \in Scanner /\ (s.dead => s.cond) /\ ScannerOK /\ s.cond \in BOOLEAN
      /\ Len(win) \in Nat /\ win \in Seq(Bytes)
      /\ \A k \in Readers : readers[k] \in ReaderStates
      /\ \A k \in Readers : SameStatement(k, readers[k]) /\ SemisAreCode(readers[k]) /\ Place(k, readers[k])
  BY Before
<1>2. 2 <= Len(win) /\ s.at = "rest"
  BY <1>1 DEF At, InLine
<1>4. Consume(2, t) /\ t = [s EXCEPT !.state = "code"]
  OBVIOUS
<1> HIDE DEF t
<1>3. t \in Scanner /\ Keeps(s, t) /\ t.at = "rest" /\ t.state = "code" /\ t.word = s.word
      /\ t.cur = s.cur /\ t.first = s.first
  <2>1. "code" \in {"code", "comment"} \cup Quotes
    OBVIOUS
  <2>2. t \in Scanner /\ Keeps(s, t) /\ t.at = s.at /\ t.state = "code" /\ t.word = s.word
        /\ t.cur = s.cur /\ t.first = s.first
    BY <1>1, <1>4, <2>1 DEF Scanner, Keeps
  <2> QED BY <1>2, <2>2
<1>5. s' = t /\ readers' = [k \in Readers |-> Read(k, Read(k, readers[k], At(1)), At(2))]
      /\ At(1) \in Bytes /\ At(2) \in Bytes
  BY <1>1, <1>2, <1>4, ConsumesTwo
<1>6. s.word = "none" /\ ~s.cond
  BY <1>1 DEF ScannerOK
<1>7. ASSUME NEW k \in Readers PROVE readers'[k] \in ReaderStates /\ Follows(k, readers[k])'
  <2> DEFINE r == readers[k]
             y == Read(k, r, At(1))
             x == readers'[k]
  <2>1. r \in ReaderStates /\ x = Read(k, y, At(2)) /\ SameStatement(k, r) /\ SemisAreCode(r) /\ ReadsComment(r)
    BY <1>1, <1>2, <1>5, QuoteReaders
  <2>2. x = readers'[k] /\ y = Read(k, r, At(1))
    OBVIOUS
  <2> HIDE DEF r, x, y
  <2>3. Goes(r, y, "ml", r.cond, "star")
    <3>1. AfterStar(At(1)) = "star"
      BY DEF AfterStar
    <3>2. r.in = "ml" => Goes(r, y, "ml", r.cond, AfterStar(At(1)))
      BY <1>5, <2>1, <2>2, ReadInComment
    <3>3. r.in = "code" /\ r.pend \in {"opened", "openedM"} => Goes(r, y, "ml", r.cond, AfterStar(At(1)))
      BY <1>5, <2>1, <2>2, ReadOpened
    <3> QED BY <2>1, <3>1, <3>2, <3>3 DEF ReadsComment
  <2>4. Goes(y, x, "code", y.cond, "none")
    BY <1>5, <2>1, <2>3, ReadInComment DEF Goes
  <2>5. ~r.new /\ ~r.bol /\ r.semis = 0 /\ r.cond = FALSE /\ r.in # "argument"
    BY <2>1 DEF ReadsComment, SameStatement, SemisAreCode, ReaderStates, StarIsText
  <2>6. Goes(r, x, "code", FALSE, "none")
    BY <2>3, <2>4, <2>5 DEF Goes
  <2>7. s'.cond = FALSE /\ s'.word = "none" /\ s'.at = "rest" /\ s'.state = "code"
        /\ s'.delim = s.delim /\ s'.ends = s.ends /\ s'.dead = s.dead
    BY <1>1, <1>3, <1>5, <1>6 DEF Keeps
  <2>8. ReadsCode(k, readers[k])'
    BY <2>2, <2>5, <2>6, <2>7 DEF ReadsCode, PendingIsCode, Goes
  <2>9. SameStatement(k, readers[k])' /\ SemisAreCode(readers[k])'
    BY <1>1, <1>6, <2>1, <2>2, <2>5, <2>6, <2>7 DEF SameStatement, SemisAreCode, Goes
  <2> QED BY <2>2, <2>6, <2>8, <2>9 DEF Goes, Follows, Place
<1>8. ScannerOK'
  BY <1>1, <1>3, <1>5, <1>6 DEF ScannerOK, Keeps
<1>9. t.dead => t.cond
  BY <1>1, <1>3 DEF Keeps
<1> QED BY <1>2, <1>3, <1>4, <1>7, <1>8, <1>9, StepTwo

(* The step of a comment. *)
LEMMA InCommentKeeps ==
  ASSUME LexInv, verdict = "reading", InComment
  PROVE  LexInv'
BY CommentByte, CommentEnds DEF InComment

(* A reader in a quote or a comment has read part of its statement. *)
LEMMA InStatement ==
  ASSUME NEW k, NEW r \in ReaderStates, SameStatement(k, r), SemisAreCode(r),
         r.in \notin {"code", "lc"} \/ r.pend # "none"
  PROVE  ~r.new /\ ~r.bol /\ r.semis = 0
BY DEF SameStatement, SemisAreCode, ReaderStates

(* A reader that has skipped two bytes of a version comment. *)
LEMMA SkippedTwo ==
  ASSUME NEW k \in Readers, NEW r \in ReaderStates, NEW x, x = readers'[k],
         x = Read(k, Read(k, r, At(1)), At(2)),
         s \in Scanner, SameStatement(k, r), SemisAreCode(r), Skips(r),
         At(1) \in Bytes \ {"star"}, At(2) \in Bytes,
         s'.cond = s.cond, s'.delim = s.delim, s'.ends = s.ends, s'.at = "rest",
         At(2) = "star" => Known(1, {"slash"})'
  PROVE  x \in ReaderStates /\ Follows(k, readers[k])'
<1> DEFINE y == Read(k, r, At(1))
<1>1. r.in = "ml" /\ s.cond /\ r.cond = FALSE /\ ~r.new /\ ~r.bol /\ r.semis = 0
  BY DEF Skips, SameStatement, SemisAreCode, ReaderStates
<1>2. r.pend # "star" \/ At(1) # "slash"
  BY DEF Skips, StarIsText, Known
<1>3. Goes(r, y, "ml", r.cond, "none")
  <2>1. AfterStar(At(1)) = "none"
    BY DEF AfterStar
  <2> QED BY <1>1, <1>2, <2>1, ReadInComment
<1>4. x = Read(k, y, At(2))
  OBVIOUS
<1> HIDE DEF y
<1>5. Goes(y, x, "ml", y.cond, AfterStar(At(2)))
  BY <1>3, <1>4, ReadInComment DEF Goes
<1>6. Goes(r, x, "ml", FALSE, AfterStar(At(2)))
  BY <1>1, <1>3, <1>5 DEF Goes
<1>7. Skips(readers[k])'
  BY <1>1, <1>6 DEF Skips, Goes, StarIsText, AfterStar
<1>8. SameStatement(k, readers[k])' /\ SemisAreCode(readers[k])'
  BY <1>1, <1>6 DEF SameStatement, SemisAreCode, Goes
<1> QED BY <1>6, <1>7, <1>8 DEF Follows, Place, Goes

(* A byte that means nothing in a quote. *)
LEMMA QuoteByte ==
  ASSUME LexInv, verdict = "reading", InLine, s.state \in Quotes,
         At(1) \notin {"bs", s.state}, ~CommentEndsAt(1), Consume(1, s)
  PROVE  LexInv'
<1>1. /\ TypeOK /\ s \in Scanner /\ (s.dead => s.cond) /\ ScannerOK /\ s.cond \in BOOLEAN
      /\ Len(win) \in Nat /\ win \in Seq(Bytes)
      /\ \A k \in Readers : readers[k] \in ReaderStates
      /\ \A k \in Readers : SameStatement(k, readers[k]) /\ SemisAreCode(readers[k]) /\ Place(k, readers[k])
  BY Before
<1>2. 1 <= Len(win) /\ (At(1) = "star" => Seen(2)) /\ s.at = "rest" /\ win # <<>>
  BY <1>1, QuoteLooksAhead DEF InLine
<1>3. s' = s /\ Shift1 /\ readers' = [k \in Readers |-> Read(k, readers[k], At(1))] /\ At(1) \in Bytes
  BY <1>1, <1>2, ConsumesOne
<1>4. ASSUME NEW k \in Readers PROVE readers'[k] \in ReaderStates /\ Follows(k, readers[k])'
  <2> DEFINE r == readers[k]
             x == readers'[k]
  <2>1. r \in ReaderStates /\ x = Read(k, r, At(1)) /\ SameStatement(k, r) /\ SemisAreCode(r)
        /\ (ReadsQuote(r) \/ Skips(r))
    BY <1>1, <1>2, <1>3, QuoteReaders
  <2>2. x = readers'[k]
    OBVIOUS
  <2> HIDE DEF r, x
  <2>3. CASE Skips(r)
    <3>1. At(1) = "star" => Known(1, {"slash"})'
      BY <1>2, <1>3, <2>3 DEF Shift1, Known, CommentEndsAt, Skips
    <3>2. x \in ReaderStates /\ Follows(k, readers[k])'
      BY <1>1, <1>2, <1>3, <2>1, <2>2, <2>3, <3>1, SkippedByte
    <3> QED BY <2>2, <3>2
  <2>4. CASE ReadsQuote(r)
    <3>1. r.in = s.state /\ r.pend = "none" /\ r.cond = s.cond
      BY <1>2, <2>4 DEF ReadsQuote
    <3>2. Goes(r, x, r.in, r.cond, "none")
      BY <1>3, <2>1, <3>1, ReadInQuote
    <3>3. ReadsQuote(readers[k])'
      BY <1>2, <1>3, <2>2, <3>1, <3>2 DEF ReadsQuote, Goes
    <3>4. r.in \notin {"code", "lc"}
      BY <3>1 DEF Quotes
    <3>5. ~r.new /\ ~r.bol /\ r.semis = 0
      BY <2>1, <3>4, InStatement
    <3>6. SameStatement(k, readers[k])' /\ SemisAreCode(readers[k])'
      BY <1>3, <2>1, <2>2, <3>2, <3>5 DEF SameStatement, SemisAreCode, Goes
    <3> QED BY <2>2, <3>2, <3>3, <3>6 DEF Goes, Follows, Place
  <2> QED BY <2>1, <2>3, <2>4
<1>5. ScannerOK'
  BY <1>1, <1>3 DEF ScannerOK
<1> QED BY <1>1, <1>2, <1>4, <1>5, StepOne

(* A backslash that ends the dump. *)
LEMMA LastEscape ==
  ASSUME LexInv, verdict = "reading", InLine, s.state \in {"sq", "dq"},
         At(1) = "bs", Len(win) = 1, Consume(1, s)
  PROVE  LexInv'
<1>1. /\ TypeOK /\ s \in Scanner /\ (s.dead => s.cond) /\ ScannerOK /\ s.cond \in BOOLEAN
      /\ Len(win) \in Nat /\ win \in Seq(Bytes)
      /\ \A k \in Readers : readers[k] \in ReaderStates
      /\ \A k \in Readers : SameStatement(k, readers[k]) /\ SemisAreCode(readers[k]) /\ Place(k, readers[k])
  BY Before
<1>2. s.at = "rest" /\ win # <<>> /\ s.state \in Quotes /\ s.state # "bq"
  BY DEF InLine, Quotes
<1>3. eof
  <2>1. Seen(2)
    BY <1>1, <1>2, QuoteLooksAhead
  <2> QED BY <2>1 DEF Seen
<1>4. s' = s /\ eof' = eof /\ readers' = [k \in Readers |-> Read(k, readers[k], At(1))] /\ At(1) \in Bytes
      /\ win' \in Seq(Bytes) /\ Len(win') = Len(win) - 1
  BY <1>1, ConsumesOne
<1>5. win' = <<>>
  BY <1>4
<1>6. ASSUME NEW k \in Readers PROVE readers'[k] \in ReaderStates /\ Follows(k, readers[k])'
  <2> DEFINE r == readers[k]
             x == readers'[k]
  <2>1. r \in ReaderStates /\ x = Read(k, r, At(1)) /\ SameStatement(k, r) /\ SemisAreCode(r)
        /\ (ReadsQuote(r) \/ Skips(r))
    BY <1>1, <1>2, <1>4, QuoteReaders
  <2>2. x = readers'[k]
    OBVIOUS
  <2> HIDE DEF r, x
  <2>3. CASE Skips(r)
    <3>1. x \in ReaderStates /\ Follows(k, readers[k])'
      BY <1>1, <1>2, <1>4, <2>1, <2>2, <2>3, SkippedByte
    <3> QED BY <2>2, <3>1
  <2>4. CASE ReadsQuote(r)
    <3>1. r.in = s.state /\ r.pend = "none" /\ r.cond = s.cond
      BY <1>2, <2>4 DEF ReadsQuote
    <3>2. Goes(r, x, r.in, r.cond, "bs")
      BY <1>2, <1>4, <2>1, <3>1, ReadInQuote
    <3>3. ReadsQuote(readers[k])'
      BY <1>2, <1>3, <1>4, <1>5, <2>2, <3>1, <3>2 DEF ReadsQuote, Goes
    <3>4. r.in \notin {"code", "lc"}
      BY <3>1
    <3>5. ~r.new /\ ~r.bol /\ r.semis = 0
      BY <2>1, <3>4, InStatement
    <3>6. SameStatement(k, readers[k])' /\ SemisAreCode(readers[k])'
      BY <1>4, <2>1, <2>2, <3>1, <3>2, <3>5 DEF SameStatement, SemisAreCode, Goes
    <3> QED BY <2>2, <3>2, <3>3, <3>6 DEF Goes, Follows, Place
  <2> QED BY <2>1, <2>3, <2>4
<1>7. ScannerOK'
  BY <1>1, <1>4 DEF ScannerOK
<1>8. 1 <= Len(win)
  OBVIOUS
<1> QED BY <1>1, <1>6, <1>7, <1>8, StepOne

(* An escape in a quote, or the quote twice: every reader is where it was. *)
LEMMA TwoInQuote ==
  ASSUME LexInv, verdict = "reading", InLine, s.state \in {"sq", "dq"}, 2 <= Len(win),
         (At(1) = "bs" /\ ~CommentEndsAt(2)) \/ (At(1) = s.state /\ At(2) = s.state),
         Consume(2, s)
  PROVE  LexInv'
<1>1. /\ TypeOK /\ s \in Scanner /\ (s.dead => s.cond) /\ ScannerOK /\ s.cond \in BOOLEAN
      /\ Len(win) \in Nat /\ win \in Seq(Bytes)
      /\ \A k \in Readers : readers[k] \in ReaderStates
      /\ \A k \in Readers : SameStatement(k, readers[k]) /\ SemisAreCode(readers[k]) /\ Place(k, readers[k])
  BY Before
<1>2. s.at = "rest" /\ win # <<>> /\ s.state \in Quotes /\ s.state # "bq" /\ At(1) # "star"
  BY DEF InLine, Quotes
<1>3. At(2) = "star" => At(1) = "bs" /\ Seen(3)
  BY <1>1, <1>2, QuoteLooksAhead
<1>4. s' = s /\ eof' = eof /\ readers' = [k \in Readers |-> Read(k, Read(k, readers[k], At(1)), At(2))]
      /\ At(1) \in Bytes /\ At(2) \in Bytes /\ Shift2
  BY <1>1, ConsumesTwo
<1>5. ASSUME NEW k \in Readers PROVE readers'[k] \in ReaderStates /\ Follows(k, readers[k])'
  <2> DEFINE r == readers[k]
             y == Read(k, r, At(1))
             x == readers'[k]
  <2>1. r \in ReaderStates /\ x = Read(k, y, At(2)) /\ SameStatement(k, r) /\ SemisAreCode(r)
        /\ (ReadsQuote(r) \/ Skips(r))
    BY <1>1, <1>2, <1>4, QuoteReaders
  <2>2. x = readers'[k] /\ y = Read(k, r, At(1))
    OBVIOUS
  <2> HIDE DEF r, x, y
  <2>3. CASE Skips(r)
    <3>1. At(2) = "star" => Known(1, {"slash"})'
      BY <1>3, <1>4, <2>3 DEF Shift2, Known, CommentEndsAt, Skips
    <3>2. x = Read(k, Read(k, r, At(1)), At(2)) /\ s'.at = "rest" /\ At(1) \in Bytes \ {"star"}
      BY <1>2, <1>4, <2>1, <2>2
    <3>3. x \in ReaderStates /\ Follows(k, readers[k])'
      BY <1>1, <1>4, <2>1, <2>2, <2>3, <3>1, <3>2, SkippedTwo
    <3> QED BY <2>2, <3>3
  <2>4. CASE ReadsQuote(r)
    <3>1. r.in = s.state /\ r.pend = "none" /\ r.cond = s.cond
      BY <1>2, <2>4 DEF ReadsQuote
    <3>2. ~r.new /\ ~r.bol /\ r.semis = 0
      <4>1. r.in \notin {"code", "lc"}
        BY <3>1
      <4> QED BY <2>1, <4>1, InStatement
    <3>3. /\ x \in ReaderStates /\ x.in = s.state /\ x.pend = "none" /\ x.cond = s.cond
          /\ ~x.new /\ ~x.bol /\ x.semis = 0 /\ x.ends = r.ends /\ x.delim = r.delim
      <4>1. CASE At(1) = "bs"
        <5>1. Goes(r, y, r.in, r.cond, "bs")
          BY <1>2, <1>4, <2>1, <2>2, <3>1, <4>1, ReadInQuote
        <5>2. Goes(y, x, y.in, y.cond, "none")
          <6>1. y \in ReaderStates /\ y.in \in Quotes /\ y.pend = "bs"
            BY <1>2, <3>1, <5>1 DEF Goes
          <6> QED BY <1>4, <2>1, <6>1, ReadInQuote
        <5> QED BY <3>1, <3>2, <5>1, <5>2 DEF Goes
      <4>2. CASE At(1) = s.state /\ At(2) = s.state
        <5>1. Goes(r, y, "code", r.cond, "none")
          BY <1>2, <1>4, <2>1, <2>2, <3>1, <4>2, ReadInQuote
        <5>2. y \in ReaderStates /\ y.in = "code" /\ CompletesNothing(k, y.pend, At(2))
          BY <5>1 DEF Goes, CompletesNothing, WordPends
        <5>3. Begins(k, y, y.cond, At(2), x)
          BY <1>4, <2>1, <5>2, ReadPlain
        <5>4. At(2) \in Quotes /\ At(2) = s.state /\ At(2) \notin Space \cup {"hash", "nl", "sp", "semi"}
          BY <1>2, <4>2 DEF Quotes, Space
        <5> QED BY <3>1, <3>2, <5>1, <5>3, <5>4 DEF Goes, Begins, Ends
      <4> QED BY <4>1, <4>2
    <3>4. ReadsQuote(readers[k])'
      BY <1>2, <1>4, <2>2, <3>3 DEF ReadsQuote
    <3>5. SameStatement(k, readers[k])' /\ SemisAreCode(readers[k])'
      BY <1>4, <2>1, <2>2, <3>1, <3>2, <3>3 DEF SameStatement, SemisAreCode
    <3> QED BY <2>2, <3>3, <3>4, <3>5 DEF Follows, Place
  <2> QED BY <2>1, <2>3, <2>4
<1>6. ScannerOK'
  BY <1>1, <1>4 DEF ScannerOK
<1> QED BY <1>1, <1>5, <1>6, StepTwo

(* The end of a quote. *)
LEMMA QuoteEnds ==
  ASSUME LexInv, verdict = "reading", InLine, s.state \in Quotes, At(1) = s.state, CloseQuote
  PROVE  LexInv'
<1> DEFINE f == Flush(s)
           t == [f EXCEPT !.state = "code"]
<1>1. /\ TypeOK /\ s \in Scanner /\ (s.dead => s.cond) /\ ScannerOK /\ s.cond \in BOOLEAN
      /\ Len(win) \in Nat /\ win \in Seq(Bytes)
      /\ \A k \in Readers : readers[k] \in ReaderStates
      /\ \A k \in Readers : SameStatement(k, readers[k]) /\ SemisAreCode(readers[k]) /\ Place(k, readers[k])
  BY Before
<1>2. CASE s.first /\ s.cur = "quote"
  BY <1>2, RefuseKeeps DEF CloseQuote
<1>3. CASE ~(s.first /\ s.cur = "quote")
  <2>1. f \in Scanner /\ Keeps(s, f) /\ f.at = s.at /\ f.word = s.word
    BY <1>1, FlushFields
  <2>2. Consume(1, t) /\ 1 <= Len(win) /\ s.at = "rest" /\ win # <<>>
    BY <1>1, <1>3 DEF CloseQuote, InLine
  <2> HIDE DEF f
  <2>3. t \in Scanner /\ Keeps(f, t) /\ t.at = f.at /\ t.state = "code" /\ t.word = f.word
    BY <2>1 DEF Scanner, Keeps
  <2> HIDE DEF t
  <2>4. s' = t /\ readers' = [k \in Readers |-> Read(k, readers[k], At(1))] /\ At(1) \in Bytes
    BY <1>1, <2>2, ConsumesOne
  <2>5. s.word = "none" /\ At(1) \notin {"bs", "star"}
    BY <1>1 DEF ScannerOK, Quotes
  <2>6. s'.cond = s.cond /\ s'.delim = s.delim /\ s'.ends = s.ends /\ s'.dead = s.dead /\ s'.at = "rest"
        /\ s'.state = "code" /\ s'.word = "none"
    BY <2>1, <2>2, <2>3, <2>4, <2>5 DEF Keeps
  <2>7. ASSUME NEW k \in Readers PROVE readers'[k] \in ReaderStates /\ Follows(k, readers[k])'
    <3> DEFINE r == readers[k]
               x == readers'[k]
    <3>1. r \in ReaderStates /\ x = Read(k, r, At(1)) /\ SameStatement(k, r) /\ SemisAreCode(r)
          /\ (ReadsQuote(r) \/ Skips(r))
      BY <1>1, <2>2, <2>4, QuoteReaders
    <3>2. x = readers'[k]
      OBVIOUS
    <3> HIDE DEF r, x
    <3>3. CASE Skips(r)
      <4>1. x \in ReaderStates /\ Follows(k, readers[k])'
        BY <1>1, <2>4, <2>5, <2>6, <3>1, <3>2, <3>3, SkippedByte
      <4> QED BY <3>2, <4>1
    <3>4. CASE ReadsQuote(r)
      <4>1. r.in = s.state /\ r.pend = "none" /\ r.cond = s.cond
        BY <2>2, <3>4 DEF ReadsQuote
      <4>2. Goes(r, x, "code", r.cond, "none")
        BY <2>4, <3>1, <4>1, ReadInQuote
      <4>3. ~r.new /\ ~r.bol /\ r.semis = 0
        <5>1. r.in \notin {"code", "lc"}
          BY <4>1 DEF Quotes
        <5> QED BY <3>1, <5>1, InStatement
      <4>4. ReadsCode(k, readers[k])'
        BY <1>1, <2>6, <3>2, <4>1, <4>2, <4>3 DEF ReadsCode, PendingIsCode, Goes
      <4>5. SameStatement(k, readers[k])' /\ SemisAreCode(readers[k])'
        BY <2>6, <3>1, <3>2, <4>1, <4>2, <4>3 DEF SameStatement, SemisAreCode, Goes, Quotes
      <4> QED BY <3>2, <4>2, <4>4, <4>5 DEF Goes, Follows, Place
    <3> QED BY <3>1, <3>3, <3>4
  <2>8. ScannerOK'
    BY <1>1, <2>6 DEF ScannerOK
  <2>9. t.dead => t.cond
    BY <1>1, <2>4, <2>6
  <2> QED BY <2>2, <2>3, <2>7, <2>8, <2>9, StepOne
<1> QED BY <1>2, <1>3

(* The step of a quote. *)
LEMMA QuotedKeeps ==
  ASSUME LexInv, verdict = "reading", Quoted
  PROVE  LexInv'
<1>1. InLine /\ s.state \in Quotes /\ win # <<>> /\ win \in Seq(Bytes) /\ Len(win) \in Nat
  BY DEF Quoted, InLine, LexInv, TypeOK
<1>2. CASE RefusedInQuote
  BY <1>2, RefuseKeeps DEF Quoted
<1>3. CASE ~RefusedInQuote
  <2>1. ~CommentEndsAt(1) /\ (At(1) = "bs" => s.state # "bq" /\ ~CommentEndsAt(2))
        /\ (At(1) = s.state /\ At(2) = s.state => s.state # "bq")
    BY <1>3 DEF RefusedInQuote
  <2>2. CASE At(1) = "bs"
    <3>1. Consume(IF Len(win) = 1 THEN 1 ELSE 2, s) /\ s.state \in {"sq", "dq"}
      BY <1>1, <1>3, <2>1, <2>2 DEF Quoted, Quotes
    <3>2. CASE Len(win) = 1
      BY <1>1, <2>2, <3>1, <3>2, LastEscape
    <3>3. CASE Len(win) # 1
      <4>1. 2 <= Len(win)
        <5>1. Len(win) # 0
          BY <1>1
        <5>2. Len(win) \in Nat
          BY <1>1
        <5>3. \A n \in Nat : n # 0 /\ n # 1 => 2 <= n
          OBVIOUS
        <5> QED BY <3>3, <5>1, <5>2, <5>3
      <4> QED BY <1>1, <2>1, <2>2, <3>1, <3>3, <4>1, TwoInQuote
    <3> QED BY <3>2, <3>3
  <2>3. CASE At(1) = s.state /\ At(2) = s.state
    <3>1. Consume(2, s) /\ s.state \in {"sq", "dq"}
      BY <1>1, <1>3, <2>1, <2>3 DEF Quoted, Quotes
    <3>2. 2 <= Len(win)
      BY <1>1, <2>3 DEF At, Quotes
    <3> QED BY <1>1, <2>3, <3>1, <3>2, TwoInQuote
  <2>4. CASE At(1) = s.state /\ At(2) # s.state
    <3>1. CloseQuote
      BY <1>1, <1>3, <2>4 DEF Quoted, Quotes
    <3> QED BY <1>1, <2>4, <3>1, QuoteEnds
  <2>5. CASE At(1) \notin {"bs", s.state}
    <3>1. Consume(1, s)
      BY <1>3, <2>5 DEF Quoted
    <3> QED BY <1>1, <2>1, <2>5, <3>1, QuoteByte
  <2> QED BY <2>2, <2>3, <2>4, <2>5
<1> QED BY <1>2, <1>3

(* The end of a line. *)
LEMMA EndLineKeeps ==
  ASSUME LexInv, verdict = "reading", EndLine
  PROVE  LexInv'
<1>1. InLine /\ At(1) = "nl" /\ s \in Scanner
  BY DEF EndLine, LexInv, TypeOK
<1>2. CASE s.state = "comment"
  <2>1. Consume(1, s)
    BY <1>2 DEF EndLine
  <2> QED BY <1>1, <1>2, <2>1, CommentByte
<1>3. CASE s.state \in Quotes
  <2>1. Consume(1, s) /\ At(1) \notin {"bs", s.state} /\ ~CommentEndsAt(1)
    BY <1>1, <1>3 DEF EndLine, Quotes, CommentEndsAt
  <2> QED BY <1>1, <1>3, <2>1, QuoteByte
<1>4. CASE s.state = "code"
  <2>1. CASE s.word = "outfile"
    BY <1>4, <2>1, RefuseKeeps DEF EndLine
  <2>2. CASE s.word # "outfile"
    <3>1. Consume(1, [Flush(s) EXCEPT !.at = "bol", !.word = "none"])
      BY <1>4, <2>2 DEF EndLine
    <3> QED BY <1>1, <1>4, <2>2, <3>1, EndCodeLine
  <2> QED BY <2>1, <2>2
<1> QED BY <1>1, <1>2, <1>3, <1>4 DEF Scanner
----------------------------------------------------------------------------
(* Code.                                                                   *)

(* Every reader reads the byte that code takes as code, or skips it. *)
LEMMA CodeBefore ==
  ASSUME LexInv, verdict = "reading", InCode, ~RefusedInCode
  PROVE  /\ LooksAhead /\ ~WordRefused /\ s.at = "rest" /\ s.state = "code" /\ win # <<>>
         /\ At(1) \in Bytes \ {"nl"} /\ 1 <= Len(win)
         /\ \A k \in Readers : Skips(readers[k]) \/ ReadsCode(k, readers[k])
         /\ \A k \in Readers : ReadsCode(k, readers[k]) => CodeStep(k, readers[k], At(1), Read(k, readers[k], At(1)))
<1>1. TypeOK /\ ScannerOK /\ s.cond \in BOOLEAN /\ Len(win) \in Nat /\ win \in Seq(Bytes)
      /\ \A k \in Readers : readers[k] \in ReaderStates /\ Follows(k, readers[k])
  BY Before DEF Follows
<1>2. InLine /\ s.state = "code" /\ At(1) # "nl" /\ ~WordRefused /\ s.at = "rest" /\ win # <<>>
  BY DEF InCode, InLine, RefusedInCode
<1>3. LooksAhead
  BY <1>1, <1>2, CodeLooksAhead
<1>4. 1 <= Len(win)
  BY <1>3 DEF LooksAhead
<1>5. At(1) \in Bytes
  BY <1>1, <1>4 DEF At
<1>6. ASSUME NEW k \in Readers PROVE Skips(readers[k]) \/ ReadsCode(k, readers[k])
  <2> DEFINE r == readers[k]
  <2>1. Follows(k, r)
    BY <1>1
  <2> HIDE DEF r
  <2>2. Skips(r) \/ ReadsCode(k, r)
    BY <1>1, <1>2, <2>1, InCodeReaders
  <2> QED BY <2>2 DEF r
<1>7. ASSUME NEW k \in Readers, ReadsCode(k, readers[k])
      PROVE  CodeStep(k, readers[k], At(1), Read(k, readers[k], At(1)))
  <2> DEFINE r == readers[k]
  <2>1. r \in ReaderStates /\ ReadsCode(k, r)
    BY <1>1, <1>7
  <2> HIDE DEF r
  <2>2. CodeStep(k, r, At(1), Read(k, r, At(1)))
    BY <1>1, <1>2, <1>5, <2>1, CodeByte
  <2> QED BY <2>2 DEF r
<1> QED BY <1>2, <1>3, <1>4, <1>5, <1>6, <1>7

(* What code refuses. *)
LEMMA CodeRefusesKeeps ==
  ASSUME LexInv, verdict = "reading", CodeRefuses
  PROVE  LexInv'
BY RefuseKeeps DEF CodeRefuses

(* A quote opens. *)
LEMMA OpenQuoteKeeps ==
  ASSUME LexInv, verdict = "reading", OpenQuote
  PROVE  LexInv'
<1> DEFINE f == Flush(Ended)
           t == IF s.dead THEN [f EXCEPT !.state = At(1)]
                ELSE [f EXCEPT !.state = At(1), !.started = TRUE, !.cur = "quote"]
<1>1. /\ TypeOK /\ s \in Scanner /\ (s.dead => s.cond) /\ ScannerOK /\ s.cond \in BOOLEAN
      /\ Len(win) \in Nat /\ win \in Seq(Bytes)
      /\ \A k \in Readers : readers[k] \in ReaderStates
      /\ \A k \in Readers : SameStatement(k, readers[k]) /\ SemisAreCode(readers[k]) /\ Place(k, readers[k])
  BY Before
<1>2. InCode /\ ~RefusedInCode /\ At(1) \in Quotes /\ Consume(1, t)
  BY DEF OpenQuote
<1>3. /\ s.at = "rest" /\ s.state = "code" /\ 1 <= Len(win) /\ At(1) \in Bytes
      /\ \A k \in Readers : Skips(readers[k]) \/ ReadsCode(k, readers[k])
      /\ \A k \in Readers : ReadsCode(k, readers[k]) => CodeStep(k, readers[k], At(1), Read(k, readers[k], At(1)))
  BY <1>2, CodeBefore
<1>4. f \in Scanner /\ Keeps(s, f) /\ f.at = s.at /\ f.word = "none"
  BY <1>1, FlushEnded
<1>5. t \in Scanner /\ Keeps(f, t) /\ t.at = f.at /\ t.state = At(1) /\ t.word = f.word
  <2> DEFINE q == At(1)
             u(b) == [f EXCEPT !.state = q, !.started = b, !.cur = "quote"]
             v == [f EXCEPT !.state = q]
  <2>1. t = IF s.dead THEN v ELSE u(TRUE)
    OBVIOUS
  <2>2. q \in Quotes
    BY <1>2
  <2> HIDE DEF t, f, q
  <2>3. \A b \in BOOLEAN : u(b) \in Scanner /\ Keeps(f, u(b)) /\ u(b).at = f.at /\ u(b).state = q /\ u(b).word = f.word
    BY <1>4, <2>2 DEF Scanner, Keeps
  <2>4. v \in Scanner /\ Keeps(f, v) /\ v.at = f.at /\ v.state = q /\ v.word = f.word
    BY <1>4, <2>2 DEF Scanner, Keeps
  <2> HIDE DEF u, v
  <2> QED BY <2>1, <2>3, <2>4 DEF q
<1> HIDE DEF t, f
<1>6. s' = t /\ readers' = [k \in Readers |-> Read(k, readers[k], At(1))]
  BY <1>1, <1>2, <1>3, ConsumesOne
<1>7. s'.cond = s.cond /\ s'.delim = s.delim /\ s'.ends = s.ends /\ s'.dead = s.dead /\ s'.at = "rest"
      /\ s'.state = At(1) /\ s'.word = "none"
  BY <1>3, <1>4, <1>5, <1>6 DEF Keeps
<1>8. At(1) # "star" /\ At(1) # "dash" /\ At(1) # "semi" /\ At(1) \notin WordBytes /\ At(1) \notin Space \cup {"hash"}
      /\ At(1) # "nl"
  BY <1>2 DEF Quotes, WordBytes, Space
<1>9. ASSUME NEW k \in Readers PROVE readers'[k] \in ReaderStates /\ Follows(k, readers[k])'
  <2> DEFINE r == readers[k]
             x == readers'[k]
  <2>1. r \in ReaderStates /\ x = Read(k, r, At(1)) /\ SameStatement(k, r) /\ SemisAreCode(r)
        /\ (ReadsCode(k, r) \/ Skips(r))
    BY <1>1, <1>3, <1>6
  <2>2. x = readers'[k] /\ (ReadsCode(k, r) => CodeStep(k, r, At(1), x))
    BY <1>3, <2>1
  <2> HIDE DEF r, x
  <2>3. CASE Skips(r)
    <3>1. x \in ReaderStates /\ Follows(k, readers[k])'
      BY <1>1, <1>3, <1>7, <1>8, <2>1, <2>2, <2>3, SkippedByte
    <3> QED BY <2>2, <3>1
  <2>4. CASE ReadsCode(k, r)
    <3>1. CASE r.pend = "version" /\ Goes(r, x, "ml", FALSE, AfterStar(At(1)))
      <4>1. x \in ReaderStates /\ Follows(k, readers[k])'
        BY <1>7, <1>8, <2>1, <2>2, <2>4, <3>1, BecomesSkipped
      <4> QED BY <2>2, <4>1
    <3>2. CASE Begins(k, r, s.cond, At(1), x)
      <4>1. x \in ReaderStates /\ x.in = At(1) /\ x.cond = s.cond /\ x.pend = "none" /\ ~x.bol /\ ~x.new
            /\ x.ends = r.ends /\ x.delim = r.delim /\ x.semis = 0
        BY <1>2, <1>8, <3>2 DEF Begins, Ends, Space
      <4>2. ReadsQuote(readers[k])'
        BY <1>2, <1>7, <2>2, <4>1 DEF ReadsQuote
      <4>3. SameStatement(k, readers[k])' /\ SemisAreCode(readers[k])'
        BY <1>7, <2>1, <2>2, <2>4, <4>1 DEF SameStatement, SemisAreCode, ReadsCode
      <4> QED BY <2>2, <4>1, <4>2, <4>3 DEF Follows, Place
    <3> QED BY <1>8, <2>2, <2>4, <3>1, <3>2 DEF CodeStep
  <2> QED BY <2>1, <2>3, <2>4
<1>10. ScannerOK'
  BY <1>1, <1>2, <1>7 DEF ScannerOK, Quotes
<1>11. t.dead => t.cond
  BY <1>1, <1>6, <1>7
<1> QED BY <1>2, <1>3, <1>5, <1>9, <1>10, <1>11, StepOne

(* MariaDB's backslash and dash. *)
LEMMA SwitchOffCommandsKeeps ==
  ASSUME LexInv, verdict = "reading", SwitchOffCommands
  PROVE  LexInv'
<1> DEFINE t == Ended
<1>1. /\ TypeOK /\ s \in Scanner /\ (s.dead => s.cond) /\ ScannerOK /\ s.cond \in BOOLEAN
      /\ Len(win) \in Nat /\ win \in Seq(Bytes)
      /\ \A k \in Readers : readers[k] \in ReaderStates
      /\ \A k \in Readers : SameStatement(k, readers[k]) /\ SemisAreCode(readers[k]) /\ Place(k, readers[k])
  BY Before
<1>2. InCode /\ ~RefusedInCode /\ At(1) = "bs" /\ At(2) = "dash" /\ Consume(2, t)
  BY DEF SwitchOffCommands, RefusedInCode
<1>3. /\ s.at = "rest" /\ s.state = "code" /\ 1 <= Len(win) /\ At(1) \in Bytes
      /\ \A k \in Readers : Skips(readers[k]) \/ ReadsCode(k, readers[k])
      /\ \A k \in Readers : ReadsCode(k, readers[k]) => CodeStep(k, readers[k], At(1), Read(k, readers[k], At(1)))
  BY <1>2, CodeBefore
<1>4. 2 <= Len(win)
  BY <1>1, <1>2 DEF At
<1>5. t \in Scanner /\ Keeps(s, t) /\ t.at = s.at /\ t.state = s.state /\ t.word = "none"
      /\ t.cur = s.cur /\ t.first = s.first
  BY <1>1, EndedFields
<1> HIDE DEF t
<1>6. s' = t /\ readers' = [k \in Readers |-> Read(k, Read(k, readers[k], At(1)), At(2))] /\ At(2) \in Bytes
  BY <1>1, <1>2, <1>4, ConsumesTwo
<1>7. s'.cond = s.cond /\ s'.delim = s.delim /\ s'.ends = s.ends /\ s'.dead = s.dead /\ s'.at = "rest"
      /\ s'.state = "code" /\ s'.word = "none"
  BY <1>3, <1>5, <1>6 DEF Keeps
<1>8. At(1) # "star" /\ At(1) # "dash" /\ At(1) # "semi" /\ At(1) \notin WordBytes /\ At(1) \notin Space \cup {"hash"}
      /\ At(1) \notin Quotes /\ At(1) # "nl" /\ At(2) # "star" /\ AfterStar(At(1)) = "none" /\ AfterStar(At(2)) = "none"
  BY <1>2 DEF Quotes, WordBytes, Space, AfterStar
<1>9. ASSUME NEW k \in Readers PROVE readers'[k] \in ReaderStates /\ Follows(k, readers[k])'
  <2> DEFINE r == readers[k]
             y == Read(k, r, At(1))
             x == readers'[k]
  <2>1. r \in ReaderStates /\ x = Read(k, y, At(2)) /\ SameStatement(k, r) /\ SemisAreCode(r)
        /\ (ReadsCode(k, r) \/ Skips(r))
    BY <1>1, <1>3, <1>6
  <2>2. x = readers'[k] /\ y = Read(k, r, At(1)) /\ (ReadsCode(k, r) => CodeStep(k, r, At(1), y))
    BY <1>3
  <2> HIDE DEF r, x, y
  <2>3. CASE Skips(r)
    <3>1. x = Read(k, Read(k, r, At(1)), At(2)) /\ At(1) \in Bytes \ {"star"}
      BY <1>3, <1>8, <2>1, <2>2
    <3>2. x \in ReaderStates /\ Follows(k, readers[k])'
      BY <1>1, <1>6, <1>7, <1>8, <2>1, <2>2, <2>3, <3>1, SkippedTwo
    <3> QED BY <2>2, <3>2
  <2>4. CASE ReadsCode(k, r)
    <3>1. CASE r.pend = "version" /\ Goes(r, y, "ml", FALSE, AfterStar(At(1)))
      <4>1. ~r.new /\ ~r.bol /\ r.semis = 0 /\ s.cond
        BY <2>1, <2>4, <3>1, InStatement DEF ReadsCode, PendingIsCode, WordPends
      <4>2. Goes(y, x, "ml", y.cond, "none")
        BY <1>6, <1>8, <2>1, <3>1, ReadInComment DEF Goes
      <4>3. Goes(r, x, "ml", FALSE, "none")
        BY <3>1, <4>2 DEF Goes
      <4>4. Skips(readers[k])'
        BY <1>7, <2>2, <4>1, <4>3 DEF Skips, Goes, StarIsText
      <4>5. SameStatement(k, readers[k])' /\ SemisAreCode(readers[k])'
        BY <1>7, <2>1, <2>2, <2>4, <4>1, <4>3 DEF SameStatement, SemisAreCode, Goes, ReadsCode
      <4> QED BY <2>2, <4>3, <4>4, <4>5 DEF Goes, Follows, Place
    <3>2. CASE Begins(k, r, s.cond, At(1), y)
      <4>1. y \in ReaderStates /\ y.in = "code" /\ y.cond = s.cond /\ y.pend = "bs" /\ ~y.bol /\ ~y.new
            /\ y.ends = r.ends /\ y.delim = r.delim /\ y.semis = 0
        BY <1>2, <1>8, <3>2 DEF Begins, Ends, Space
      <4>2. Goes(y, x, "code", y.cond, "none")
        BY <1>2, <1>6, <2>1, <4>1, ReadCompletes
      <4>3. ReadsCode(k, readers[k])'
        BY <1>1, <1>7, <2>2, <4>1, <4>2 DEF ReadsCode, PendingIsCode, Goes
      <4>4. SameStatement(k, readers[k])' /\ SemisAreCode(readers[k])'
        BY <1>7, <2>1, <2>2, <2>4, <4>1, <4>2 DEF SameStatement, SemisAreCode, ReadsCode, Goes
      <4> QED BY <2>2, <4>2, <4>3, <4>4 DEF Goes, Follows, Place
    <3> QED BY <1>8, <2>2, <2>4, <3>1, <3>2 DEF CodeStep
  <2> QED BY <2>1, <2>3, <2>4
<1>10. ScannerOK'
  BY <1>1, <1>2, <1>7 DEF ScannerOK, Quotes
<1>11. t.dead => t.cond
  BY <1>1, <1>6, <1>7
<1> QED BY <1>2, <1>4, <1>5, <1>9, <1>10, <1>11, StepTwo

(* A comment to the end of the line, after a hash. *)
LEMMA HashComment ==
  ASSUME LexInv, verdict = "reading", InCode, ~RefusedInCode, At(1) = "hash",
         Consume(1, [Flush(Ended) EXCEPT !.at = "lc"])
  PROVE  LexInv'
<1> DEFINE f == Flush(Ended)
           t == [f EXCEPT !.at = "lc"]
<1>1. /\ TypeOK /\ s \in Scanner /\ (s.dead => s.cond) /\ ScannerOK /\ s.cond \in BOOLEAN
      /\ Len(win) \in Nat /\ win \in Seq(Bytes)
      /\ \A k \in Readers : readers[k] \in ReaderStates
      /\ \A k \in Readers : SameStatement(k, readers[k]) /\ SemisAreCode(readers[k]) /\ Place(k, readers[k])
  BY Before
<1>2. /\ s.at = "rest" /\ s.state = "code" /\ 1 <= Len(win) /\ At(1) \in Bytes
      /\ \A k \in Readers : Skips(readers[k]) \/ ReadsCode(k, readers[k])
      /\ \A k \in Readers : ReadsCode(k, readers[k]) => CodeStep(k, readers[k], At(1), Read(k, readers[k], At(1)))
  BY CodeBefore
<1>3. Consume(1, t) /\ ~s.cond
  BY DEF RefusedInCode
<1>4. f \in Scanner /\ Keeps(s, f) /\ f.state = s.state /\ f.word = "none" /\ f.cur = "none"
      /\ f.first = (s.first /\ s.cur = "none")
  BY <1>1, FlushEnded
<1> HIDE DEF f
<1>5. t \in Scanner /\ Keeps(f, t) /\ t.at = "lc" /\ t.state = f.state /\ t.word = f.word
      /\ t.cur = f.cur /\ t.first = f.first
  BY <1>4 DEF Scanner, Keeps
<1> HIDE DEF t
<1>6. s' = t /\ readers' = [k \in Readers |-> Read(k, readers[k], At(1))]
  BY <1>1, <1>2, <1>3, ConsumesOne
<1>7. ~s'.cond /\ s'.delim = s.delim /\ s'.ends = s.ends /\ s'.dead = s.dead /\ s'.at = "lc"
      /\ s'.state = "code" /\ s'.word = "none" /\ (s.first /\ s.cur = "none" => s'.first /\ s'.cur = "none")
  BY <1>2, <1>3, <1>4, <1>5, <1>6 DEF Keeps
<1>8. ASSUME NEW k \in Readers PROVE readers'[k] \in ReaderStates /\ Follows(k, readers[k])'
  <2> DEFINE r == readers[k]
             x == readers'[k]
  <2>1. r \in ReaderStates /\ x = Read(k, r, At(1)) /\ SameStatement(k, r) /\ SemisAreCode(r)
        /\ ReadsCode(k, r)
    BY <1>1, <1>2, <1>3, <1>6 DEF Skips
  <2>2. x = readers'[k] /\ CodeStep(k, r, At(1), x)
    BY <1>2, <2>1
  <2> HIDE DEF r, x
  <2>3. Begins(k, r, s.cond, At(1), x)
    <3>1. r.pend # "version"
      BY <1>3, <2>1 DEF ReadsCode, PendingIsCode, WordPends
    <3> QED BY <2>2, <3>1 DEF CodeStep, WordBytes
  <2>4. x \in ReaderStates /\ x.in = "lc" /\ ~x.cond /\ x.pend = "none" /\ ~x.bol /\ (x.new => r.new)
        /\ x.ends = r.ends /\ x.delim = r.delim /\ x.semis = 0
    BY <1>3, <2>3 DEF Begins, Ends, Space, Quotes
  <2>5. DropsLine(readers[k])'
    BY <1>7, <2>2, <2>4 DEF DropsLine
  <2>6. SameStatement(k, readers[k])' /\ SemisAreCode(readers[k])'
    BY <1>7, <2>1, <2>2, <2>4 DEF SameStatement, SemisAreCode, ReadsCode
  <2> QED BY <2>2, <2>4, <2>5, <2>6 DEF Follows, Place
<1>9. ScannerOK'
  BY <1>7 DEF ScannerOK
<1>10. t.dead => t.cond
  BY <1>1, <1>3, <1>6, <1>7
<1> QED BY <1>2, <1>3, <1>5, <1>8, <1>9, <1>10, StepOne

(* And after two dashes and a space. *)
LEMMA DashesComment ==
  ASSUME LexInv, verdict = "reading", InCode, ~RefusedInCode, DashComment(1),
         Consume(2, [Flush(Ended) EXCEPT !.at = "lc"])
  PROVE  LexInv'
<1> DEFINE f == Flush(Ended)
           t == [f EXCEPT !.at = "lc"]
<1>1. /\ TypeOK /\ s \in Scanner /\ (s.dead => s.cond) /\ ScannerOK /\ s.cond \in BOOLEAN
      /\ Len(win) \in Nat /\ win \in Seq(Bytes)
      /\ \A k \in Readers : readers[k] \in ReaderStates
      /\ \A k \in Readers : SameStatement(k, readers[k]) /\ SemisAreCode(readers[k]) /\ Place(k, readers[k])
  BY Before
<1>2. /\ s.at = "rest" /\ s.state = "code" /\ At(1) \in Bytes /\ LooksAhead
      /\ \A k \in Readers : Skips(readers[k]) \/ ReadsCode(k, readers[k])
      /\ \A k \in Readers : ReadsCode(k, readers[k]) => CodeStep(k, readers[k], At(1), Read(k, readers[k], At(1)))
  BY CodeBefore
<1>3. Consume(2, t) /\ ~s.cond
  BY DEF RefusedInCode
<1>4. f \in Scanner /\ Keeps(s, f) /\ f.state = s.state /\ f.word = "none" /\ f.cur = "none"
      /\ f.first = (s.first /\ s.cur = "none")
  BY <1>1, FlushEnded
<1> HIDE DEF f
<1>5. t \in Scanner /\ Keeps(f, t) /\ t.at = "lc" /\ t.state = f.state /\ t.word = f.word
      /\ t.cur = f.cur /\ t.first = f.first
  BY <1>4 DEF Scanner, Keeps
<1> HIDE DEF t
<1>6. At(1) = "dash" /\ At(2) = "dash" /\ At(3) \in Blank /\ Seen(3) /\ 2 <= Len(win)
  <2>1. At(1) = "dash" /\ At(2) = "dash" /\ At(3) \in Blank
    BY DEF DashComment, Blank
  <2> QED BY <1>1, <1>2, <2>1 DEF LooksAhead, At
<1>7. s' = t /\ readers' = [k \in Readers |-> Read(k, Read(k, readers[k], At(1)), At(2))] /\ At(2) \in Bytes /\ Shift2
  BY <1>1, <1>3, <1>6, ConsumesTwo
<1>8. ~s'.cond /\ s'.delim = s.delim /\ s'.ends = s.ends /\ s'.dead = s.dead /\ s'.at = "lc"
      /\ s'.state = "code" /\ s'.word = "none"
  BY <1>2, <1>3, <1>4, <1>5, <1>7 DEF Keeps
<1>9. Seen(1)' /\ At(1)' \in Blank
  BY <1>6, <1>7 DEF Shift2
<1>10. ASSUME NEW k \in Readers PROVE readers'[k] \in ReaderStates /\ Follows(k, readers[k])'
  <2> DEFINE r == readers[k]
             y == Read(k, r, At(1))
             x == readers'[k]
  <2>1. r \in ReaderStates /\ x = Read(k, y, At(2)) /\ SameStatement(k, r) /\ SemisAreCode(r)
        /\ ReadsCode(k, r)
    BY <1>1, <1>2, <1>3, <1>7 DEF Skips
  <2>2. x = readers'[k] /\ y = Read(k, r, At(1)) /\ CodeStep(k, r, At(1), y)
    BY <1>2, <2>1
  <2> HIDE DEF r, x, y
  <2>3. /\ y \in ReaderStates /\ y.in = "code" /\ ~y.cond /\ y.pend \in {"firstdash", "dash", "dashes"}
        /\ ~y.bol /\ ~y.new /\ y.ends = r.ends /\ y.delim = r.delim /\ y.semis = 0
    <3>1. CASE r.pend \in {"dash", "dashes"} /\ Goes(r, y, "code", s.cond, "dashes")
      <4>1. ~r.new /\ ~r.bol /\ r.semis = 0
        BY <2>1, <3>1, InStatement
      <4> QED BY <1>3, <3>1, <4>1 DEF Goes
    <3>2. CASE Begins(k, r, s.cond, At(1), y)
      BY <1>3, <1>6, <3>2 DEF Begins, Ends, Space, Quotes
    <3>3. r.pend # "version"
      BY <1>3, <2>1 DEF ReadsCode, PendingIsCode, WordPends
    <3> QED BY <1>6, <2>2, <3>1, <3>2, <3>3 DEF CodeStep, WordBytes
  <2>4. /\ x \in ReaderStates /\ ((x.in = "lc" /\ x.pend = "none") \/ (x.in = "code" /\ x.pend = "dashes")) /\ ~x.cond
        /\ ~x.bol /\ ~x.new /\ x.ends = r.ends /\ x.delim = r.delim /\ x.semis = 0
    <3>1. y.pend = "firstdash" => Goes(y, x, "lc", y.cond, "none")
      BY <1>6, <1>7, <2>1, <2>3, ReadCompletes
    <3>2. y.pend \in {"dash", "dashes"} => Goes(y, x, "code", y.cond, "dashes")
      BY <1>6, <1>7, <2>1, <2>3, ReadCompletes
    <3> QED BY <2>3, <3>1, <3>2 DEF Goes
  <2>5. DropsLine(readers[k])'
    BY <1>8, <1>9, <2>2, <2>4 DEF DropsLine
  <2>6. SameStatement(k, readers[k])' /\ SemisAreCode(readers[k])'
    BY <1>8, <2>1, <2>2, <2>4 DEF SameStatement, SemisAreCode, ReadsCode
  <2> QED BY <2>2, <2>4, <2>5, <2>6 DEF Follows, Place
<1>11. ScannerOK'
  BY <1>8 DEF ScannerOK
<1>12. t.dead => t.cond
  BY <1>1, <1>3, <1>7, <1>8
<1> QED BY <1>3, <1>5, <1>6, <1>10, <1>11, <1>12, StepTwo

(* The comment begins. *)
LEMMA OpenLineCommentKeeps ==
  ASSUME LexInv, verdict = "reading", OpenLineComment
  PROVE  LexInv'
<1>1. CASE At(1) = "hash"
  BY <1>1, HashComment DEF OpenLineComment
<1>2. CASE At(1) # "hash"
  BY <1>2, DashesComment DEF OpenLineComment
<1> QED BY <1>1, <1>2

(* A comment opens. *)
LEMMA OpenCommentKeeps ==
  ASSUME LexInv, verdict = "reading", OpenComment
  PROVE  LexInv'
<1> DEFINE f == Flush(Ended)
           t == [f EXCEPT !.at = "open"]
<1>1. /\ TypeOK /\ s \in Scanner /\ (s.dead => s.cond) /\ ScannerOK /\ s.cond \in BOOLEAN
      /\ Len(win) \in Nat /\ win \in Seq(Bytes)
      /\ \A k \in Readers : readers[k] \in ReaderStates
      /\ \A k \in Readers : SameStatement(k, readers[k]) /\ SemisAreCode(readers[k]) /\ Place(k, readers[k])
  BY Before
<1>2. InCode /\ ~RefusedInCode /\ At(1) = "slash" /\ At(2) = "star" /\ Consume(2, t) /\ ~s.cond
  BY DEF OpenComment, RefusedInCode
<1>3. /\ s.at = "rest" /\ s.state = "code" /\ At(1) \in Bytes
      /\ \A k \in Readers : Skips(readers[k]) \/ ReadsCode(k, readers[k])
      /\ \A k \in Readers : ReadsCode(k, readers[k]) => CodeStep(k, readers[k], At(1), Read(k, readers[k], At(1)))
  BY <1>2, CodeBefore
<1>4. f \in Scanner /\ Keeps(s, f) /\ f.state = s.state /\ f.word = "none"
  BY <1>1, FlushEnded
<1> HIDE DEF f
<1>5. t \in Scanner /\ Keeps(f, t) /\ t.at = "open" /\ t.state = f.state /\ t.word = f.word
  BY <1>4 DEF Scanner, Keeps
<1> HIDE DEF t
<1>6. 2 <= Len(win)
  BY <1>1, <1>2 DEF At
<1>7. s' = t /\ readers' = [k \in Readers |-> Read(k, Read(k, readers[k], At(1)), At(2))] /\ At(2) \in Bytes
  BY <1>1, <1>2, <1>6, ConsumesTwo
<1>8. ~s'.cond /\ s'.delim = s.delim /\ s'.ends = s.ends /\ s'.dead = s.dead /\ s'.at = "open"
      /\ s'.state = "code" /\ s'.word = "none"
  BY <1>2, <1>3, <1>4, <1>5, <1>7 DEF Keeps
<1>9. ASSUME NEW k \in Readers PROVE readers'[k] \in ReaderStates /\ Follows(k, readers[k])'
  <2> DEFINE r == readers[k]
             y == Read(k, r, At(1))
             x == readers'[k]
  <2>1. r \in ReaderStates /\ x = Read(k, y, At(2)) /\ SameStatement(k, r) /\ SemisAreCode(r)
        /\ ReadsCode(k, r)
    BY <1>1, <1>2, <1>3, <1>7 DEF Skips
  <2>2. x = readers'[k] /\ y = Read(k, r, At(1)) /\ CodeStep(k, r, At(1), y)
    BY <1>3, <2>1
  <2> HIDE DEF r, x, y
  <2>3. /\ y \in ReaderStates /\ y.in = "code" /\ ~y.cond /\ y.pend = "slash"
        /\ ~y.bol /\ ~y.new /\ y.ends = r.ends /\ y.delim = r.delim /\ y.semis = 0
    <3>1. r.pend # "version"
      BY <1>2, <2>1 DEF ReadsCode, PendingIsCode, WordPends
    <3>2. Begins(k, r, s.cond, At(1), y)
      BY <1>2, <2>2, <3>1 DEF CodeStep, WordBytes
    <3> QED BY <1>2, <3>2 DEF Begins, Ends, Space, Quotes
  <2>4. Goes(y, x, "code", y.cond, "opened")
    BY <1>2, <1>7, <2>1, <2>3, ReadCompletes
  <2>5. ReadsOpening(readers[k])'
    BY <1>8, <2>2, <2>3, <2>4 DEF ReadsOpening, Goes
  <2>6. SameStatement(k, readers[k])' /\ SemisAreCode(readers[k])'
    BY <1>8, <2>1, <2>2, <2>3, <2>4 DEF SameStatement, SemisAreCode, ReadsCode, Goes
  <2> QED BY <2>2, <2>4, <2>5, <2>6 DEF Follows, Place, Goes
<1>10. ScannerOK'
  BY <1>8 DEF ScannerOK
<1>11. t.dead => t.cond
  BY <1>1, <1>2, <1>7, <1>8
<1> QED BY <1>2, <1>5, <1>6, <1>9, <1>10, <1>11, StepTwo

(* The version comment closes: who runs it and who skips it meet again. *)
LEMMA CloseVersionCommentKeeps ==
  ASSUME LexInv, verdict = "reading", CloseVersionComment
  PROVE  LexInv'
<1> DEFINE f == Flush(Ended)
           u(a, b) == [f EXCEPT !.cond = a, !.dead = b]
           t == u(FALSE, FALSE)
<1>1. /\ TypeOK /\ s \in Scanner /\ (s.dead => s.cond) /\ ScannerOK /\ s.cond \in BOOLEAN
      /\ Len(win) \in Nat /\ win \in Seq(Bytes)
      /\ \A k \in Readers : readers[k] \in ReaderStates
      /\ \A k \in Readers : SameStatement(k, readers[k]) /\ SemisAreCode(readers[k]) /\ Place(k, readers[k])
  BY Before
<1>2. InCode /\ ~RefusedInCode /\ At(1) = "star" /\ At(2) = "slash" /\ Consume(2, t) /\ s.cond
  BY DEF CloseVersionComment, CommentEndsAt
<1>3. /\ s.at = "rest" /\ s.state = "code" /\ At(1) \in Bytes
      /\ \A k \in Readers : Skips(readers[k]) \/ ReadsCode(k, readers[k])
      /\ \A k \in Readers : ReadsCode(k, readers[k]) => CodeStep(k, readers[k], At(1), Read(k, readers[k], At(1)))
  BY <1>2, CodeBefore
<1>4. f \in Scanner /\ Keeps(s, f) /\ f.at = s.at /\ f.state = s.state /\ f.word = "none"
  BY <1>1, FlushEnded
<1> HIDE DEF f
<1>5. t \in Scanner /\ t.cond = FALSE /\ ~t.dead /\ t.at = f.at /\ t.state = f.state /\ t.word = f.word
      /\ t.delim = f.delim /\ t.ends = f.ends
  <2>1. \A a, b \in BOOLEAN : u(a, b) \in Scanner /\ u(a, b).cond = a /\ u(a, b).dead = b
          /\ u(a, b).at = f.at /\ u(a, b).state = f.state /\ u(a, b).word = f.word
          /\ u(a, b).delim = f.delim /\ u(a, b).ends = f.ends
    BY <1>4 DEF Scanner
  <2> HIDE DEF u
  <2> QED BY <2>1
<1> HIDE DEF t
<1>6. 2 <= Len(win)
  BY <1>1, <1>2 DEF At
<1>7. s' = t /\ readers' = [k \in Readers |-> Read(k, Read(k, readers[k], At(1)), At(2))] /\ At(2) \in Bytes
  BY <1>1, <1>2, <1>6, ConsumesTwo
<1>8. s'.cond = FALSE /\ s'.delim = s.delim /\ s'.ends = s.ends /\ ~s'.dead /\ s'.at = "rest"
      /\ s'.state = "code" /\ s'.word = "none"
  BY <1>3, <1>4, <1>5, <1>7 DEF Keeps
<1>9. ASSUME NEW k \in Readers PROVE readers'[k] \in ReaderStates /\ Follows(k, readers[k])'
  <2> DEFINE r == readers[k]
             y == Read(k, r, At(1))
             x == readers'[k]
  <2>1. r \in ReaderStates /\ x = Read(k, y, At(2)) /\ SameStatement(k, r) /\ SemisAreCode(r)
        /\ (ReadsCode(k, r) \/ Skips(r))
    BY <1>1, <1>3, <1>7
  <2>2. x = readers'[k] /\ y = Read(k, r, At(1)) /\ (ReadsCode(k, r) => CodeStep(k, r, At(1), y))
    BY <1>3
  <2> HIDE DEF r, x, y
  <2>3. r.ends = s.ends /\ r.delim = s.delim
    BY <2>1 DEF SameStatement, ReadsCode, Skips
  <2>4. /\ x \in ReaderStates /\ x.in = "code" /\ x.cond = FALSE /\ x.pend = "none"
        /\ ~x.bol /\ ~x.new /\ x.ends = r.ends /\ x.delim = r.delim /\ x.semis = 0
    <3>1. CASE Goes(r, y, "ml", FALSE, "star") /\ (r.in = "ml" \/ r.pend = "version")
      <4>1. ~r.new /\ ~r.bol /\ r.semis = 0
        BY <2>1, <3>1, InStatement
      <4>2. Goes(y, x, "code", y.cond, "none")
        BY <1>2, <1>7, <2>1, <3>1, ReadInComment DEF Goes
      <4> QED BY <3>1, <4>1, <4>2 DEF Goes
    <3>2. CASE Begins(k, r, s.cond, At(1), y)
      <4>1. y \in ReaderStates /\ y.in = "code" /\ y.pend = "star" /\ ~y.bol /\ ~y.new
            /\ y.ends = r.ends /\ y.delim = r.delim /\ y.semis = 0
        BY <1>2, <3>2 DEF Begins, Ends, Space, Quotes
      <4>2. Goes(y, x, "code", FALSE, "none")
        BY <1>2, <1>7, <2>1, <4>1, ReadCompletes
      <4> QED BY <4>1, <4>2 DEF Goes
    <3>3. AfterStar(At(1)) = "star"
      BY <1>2 DEF AfterStar
    <3>4. CASE ReadsCode(k, r)
      BY <1>2, <2>2, <3>1, <3>2, <3>3, <3>4 DEF CodeStep, WordBytes
    <3>5. CASE Skips(r)
      <4>1. r.in = "ml" /\ r.cond = FALSE
        BY <2>1, <3>5 DEF Skips, ReaderStates
      <4>2. Goes(r, y, "ml", r.cond, AfterStar(At(1)))
        <5>1. At(1) # "slash"
          BY <1>2
        <5> QED BY <1>3, <2>1, <2>2, <4>1, <5>1, ReadInComment
      <4> QED BY <3>1, <3>3, <4>1, <4>2
    <3> QED BY <2>1, <3>4, <3>5
  <2>5. ReadsCode(k, readers[k])'
    BY <1>8, <2>2, <2>4 DEF ReadsCode, PendingIsCode
  <2>6. SameStatement(k, readers[k])' /\ SemisAreCode(readers[k])'
    BY <1>8, <2>2, <2>3, <2>4 DEF SameStatement, SemisAreCode
  <2> QED BY <2>2, <2>4, <2>5, <2>6 DEF Follows, Place
<1>10. ScannerOK'
  BY <1>8 DEF ScannerOK
<1>11. ~t.dead
  BY <1>5
<1> QED BY <1>2, <1>5, <1>6, <1>9, <1>10, <1>11, StepTwo

(* A reader is what its fields are. *)
LEMMA SameFields ==
  ASSUME NEW x \in ReaderStates, NEW y \in ReaderStates,
         x.in = y.in, x.cond = y.cond, x.pend = y.pend, x.bol = y.bol, x.new = y.new,
         x.ends = y.ends, x.delim = y.delim, x.semis = y.semis
  PROVE  x = y
BY DEF ReaderStates

(* Where a reader of a delimiter of n semicolons is after i of them. *)
AfterSemis(n, e, i, x) ==
  /\ x \in ReaderStates /\ x.in = "code" /\ x.cond = FALSE /\ x.pend = "none" /\ x.bol = FALSE
  /\ x.new = (i = n) /\ x.ends = (IF i = n THEN 1 - e ELSE e)
  /\ x.delim = n /\ x.semis = (IF i = n THEN 0 ELSE i)

(* There is one place only. *)
LEMMA AfterSemisIsOne ==
  ASSUME NEW n, NEW e, NEW i, NEW x, NEW y, AfterSemis(n, e, i, x), AfterSemis(n, e, i, y)
  PROVE  x = y
BY SameFields DEF AfterSemis

(* A semicolon of the delimiter. *)
LEMMA ReadSemi ==
  ASSUME NEW k, NEW p \in ReaderStates, NEW n \in Nat, NEW i \in 1 .. n, NEW x,
         p.delim = n, p.semis = i - 1, Begins(k, p, FALSE, "semi", x)
  PROVE  AfterSemis(n, p.ends, i, x)
<1>1. "semi" \notin Quotes \cup Space \cup {"hash"} /\ "semi" \in Quotes \cup Space \cup {"hash", "bang", "plus", "semi", "eq"}
  BY DEF Quotes, Space
<1>2. Ends(p, "semi") <=> i = n
  BY DEF Ends
<1>3. x \in ReaderStates /\ x.in = "code" /\ x.cond = FALSE /\ x.pend = "none" /\ x.delim = n
  BY <1>1 DEF Begins
<1>4. x.bol = FALSE
  BY <1>1, <1>3 DEF Begins, ReaderStates
<1>5. x.new = (i = n)
  <2>1. x.new <=> Ends(p, "semi")
    BY <1>1 DEF Begins
  <2>2. x.new \in BOOLEAN
    BY <1>3 DEF ReaderStates
  <2> QED BY <1>2, <2>1, <2>2
<1>6. x.ends = (IF i = n THEN 1 - p.ends ELSE p.ends)
  BY <1>2 DEF Begins
<1>7. x.semis = (IF i = n THEN 0 ELSE i)
  BY <1>2 DEF Begins
<1> QED BY <1>3, <1>4, <1>5, <1>6, <1>7 DEF AfterSemis

(* Reading all of it ends the statement. *)
LEMMA ReadDelimiter ==
  ASSUME NEW k, NEW r \in ReaderStates, NEW n \in Nat \ {0}, NEW q, Len(q) = n,
         \A i \in 1 .. n : q[i] = "semi",
         r.delim = n, r.semis = 0, r.cond = FALSE, Begins(k, r, FALSE, "semi", Read(k, r, "semi"))
  PROVE  AfterSemis(n, r.ends, n, ReadAll(k, r, q))
<1> DEFINE z(i) == [in |-> "code", cond |-> r.cond, pend |-> "none", bol |-> r.cond, new |-> i = n,
                    ends |-> IF i = n THEN 1 - r.ends ELSE r.ends, delim |-> n,
                    semis |-> IF i = n THEN 0 ELSE i]
           w == [i \in 0 .. n |-> IF i = 0 THEN r ELSE z(i)]
<1>1. r.cond \in BOOLEAN /\ r.ends \in {0, 1} /\ r.delim = n /\ r.semis = 0
  BY DEF ReaderStates
<1>2. ASSUME NEW i \in 1 .. n PROVE AfterSemis(n, r.ends, i, z(i))
  <2> DEFINE e == IF i = n THEN 1 - r.ends ELSE r.ends
             m == IF i = n THEN 0 ELSE i
             v == i = n
             c == r.cond
             y == [in |-> "code", cond |-> c, pend |-> "none", bol |-> c, new |-> v,
                   ends |-> e, delim |-> n, semis |-> m]
  <2>1. z(i) = y
    OBVIOUS
  <2>2. e \in {0, 1} /\ m \in Nat /\ v \in BOOLEAN /\ c \in BOOLEAN /\ c = FALSE
    BY <1>1
  <2> HIDE DEF e, m, v, c, z
  <2>3. y \in ReaderStates /\ y.in = "code" /\ y.cond = c /\ y.pend = "none" /\ y.bol = c /\ y.new = v
        /\ y.ends = e /\ y.delim = n /\ y.semis = m
    BY <2>2 DEF ReaderStates, Places, Pends
  <2> HIDE DEF y
  <2>4. AfterSemis(n, r.ends, i, y)
    BY <2>2, <2>3 DEF e, m, v, AfterSemis
  <2> QED BY <2>1, <2>4
<1>3. w[0] = r /\ \A i \in 1 .. n : w[i] = z(i)
  OBVIOUS
<1> HIDE DEF w, z
<1>4. ASSUME NEW i \in 1 .. n PROVE AfterSemis(n, r.ends, i, w[i])
  BY <1>2, <1>3
<1>5. "semi" \in Bytes
  BY DEF Bytes
<1>6. ASSUME NEW i \in 1 .. n PROVE w[i] = Read(k, w[i - 1], "semi")
  <2> DEFINE p == w[i - 1]
             x == Read(k, p, "semi")
  <2>1. p \in ReaderStates /\ p.delim = n /\ p.semis = i - 1 /\ p.ends = r.ends /\ Begins(k, p, FALSE, "semi", x)
    <3>1. CASE i = 1
      <4>1. p = r /\ i - 1 = 0
        BY <1>3, <3>1
      <4> HIDE DEF p
      <4> QED BY <1>1, <4>1
    <3>2. CASE i # 1
      <4>1. i - 1 \in 1 .. n /\ i - 1 # n
        BY <3>2
      <4>2. AfterSemis(n, r.ends, i - 1, p)
        BY <1>4, <4>1
      <4> HIDE DEF p
      <4>3. p \in ReaderStates /\ p.in = "code" /\ p.cond = FALSE /\ p.pend = "none" /\ p.delim = n
            /\ p.semis = i - 1 /\ p.ends = r.ends
        BY <4>1, <4>2 DEF AfterSemis
      <4>4. CompletesNothing(k, p.pend, "semi")
        BY <4>3 DEF CompletesNothing, WordPends
      <4>5. Begins(k, p, p.cond, "semi", x)
        BY <1>5, <4>3, <4>4, ReadPlain
      <4> QED BY <4>3, <4>5
    <3> QED BY <3>1, <3>2
  <2> HIDE DEF p, x
  <2>2. AfterSemis(n, r.ends, i, x)
    BY <2>1, ReadSemi
  <2>3. w[i] = x
    BY <1>4, <2>2, AfterSemisIsOne
  <2> QED BY <2>3 DEF x, p
<1>7. ReadAll(k, r, q) = w[n]
  <2>1. Steps(k, r, q, n, w)
    BY <1>3, <1>6 DEF Steps
  <2> QED BY <2>1, ReadAllSteps
<1>8. n \in 1 .. n
  OBVIOUS
<1> QED BY <1>4, <1>7, <1>8

(* The delimiter ends the statement for the scanner and for every reader. *)
LEMMA DelimiterKeeps ==
  ASSUME LexInv, verdict = "reading", Delimiter
  PROVE  LexInv'
<1> DEFINE n == s.delim
           f == Flush(Ended)
           u(a, b) == [f EXCEPT !.started = a, !.first = b, !.ends = 1 - @]
           t == u(FALSE, TRUE)
           q == SubSeq(win, 1, n)
<1>1. /\ TypeOK /\ s \in Scanner /\ (s.dead => s.cond) /\ ScannerOK /\ s.cond \in BOOLEAN
      /\ Len(win) \in Nat /\ win \in Seq(Bytes)
      /\ \A k \in Readers : readers[k] \in ReaderStates
      /\ \A k \in Readers : SameStatement(k, readers[k]) /\ SemisAreCode(readers[k]) /\ Place(k, readers[k])
  BY Before
<1>2. InCode /\ ~RefusedInCode /\ IsDelimiter /\ Consume(n, t) /\ ~s.cond
  BY DEF Delimiter, RefusedInCode, EndStatement
<1>3. n \in Nat \ {0} /\ n \in 1 .. n
  BY <1>1, MaxDelimiterAssumption DEF Scanner
<1>4. At(1) = "semi" /\ At(n) = "semi"
  BY <1>2, <1>3 DEF IsDelimiter
<1>5. n <= Len(win)
  BY <1>1, <1>3, <1>4 DEF At
<1>6. /\ s.at = "rest" /\ s.state = "code"
      /\ \A k \in Readers : Skips(readers[k]) \/ ReadsCode(k, readers[k])
      /\ \A k \in Readers : ReadsCode(k, readers[k]) => CodeStep(k, readers[k], At(1), Read(k, readers[k], At(1)))
  BY <1>2, CodeBefore
<1>7. f \in Scanner /\ Keeps(s, f) /\ f.at = s.at /\ f.state = s.state /\ f.word = "none" /\ f.cur = "none"
  BY <1>1, FlushEnded
<1> HIDE DEF f
<1>8. t \in Scanner /\ t.first /\ t.ends = 1 - f.ends /\ t.at = f.at /\ t.state = f.state /\ t.word = f.word
      /\ t.cur = f.cur /\ t.delim = f.delim /\ t.cond = f.cond /\ t.dead = f.dead
  <2>1. \A a, b \in BOOLEAN : u(a, b) \in Scanner /\ u(a, b).first = b /\ u(a, b).ends = 1 - f.ends
          /\ u(a, b).at = f.at /\ u(a, b).state = f.state /\ u(a, b).word = f.word /\ u(a, b).cur = f.cur
          /\ u(a, b).delim = f.delim /\ u(a, b).cond = f.cond /\ u(a, b).dead = f.dead
    <3>1. 1 - f.ends \in {0, 1}
      BY <1>7 DEF Scanner
    <3> DEFINE e == 1 - f.ends
               v(a, b) == [f EXCEPT !.started = a, !.first = b, !.ends = e]
    <3>2. \A a, b \in BOOLEAN : u(a, b) = v(a, b)
      OBVIOUS
    <3>3. e \in {0, 1} /\ e = 1 - f.ends
      BY <3>1
    <3> HIDE DEF u, e
    <3>4. \A a, b \in BOOLEAN : v(a, b) \in Scanner /\ v(a, b).first = b /\ v(a, b).ends = e
            /\ v(a, b).at = f.at /\ v(a, b).state = f.state /\ v(a, b).word = f.word /\ v(a, b).cur = f.cur
            /\ v(a, b).delim = f.delim /\ v(a, b).cond = f.cond /\ v(a, b).dead = f.dead
      <4> TAKE a, b \in BOOLEAN
      <4>1. f \in Scanner
        BY <1>7
      <4>2. v(a, b) \in Scanner
        BY <4>1, <3>3 DEF Scanner
      <4>3. v(a, b).first = b /\ v(a, b).ends = e
        BY <4>1, <3>3 DEF Scanner
      <4>4. v(a, b).at = f.at /\ v(a, b).state = f.state /\ v(a, b).word = f.word /\ v(a, b).cur = f.cur
        BY <4>1, <3>3 DEF Scanner
      <4>5. v(a, b).delim = f.delim /\ v(a, b).cond = f.cond /\ v(a, b).dead = f.dead
        BY <4>1, <3>3 DEF Scanner
      <4> QED BY <4>2, <4>3, <4>4, <4>5
    <3> HIDE DEF v
    <3> QED BY <3>2, <3>3, <3>4
  <2> HIDE DEF u
  <2> QED BY <2>1
<1> HIDE DEF t
<1>9. /\ s' = t /\ eof' = eof /\ verdict' = verdict
      /\ win' \in Seq(Bytes) /\ Len(win') = Len(win) - n
      /\ Len(q) = n /\ \A i \in 1 .. n : q[i] = At(i)
      /\ readers' = [k \in Readers |-> ReadAll(k, readers[k], q)]
  BY <1>1, <1>2, <1>3, <1>5, ConsumesBytes
<1> HIDE DEF q
<1>10. \A i \in 1 .. n : q[i] = "semi"
  BY <1>2, <1>9 DEF IsDelimiter
<1>11. s'.cond = FALSE /\ s'.delim = n /\ s'.ends = 1 - s.ends /\ s'.dead = s.dead /\ s'.at = "rest"
      /\ s'.state = "code" /\ s'.word = "none" /\ s'.first /\ s'.cur = "none"
  BY <1>1, <1>2, <1>6, <1>7, <1>8, <1>9 DEF Keeps
<1>12. ASSUME NEW k \in Readers PROVE readers'[k] \in ReaderStates /\ Follows(k, readers[k])'
  <2> DEFINE r == readers[k]
             x == readers'[k]
  <2>1. r \in ReaderStates /\ x = ReadAll(k, r, q) /\ SameStatement(k, r) /\ SemisAreCode(r)
        /\ ReadsCode(k, r) /\ CodeStep(k, r, "semi", Read(k, r, "semi"))
    BY <1>1, <1>2, <1>4, <1>6, <1>9 DEF Skips
  <2>2. x = readers'[k]
    OBVIOUS
  <2> HIDE DEF r, x
  <2>3. r.delim = n /\ r.ends = s.ends /\ r.cond = FALSE /\ r.in = "code"
    BY <1>1, <1>2, <2>1 DEF SameStatement, ReadsCode, ReaderStates
  <2>4. r.semis = 0
    <3> SUFFICES ASSUME r.semis > 0 PROVE FALSE
      BY <2>1 DEF ReaderStates
    <3>1. PICK i \in 1 .. n - r.semis : Known(i, {"semi"})
      BY <2>1 DEF SemisAreCode
    <3>2. i \in 1 .. n
      BY <1>3, <2>1, <3>1 DEF ReaderStates
    <3> QED BY <1>2, <3>1, <3>2 DEF IsDelimiter, Known
  <2>5. Begins(k, r, FALSE, "semi", Read(k, r, "semi"))
    <3>1. r.pend # "version" /\ s.cond = FALSE
      BY <1>1, <1>2, <2>1 DEF ReadsCode, PendingIsCode, WordPends
    <3> QED BY <2>1, <3>1 DEF CodeStep, WordBytes
  <2>6. AfterSemis(n, r.ends, n, x)
    BY <1>3, <1>9, <1>10, <2>1, <2>3, <2>4, <2>5, ReadDelimiter
  <2>7. x \in ReaderStates /\ x.in = "code" /\ x.cond = FALSE /\ x.pend = "none" /\ ~x.bol
        /\ x.ends = 1 - r.ends /\ x.delim = n /\ x.semis = 0
    BY <2>6 DEF AfterSemis
  <2>8. ReadsCode(k, readers[k])'
    BY <1>11, <2>2, <2>7 DEF ReadsCode, PendingIsCode
  <2>9. SameStatement(k, readers[k])' /\ SemisAreCode(readers[k])'
    BY <1>11, <2>1, <2>2, <2>3, <2>7 DEF SameStatement, SemisAreCode
  <2> QED BY <2>2, <2>7, <2>8, <2>9 DEF Follows, Place
<1>13. ScannerOK'
  BY <1>11 DEF ScannerOK
<1>14. s' \in Scanner /\ (s'.dead => s'.cond) /\ Len(win') <= Len(win)
  BY <1>1, <1>2, <1>3, <1>8, <1>9, <1>11
<1> DEFINE g == [k \in Readers |-> ReadAll(k, readers[k], q)]
<1>15. readers' = [k \in Readers |-> g[k]]
  BY <1>9
<1> HIDE DEF g
<1> QED BY <1>9, <1>12, <1>13, <1>14, <1>15, InvAgain
----------------------------------------------------------------------------
(* The beginning of a line.                                                *)

(* Who is at the beginning of a line with the scanner. *)
LEMMA LineStartReaders ==
  ASSUME NEW k, NEW r, Place(k, r), SameStatement(k, r), ScannerOK, s.at \in {"bol", "indent"}
  PROVE  /\ ReadsLineStart(r) \/ Skips(r)
         /\ ReadsLineStart(r) => r.bol /\ r.pend = "none" /\ r.semis = 0 /\ r.in = "code"
         /\ s.state = "code" /\ s.word = "none"
BY DEF Place, SameStatement, ReadsLineStart, ReadsCode, ReadsQuote, ReadsComment, ReadsOpening, ReadsVersion,
   DropsLine, ReadsUse, ReadsArgument, ScannerOK

(* A reader that skips the version comment waits. *)
LEMMA StillSkips ==
  ASSUME NEW k \in Readers, readers' = readers,
         SameStatement(k, readers[k]), SemisAreCode(readers[k]), Skips(readers[k]), readers[k] \in ReaderStates,
         s.at \in {"bol", "indent"}, s'.at \in {"bol", "indent", "rest", "use"},
         s'.cond = s.cond, s'.delim = s.delim, s'.ends = s.ends
  PROVE  Follows(k, readers[k])'
<1> DEFINE r == readers[k]
<1>1. r = readers'[k] /\ r.in = "ml"
  BY DEF Skips
<1>2. SameStatement(k, r) /\ SemisAreCode(r) /\ Skips(r) /\ r \in ReaderStates
  OBVIOUS
<1>3. readers'[k] = r
  OBVIOUS
<1> HIDE DEF r
<1>4. ~r.new /\ ~r.bol /\ r.semis = 0
  BY <1>1, <1>2, InStatement
<1>5. Skips(readers[k])'
  BY <1>1, <1>2, <1>3 DEF Skips, StarIsText
<1>6. SameStatement(k, readers[k])' /\ SemisAreCode(readers[k])'
  BY <1>1, <1>2, <1>3, <1>4 DEF SameStatement, SemisAreCode
<1> QED BY <1>5, <1>6 DEF Follows, Place

(* The first byte of a line completes nothing. *)
LEMMA LineStartByte ==
  ASSUME NEW k, NEW r \in ReaderStates, NEW b \in Bytes,
         r.in = "code", r.pend = "none"
  PROVE  Begins(k, r, r.cond, b, Read(k, r, b))
<1>1. CompletesNothing(k, r.pend, b)
  BY DEF CompletesNothing, WordPends
<1> QED BY <1>1, ReadPlain

(* A line with a comment is dropped. *)
LEMMA DropLineKeeps ==
  ASSUME LexInv, verdict = "reading", DropLine
  PROVE  LexInv'
<1> DEFINE t == [s EXCEPT !.at = "skip"]
<1>1. /\ TypeOK /\ s \in Scanner /\ (s.dead => s.cond) /\ ScannerOK /\ s.cond \in BOOLEAN
      /\ Len(win) \in Nat /\ win \in Seq(Bytes)
      /\ \A k \in Readers : readers[k] \in ReaderStates
      /\ \A k \in Readers : SameStatement(k, readers[k]) /\ SemisAreCode(readers[k]) /\ Place(k, readers[k])
  BY Before
<1>2. CASE s.cond
  BY <1>2, RefuseKeeps DEF DropLine
<1>3. CASE ~s.cond
  <2>1. Consume(0, t) /\ s.at = "bol" /\ (At(1) = "hash" \/ DashComment(1))
    BY <1>3 DEF DropLine
  <2>2. DashComment(1) => Seen(3)
    <3> SUFFICES ASSUME DashComment(1) PROVE Seen(3)
      OBVIOUS
    <3>1. Need = 3
      BY <2>1 DEF DashComment, Need
    <3>2. Len(win) >= Need \/ eof
      BY DEF DropLine, Ready
    <3> QED BY <1>1, <3>1, <3>2 DEF Seen
  <2>3. t \in Scanner /\ Keeps(s, t) /\ t.at = "skip" /\ t.state = s.state /\ t.word = s.word
        /\ t.cur = s.cur /\ t.first = s.first
    BY <1>1 DEF Scanner, Keeps
  <2> HIDE DEF t
  <2>4. s' = t /\ win' = win /\ eof' = eof /\ readers' = readers
    BY <1>1, <2>1, ConsumesNothing
  <2>5. ~s'.cond /\ s'.delim = s.delim /\ s'.ends = s.ends /\ s'.dead = s.dead /\ s'.at = "skip"
        /\ s'.first = s.first /\ s'.cur = s.cur
    BY <1>3, <2>3, <2>4 DEF Keeps
  <2>6. s.state = "code" /\ s.word = "none"
    BY <1>1, <2>1 DEF ScannerOK
  <2>7. (DashComment(1) <=> DashComment(1)') /\ At(1)' = At(1) /\ (Seen(3) <=> Seen(3)')
    BY <2>4 DEF DashComment, At, Seen
  <2>8. ASSUME NEW k \in Readers PROVE Follows(k, readers[k])'
    <3> DEFINE r == readers[k]
    <3>1. readers'[k] = r
      BY <2>4
    <3>2. SameStatement(k, r) /\ SemisAreCode(r) /\ Place(k, r)
      BY <1>1
    <3> HIDE DEF r
    <3>3. ReadsLineStart(r) /\ r.pend = "none" /\ r.semis = 0
      BY <1>1, <1>3, <2>1, <3>2, LineStartReaders DEF Skips
    <3>4. DropsLine(readers[k])'
      BY <1>3, <2>1, <2>2, <2>5, <2>7, <3>1, <3>3 DEF DropsLine, ReadsLineStart
    <3>5. SameStatement(k, readers[k])' /\ SemisAreCode(readers[k])'
      BY <1>3, <2>5, <3>1, <3>2, <3>3 DEF SameStatement, SemisAreCode
    <3> QED BY <3>4, <3>5 DEF Follows, Place
  <2>9. ScannerOK'
    BY <2>3, <2>4, <2>5, <2>6 DEF ScannerOK
  <2>10. t.dead => t.cond
    BY <1>1, <2>3 DEF Keeps
  <2> QED BY <2>1, <2>3, <2>8, <2>9, <2>10, StepNone
<1> QED BY <1>2, <1>3

(* The spaces that begin a line are next. *)
LEMMA LeaveBolKeeps ==
  ASSUME LexInv, verdict = "reading", LeaveBol
  PROVE  LexInv'
<1> DEFINE t == [s EXCEPT !.at = "indent"]
<1>1. /\ TypeOK /\ s \in Scanner /\ (s.dead => s.cond) /\ ScannerOK /\ s.cond \in BOOLEAN
      /\ Len(win) \in Nat /\ win \in Seq(Bytes)
      /\ \A k \in Readers : readers[k] \in ReaderStates
      /\ \A k \in Readers : SameStatement(k, readers[k]) /\ SemisAreCode(readers[k]) /\ Place(k, readers[k])
  BY Before
<1>2. Consume(0, t) /\ s.at = "bol"
  BY DEF LeaveBol
<1>3. t \in Scanner /\ Keeps(s, t) /\ t.at = "indent" /\ t.state = s.state /\ t.word = s.word
      /\ t.cur = s.cur /\ t.first = s.first
  BY <1>1 DEF Scanner, Keeps
<1> HIDE DEF t
<1>4. s' = t /\ win' = win /\ eof' = eof /\ readers' = readers
  BY <1>1, <1>2, ConsumesNothing
<1>5. s'.cond = s.cond /\ s'.delim = s.delim /\ s'.ends = s.ends /\ s'.dead = s.dead /\ s'.at = "indent"
      /\ s'.first = s.first /\ s'.cur = s.cur
  BY <1>3, <1>4 DEF Keeps
<1>6. s.state = "code" /\ s.word = "none"
  BY <1>1, <1>2 DEF ScannerOK
<1>7. ASSUME NEW k \in Readers PROVE Follows(k, readers[k])'
  <2>1. CASE Skips(readers[k])
    BY <1>1, <1>2, <1>4, <1>5, <2>1, StillSkips
  <2> DEFINE r == readers[k]
  <2>2. readers'[k] = r
    BY <1>4
  <2>3. SameStatement(k, r) /\ SemisAreCode(r) /\ Place(k, r)
    BY <1>1
  <2>4. CASE ~Skips(r)
    <3> HIDE DEF r
    <3>1. ReadsLineStart(r) /\ r.pend = "none" /\ r.semis = 0
      BY <1>1, <1>2, <2>3, <2>4, LineStartReaders
    <3>2. ReadsLineStart(readers[k])'
      BY <1>5, <2>2, <3>1 DEF ReadsLineStart
    <3>3. SameStatement(k, readers[k])' /\ SemisAreCode(readers[k])'
      BY <1>5, <2>2, <2>3, <3>1 DEF SameStatement, SemisAreCode
    <3> QED BY <3>2, <3>3 DEF Follows, Place
  <2> QED BY <2>1, <2>4
<1>8. ScannerOK'
  BY <1>3, <1>4, <1>5, <1>6 DEF ScannerOK
<1>9. t.dead => t.cond
  BY <1>1, <1>3 DEF Keeps
<1> QED BY <1>2, <1>3, <1>7, <1>8, <1>9, StepNone

(* A space that begins a line. *)
LEMMA IndentKeeps ==
  ASSUME LexInv, verdict = "reading", Indent
  PROVE  LexInv'
<1>1. /\ TypeOK /\ s \in Scanner /\ (s.dead => s.cond) /\ ScannerOK /\ s.cond \in BOOLEAN
      /\ Len(win) \in Nat /\ win \in Seq(Bytes)
      /\ \A k \in Readers : readers[k] \in ReaderStates
      /\ \A k \in Readers : SameStatement(k, readers[k]) /\ SemisAreCode(readers[k]) /\ Place(k, readers[k])
  BY Before
<1>2. Consume(1, s) /\ s.at = "indent" /\ At(1) = "sp"
  BY DEF Indent
<1>3. 1 <= Len(win)
  BY <1>1, <1>2 DEF At
<1>4. s' = s /\ readers' = [k \in Readers |-> Read(k, readers[k], At(1))] /\ At(1) \in Bytes
  BY <1>1, <1>2, <1>3, ConsumesOne
<1>5. ASSUME NEW k \in Readers PROVE readers'[k] \in ReaderStates /\ Follows(k, readers[k])'
  <2> DEFINE r == readers[k]
             x == readers'[k]
  <2>1. r \in ReaderStates /\ x = Read(k, r, At(1)) /\ SameStatement(k, r) /\ SemisAreCode(r) /\ Place(k, r)
    BY <1>1, <1>4
  <2>2. x = readers'[k]
    OBVIOUS
  <2> HIDE DEF r, x
  <2>3. CASE Skips(r)
    <3>1. x \in ReaderStates /\ Follows(k, readers[k])'
      BY <1>1, <1>2, <1>4, <2>1, <2>2, <2>3, SkippedByte
    <3> QED BY <2>2, <3>1
  <2>4. CASE ~Skips(r)
    <3>1. ReadsLineStart(r) /\ r.bol /\ r.pend = "none" /\ r.semis = 0 /\ r.in = "code"
      BY <1>1, <1>2, <2>1, <2>4, LineStartReaders
    <3>2. Begins(k, r, r.cond, "sp", x)
      BY <1>2, <1>4, <2>1, <3>1, LineStartByte
    <3>3. x \in ReaderStates /\ x.in = "code" /\ x.cond = r.cond /\ x.pend = "none" /\ x.bol /\ (x.new => r.new)
          /\ x.ends = r.ends /\ x.delim = r.delim /\ x.semis = 0
      BY <3>1, <3>2 DEF Begins, Ends, Quotes, Space
    <3>4. ReadsLineStart(readers[k])'
      BY <1>4, <2>2, <3>1, <3>3 DEF ReadsLineStart
    <3>5. SameStatement(k, readers[k])' /\ SemisAreCode(readers[k])'
      BY <1>4, <2>1, <2>2, <3>1, <3>3 DEF SameStatement, SemisAreCode
    <3> QED BY <2>2, <3>3, <3>4, <3>5 DEF Follows, Place
  <2> QED BY <2>3, <2>4
<1>6. ScannerOK'
  BY <1>1, <1>4 DEF ScannerOK
<1> QED BY <1>1, <1>2, <1>3, <1>5, <1>6, StepOne

(* The first word of a line is "use": clients read its argument. *)
LEMMA UseBegins ==
  ASSUME LexInv, verdict = "reading", LineWord, IsLineWord("use")
  PROVE  LexInv'
<1> DEFINE t == [s EXCEPT !.at = "use"]
<1>1. /\ TypeOK /\ s \in Scanner /\ (s.dead => s.cond) /\ ScannerOK /\ s.cond \in BOOLEAN
      /\ Len(win) \in Nat /\ win \in Seq(Bytes)
      /\ \A k \in Readers : readers[k] \in ReaderStates
      /\ \A k \in Readers : SameStatement(k, readers[k]) /\ SemisAreCode(readers[k]) /\ Place(k, readers[k])
  BY Before
<1>2. Consume(1, t) /\ s.at = "indent" /\ At(1) = "use" /\ At(2) \notin WordBytes
  BY DEF LineWord, IsLineWord
<1>3. 1 <= Len(win)
  BY <1>1, <1>2 DEF At
<1>4. Seen(2)
  <2>1. Need = 2
    BY <1>2 DEF Need, Quotes
  <2>2. Len(win) >= Need \/ eof
    BY DEF LineWord, Ready
  <2> QED BY <1>1, <2>1, <2>2 DEF Seen
<1>5. t \in Scanner /\ Keeps(s, t) /\ t.at = "use" /\ t.state = s.state /\ t.word = s.word
      /\ t.cur = s.cur /\ t.first = s.first
  BY <1>1 DEF Scanner, Keeps
<1> HIDE DEF t
<1>6. s' = t /\ readers' = [k \in Readers |-> Read(k, readers[k], At(1))] /\ At(1) \in Bytes /\ Shift1
  BY <1>1, <1>2, <1>3, ConsumesOne
<1>7. s'.cond = s.cond /\ s'.delim = s.delim /\ s'.ends = s.ends /\ s'.dead = s.dead /\ s'.at = "use"
      /\ s'.first = s.first /\ s'.cur = s.cur /\ Known(1, WordBytes)'
  BY <1>2, <1>4, <1>5, <1>6 DEF Keeps, Shift1, Known
<1>8. s.state = "code" /\ s.word = "none"
  BY <1>1, <1>2 DEF ScannerOK
<1>9. ASSUME NEW k \in Readers PROVE readers'[k] \in ReaderStates /\ Follows(k, readers[k])'
  <2> DEFINE r == readers[k]
             x == readers'[k]
  <2>1. r \in ReaderStates /\ x = Read(k, r, At(1)) /\ SameStatement(k, r) /\ SemisAreCode(r) /\ Place(k, r)
    BY <1>1, <1>6
  <2>2. x = readers'[k]
    OBVIOUS
  <2> HIDE DEF r, x
  <2>3. CASE Skips(r)
    <3>1. x \in ReaderStates /\ Follows(k, readers[k])'
      BY <1>1, <1>2, <1>6, <1>7, <2>1, <2>2, <2>3, SkippedByte
    <3> QED BY <2>2, <3>1
  <2>4. CASE ~Skips(r)
    <3>1. ReadsLineStart(r) /\ r.bol /\ r.pend = "none" /\ r.semis = 0 /\ r.in = "code"
      BY <1>1, <1>2, <2>1, <2>4, LineStartReaders
    <3>2. Begins(k, r, r.cond, "use", x)
      BY <1>2, <1>6, <2>1, <3>1, LineStartByte
    <3>3. x \in ReaderStates /\ x.in = "code" /\ x.cond = r.cond /\ x.pend = "use" /\ ~x.bol /\ ~x.new
          /\ x.ends = r.ends /\ x.delim = r.delim /\ x.semis = 0
      BY <3>1, <3>2 DEF Begins, Ends, Quotes, Space
    <3>4. ReadsUse(readers[k])'
      BY <1>7, <2>2, <3>1, <3>3 DEF ReadsUse, ReadsLineStart
    <3>5. SameStatement(k, readers[k])' /\ SemisAreCode(readers[k])'
      BY <1>7, <2>1, <2>2, <3>1, <3>3 DEF SameStatement, SemisAreCode
    <3> QED BY <2>2, <3>3, <3>4, <3>5 DEF Follows, Place
  <2> QED BY <2>3, <2>4
<1>10. ScannerOK'
  BY <1>1, <1>5, <1>6, <1>7, <1>8 DEF ScannerOK
<1>11. t.dead => t.cond
  BY <1>1, <1>5 DEF Keeps
<1> QED BY <1>2, <1>3, <1>5, <1>9, <1>10, <1>11, StepOne

(* It is DELIMITER: clients count the semicolons of its argument. *)
LEMMA DelimiterBegins ==
  ASSUME LexInv, verdict = "reading", LineWord, IsLineWord("delimiter"), At(2) = "sp", ~s.cond
  PROVE  LexInv'
<1> DEFINE u(b) == [s EXCEPT !.at = "delimiter", !.arg = 0, !.argDone = b]
           t == u(FALSE)
<1>1. /\ TypeOK /\ s \in Scanner /\ (s.dead => s.cond) /\ ScannerOK /\ s.cond \in BOOLEAN
      /\ Len(win) \in Nat /\ win \in Seq(Bytes)
      /\ \A k \in Readers : readers[k] \in ReaderStates
      /\ \A k \in Readers : SameStatement(k, readers[k]) /\ SemisAreCode(readers[k]) /\ Place(k, readers[k])
  BY Before
<1>2. Consume(1, t) /\ s.at = "indent" /\ At(1) = "delimiter"
  BY DEF LineWord, IsLineWord
<1>3. 1 <= Len(win) /\ 2 <= Len(win)
  BY <1>1, <1>2 DEF At
<1>4. Seen(2)
  BY <1>3 DEF Seen
<1>5. t \in Scanner /\ t.at = "delimiter" /\ t.arg = 0 /\ t.state = s.state /\ t.word = s.word
      /\ t.cur = s.cur /\ t.first = s.first /\ t.cond = s.cond /\ t.dead = s.dead /\ t.delim = s.delim
      /\ t.ends = s.ends
  <2>1. 0 \in 0 .. MaxDelimiter
    BY MaxDelimiterAssumption
  <2>2. \A b \in BOOLEAN : u(b) \in Scanner /\ u(b).at = "delimiter" /\ u(b).arg = 0 /\ u(b).state = s.state /\ u(b).word = s.word
          /\ u(b).cur = s.cur /\ u(b).first = s.first /\ u(b).cond = s.cond /\ u(b).dead = s.dead /\ u(b).delim = s.delim
          /\ u(b).ends = s.ends
    BY <1>1, <2>1 DEF Scanner
  <2> HIDE DEF u
  <2> QED BY <2>2
<1> HIDE DEF t
<1>6. s' = t /\ readers' = [k \in Readers |-> Read(k, readers[k], At(1))] /\ At(1) \in Bytes /\ Shift1
  BY <1>1, <1>2, <1>3, ConsumesOne
<1>7. ~s'.cond /\ s'.delim = s.delim /\ s'.ends = s.ends /\ s'.dead = s.dead /\ s'.at = "delimiter"
      /\ s'.arg = 0 /\ Seen(1)' /\ At(1)' = "sp"
  BY <1>4, <1>5, <1>6 DEF Shift1
<1>8. s.state = "code" /\ s.word = "none"
  BY <1>1, <1>2 DEF ScannerOK
<1>9. ASSUME NEW k \in Readers PROVE readers'[k] \in ReaderStates /\ Follows(k, readers[k])'
  <2> DEFINE r == readers[k]
             x == readers'[k]
  <2>1. r \in ReaderStates /\ x = Read(k, r, At(1)) /\ SameStatement(k, r) /\ SemisAreCode(r) /\ Place(k, r)
    BY <1>1, <1>6
  <2>2. x = readers'[k]
    OBVIOUS
  <2> HIDE DEF r, x
  <2>3. ReadsLineStart(r) /\ r.bol /\ r.pend = "none" /\ r.semis = 0 /\ r.in = "code"
    BY <1>1, <1>2, <2>1, LineStartReaders DEF Skips
  <2>4. Begins(k, r, r.cond, "delimiter", x)
    BY <1>2, <1>6, <2>1, <2>3, LineStartByte
  <2>5. x \in ReaderStates /\ x.in = "code" /\ ~x.cond /\ x.pend = "delimiter" /\ ~x.bol /\ ~x.new
        /\ x.ends = r.ends /\ x.delim = r.delim /\ x.semis = 0
    BY <2>3, <2>4 DEF Begins, Ends, Quotes, Space, ReadsLineStart
  <2>6. ReadsArgument(readers[k])'
    BY <1>7, <2>2, <2>5 DEF ReadsArgument
  <2>7. SameStatement(k, readers[k])' /\ SemisAreCode(readers[k])'
    BY <1>7, <2>1, <2>2, <2>3, <2>5 DEF SameStatement, SemisAreCode
  <2> QED BY <2>2, <2>5, <2>6, <2>7 DEF Follows, Place
<1>10. ScannerOK'
  BY <1>1, <1>5, <1>6, <1>7, <1>8 DEF ScannerOK
<1>11. t.dead => t.cond
  BY <1>1, <1>5
<1> QED BY <1>2, <1>3, <1>5, <1>9, <1>10, <1>11, StepOne

(* The line is code, and begins with none of the three. *)
LEMMA LineBegins ==
  ASSUME LexInv, verdict = "reading", LineWord, ~IsLineWord("system"), ~IsLineWord("use"),
         ~(IsLineWord("delimiter") /\ At(2) = "sp")
  PROVE  LexInv'
<1> DEFINE t == [s EXCEPT !.at = "rest"]
<1>1. /\ TypeOK /\ s \in Scanner /\ (s.dead => s.cond) /\ ScannerOK /\ s.cond \in BOOLEAN
      /\ Len(win) \in Nat /\ win \in Seq(Bytes)
      /\ \A k \in Readers : readers[k] \in ReaderStates
      /\ \A k \in Readers : SameStatement(k, readers[k]) /\ SemisAreCode(readers[k]) /\ Place(k, readers[k])
  BY Before
<1>2. Consume(0, t) /\ s.at = "indent" /\ win # <<>> /\ At(1) # "sp"
  BY DEF LineWord
<1>3. FirstByte
  <2>1. Len(win) >= Need \/ eof
    BY DEF LineWord, Ready
  <2>2. At(1) \in {"system", "use", "delimiter"} => Seen(2)
    <3>1. At(1) \in {"system", "use", "delimiter"} => Need = 2
      BY <1>2 DEF Need, Quotes
    <3> QED BY <1>1, <2>1, <3>1 DEF Seen
  <2>3. Seen(1)
    <3>1. Len(win) # 0
      BY <1>1, <1>2
    <3>2. \A n \in Nat : n # 0 => 1 <= n
      OBVIOUS
    <3> QED BY <1>1, <3>1, <3>2 DEF Seen
  <2>4. At(1) \in {"system", "use"} => At(2) \in WordBytes
    BY DEF IsLineWord
  <2>5. At(1) = "delimiter" => At(2) # "sp"
    BY DEF IsLineWord, WordBytes
  <2> QED BY <1>2, <2>2, <2>3, <2>4, <2>5 DEF FirstByte, Known
<1>4. t \in Scanner /\ Keeps(s, t) /\ t.at = "rest" /\ t.state = s.state /\ t.word = s.word
      /\ t.cur = s.cur /\ t.first = s.first
  BY <1>1 DEF Scanner, Keeps
<1> HIDE DEF t
<1>5. s' = t /\ win' = win /\ eof' = eof /\ readers' = readers
  BY <1>1, <1>2, ConsumesNothing
<1>6. s'.cond = s.cond /\ s'.delim = s.delim /\ s'.ends = s.ends /\ s'.dead = s.dead /\ s'.at = "rest"
      /\ s'.first = s.first /\ s'.cur = s.cur
  BY <1>4, <1>5 DEF Keeps
<1>7. s.state = "code" /\ s.word = "none"
  BY <1>1, <1>2 DEF ScannerOK
<1>8. s'.state = "code" /\ s'.word = "none"
  BY <1>4, <1>5, <1>7
<1>9. FirstByte'
  BY <1>3, <1>5 DEF FirstByte, Known, At, Seen
<1>10. ASSUME NEW k \in Readers PROVE Follows(k, readers[k])'
  <2>1. CASE Skips(readers[k])
    BY <1>1, <1>2, <1>5, <1>6, <2>1, StillSkips
  <2> DEFINE r == readers[k]
  <2>2. readers'[k] = r
    BY <1>5
  <2>3. SameStatement(k, r) /\ SemisAreCode(r) /\ Place(k, r) /\ r \in ReaderStates
    BY <1>1
  <2>4. CASE ~Skips(r)
    <3> HIDE DEF r
    <3>1. ReadsLineStart(r) /\ r.pend = "none" /\ r.semis = 0
      BY <1>1, <1>2, <2>3, <2>4, LineStartReaders
    <3>2. r.in = "code" /\ r.cond = s.cond
      BY <3>1 DEF ReadsLineStart
    <3>3. ReadsCode(k, readers[k])'
      BY <1>1, <1>6, <1>8, <1>9, <2>2, <3>1, <3>2 DEF ReadsCode, PendingIsCode
    <3>4. SameStatement(k, readers[k])' /\ SemisAreCode(readers[k])'
      BY <1>6, <2>2, <2>3, <3>1 DEF SameStatement, SemisAreCode
    <3> QED BY <3>3, <3>4 DEF Follows, Place
  <2> QED BY <2>1, <2>4
<1>11. ScannerOK'
  BY <1>1, <1>6, <1>8 DEF ScannerOK
<1>12. t.dead => t.cond
  BY <1>1, <1>4 DEF Keeps
<1> QED BY <1>2, <1>4, <1>10, <1>11, <1>12, StepNone

(* The first word of a line. *)
LEMMA LineWordKeeps ==
  ASSUME LexInv, verdict = "reading", LineWord
  PROVE  LexInv'
<1>1. CASE IsLineWord("system")
  BY <1>1, RefuseKeeps DEF LineWord, IsLineWord
<1>2. CASE IsLineWord("use")
  BY <1>2, UseBegins
<1>3. CASE IsLineWord("delimiter") /\ At(2) = "sp"
  <2>1. CASE s.cond
    BY <1>3, <2>1, RefuseKeeps DEF LineWord, IsLineWord
  <2> QED BY <1>3, <2>1, DelimiterBegins
<1> QED BY <1>1, <1>2, <1>3, LineBegins
----------------------------------------------------------------------------
(* The rest of a line.                                                     *)

(* Who drops the line with the scanner. *)
LEMMA LineReaders ==
  ASSUME NEW k, NEW r, Place(k, r)
  PROVE  /\ s.at \in {"skip", "lc"} => DropsLine(r)
         /\ s.at = "use" => ReadsUse(r) \/ Skips(r)
         /\ s.at = "delimiter" => ReadsArgument(r)
         /\ s.at = "open" => ReadsOpening(r)
         /\ s.at = "version" => ReadsVersion(r)
BY DEF Place, ReadsLineStart, ReadsCode, ReadsQuote, Skips, ReadsComment, ReadsOpening, ReadsVersion,
   DropsLine, ReadsUse, ReadsArgument

(* A byte of a line that is dropped. *)
LEMMA DroppedByte ==
  ASSUME LexInv, verdict = "reading", s.at \in {"skip", "lc"}, win # <<>>,
         Consume(1, [s EXCEPT !.at = IF At(1) = "nl" THEN "bol" ELSE s.at])
  PROVE  LexInv'
<1> DEFINE a == IF At(1) = "nl" THEN "bol" ELSE s.at
           t == [s EXCEPT !.at = a]
<1>1. /\ TypeOK /\ s \in Scanner /\ (s.dead => s.cond) /\ ScannerOK /\ s.cond \in BOOLEAN
      /\ Len(win) \in Nat /\ win \in Seq(Bytes)
      /\ \A k \in Readers : readers[k] \in ReaderStates
      /\ \A k \in Readers : SameStatement(k, readers[k]) /\ SemisAreCode(readers[k]) /\ Place(k, readers[k])
  BY Before
<1>2. 1 <= Len(win)
  <2>1. Len(win) # 0
    BY <1>1
  <2>2. \A n \in Nat : n # 0 => 1 <= n
    OBVIOUS
  <2> QED BY <1>1, <2>1, <2>2
<1>3. Consume(1, t) /\ a \in {"bol", "skip", "lc"} /\ a = IF At(1) = "nl" THEN "bol" ELSE s.at
  OBVIOUS
<1> HIDE DEF a
<1>4. t \in Scanner /\ Keeps(s, t) /\ t.at = a /\ t.state = s.state /\ t.word = s.word
      /\ t.cur = s.cur /\ t.first = s.first
  BY <1>1, <1>3 DEF Scanner, Keeps
<1> HIDE DEF t
<1>5. s.state = "code" /\ s.word = "none" /\ ~s.cond
  BY <1>1 DEF ScannerOK
<1>6. s' = t /\ readers' = [k \in Readers |-> Read(k, readers[k], At(1))] /\ At(1) \in Bytes /\ Shift1
  BY <1>1, <1>2, <1>3, ConsumesOne
<1>7. s'.cond = FALSE /\ s'.delim = s.delim /\ s'.ends = s.ends /\ s'.dead = s.dead /\ s'.at = a
      /\ s'.first = s.first /\ s'.cur = s.cur
  BY <1>1, <1>4, <1>5, <1>6 DEF Keeps
<1>8. ASSUME NEW k \in Readers PROVE readers'[k] \in ReaderStates /\ Follows(k, readers[k])'
  <2> DEFINE r == readers[k]
             x == readers'[k]
             b == At(1)
  <2>1. r \in ReaderStates /\ x = Read(k, r, b) /\ SameStatement(k, r) /\ SemisAreCode(r) /\ Place(k, r)
        /\ b \in Bytes
    BY <1>1, <1>6
  <2>2. x = readers'[k] /\ b = At(1)
    OBVIOUS
  <2> HIDE DEF r, x, b
  <2>3. DropsLine(r)
    BY <2>1, LineReaders
  <2>4. r.semis = 0 /\ r.cond = FALSE /\ r.in \in {"code", "lc"}
    BY <2>1, <2>3 DEF DropsLine, SemisAreCode, ReaderStates
  <2>5. r.in = "lc" \/ r.pend # "none" => ~r.bol
    BY <2>1 DEF SameStatement
  <2>6. /\ x \in ReaderStates /\ x.cond = FALSE /\ (x.new => r.new) /\ x.ends = r.ends /\ x.delim = r.delim
        /\ x.semis = 0 /\ x.pend \in {"none", "dash", "firstdash", "dashes"}
        /\ (x.new => x.pend = "none")
        /\ x.bol <=> b = "nl"
        /\ b = "nl" => x.in = "code" /\ x.pend = "none"
        /\ b # "nl" =>
             \/ x.in = "lc" /\ x.pend = "none"
             \/ x.in = "code" /\ x.pend = "dashes" /\ Seen(2) /\ At(2) \in Blank
             \/ s.at = "skip" /\ x.in = "code" /\ x.pend \in {"dash", "firstdash"}
                /\ Seen(3) /\ At(2) = "dash" /\ At(3) \in Blank
    <3>1. CASE r.in = "lc" /\ r.pend = "none"
      <4>1. CASE b = "nl"
        <5>1. Lines(r, x)
          BY <2>1, <3>1, <4>1, ReadInLine
        <5> QED BY <2>4, <3>1, <4>1, <5>1 DEF Lines
      <4>2. CASE b # "nl"
        <5>1. Goes(r, x, "lc", r.cond, r.pend)
          BY <2>1, <3>1, <4>2, ReadInLine
        <5> QED BY <2>4, <2>5, <3>1, <4>2, <5>1 DEF Goes
      <4> QED BY <4>1, <4>2
    <3>2. CASE r.in = "code" /\ r.pend = "dashes" /\ b \in Blank
      <4>1. ~r.new /\ ~r.bol
        BY <2>1, <3>2, InStatement
      <4>2. CASE b = "sp"
        <5>1. Goes(r, x, "lc", r.cond, "none")
          BY <2>1, <3>2, <4>2, ReadCompletes
        <5> QED BY <2>4, <4>1, <4>2, <5>1 DEF Goes
      <4>3. CASE b = "nl"
        <5>1. CompletesNothing(k, r.pend, b)
          BY <3>2, <4>3 DEF CompletesNothing, WordPends
        <5>2. Begins(k, r, r.cond, b, x)
          BY <2>1, <2>4, <3>2, <5>1, ReadPlain
        <5> QED BY <2>4, <4>1, <4>3, <5>2 DEF Begins, Ends, Quotes, Space
      <4> QED BY <2>1, <3>2, <4>2, <4>3 DEF Blank, Space, Bytes, Quotes, WordBytes
    <3>3. CASE s.at = "skip" /\ r.in = "code" /\ r.pend \in {"dash", "firstdash"} /\ Seen(2) /\ b = "dash" /\ At(2) \in Blank
      <4>1. ~r.new /\ ~r.bol
        BY <2>1, <3>3, InStatement
      <4>2. r.pend = "firstdash" => Goes(r, x, "lc", r.cond, "none")
        BY <2>1, <3>3, ReadCompletes
      <4>3. r.pend = "dash" => Goes(r, x, "code", r.cond, "dashes")
        BY <2>1, <3>3, ReadCompletes
      <4> QED BY <2>4, <3>3, <4>1, <4>2, <4>3 DEF Goes
    <3>4. CASE s.at = "skip" /\ r.in = "code" /\ r.pend = "none" /\ (b = "hash" \/ (Seen(3) /\ DashComment(1)))
      <4>1. Begins(k, r, r.cond, b, x)
        BY <2>1, <3>4, LineStartByte
      <4>2. CASE b = "hash"
        BY <2>4, <3>4, <4>1, <4>2 DEF Begins, Ends, Quotes, Space
      <4>3. CASE Seen(3) /\ DashComment(1)
        <5>1. b = "dash" /\ At(2) = "dash" /\ At(3) \in Blank
          BY <2>2, <4>3 DEF DashComment, Blank
        <5> QED BY <2>4, <3>4, <4>1, <4>3, <5>1 DEF Begins, Ends, Quotes, Space
      <4> QED BY <3>4, <4>2, <4>3
    <3> QED BY <2>2, <2>3, <3>1, <3>2, <3>3, <3>4 DEF DropsLine
  <2>7. SameStatement(k, readers[k])' /\ SemisAreCode(readers[k])'
    BY <1>5, <1>7, <2>1, <2>2, <2>4, <2>6 DEF SameStatement, SemisAreCode
  <2>8. CASE b = "nl"
    <3>1. ReadsLineStart(readers[k])'
      BY <1>3, <1>7, <2>2, <2>6, <2>8 DEF ReadsLineStart
    <3> QED BY <2>2, <2>6, <2>7, <3>1 DEF Follows, Place
  <2>9. CASE b # "nl"
    <3>1. s'.at = s.at
      BY <1>3, <1>7, <2>2, <2>9
    <3>2. DropsLine(readers[k])'
      BY <1>6, <1>7, <2>2, <2>6, <2>9, <3>1 DEF DropsLine, Shift1
    <3> QED BY <2>2, <2>6, <2>7, <3>2 DEF Follows, Place
  <2> QED BY <2>8, <2>9
<1>9. ScannerOK'
  BY <1>4, <1>5, <1>6, <1>7 DEF ScannerOK
<1>10. t.dead => t.cond
  BY <1>1, <1>4 DEF Keeps
<1> QED BY <1>2, <1>3, <1>4, <1>8, <1>9, <1>10, StepOne

(* skipLine and lineComment. *)
LEMMA SkipLineKeeps ==
  ASSUME LexInv, verdict = "reading", SkipLine \/ InLineComment
  PROVE  LexInv'
<1>1. CASE SkipLine
  <2>1. s.at = "skip" /\ win # <<>> /\ Consume(1, [s EXCEPT !.at = IF At(1) = "nl" THEN "bol" ELSE s.at])
    BY <1>1 DEF SkipLine
  <2> QED BY <2>1, DroppedByte
<1>2. CASE InLineComment
  <2>1. s.at = "lc" /\ win # <<>> /\ Consume(1, [s EXCEPT !.at = IF At(1) = "nl" THEN "bol" ELSE s.at])
    BY <1>2 DEF InLineComment
  <2> QED BY <2>1, DroppedByte
<1> QED BY <1>1, <1>2

(* readLine for use. *)
LEMMA UseLineKeeps ==
  ASSUME LexInv, verdict = "reading", UseLine
  PROVE  LexInv'
<1> DEFINE a == IF At(1) = "nl" THEN "bol" ELSE "use"
           t == [s EXCEPT !.at = a]
<1>1. /\ TypeOK /\ s \in Scanner /\ (s.dead => s.cond) /\ ScannerOK /\ s.cond \in BOOLEAN
      /\ Len(win) \in Nat /\ win \in Seq(Bytes)
      /\ \A k \in Readers : readers[k] \in ReaderStates
      /\ \A k \in Readers : SameStatement(k, readers[k]) /\ SemisAreCode(readers[k]) /\ Place(k, readers[k])
  BY Before
<1>2. CASE Refuse
  BY <1>2, RefuseKeeps
<1>3. CASE At(1) \in WordBytes \cup Space \cup Quotes \cup {"semi"} /\ Consume(1, t)
  <2>1. s.at = "use" /\ At(1) \notin {"eof", "star"}
    BY <1>3 DEF UseLine, WordBytes, Space, Quotes
  <2>2. 1 <= Len(win)
    BY <1>1, <2>1 DEF At
  <2>3. Consume(1, t) /\ a \in {"bol", "use"} /\ a = IF At(1) = "nl" THEN "bol" ELSE "use"
    BY <1>3
  <2> HIDE DEF a
  <2>4. t \in Scanner /\ Keeps(s, t) /\ t.at = a /\ t.state = s.state /\ t.word = s.word
        /\ t.cur = s.cur /\ t.first = s.first
    BY <1>1, <2>3 DEF Scanner, Keeps
  <2> HIDE DEF t
  <2>5. s.state = "code" /\ s.word = "none"
    BY <1>1, <2>1 DEF ScannerOK
  <2>6. s' = t /\ readers' = [k \in Readers |-> Read(k, readers[k], At(1))] /\ At(1) \in Bytes
    BY <1>1, <2>2, <2>3, ConsumesOne
  <2>7. s'.cond = s.cond /\ s'.delim = s.delim /\ s'.ends = s.ends /\ s'.dead = s.dead /\ s'.at = a
        /\ s'.first = s.first /\ s'.cur = s.cur
    BY <2>4, <2>6 DEF Keeps
  <2>8. ASSUME NEW k \in Readers PROVE readers'[k] \in ReaderStates /\ Follows(k, readers[k])'
    <3> DEFINE r == readers[k]
               x == readers'[k]
               b == At(1)
    <3>1. r \in ReaderStates /\ x = Read(k, r, At(1)) /\ SameStatement(k, r) /\ SemisAreCode(r) /\ Place(k, r)
      BY <1>1, <2>6
    <3>2. x = readers'[k]
      OBVIOUS
    <3> HIDE DEF r, x
    <3>3. CASE Skips(r)
      <4>1. s'.at \in {"bol", "indent", "rest", "use"}
        BY <2>3, <2>7
      <4>2. x \in ReaderStates /\ Follows(k, readers[k])'
        BY <1>1, <2>1, <2>6, <2>7, <3>1, <3>2, <3>3, <4>1, SkippedByte
      <4> QED BY <3>2, <4>2
    <3>4. CASE ReadsUse(r)
      <4>1. b \in Bytes /\ x = Read(k, r, b) /\ b = At(1)
        BY <2>6, <3>1
      <4> HIDE DEF b
      <4>2. r.semis = 0 /\ ~r.bol /\ r.cond = s.cond /\ r.in # "argument" /\ r.in # "ml"
        BY <3>1, <3>4 DEF ReadsUse, SemisAreCode, SameStatement, ReaderStates
      <4>3. /\ x \in ReaderStates /\ x.cond = s.cond /\ (x.new => r.new) /\ x.ends = r.ends /\ x.delim = r.delim
            /\ x.semis = 0 /\ x.pend = "none" /\ (x.bol <=> b = "nl")
            /\ x.in = IF b = "nl" THEN "code" ELSE "lc"
        <5>1. CASE r.in = "lc" /\ r.pend = "none"
          <6>1. CASE b = "nl"
            <7>1. Lines(r, x)
              BY <3>1, <4>1, <5>1, <6>1, ReadInLine
            <7> QED BY <4>2, <5>1, <6>1, <7>1 DEF Lines
          <6>2. CASE b # "nl"
            <7>1. Goes(r, x, "lc", r.cond, r.pend)
              BY <3>1, <4>1, <5>1, <6>2, ReadInLine
            <7> QED BY <4>2, <5>1, <6>2, <7>1 DEF Goes
          <6> QED BY <6>1, <6>2
        <5>2. CASE r.in = "code" /\ r.pend = "use" /\ b \notin WordBytes
          <6>1. CASE b = "nl"
            <7>1. CompletesNothing(k, r.pend, b)
              BY <5>2, <6>1 DEF CompletesNothing, WordPends
            <7>2. Begins(k, r, r.cond, b, x)
              BY <3>1, <4>1, <5>2, <7>1, ReadPlain
            <7> QED BY <4>2, <6>1, <7>2 DEF Begins, Ends, Quotes, Space
          <6>2. CASE b # "nl"
            <7>1. Goes(r, x, "lc", r.cond, "none")
              BY <3>1, <4>1, <5>2, <6>2, ReadCompletes
            <7> QED BY <4>2, <6>2, <7>1 DEF Goes
          <6> QED BY <6>1, <6>2
        <5> QED BY <3>4, <4>1, <5>1, <5>2 DEF ReadsUse, Known
      <4>4. ReadsLineStart(readers[k])' \/ ReadsUse(readers[k])'
        BY <2>3, <2>7, <3>2, <4>1, <4>3 DEF ReadsLineStart, ReadsUse
      <4>5. SameStatement(k, readers[k])' /\ SemisAreCode(readers[k])'
        BY <2>7, <3>1, <3>2, <4>2, <4>3 DEF SameStatement, SemisAreCode
      <4> QED BY <3>2, <4>3, <4>4, <4>5 DEF Follows, Place
    <3> QED BY <2>1, <3>1, <3>3, <3>4, LineReaders
  <2>9. ScannerOK'
    BY <1>1, <2>3, <2>4, <2>5, <2>6, <2>7 DEF ScannerOK
  <2>10. t.dead => t.cond
    BY <1>1, <2>4 DEF Keeps
  <2> QED BY <2>2, <2>3, <2>4, <2>8, <2>9, <2>10, StepOne
<1> QED BY <1>2, <1>3 DEF UseLine

(* A byte of the argument of DELIMITER. *)
LEMMA ArgumentByte ==
  ASSUME LexInv, verdict = "reading", s.at = "delimiter", At(1) \in {"semi", "sp"},
         NEW t \in Scanner, Consume(1, t), t.at = "delimiter",
         t.state = s.state, t.word = s.word, t.cond = s.cond, t.dead = s.dead, t.delim = s.delim, t.ends = s.ends,
         t.arg = IF At(1) = "semi" THEN s.arg + 1 ELSE s.arg
  PROVE  LexInv'
<1>1. /\ TypeOK /\ s \in Scanner /\ (s.dead => s.cond) /\ ScannerOK /\ s.cond \in BOOLEAN
      /\ Len(win) \in Nat /\ win \in Seq(Bytes)
      /\ \A k \in Readers : readers[k] \in ReaderStates
      /\ \A k \in Readers : SameStatement(k, readers[k]) /\ SemisAreCode(readers[k]) /\ Place(k, readers[k])
  BY Before
<1>2. 1 <= Len(win)
  BY <1>1 DEF At
<1>3. s' = t /\ readers' = [k \in Readers |-> Read(k, readers[k], At(1))] /\ At(1) \in Bytes
  BY <1>1, <1>2, ConsumesOne
<1>4. ASSUME NEW k \in Readers PROVE readers'[k] \in ReaderStates /\ Follows(k, readers[k])'
  <2> DEFINE r == readers[k]
             x == readers'[k]
             b == At(1)
  <2>1. r \in ReaderStates /\ x = Read(k, r, b) /\ SameStatement(k, r) /\ SemisAreCode(r) /\ Place(k, r) /\ b \in Bytes
    BY <1>1, <1>3
  <2>2. x = readers'[k] /\ b = At(1)
    OBVIOUS
  <2> HIDE DEF r, x, b
  <2>3. ReadsArgument(r)
    BY <2>1, LineReaders
  <2>4. ~r.new /\ ~r.bol /\ r.semis = 0
    <3>1. r.in \notin {"code", "lc"} \/ r.pend # "none"
      BY <2>3 DEF ReadsArgument
    <3> QED BY <2>1, <3>1, InStatement
  <2>5. Counts(r, x, t.arg)
    <3>1. CASE r.in = "argument" /\ r.pend = "none" /\ r.delim = s.arg
      BY <2>1, <2>2, <3>1, ReadArgument
    <3>2. CASE r.in = "code" /\ r.pend = "delimiter" /\ s.arg = 0 /\ b = "sp"
      BY <2>1, <2>2, <3>2, ReadArgument
    <3> QED BY <2>2, <2>3, <3>1, <3>2 DEF ReadsArgument
  <2>6. ReadsArgument(readers[k])'
    BY <1>3, <2>2, <2>3, <2>5 DEF ReadsArgument, Counts
  <2>7. SameStatement(k, readers[k])' /\ SemisAreCode(readers[k])'
    BY <1>3, <2>1, <2>2, <2>3, <2>4, <2>5 DEF SameStatement, SemisAreCode, Counts, ReadsArgument
  <2> QED BY <2>2, <2>5, <2>6, <2>7 DEF Follows, Place, Counts
<1>5. ScannerOK'
  BY <1>1, <1>3 DEF ScannerOK
<1> QED BY <1>1, <1>2, <1>4, <1>5, StepOne

(* The delimiter is set. *)
LEMMA DelimiterSet ==
  ASSUME LexInv, verdict = "reading", s.at = "delimiter", At(1) = "nl", CanSetDelimiter,
         NEW t \in Scanner, Consume(1, t), t.at = "bol",
         t.state = s.state, t.word = s.word, t.cond = s.cond, t.dead = s.dead, t.delim = s.arg, t.ends = s.ends
  PROVE  LexInv'
<1>1. /\ TypeOK /\ s \in Scanner /\ (s.dead => s.cond) /\ ScannerOK /\ s.cond \in BOOLEAN
      /\ Len(win) \in Nat /\ win \in Seq(Bytes)
      /\ \A k \in Readers : readers[k] \in ReaderStates
      /\ \A k \in Readers : SameStatement(k, readers[k]) /\ SemisAreCode(readers[k]) /\ Place(k, readers[k])
  BY Before
<1>2. 1 <= Len(win)
  BY <1>1 DEF At
<1>3. s' = t /\ readers' = [k \in Readers |-> Read(k, readers[k], At(1))] /\ At(1) \in Bytes
  BY <1>1, <1>2, ConsumesOne
<1>4. s.cond = FALSE
  BY <1>1 DEF ScannerOK
<1>5. ASSUME NEW k \in Readers PROVE readers'[k] \in ReaderStates /\ Follows(k, readers[k])'
  <2> DEFINE r == readers[k]
             x == readers'[k]
  <2>1. r \in ReaderStates /\ x = Read(k, r, At(1)) /\ SameStatement(k, r) /\ SemisAreCode(r) /\ Place(k, r)
    BY <1>1, <1>3
  <2>2. x = readers'[k]
    OBVIOUS
  <2> HIDE DEF r, x
  <2>3. ReadsArgument(r)
    BY <2>1, LineReaders
  <2>4. r.in = "argument" /\ r.pend = "none" /\ r.delim = s.arg /\ r.cond = FALSE
    BY <2>1, <2>3 DEF ReadsArgument, ReaderStates
  <2>5. ~r.new /\ ~r.bol /\ r.semis = 0
    <3>1. r.in \notin {"code", "lc"}
      BY <2>4
    <3> QED BY <2>1, <3>1, InStatement
  <2>6. Lines(r, x)
    BY <1>3, <2>1, <2>4, ReadArgument
  <2>7. ReadsLineStart(readers[k])'
    BY <1>3, <1>4, <2>2, <2>4, <2>6 DEF ReadsLineStart, Lines
  <2>8. SameStatement(k, readers[k])' /\ SemisAreCode(readers[k])'
    BY <1>1, <1>3, <1>4, <2>1, <2>2, <2>4, <2>5, <2>6 DEF SameStatement, SemisAreCode, Lines
  <2> QED BY <2>2, <2>6, <2>7, <2>8 DEF Follows, Place, Lines
<1>6. ScannerOK'
  BY <1>1, <1>3 DEF ScannerOK
<1> QED BY <1>1, <1>2, <1>5, <1>6, StepOne

(* readLine and setDelimiter. *)
LEMMA DelimiterLineKeeps ==
  ASSUME LexInv, verdict = "reading", DelimiterLine
  PROVE  LexInv'
<1>1. s \in Scanner /\ s.at = "delimiter" /\ s.arg \in Nat
  BY MaxDelimiterAssumption DEF LexInv, TypeOK, DelimiterLine, Scanner
<1>2. CASE At(1) = "semi" /\ ~s.argDone /\ s.arg < MaxDelimiter
  <2> DEFINE a == s.arg + 1
             t == [s EXCEPT !.arg = a]
  <2>1. Consume(1, t)
    BY <1>2 DEF DelimiterLine
  <2>2. a \in 0 .. MaxDelimiter
    BY <1>1, <1>2, MaxDelimiterAssumption
  <2> HIDE DEF a
  <2>3. t \in Scanner /\ t.at = s.at /\ t.state = s.state /\ t.word = s.word
        /\ t.cond = s.cond /\ t.dead = s.dead /\ t.delim = s.delim /\ t.ends = s.ends /\ t.arg = a
    BY <1>1, <2>2 DEF Scanner
  <2> HIDE DEF t
  <2> QED BY <1>1, <1>2, <2>1, <2>3, ArgumentByte DEF a
<1>3. CASE At(1) = "sp"
  <2> DEFINE v == s.arg > 0
             t == [s EXCEPT !.argDone = v]
  <2>1. Consume(1, t)
    BY <1>3 DEF DelimiterLine
  <2>2. v \in BOOLEAN
    OBVIOUS
  <2> HIDE DEF v
  <2>3. t \in Scanner /\ t.at = s.at /\ t.state = s.state /\ t.word = s.word
        /\ t.cond = s.cond /\ t.dead = s.dead /\ t.delim = s.delim /\ t.ends = s.ends /\ t.arg = s.arg
    BY <1>1, <2>2 DEF Scanner
  <2> HIDE DEF t
  <2> QED BY <1>1, <1>3, <2>1, <2>3, ArgumentByte
<1>4. CASE At(1) = "nl" /\ CanSetDelimiter
  <2> DEFINE u(b) == [s EXCEPT !.at = "bol", !.delim = s.arg, !.arg = 0, !.argDone = b]
             t == u(FALSE)
  <2>1. Consume(1, t)
    BY <1>4 DEF DelimiterLine
  <2>2. s.arg \in 1 .. MaxDelimiter /\ 0 \in 0 .. MaxDelimiter
    BY <1>1, <1>4, MaxDelimiterAssumption DEF CanSetDelimiter, Scanner
  <2>3. \A b \in BOOLEAN : u(b) \in Scanner /\ u(b).at = "bol" /\ u(b).state = s.state /\ u(b).word = s.word
        /\ u(b).cond = s.cond /\ u(b).dead = s.dead /\ u(b).delim = s.arg /\ u(b).ends = s.ends
    BY <1>1, <2>2 DEF Scanner
  <2> HIDE DEF u
  <2>4. t \in Scanner /\ t.at = "bol" /\ t.state = s.state /\ t.word = s.word
        /\ t.cond = s.cond /\ t.dead = s.dead /\ t.delim = s.arg /\ t.ends = s.ends
    BY <2>3
  <2> HIDE DEF t
  <2> QED BY <1>1, <1>4, <2>1, <2>4, DelimiterSet
<1>5. CASE ~(At(1) = "semi" /\ ~s.argDone /\ s.arg < MaxDelimiter) /\ At(1) # "sp" /\ ~(At(1) = "nl" /\ CanSetDelimiter)
  BY <1>5, RefuseKeeps DEF DelimiterLine
<1> QED BY <1>2, <1>3, <1>4, <1>5
----------------------------------------------------------------------------
(* Comments.                                                               *)

(* A reader that does not know /*M! skips what the others will run. *)
LEMMA VersionOpens ==
  ASSUME LexInv, verdict = "reading", s.at = "open",
         NEW k \in Readers, NEW r, r = readers[k], NEW x, x = readers'[k],
         r \in ReaderStates, SameStatement(k, r), SemisAreCode(r), ReadsOpening(r),
         s'.at = "version", s'.delim = s.delim, s'.ends = s.ends, s'.dead = s.dead,
         Goes(r, x, "code", r.cond, "version") \/ Goes(r, x, "ml", r.cond, "none")
  PROVE  x \in ReaderStates /\ Follows(k, readers[k])'
<1>1. r.pend # "none" /\ ~r.cond /\ r.in = "code"
  BY DEF ReadsOpening
<1>2. ~r.new /\ ~r.bol /\ r.semis = 0
  BY <1>1, InStatement
<1>3. ReadsVersion(readers[k])'
  BY <1>1 DEF ReadsVersion, Goes
<1>4. SameStatement(k, readers[k])' /\ SemisAreCode(readers[k])'
  BY <1>1, <1>2 DEF SameStatement, SemisAreCode, Goes
<1> QED BY <1>3, <1>4 DEF Follows, Place, Goes

(* openComment: a version comment. *)
LEMMA VersionComment ==
  ASSUME LexInv, verdict = "reading", s.at = "open",
         \/ At(1) = "bang" /\ Consume(1, [s EXCEPT !.at = "version"])
         \/ At(1) = "M" /\ At(2) = "bang" /\ Consume(2, [s EXCEPT !.at = "version"])
  PROVE  LexInv'
<1> DEFINE t == [s EXCEPT !.at = "version"]
<1>1. /\ TypeOK /\ s \in Scanner /\ (s.dead => s.cond) /\ ScannerOK /\ s.cond \in BOOLEAN
      /\ Len(win) \in Nat /\ win \in Seq(Bytes)
      /\ \A k \in Readers : readers[k] \in ReaderStates
      /\ \A k \in Readers : SameStatement(k, readers[k]) /\ SemisAreCode(readers[k]) /\ Place(k, readers[k])
  BY Before
<1>2. t \in Scanner /\ Keeps(s, t) /\ t.at = "version" /\ t.state = s.state /\ t.word = s.word
  BY <1>1 DEF Scanner, Keeps
<1>3. \/ At(1) = "bang" /\ Consume(1, t)
      \/ At(1) = "M" /\ At(2) = "bang" /\ Consume(2, t)
  OBVIOUS
<1> HIDE DEF t
<1>4. s.state = "code" /\ s.word = "none" /\ ~s.cond
  BY <1>1 DEF ScannerOK
<1>5. t.dead => t.cond
  BY <1>1, <1>2 DEF Keeps
<1>6. s' = t => ScannerOK' /\ s'.at = "version" /\ s'.delim = s.delim /\ s'.ends = s.ends /\ s'.dead = s.dead
  BY <1>2, <1>4 DEF ScannerOK, Keeps
<1>7. CASE At(1) = "bang" /\ Consume(1, t)
  <2>1. 1 <= Len(win)
    BY <1>1, <1>7 DEF At
  <2>2. s' = t /\ readers' = [k \in Readers |-> Read(k, readers[k], At(1))] /\ At(1) \in Bytes
    BY <1>1, <1>7, <2>1, ConsumesOne
  <2>3. ASSUME NEW k \in Readers PROVE readers'[k] \in ReaderStates /\ Follows(k, readers[k])'
    <3> DEFINE r == readers[k]
               x == readers'[k]
    <3>1. r \in ReaderStates /\ x = Read(k, r, At(1)) /\ SameStatement(k, r) /\ SemisAreCode(r) /\ ReadsOpening(r)
      BY <1>1, <2>2, LineReaders
    <3>2. x = readers'[k] /\ r = readers[k]
      OBVIOUS
    <3> HIDE DEF r, x
    <3>3. Goes(r, x, "code", r.cond, "version")
      BY <1>7, <2>2, <3>1, ReadOpened DEF ReadsOpening
    <3>4. x \in ReaderStates /\ Follows(k, readers[k])'
      BY <1>6, <2>2, <3>1, <3>2, <3>3, VersionOpens
    <3> QED BY <3>2, <3>4
  <2> QED BY <1>2, <1>5, <1>6, <1>7, <2>1, <2>2, <2>3, StepOne
<1>8. CASE At(1) = "M" /\ At(2) = "bang" /\ Consume(2, t)
  <2>1. 2 <= Len(win)
    BY <1>1, <1>8 DEF At
  <2>2. s' = t /\ readers' = [k \in Readers |-> Read(k, Read(k, readers[k], At(1)), At(2))]
        /\ At(1) \in Bytes /\ At(2) \in Bytes
    BY <1>1, <1>8, <2>1, ConsumesTwo
  <2>3. ASSUME NEW k \in Readers PROVE readers'[k] \in ReaderStates /\ Follows(k, readers[k])'
    <3> DEFINE r == readers[k]
               y == Read(k, r, At(1))
               x == readers'[k]
    <3>1. r \in ReaderStates /\ x = Read(k, y, At(2)) /\ SameStatement(k, r) /\ SemisAreCode(r) /\ ReadsOpening(r)
      BY <1>1, <2>2, LineReaders
    <3>2. x = readers'[k] /\ r = readers[k] /\ y = Read(k, r, At(1))
      OBVIOUS
    <3> HIDE DEF r, x, y
    <3>3. r.in = "code" /\ r.pend = "opened"
      BY <3>1 DEF ReadsOpening
    <3>4. Goes(r, x, "code", r.cond, "version") \/ Goes(r, x, "ml", r.cond, "none")
      <4>1. CASE KnowsM(k)
        <5>1. Goes(r, y, "code", r.cond, "openedM")
          BY <1>8, <2>2, <3>1, <3>2, <3>3, <4>1, ReadOpened
        <5>2. y \in ReaderStates /\ y.in = "code" /\ y.pend = "openedM"
          BY <3>3, <5>1 DEF Goes
        <5>3. Goes(y, x, "code", y.cond, "version")
          BY <1>8, <2>2, <3>1, <5>2, ReadOpened
        <5> QED BY <5>1, <5>3 DEF Goes
      <4>2. CASE ~KnowsM(k)
        <5>1. Goes(r, y, "ml", r.cond, "none")
          BY <1>8, <2>2, <3>1, <3>2, <3>3, <4>2, ReadOpened
        <5>2. Goes(y, x, "ml", y.cond, "none")
          <6>1. AfterStar(At(2)) = "none" /\ At(2) # "slash"
            BY <1>8 DEF AfterStar
          <6> QED BY <2>2, <3>1, <5>1, <6>1, ReadInComment DEF Goes
        <5> QED BY <5>1, <5>2 DEF Goes
      <4> QED BY <4>1, <4>2
    <3>5. x \in ReaderStates /\ Follows(k, readers[k])'
      BY <1>6, <2>2, <3>1, <3>2, <3>4, VersionOpens
    <3> QED BY <3>2, <3>5
  <2> QED BY <1>2, <1>5, <1>6, <1>8, <2>1, <2>2, <2>3, StepTwo
<1> QED BY <1>3, <1>7, <1>8

(* openComment: any other. *)
LEMMA PlainComment ==
  ASSUME LexInv, verdict = "reading", KindOfComment, At(1) \notin {"bang", "plus"}, ~(At(1) = "M" /\ At(2) = "bang")
  PROVE  LexInv'
<1> DEFINE t == [s EXCEPT !.at = "rest", !.state = "comment"]
<1>1. /\ TypeOK /\ s \in Scanner /\ (s.dead => s.cond) /\ ScannerOK /\ s.cond \in BOOLEAN
      /\ Len(win) \in Nat /\ win \in Seq(Bytes)
      /\ \A k \in Readers : readers[k] \in ReaderStates
      /\ \A k \in Readers : SameStatement(k, readers[k]) /\ SemisAreCode(readers[k]) /\ Place(k, readers[k])
  BY Before
<1>2. Consume(0, t) /\ s.at = "open" /\ win # <<>>
  BY DEF KindOfComment
<1>3. t \in Scanner /\ Keeps(s, t) /\ t.at = "rest" /\ t.state = "comment" /\ t.word = s.word
  BY <1>1 DEF Scanner, Keeps
<1> HIDE DEF t
<1>4. s' = t /\ win' = win /\ eof' = eof /\ readers' = readers
  BY <1>1, <1>2, ConsumesNothing
<1>5. s.word = "none" /\ s.cond = FALSE
  BY <1>1, <1>2 DEF ScannerOK
<1>6. s'.cond = FALSE /\ s'.delim = s.delim /\ s'.ends = s.ends /\ s'.dead = s.dead /\ s'.at = "rest"
      /\ s'.state = "comment" /\ s'.word = "none"
  BY <1>3, <1>4, <1>5 DEF Keeps
<1>7. Known(1, {"bang", "plus"}) /\ (At(1) = "M" => Known(2, {"bang"}))
  <2>1. Len(win) >= Need \/ eof
    BY DEF KindOfComment, Ready
  <2>2. At(1) = "M" => Need = 2
    BY <1>2 DEF Need, Quotes
  <2>3. Seen(1)
    <3>1. Len(win) # 0
      BY <1>1, <1>2
    <3>2. \A n \in Nat : n # 0 => 1 <= n
      OBVIOUS
    <3> QED BY <1>1, <3>1, <3>2 DEF Seen
  <2>4. At(1) = "M" => Seen(2)
    BY <1>1, <2>1, <2>2 DEF Seen
  <2> QED BY <2>3, <2>4 DEF Known
<1>8. Known(1, {"bang", "plus"})' /\ (At(1)' = "M" => Known(2, {"bang"})')
  BY <1>4, <1>7 DEF Known, At, Seen
<1>9. ASSUME NEW k \in Readers PROVE Follows(k, readers[k])'
  <2> DEFINE r == readers[k]
  <2>1. r \in ReaderStates /\ SameStatement(k, r) /\ SemisAreCode(r) /\ ReadsOpening(r)
    BY <1>1, <1>2, LineReaders
  <2>2. readers'[k] = r
    BY <1>4
  <2> HIDE DEF r
  <2>3. ~r.new /\ ~r.bol /\ r.semis = 0
    <3>1. r.pend # "none"
      BY <2>1 DEF ReadsOpening
    <3> QED BY <2>1, <3>1, InStatement
  <2>4. ReadsComment(readers[k])'
    BY <1>6, <1>8, <2>1, <2>2 DEF ReadsComment, ReadsOpening
  <2>5. SameStatement(k, readers[k])' /\ SemisAreCode(readers[k])'
    BY <1>6, <2>1, <2>2, <2>3 DEF SameStatement, SemisAreCode
  <2> QED BY <2>4, <2>5 DEF Follows, Place
<1>10. ScannerOK'
  BY <1>6 DEF ScannerOK
<1>11. t.dead => t.cond
  BY <1>1, <1>3 DEF Keeps
<1> QED BY <1>2, <1>3, <1>9, <1>10, <1>11, StepNone

(* openComment: which comment it is. *)
LEMMA KindOfCommentKeeps ==
  ASSUME LexInv, verdict = "reading", KindOfComment
  PROVE  LexInv'
<1>1. CASE At(1) = "bang"
  BY <1>1, VersionComment DEF KindOfComment
<1>2. CASE At(1) = "M" /\ At(2) = "bang"
  BY <1>2, VersionComment DEF KindOfComment
<1>3. CASE At(1) = "plus"
  BY <1>3, RefuseKeeps DEF KindOfComment
<1> QED BY <1>1, <1>2, <1>3, PlainComment

(* openComment: the version. *)
LEMMA VersionOfCommentKeeps ==
  ASSUME LexInv, verdict = "reading", VersionOfComment
  PROVE  LexInv'
<1> DEFINE d == At(1) = "nines"
           v == At(1) \in {"ver", "nines"}
           st == s.started \/ ~d
           u(c) == [s EXCEPT !.at = "rest", !.cond = c, !.dead = d, !.started = st]
           t == u(TRUE)
<1>1. /\ TypeOK /\ s \in Scanner /\ (s.dead => s.cond) /\ ScannerOK /\ s.cond \in BOOLEAN
      /\ Len(win) \in Nat /\ win \in Seq(Bytes)
      /\ \A k \in Readers : readers[k] \in ReaderStates
      /\ \A k \in Readers : SameStatement(k, readers[k]) /\ SemisAreCode(readers[k]) /\ Place(k, readers[k])
  BY Before
<1>2. s.at = "version" /\ win # <<>> /\ Consume(IF v THEN 1 ELSE 0, t)
  BY DEF VersionOfComment
<1>3. 1 <= Len(win)
  <2>1. Len(win) # 0
    BY <1>1, <1>2
  <2>2. \A n \in Nat : n # 0 => 1 <= n
    OBVIOUS
  <2> QED BY <1>1, <2>1, <2>2
<1>4. d \in BOOLEAN /\ st \in BOOLEAN
  BY <1>1 DEF Scanner
<1> HIDE DEF st
<1>5. t \in Scanner /\ t.at = "rest" /\ t.cond = TRUE /\ t.dead = d /\ t.state = s.state /\ t.word = s.word
      /\ t.delim = s.delim /\ t.ends = s.ends
  <2> HIDE DEF d
  <2>1. \A c \in BOOLEAN : u(c) \in Scanner /\ u(c).at = "rest" /\ u(c).cond = c /\ u(c).dead = d /\ u(c).state = s.state
          /\ u(c).word = s.word /\ u(c).delim = s.delim /\ u(c).ends = s.ends
    BY <1>1, <1>4 DEF Scanner
  <2> HIDE DEF u
  <2> QED BY <2>1
<1> HIDE DEF u, t
<1>6. s.state = "code" /\ s.word = "none"
  BY <1>1, <1>2 DEF ScannerOK
<1>7. s' = t => ScannerOK'
  BY <1>5, <1>6 DEF ScannerOK
<1>8. t.dead => t.cond
  BY <1>5
<1>9. CASE v
  <2>1. Consume(1, t)
    BY <1>2, <1>9
  <2>2. s' = t /\ readers' = [k \in Readers |-> Read(k, readers[k], At(1))] /\ At(1) \in Bytes
    BY <1>1, <1>3, <2>1, ConsumesOne
  <2>3. ASSUME NEW k \in Readers PROVE readers'[k] \in ReaderStates /\ Follows(k, readers[k])'
    <3> DEFINE r == readers[k]
               x == readers'[k]
    <3>1. r \in ReaderStates /\ x = Read(k, r, At(1)) /\ SameStatement(k, r) /\ SemisAreCode(r) /\ ReadsVersion(r)
      BY <1>1, <1>2, <2>2, LineReaders
    <3>2. x = readers'[k]
      OBVIOUS
    <3> HIDE DEF r, x
    <3>3. ~r.new /\ ~r.bol /\ r.semis = 0 /\ r.cond = FALSE /\ r.in # "argument"
      <4>1. r.in \notin {"code", "lc"} \/ r.pend # "none"
        BY <3>1 DEF ReadsVersion
      <4>2. r.cond = FALSE /\ r.in # "argument"
        BY <3>1 DEF ReadsVersion, ReaderStates
      <4> QED BY <3>1, <4>1, <4>2, InStatement
    <3>4. AfterStar(At(1)) = "none" /\ At(1) # "slash"
      BY <1>9 DEF AfterStar
    <3>5. CASE Goes(r, x, "ml", FALSE, "none")
      <4>1. Skips(readers[k])'
        BY <1>5, <2>2, <3>2, <3>5 DEF Skips, StarIsText, Goes
      <4>2. SameStatement(k, readers[k])' /\ SemisAreCode(readers[k])'
        BY <1>5, <2>2, <3>1, <3>2, <3>3, <3>5 DEF SameStatement, SemisAreCode, Goes
      <4> QED BY <3>2, <3>5, <4>1, <4>2 DEF Follows, Place, Goes
    <3>6. CASE Goes(r, x, "code", TRUE, "none") /\ ~SkipsVersion(k, At(1))
      <4>1. ReadsCode(k, readers[k])'
        BY <1>5, <1>6, <2>2, <3>2, <3>3, <3>6 DEF ReadsCode, PendingIsCode, Goes
      <4>2. s'.dead => IsClient(k)
        BY <1>5, <2>2, <3>6 DEF SkipsVersion
      <4>3. SameStatement(k, readers[k])' /\ SemisAreCode(readers[k])'
        BY <1>5, <2>2, <3>1, <3>2, <3>3, <3>6, <4>2 DEF SameStatement, SemisAreCode, Goes
      <4> QED BY <3>2, <3>6, <4>1, <4>3 DEF Follows, Place, Goes
    <3>7. CASE r.in = "ml" /\ r.pend = "none"
      <4>1. Goes(r, x, "ml", r.cond, "none")
        BY <2>2, <3>1, <3>4, <3>7, ReadInComment
      <4> QED BY <3>3, <3>5, <4>1
    <3>8. CASE r.in = "code" /\ r.pend = "version"
      <4>1. CASE SkipsVersion(k, At(1))
        <5>1. Goes(r, x, "ml", r.cond, AfterStar(At(1)))
          BY <2>2, <3>1, <3>8, <4>1, ReadVersion
        <5> QED BY <3>3, <3>4, <3>5, <5>1
      <4>2. CASE ~SkipsVersion(k, At(1))
        <5>1. Goes(r, x, "code", TRUE, "none")
          BY <1>9, <2>2, <3>1, <3>8, <4>2, ReadVersion
        <5> QED BY <3>6, <4>2, <5>1
      <4> QED BY <4>1, <4>2
    <3> QED BY <3>1, <3>7, <3>8 DEF ReadsVersion
  <2> QED BY <1>3, <1>5, <1>7, <1>8, <2>1, <2>2, <2>3, StepOne
<1>10. CASE ~v
  <2>1. Consume(0, t)
    BY <1>2, <1>10
  <2>2. s' = t /\ win' = win /\ eof' = eof /\ readers' = readers
    BY <1>1, <2>1, ConsumesNothing
  <2>3. ~s'.dead /\ Known(1, {"ver", "nines"})'
    BY <1>3, <1>5, <1>10, <2>2 DEF Known, Seen, At
  <2>4. ASSUME NEW k \in Readers PROVE Follows(k, readers[k])'
    <3> DEFINE r == readers[k]
    <3>1. r \in ReaderStates /\ SameStatement(k, r) /\ SemisAreCode(r) /\ ReadsVersion(r)
      BY <1>1, <1>2, LineReaders
    <3>2. readers'[k] = r
      BY <2>2
    <3> HIDE DEF r
    <3>3. ~r.new /\ ~r.bol /\ r.semis = 0 /\ r.cond = FALSE /\ r.in # "argument"
      <4>1. r.in \notin {"code", "lc"} \/ r.pend # "none"
        BY <3>1 DEF ReadsVersion
      <4>2. r.cond = FALSE /\ r.in # "argument"
        BY <3>1 DEF ReadsVersion, ReaderStates
      <4> QED BY <3>1, <4>1, <4>2, InStatement
    <3>4. CASE r.in = "ml" /\ r.pend = "none"
      <4>1. Skips(readers[k])'
        BY <1>5, <2>2, <3>1, <3>2, <3>3, <3>4 DEF Skips, StarIsText
      <4>2. SameStatement(k, readers[k])' /\ SemisAreCode(readers[k])'
        BY <1>5, <2>2, <2>3, <3>1, <3>2, <3>3, <3>4 DEF SameStatement, SemisAreCode
      <4> QED BY <4>1, <4>2 DEF Follows, Place
    <3>5. CASE r.in = "code" /\ r.pend = "version"
      <4>1. ReadsCode(k, readers[k])'
        BY <1>5, <1>6, <2>2, <2>3, <3>2, <3>3, <3>5 DEF ReadsCode, PendingIsCode
      <4>2. SameStatement(k, readers[k])' /\ SemisAreCode(readers[k])'
        BY <1>5, <2>2, <2>3, <3>1, <3>2, <3>3 DEF SameStatement, SemisAreCode
      <4> QED BY <4>1, <4>2 DEF Follows, Place
    <3> QED BY <3>1, <3>4, <3>5 DEF ReadsVersion
  <2> QED BY <1>5, <1>7, <1>8, <2>1, <2>2, <2>4, StepNone
<1> QED BY <1>9, <1>10
----------------------------------------------------------------------------
(* The remaining steps.                                                    *)

(* The window is never longer than what a step looks at. *)
LEMMA NeedIsShort ==
  ASSUME s \in Scanner
  PROVE  Need \in 1 .. 3 \/ Need \in 1 .. MaxDelimiter
<1>1. Need \in {1, 2, 3} \/ Need = s.delim
  BY DEF Need
<1>2. s.delim \in 1 .. MaxDelimiter
  BY DEF Scanner
<1> QED BY <1>1, <1>2

(* A byte arrives, or that there is none is learned: what was known stays. *)
LEMMA KnownStays ==
  ASSUME TypeOK, Arrives
  PROVE  /\ eof = FALSE /\ s' = s /\ readers' = readers /\ verdict' = verdict
         /\ eof' \in BOOLEAN /\ win' \in Seq(Bytes) /\ (Len(win') <= 3 \/ Len(win') <= MaxDelimiter)
         /\ \A i \in Nat \ {0} : Seen(i) => Seen(i)' /\ At(i)' = At(i)
<1>1. eof = FALSE /\ ~(Len(win) >= Need) /\ win \in Seq(Bytes) /\ Len(win) \in Nat /\ s \in Scanner
  BY DEF Arrives, Ready, TypeOK
<1>2. s' = s /\ readers' = readers /\ verdict' = verdict
  BY DEF Arrives
<1>3. CASE \E b \in Bytes : win' = Append(win, b) /\ UNCHANGED eof
  <2>1. PICK b \in Bytes : win' = Append(win, b) /\ eof' = eof
    BY <1>3
  <2>2. win' \in Seq(Bytes) /\ Len(win') = Len(win) + 1 /\ \A i \in 1 .. Len(win) : win'[i] = win[i]
    BY <1>1, <2>1
  <2>3. Len(win') <= 3 \/ Len(win') <= MaxDelimiter
    <3> DEFINE n == Need
    <3>1. n \in 1 .. 3 \/ n \in 1 .. MaxDelimiter
      BY <1>1, NeedIsShort
    <3>2. ~(Len(win) >= n)
      BY <1>1
    <3> HIDE DEF n
    <3> QED BY <1>1, <2>2, <3>1, <3>2, MaxDelimiterAssumption
  <2>4. ASSUME NEW i \in Nat \ {0}, Seen(i) PROVE Seen(i)' /\ At(i)' = At(i)
    <3>1. i \in 1 .. Len(win)
      BY <1>1, <2>4 DEF Seen
    <3>2. i <= Len(win') /\ i <= Len(win)
      BY <1>1, <2>2, <3>1
    <3> QED BY <2>2, <3>1, <3>2 DEF Seen, At
  <2> QED BY <1>1, <1>2, <2>1, <2>2, <2>3, <2>4
<1>4. CASE eof' = TRUE /\ UNCHANGED win
  <2>1. ASSUME NEW i \in Nat \ {0}, Seen(i) PROVE Seen(i)' /\ At(i)' = At(i)
    BY <1>1, <1>4, <2>1 DEF Seen, At
  <2> QED BY <1>1, <1>2, <1>4, <2>1 DEF TypeOK
<1> QED BY <1>3, <1>4 DEF Arrives

(* The scanner looks at another byte, and every reader is where it was. *)
LEMMA ArrivesKeeps ==
  ASSUME LexInv, verdict = "reading", Arrives
  PROVE  LexInv'
<1>1. /\ TypeOK /\ s \in Scanner /\ (s.dead => s.cond) /\ ScannerOK /\ s.cond \in BOOLEAN
      /\ Len(win) \in Nat /\ win \in Seq(Bytes)
      /\ \A k \in Readers : readers[k] \in ReaderStates
      /\ \A k \in Readers : SameStatement(k, readers[k]) /\ SemisAreCode(readers[k]) /\ Place(k, readers[k])
  BY Before
<1>2. /\ eof = FALSE /\ s' = s /\ readers' = readers /\ verdict' = verdict
      /\ eof' \in BOOLEAN /\ win' \in Seq(Bytes) /\ (Len(win') <= 3 \/ Len(win') <= MaxDelimiter)
  BY <1>1, KnownStays
<1>3. ASSUME NEW i \in Nat \ {0}, Seen(i) PROVE Seen(i)' /\ At(i)' = At(i)
  BY <1>1, <1>3, KnownStays
<1>4. /\ Seen(1) => Seen(1)' /\ At(1)' = At(1)
      /\ Seen(2) => Seen(2)' /\ At(2)' = At(2)
      /\ Seen(3) => Seen(3)' /\ At(3)' = At(3)
      /\ (Seen(3) => Seen(2)) /\ (Seen(2) => Seen(1))
  <2>1. (Seen(3) => Seen(2)) /\ (Seen(2) => Seen(1))
    BY <1>1 DEF Seen
  <2> QED BY <1>3, <2>1
<1>5. ASSUME NEW i \in Nat \ {0}, NEW bs, Known(i, bs) PROVE Known(i, bs)'
  BY <1>3, <1>5 DEF Known
<1>6. ASSUME NEW k \in Readers PROVE Follows(k, readers[k])'
  <2> DEFINE r == readers[k]
  <2>1. r \in ReaderStates /\ SameStatement(k, r) /\ SemisAreCode(r) /\ Place(k, r)
    BY <1>1
  <2>2. readers'[k] = r
    BY <1>2
  <2> HIDE DEF r
  <2>3. SameStatement(k, readers[k])'
    BY <1>2, <2>1, <2>2 DEF SameStatement
  <2>4. SemisAreCode(readers[k])'
    <3>1. ASSUME r.semis > 0, NEW i \in 1 .. s.delim - r.semis, Known(i, {"semi"}) PROVE Known(i, {"semi"})'
      BY <1>5, <3>1
    <3> QED BY <1>2, <2>1, <2>2, <3>1 DEF SemisAreCode
  <2>5. CASE ReadsLineStart(r)
    <3>1. ReadsLineStart(readers[k])'
      BY <1>2, <2>2, <2>5 DEF ReadsLineStart
    <3> QED BY <2>3, <2>4, <3>1 DEF Follows, Place
  <2>6. CASE ReadsCode(k, r)
    <3>1. FirstByte => FirstByte'
      BY <1>4 DEF FirstByte, Known
    <3>2. PendingIsCode(k, readers[k])'
      BY <1>2, <1>4, <2>2, <2>6 DEF ReadsCode, PendingIsCode, Known
    <3>3. ReadsCode(k, readers[k])'
      BY <1>2, <2>2, <2>6, <3>1, <3>2 DEF ReadsCode
    <3> QED BY <2>3, <2>4, <3>3 DEF Follows, Place
  <2>7. CASE ReadsQuote(r)
    <3>1. ReadsQuote(readers[k])'
      BY <1>2, <2>2, <2>7 DEF ReadsQuote
    <3> QED BY <2>3, <2>4, <3>1 DEF Follows, Place
  <2>8. CASE Skips(r)
    <3>1. Skips(readers[k])'
      BY <1>2, <1>4, <2>2, <2>8 DEF Skips, StarIsText, Known
    <3> QED BY <2>3, <2>4, <3>1 DEF Follows, Place
  <2>9. CASE ReadsComment(r)
    <3>1. ReadsComment(readers[k])'
      BY <1>2, <1>4, <2>2, <2>9 DEF ReadsComment, StarIsText, Known
    <3> QED BY <2>3, <2>4, <3>1 DEF Follows, Place
  <2>10. CASE ReadsOpening(r) \/ ReadsVersion(r)
    <3>1. ReadsOpening(readers[k])' \/ ReadsVersion(readers[k])'
      BY <1>2, <2>2, <2>10 DEF ReadsOpening, ReadsVersion
    <3> QED BY <2>3, <2>4, <3>1 DEF Follows, Place
  <2>11. CASE DropsLine(r)
    <3>1. DropsLine(readers[k])'
      <4>1. CASE s.at = "skip" /\ r.in = "code" /\ r.pend = "none" /\ At(1) = "hash"
        <5>1. Seen(1)
          BY <1>1, <1>2, <4>1 DEF Seen, At
        <5> QED BY <1>2, <1>4, <2>2, <2>11, <4>1, <5>1 DEF DropsLine
      <4>2. CASE s.at = "skip" /\ r.in = "code" /\ r.pend = "none" /\ Seen(3) /\ DashComment(1)
        <5>1. DashComment(1)'
          BY <1>4, <4>2 DEF DashComment
        <5> QED BY <1>2, <1>4, <2>2, <2>11, <4>2, <5>1 DEF DropsLine
      <4>3. CASE ~(s.at = "skip" /\ r.in = "code" /\ r.pend = "none")
        BY <1>2, <1>4, <2>2, <2>11, <4>3 DEF DropsLine
      <4> QED BY <2>11, <4>1, <4>2, <4>3 DEF DropsLine
    <3> QED BY <2>3, <2>4, <3>1 DEF Follows, Place
  <2>12. CASE ReadsUse(r)
    <3>1. ReadsUse(readers[k])'
      BY <1>2, <1>4, <2>2, <2>12 DEF ReadsUse, Known
    <3> QED BY <2>3, <2>4, <3>1 DEF Follows, Place
  <2>13. CASE ReadsArgument(r)
    <3>1. ReadsArgument(readers[k])'
      BY <1>2, <1>4, <2>2, <2>13 DEF ReadsArgument
    <3> QED BY <2>3, <2>4, <3>1 DEF Follows, Place
  <2> QED BY <2>1, <2>5, <2>6, <2>7, <2>8, <2>9, <2>10, <2>11, <2>12, <2>13 DEF Place
<1>7. TypeOK'
  BY <1>1, <1>2 DEF TypeOK
<1>8. ScannerOK'
  BY <1>1, <1>2 DEF ScannerOK
<1> QED BY <1>6, <1>7, <1>8 DEF LexInv

(* Nothing that the invariant speaks of changes, but that the scan is over. *)
LEMMA SameKeeps ==
  ASSUME LexInv, verdict' \in {"refused", "accepted"} \/ verdict' = verdict, verdict # "refused" \/ verdict' = verdict,
         win' = win, eof' = eof, s' = s, readers' = readers
  PROVE  LexInv'
<1>1. TypeOK'
  BY DEF LexInv, TypeOK
<1>2. ASSUME verdict # "refused" PROVE ScannerOK' /\ \A k \in Readers : Follows(k, readers[k])'
  <2>1. ScannerOK /\ \A k \in Readers : Follows(k, readers[k])
    BY <1>2 DEF LexInv
  <2>2. ScannerOK'
    BY <2>1 DEF ScannerOK
  <2>3. ASSUME NEW k \in Readers PROVE Follows(k, readers[k])'
    <3>1. readers'[k] = readers[k] /\ Follows(k, readers[k])
      BY <2>1
    <3> QED BY <3>1 DEF Follows, SameStatement, SemisAreCode, Place, ReadsLineStart, ReadsCode, FirstByte,
         PendingIsCode, ReadsQuote, Skips, StarIsText, ReadsComment, ReadsOpening, ReadsVersion, DropsLine,
         ReadsUse, ReadsArgument, Known, Seen, At, DashComment
  <2> QED BY <2>2, <2>3
<1>3. CASE verdict # "refused"
  BY <1>1, <1>2, <1>3 DEF LexInv
<1>4. CASE verdict = "refused"
  BY <1>1, <1>4 DEF LexInv
<1> QED BY <1>3, <1>4

(* The end of the dump. *)
LEMMA FinishKeeps ==
  ASSUME LexInv, verdict = "reading", Finish
  PROVE  LexInv'
<1>1. verdict' \in {"refused", "accepted"} /\ win' = win /\ eof' = eof /\ s' = s /\ readers' = readers
  BY DEF Finish
<1> QED BY <1>1, SameKeeps
----------------------------------------------------------------------------
(* The theorems.                                                           *)

(* Every step keeps the invariant. *)
LEMMA LexNext == LexInv /\ [Next]_vars => LexInv'
<1> SUFFICES ASSUME LexInv, [Next]_vars PROVE LexInv'
  OBVIOUS
<1>1. CASE UNCHANGED vars
  <2>1. verdict' = verdict /\ win' = win /\ eof' = eof /\ s' = s /\ readers' = readers
    BY <1>1 DEF vars
  <2> QED BY <2>1, SameKeeps
<1>2. CASE Arrives
  <2>1. verdict = "reading"
    BY <1>2 DEF Arrives
  <2> QED BY <1>2, <2>1, ArrivesKeeps
<1>3. CASE Scan
  <2>1. verdict = "reading"
    BY <1>3 DEF Scan, Ready, InLine, InCode, DropLine, LeaveBol, Indent, LineWord, SkipLine, UseLine, DelimiterLine,
       EndLine, InComment, Quoted, CodeRefuses, Delimiter, OpenQuote, SwitchOffCommands, OpenLineComment,
       InLineComment, OpenComment, KindOfComment, VersionOfComment, CloseVersionComment, Word, CodeSpace,
       Punctuation, Finish
  <2>2. CASE DropLine
    BY <2>1, <2>2, DropLineKeeps
  <2>3. CASE LeaveBol
    BY <2>1, <2>3, LeaveBolKeeps
  <2>4. CASE Indent
    BY <2>1, <2>4, IndentKeeps
  <2>5. CASE LineWord
    BY <2>1, <2>5, LineWordKeeps
  <2>6. CASE SkipLine \/ InLineComment
    BY <2>1, <2>6, SkipLineKeeps
  <2>7. CASE UseLine
    BY <2>1, <2>7, UseLineKeeps
  <2>8. CASE DelimiterLine
    BY <2>1, <2>8, DelimiterLineKeeps
  <2>9. CASE EndLine
    BY <2>1, <2>9, EndLineKeeps
  <2>10. CASE InComment
    BY <2>1, <2>10, InCommentKeeps
  <2>11. CASE Quoted
    BY <2>1, <2>11, QuotedKeeps
  <2>12. CASE CodeRefuses
    BY <2>1, <2>12, CodeRefusesKeeps
  <2>13. CASE Delimiter
    BY <2>1, <2>13, DelimiterKeeps
  <2>14. CASE OpenQuote
    BY <2>1, <2>14, OpenQuoteKeeps
  <2>15. CASE SwitchOffCommands
    BY <2>1, <2>15, SwitchOffCommandsKeeps
  <2>16. CASE OpenLineComment
    BY <2>1, <2>16, OpenLineCommentKeeps
  <2>17. CASE OpenComment
    BY <2>1, <2>17, OpenCommentKeeps
  <2>18. CASE KindOfComment
    BY <2>1, <2>18, KindOfCommentKeeps
  <2>19. CASE VersionOfComment
    BY <2>1, <2>19, VersionOfCommentKeeps
  <2>20. CASE CloseVersionComment
    BY <2>1, <2>20, CloseVersionCommentKeeps
  <2>21. CASE Word
    BY <2>1, <2>21, WordKeeps
  <2>22. CASE CodeSpace
    BY <2>1, <2>22, CodeSpaceKeeps
  <2>23. CASE Punctuation
    BY <2>1, <2>23, PunctuationKeeps
  <2>24. CASE Finish
    BY <2>1, <2>24, FinishKeeps
  <2> QED BY <1>3, <2>2, <2>3, <2>4, <2>5, <2>6, <2>7, <2>8, <2>9, <2>10, <2>11, <2>12, <2>13, <2>14,
             <2>15, <2>16, <2>17, <2>18, <2>19, <2>20, <2>21, <2>22, <2>23, <2>24 DEF Scan
<1> QED BY <1>1, <1>2, <1>3 DEF Next

(* The invariant always holds. *)
LEMMA LexInvHolds == Spec => []LexInv
BY LexInit, LexNext, PTL DEF Spec

(* The last word of an accepted dump was compared, too. *)
Compared == verdict = "accepted" => s.word # "outfile"

(* endWord at the end of the dump: only Finish accepts one.                *)
LEMMA ComparedStays == Compared /\ [Next]_vars => Compared'
<1> SUFFICES ASSUME Compared, [Next]_vars PROVE Compared'
  OBVIOUS
<1>1. CASE UNCHANGED vars
  BY <1>1 DEF vars, Compared
<1>2. CASE Arrives
  BY <1>2 DEF Arrives, Compared
<1>3. CASE Finish
  BY <1>3 DEF Finish, Compared
<1>4. ASSUME NEW n, NEW t, verdict = "reading", Refuse \/ Consume(n, t) PROVE verdict' # "accepted"
  BY <1>4 DEF Refuse, Consume
<1>5. CASE DropLine \/ LeaveBol \/ Indent \/ LineWord \/ SkipLine \/ UseLine \/ DelimiterLine
  <2>1. verdict = "reading"
    BY <1>5 DEF Ready, InLine, DropLine, LeaveBol, Indent, LineWord, SkipLine, UseLine, DelimiterLine
  <2>2. Refuse \/ \E n, t : Consume(n, t)
    BY <1>5 DEF DropLine, LeaveBol, Indent, LineWord, SkipLine, UseLine, DelimiterLine
  <2> QED BY <1>4, <2>1, <2>2 DEF Compared
<1>6. CASE EndLine \/ InComment \/ Quoted \/ InLineComment
  <2>1. verdict = "reading"
    BY <1>6 DEF Ready, InLine, EndLine, InComment, Quoted, InLineComment
  <2>2. Refuse \/ \E n, t : Consume(n, t)
    BY <1>6 DEF EndLine, InComment, Quoted, CloseQuote, InLineComment
  <2> QED BY <1>4, <2>1, <2>2 DEF Compared
<1>7. CASE CodeRefuses \/ Delimiter \/ OpenQuote \/ SwitchOffCommands \/ OpenLineComment \/ OpenComment
  <2>1. verdict = "reading"
    BY <1>7 DEF Ready, InLine, InCode, CodeRefuses, Delimiter, OpenQuote, SwitchOffCommands,
       OpenLineComment, OpenComment
  <2>2. Refuse \/ \E n, t : Consume(n, t)
    BY <1>7 DEF CodeRefuses, Delimiter, OpenQuote, SwitchOffCommands, OpenLineComment, OpenComment
  <2> QED BY <1>4, <2>1, <2>2 DEF Compared
<1>8. CASE KindOfComment \/ VersionOfComment \/ CloseVersionComment \/ Word \/ CodeSpace \/ Punctuation
  <2>1. verdict = "reading"
    BY <1>8 DEF Ready, InLine, InCode, KindOfComment, VersionOfComment, CloseVersionComment, Word,
       CodeSpace, Punctuation
  <2>2. Refuse \/ \E n, t : Consume(n, t)
    BY <1>8 DEF KindOfComment, VersionOfComment, CloseVersionComment, Word, CodeSpace, Punctuation
  <2> QED BY <1>4, <2>1, <2>2 DEF Compared
<1> QED BY <1>1, <1>2, <1>3, <1>5, <1>6, <1>7, <1>8 DEF Next, Scan

(* The variables of scanDump's model have their types, and the scanner     *)
(* never looks further ahead than three bytes or a delimiter.              *)
THEOREM ScannerTypeCorrect == Spec => []TypeOK
<1>1. LexInv => TypeOK
  BY DEF LexInv
<1> QED BY <1>1, LexInvHolds, PTL

(* dumpscan.go: the clients, and every server that runs or skips a version *)
(* comment, see quotes and comments begin and end where the scanner does.  *)
THEOREM ScannerAndReadersAgree == Spec => []ReadersAgree
BY LexInvImplies, LexInvHolds, PTL

(* setDelimiter and codeByte: the clients send the statements that the     *)
(* scanner checked, no more and no fewer.                                  *)
THEOREM ScannedStatementsAreSent == Spec => []StatementsSplitTogether
BY LexInvImplies, LexInvHolds, PTL

(* lineStart and codeByte: no client command passes.                       *)
THEOREM ScannerPassesNoCommand == Spec => []NoClientCommand
BY LexInvImplies, LexInvHolds, PTL

(* endWord and codeByte: no server reads OUTFILE or := in what passes, be  *)
(* it the last word of the dump.                                           *)
THEOREM ScannerPassesNoFileWord == Spec => []NoFileWord
<1>1. Init => Compared
  BY DEF Init, Compared
<1>2. LexInv /\ Compared => NoFileWord
  BY NoFileWordRead DEF Compared
<1> QED BY <1>1, <1>2, ComparedStays, LexInvHolds, PTL DEF Spec
=============================================================================

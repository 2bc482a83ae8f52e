------------------------ MODULE DumpStatement_proofs ------------------------
(***************************************************************************)
(* What accepted statements do, for any variables, any limits on what the  *)
(* scanner keeps and statements of any length.  First the session: what    *)
(* SET statements and programs do to the server's variables.  Then the     *)
(* statements themselves: stmtCheck and the server stay in step, from the  *)
(* first token of a statement to its end.                                  *)
(***************************************************************************)
EXTENDS DumpHeads_proofs, FiniteSetTheorems, WellFoundedInduction

(* What holds of 0 and passes from each number to the next holds up to n. *)
LEMMA UpTo ==
  ASSUME NEW n \in Nat, NEW Q,
         0 \in Q, \A i \in 1 .. n : i - 1 \in Q => i \in Q
  PROVE  0 .. n \subseteq Q
<1> DEFINE T == (0 .. n) \ Q
<1>1. SUFFICES ASSUME T # {} PROVE FALSE
  OBVIOUS
<1>2. T \subseteq Nat
  OBVIOUS
<1>3. PICK x \in T : \A y \in T : <<y, x>> \notin OpToRel(<, Nat)
  BY <1>1, <1>2, NatLessThanWellFounded, WFMin
<1>4. x \in 1 .. n /\ x - 1 \in 0 .. n /\ x - 1 < x
  OBVIOUS
<1>5. x - 1 \notin T
  BY <1>2, <1>3, <1>4 DEF OpToRel
<1> QED
  BY <1>4, <1>5

(* f starts at a, and G[i] takes its value at i - 1 to that at i. *)
Iterates(f, St, a, n, G) ==
  /\ f \in [0 .. n -> St]
  /\ f = [i \in 0 .. n |-> IF i = 0 THEN a ELSE G[i][f[i - 1]]]

(* A function on 0 .. n is defined by what follows each of its values. *)
LEMMA Recursion ==
  ASSUME NEW St, NEW a \in St, NEW n \in Nat, NEW G \in [1 .. n -> [St -> St]]
  PROVE  \E f : Iterates(f, St, a, n, G)
<1> DEFINE Fits(f, m) == /\ f \in [0 .. m -> St]
                         /\ f[0] = a
                         /\ \A i \in 1 .. m : f[i] = G[i][f[i - 1]]
<1> DEFINE Q == {m \in 0 .. n : \E f : Fits(f, m)}
<1>1. 0 \in Q
  <2> DEFINE w == [i \in 0 .. 0 |-> a]
  <2>1. Fits(w, 0)
    OBVIOUS
  <2>2. \E f : Fits(f, 0)
    <3> HIDE DEF Fits, w
    <3> QED BY <2>1
  <2> QED BY <2>2
<1>2. ASSUME NEW m \in 1 .. n, m - 1 \in Q PROVE m \in Q
  <2>1. PICK f : Fits(f, m - 1)
    BY <1>2
  <2> DEFINE w == [i \in 0 .. m |-> IF i = m THEN G[m][f[m - 1]] ELSE f[i]]
  <2>2. f[m - 1] \in St /\ G[m][f[m - 1]] \in St
    BY <2>1
  <2>3. w \in [0 .. m -> St] /\ w[0] = a /\ w[m] = G[m][f[m - 1]] /\ w[m - 1] = f[m - 1]
    BY <2>1, <2>2
  <2>4. \A i \in 1 .. m - 1 : w[i] = f[i] /\ w[i - 1] = f[i - 1]
    OBVIOUS
  <2>5. Fits(w, m)
    <3> HIDE DEF w
    <3>1. \A i \in 1 .. m - 1 : w[i] = G[i][w[i - 1]]
      BY <2>1, <2>4
    <3> QED BY <2>3, <3>1
  <2>6. \E h : Fits(h, m)
    <3> HIDE DEF Fits, w
    <3> QED BY <2>5
  <2> QED
    <3> HIDE DEF Fits
    <3> QED BY <2>6
<1>3. n \in Q
  <2> HIDE DEF Q
  <2>1. 0 .. n \subseteq Q
    BY <1>1, <1>2, UpTo
  <2> QED BY <2>1
<1>4. PICK f : Fits(f, n)
  BY <1>3
<1>5. f = [i \in 0 .. n |-> IF i = 0 THEN a ELSE G[i][f[i - 1]]]
  BY <1>4
<1>6. Iterates(f, St, a, n, G)
  BY <1>4, <1>5 DEF Iterates
<1> QED BY <1>6
----------------------------------------------------------------------------
(* One assignment.                                                         *)

Checked == [ok : BOOLEAN, u : UserVars, set : SUBSET Vars]
Sessions == [mode : SessionValues, client : SessionValues]
Ran == [session : Sessions, vals : [Vars -> SessionValues]]

(* What an assignment can say, by what it assigns to. *)
LEMMA AssignmentForms ==
  ASSUME NEW a \in Assignments
  PROVE  /\ a.left \in {"NAMES", "client", "other", "mode"} \cup Vars
         /\ a.left # "mode" => a.scope = "none"
         /\ a.scope \in {"none", "word", "prefix"}
         /\ a.left = "NAMES" => a.right.kind \in {"safe", "bad", "default"}
         /\ a.left \in Vars => a.right.kind \in {"safe", "bad", "sys"}
         /\ a.left \in {"client", "other", "mode"} => a.right.kind \in {"safe", "bad", "var", "expr"}
         /\ a.right.kind \in {"var", "expr"} => a.right.of \in Vars
         /\ a.right.kind = "sys" => a.right.of \in SysVars
<1>1. \A r \in Values : r.kind \in {"safe", "bad"}
  <2> TAKE r \in Values
  <2>1. PICK k \in {"safe", "bad"} : r = Right(k, "none")
    BY DEF Values
  <2> QED BY <2>1 DEF Right
<1>2. \A r \in FromVars : r.kind \in {"var", "expr"} /\ r.of \in Vars
  BY DEF FromVars, Right
<1>3. \A r \in {Right("sys", s) : s \in SysVars} : r.kind = "sys" /\ r.of \in SysVars
  BY DEF Right
<1>4. Right("default", "none").kind = "default"
  BY DEF Right
<1>5. Vars \cap {"NAMES", "client", "other", "mode"} = {}
  BY VarsAssumption
<1> HIDE DEF Values, FromVars, Right
<1> DEFINE Charset == [left : {"NAMES"}, scope : {"none"}, right : Values \cup {Right("default", "none")}]
           Sys == [left : {"client", "other"}, scope : {"none"}, right : Values \cup FromVars]
           Modes == [left : {"mode"}, scope : {"none", "word", "prefix"},
                     right : Values \cup FromVars]
           Saves == [left : Vars, scope : {"none"},
                     right : Values \cup {Right("sys", s) : s \in SysVars}]
<1>6. CASE a \in Charset
  BY <1>6, <1>1, <1>4, <1>5
<1>7. CASE a \in Sys
  BY <1>7, <1>1, <1>2, <1>5
<1>8. CASE a \in Modes
  BY <1>8, <1>1, <1>2, <1>5
<1>9. CASE a \in Saves
  <2>1. a.left \in Vars /\ a.scope = "none"
    BY <1>9
  <2>2. a.right \in Values \/ a.right \in {Right("sys", s) : s \in SysVars}
    BY <1>9
  <2>3. \/ a.right.kind \in {"safe", "bad"}
        \/ a.right.kind = "sys" /\ a.right.of \in SysVars
    BY <2>2, <1>1, <1>3
  <2> QED BY <2>1, <2>3, <1>5
<1> QED
  BY <1>6, <1>7, <1>8, <1>9 DEF Assignments

(* Saving a system variable keeps the type. *)
LEMMA SaveTyped ==
  ASSUME NEW w \in UserVars, NEW v \in Vars, NEW x \in SysVars
  PROVE  Save(w, v, x) \in UserVars
BY DEF Save, UserVars

(* What each outcome of checkAssignment makes of the check. *)
LEMMA CheckOutcomes ==
  ASSUME NEW s \in Checked
  PROVE  /\ Refused(s) \in Checked /\ ~Refused(s).ok /\ Refused(s).u = s.u
         /\ \A v \in Vars, x \in SysVars : SaveIn(s, v, x) \in Checked
         /\ \A v \in Vars : \A x : SaveIn(s, v, x).ok = s.ok
         /\ \A v \in Vars : \A x : s.ok => SaveIn(s, v, x).u = Save(s.u, v, x)
         /\ \A v, x : ~s.ok => SaveIn(s, v, x) = s
         /\ \A v \in Vars : \A x : /\ Restored(s, v, x) \in Checked
                                   /\ Restored(s, v, x).ok => s.ok /\ Trusted(s.u, v, x)
                                   /\ Restored(s, v, x).u = s.u
<1>1. s.ok \in BOOLEAN /\ s.u \in UserVars /\ s.set \in SUBSET Vars
  BY DEF Checked
<1>2. Refused(s) \in Checked /\ ~Refused(s).ok /\ Refused(s).u = s.u
  BY <1>1 DEF Checked, Refused
<1>3. ASSUME NEW v \in Vars, NEW x \in SysVars PROVE SaveIn(s, v, x) \in Checked
  <2>1. Save(s.u, v, x) \in UserVars
    BY <1>1, SaveTyped
  <2> QED BY <1>1, <2>1 DEF Checked, SaveIn
<1>4. ASSUME NEW v \in Vars, NEW x, s.ok PROVE SaveIn(s, v, x).u = Save(s.u, v, x)
  BY <1>4 DEF Checked, SaveIn
<1>5. ASSUME NEW v, NEW x, ~s.ok PROVE SaveIn(s, v, x) = s
  BY <1>5 DEF SaveIn
<1>6. ASSUME NEW v \in Vars, NEW x PROVE SaveIn(s, v, x).ok = s.ok
  BY DEF Checked, SaveIn
<1>7. ASSUME NEW v \in Vars, NEW x
      PROVE  /\ Restored(s, v, x) \in Checked
             /\ Restored(s, v, x).ok => s.ok /\ Trusted(s.u, v, x)
             /\ Restored(s, v, x).u = s.u
  <2>1. CASE Trusted(s.u, v, x)
    <3>1. Restored(s, v, x) = [s EXCEPT !.set = @ \cup {v}]
      BY <2>1 DEF Restored
    <3> QED BY <1>1, <2>1, <3>1 DEF Checked
  <2>2. CASE ~Trusted(s.u, v, x)
    BY <1>2, <2>2 DEF Restored
  <2> QED BY <2>1, <2>2
<1> QED BY <1>2, <1>3, <1>4, <1>5, <1>6, <1>7

(* checkAssignment keeps the types. *)
LEMMA CheckTyped ==
  ASSUME NEW s \in Checked, NEW a \in Assignments
  PROVE  CheckAssignment(s, a) \in Checked
BY CheckOutcomes, AssignmentForms DEF CheckAssignment

(* The server's assignment of a value to a variable, or to the session. *)
LEMMA SetVarOutcome ==
  ASSUME NEW r \in Ran, NEW v \in Vars, NEW x \in SessionValues
  PROVE  /\ SetVar(r, v, x) \in Ran
         /\ SetVar(r, v, x).session = r.session
         /\ SetVar(r, v, x).vals = [r.vals EXCEPT ![v] = x]
<1>1. r.session \in Sessions /\ r.vals \in [Vars -> SessionValues]
  BY DEF Ran
<1> QED BY <1>1 DEF Ran, SetVar

(* So is that to the session. *)
LEMMA SetSessionOutcome ==
  ASSUME NEW r \in Ran, NEW y \in {"mode", "client"}, NEW x \in SessionValues
  PROVE  /\ SetSession(r, y, x) \in Ran
         /\ SetSession(r, y, x).vals = r.vals
         /\ SetSession(r, y, x).session = [r.session EXCEPT ![y] = x]
<1>1. r.session \in Sessions /\ r.vals \in [Vars -> SessionValues]
  BY DEF Ran
<1>2. [r.session EXCEPT ![y] = x] \in Sessions
  BY <1>1 DEF Sessions
<1> QED BY <1>1, <1>2 DEF Ran, SetSession

(* So does the server's assignment. *)
LEMMA AssignTyped ==
  ASSUME NEW r \in Ran, NEW a \in Assignments
  PROVE  Assign(r, a) \in Ran
<1>1. Value(r, a) \in SessionValues
  BY AssignmentForms DEF Value, Ran, Sessions, SessionValues, SysVars
<1>2. "bad" \in SessionValues
  BY DEF SessionValues
<1> QED
  BY <1>1, <1>2, SetVarOutcome, SetSessionOutcome DEF Assign

(* "unnamed" stands for a variable the scanner cannot name. *)
Mentionable == Vars \cup {"unnamed"}

(* Poisoning a variable keeps the type, too. *)
LEMMA PoisonTyped ==
  ASSUME NEW w \in UserVars, NEW name \in Mentionable
  PROVE  PoisonOne(w, name) \in UserVars
BY DEF PoisonOne, UserVars, Mentionable
----------------------------------------------------------------------------
(* All assignments of a SET, and all variables a statement mentions.       *)

(* checkSet goes through its assignments.                                  *)
LEMMA CheckSteps ==
  ASSUME NEW a \in Checked, NEW s \in Seq(Assignments)
  PROVE  \E f : /\ f \in [0 .. Len(s) -> Checked]
                /\ f[0] = a
                /\ \A i \in 1 .. Len(s) : f[i] = CheckAssignment(f[i - 1], s[i])
                /\ f[Len(s)] = Through(CheckAssignment, a, s)
<1> DEFINE n == Len(s)
           G == [i \in 1 .. n |-> [x \in Checked |-> CheckAssignment(x, s[i])]]
           Unfolds(h) == h = [i \in 0 .. n |-> IF i = 0 THEN a ELSE CheckAssignment(h[i - 1], s[i])]
           f == CHOOSE h : Unfolds(h)
<1>1. n \in Nat /\ \A i \in 1 .. n : s[i] \in Assignments
  OBVIOUS
<1>2. f[n] = Through(CheckAssignment, a, s)
  BY DEF Through
<1> HIDE DEF n
<1>3. G \in [1 .. n -> [Checked -> Checked]]
  BY <1>1, CheckTyped
<1>4. PICK g : Iterates(g, Checked, a, n, G)
  <2> HIDE DEF G
  <2> QED BY <1>1, <1>3, Recursion
<1>5. Unfolds(g)
  <2>1. ASSUME NEW i \in 0 .. n
        PROVE  g[i] = IF i = 0 THEN a ELSE CheckAssignment(g[i - 1], s[i])
    <3>1. CASE i = 0
      BY <3>1, <1>4 DEF Iterates
    <3>2. CASE i # 0
      <4>1. i \in 1 .. n /\ i - 1 \in 0 .. n
        BY <3>2, <1>1
      <4>2. g[i - 1] \in Checked
        BY <4>1, <1>4 DEF Iterates
      <4>3. G[i][g[i - 1]] = CheckAssignment(g[i - 1], s[i])
        BY <4>1, <4>2
      <4>4. g[i] = G[i][g[i - 1]]
        BY <3>2, <1>4 DEF Iterates
      <4> QED BY <3>2, <4>3, <4>4
    <3> QED BY <3>1, <3>2
  <2> QED BY <2>1, <1>4 DEF Iterates
<1>6. Unfolds(f)
  <2> HIDE DEF Unfolds
  <2> QED BY <1>5
<1> HIDE DEF f, G
<1>7. f[0] = a /\ (\A i \in 1 .. n : f[i] = CheckAssignment(f[i - 1], s[i])) /\ DOMAIN f = 0 .. n
  BY <1>1, <1>6
<1>8. 0 .. n \subseteq {i \in 0 .. n : f[i] \in Checked}
  <2> DEFINE Q == {i \in 0 .. n : f[i] \in Checked}
  <2>1. 0 \in Q
    BY <1>1, <1>7
  <2>2. \A i \in 1 .. n : i - 1 \in Q => i \in Q
    BY <1>1, <1>7, CheckTyped
  <2> HIDE DEF Q
  <2>3. 0 .. n \subseteq Q
    BY <1>1, <2>1, <2>2, UpTo
  <2> QED BY <2>3 DEF Q
<1>9. f \in [0 .. n -> Checked]
  BY <1>6, <1>8
<1> QED
  BY <1>2, <1>7, <1>9 DEF n

(* The server goes through the same assignments.                           *)
LEMMA AssignSteps ==
  ASSUME NEW a \in Ran, NEW s \in Seq(Assignments)
  PROVE  \E f : /\ f \in [0 .. Len(s) -> Ran]
                /\ f[0] = a
                /\ \A i \in 1 .. Len(s) : f[i] = Assign(f[i - 1], s[i])
                /\ f[Len(s)] = Through(Assign, a, s)
<1> DEFINE n == Len(s)
           G == [i \in 1 .. n |-> [x \in Ran |-> Assign(x, s[i])]]
           Unfolds(h) == h = [i \in 0 .. n |-> IF i = 0 THEN a ELSE Assign(h[i - 1], s[i])]
           f == CHOOSE h : Unfolds(h)
<1>1. n \in Nat /\ \A i \in 1 .. n : s[i] \in Assignments
  OBVIOUS
<1>2. f[n] = Through(Assign, a, s)
  BY DEF Through
<1> HIDE DEF n
<1>3. G \in [1 .. n -> [Ran -> Ran]]
  BY <1>1, AssignTyped
<1>4. PICK g : Iterates(g, Ran, a, n, G)
  <2> HIDE DEF G
  <2> QED BY <1>1, <1>3, Recursion
<1>5. Unfolds(g)
  <2>1. ASSUME NEW i \in 0 .. n
        PROVE  g[i] = IF i = 0 THEN a ELSE Assign(g[i - 1], s[i])
    <3>1. CASE i = 0
      BY <3>1, <1>4 DEF Iterates
    <3>2. CASE i # 0
      <4>1. i \in 1 .. n /\ i - 1 \in 0 .. n
        BY <3>2, <1>1
      <4>2. g[i - 1] \in Ran
        BY <4>1, <1>4 DEF Iterates
      <4>3. G[i][g[i - 1]] = Assign(g[i - 1], s[i])
        BY <4>1, <4>2
      <4>4. g[i] = G[i][g[i - 1]]
        BY <3>2, <1>4 DEF Iterates
      <4> QED BY <3>2, <4>3, <4>4
    <3> QED BY <3>1, <3>2
  <2> QED BY <2>1, <1>4 DEF Iterates
<1>6. Unfolds(f)
  <2> HIDE DEF Unfolds
  <2> QED BY <1>5
<1> HIDE DEF f, G
<1>7. f[0] = a /\ (\A i \in 1 .. n : f[i] = Assign(f[i - 1], s[i])) /\ DOMAIN f = 0 .. n
  BY <1>1, <1>6
<1>8. 0 .. n \subseteq {i \in 0 .. n : f[i] \in Ran}
  <2> DEFINE Q == {i \in 0 .. n : f[i] \in Ran}
  <2>1. 0 \in Q
    BY <1>1, <1>7
  <2>2. \A i \in 1 .. n : i - 1 \in Q => i \in Q
    BY <1>1, <1>7, AssignTyped
  <2> HIDE DEF Q
  <2>3. 0 .. n \subseteq Q
    BY <1>1, <2>1, <2>2, UpTo
  <2> QED BY <2>3 DEF Q
<1>9. f \in [0 .. n -> Ran]
  BY <1>6, <1>8
<1> QED
  BY <1>2, <1>7, <1>9 DEF n

(* end goes through the variables a statement mentions.                    *)
LEMMA PoisonSteps ==
  ASSUME NEW a \in UserVars, NEW s \in Seq(Mentionable)
  PROVE  \E f : /\ f \in [0 .. Len(s) -> UserVars]
                /\ f[0] = a
                /\ \A i \in 1 .. Len(s) : f[i] = PoisonOne(f[i - 1], s[i])
                /\ f[Len(s)] = Through(PoisonOne, a, s)
<1> DEFINE n == Len(s)
           G == [i \in 1 .. n |-> [x \in UserVars |-> PoisonOne(x, s[i])]]
           Unfolds(h) == h = [i \in 0 .. n |-> IF i = 0 THEN a ELSE PoisonOne(h[i - 1], s[i])]
           f == CHOOSE h : Unfolds(h)
<1>1. n \in Nat /\ \A i \in 1 .. n : s[i] \in Mentionable
  OBVIOUS
<1>2. f[n] = Through(PoisonOne, a, s)
  BY DEF Through
<1> HIDE DEF n
<1>3. G \in [1 .. n -> [UserVars -> UserVars]]
  BY <1>1, PoisonTyped
<1>4. PICK g : Iterates(g, UserVars, a, n, G)
  <2> HIDE DEF G
  <2> QED BY <1>1, <1>3, Recursion
<1>5. Unfolds(g)
  <2>1. ASSUME NEW i \in 0 .. n
        PROVE  g[i] = IF i = 0 THEN a ELSE PoisonOne(g[i - 1], s[i])
    <3>1. CASE i = 0
      BY <3>1, <1>4 DEF Iterates
    <3>2. CASE i # 0
      <4>1. i \in 1 .. n /\ i - 1 \in 0 .. n
        BY <3>2, <1>1
      <4>2. g[i - 1] \in UserVars
        BY <4>1, <1>4 DEF Iterates
      <4>3. G[i][g[i - 1]] = PoisonOne(g[i - 1], s[i])
        BY <4>1, <4>2
      <4>4. g[i] = G[i][g[i - 1]]
        BY <3>2, <1>4 DEF Iterates
      <4> QED BY <3>2, <4>3, <4>4
    <3> QED BY <3>1, <3>2
  <2> QED BY <2>1, <1>4 DEF Iterates
<1>6. Unfolds(f)
  <2> HIDE DEF Unfolds
  <2> QED BY <1>5
<1> HIDE DEF f, G
<1>7. f[0] = a /\ (\A i \in 1 .. n : f[i] = PoisonOne(f[i - 1], s[i])) /\ DOMAIN f = 0 .. n
  BY <1>1, <1>6
<1>8. 0 .. n \subseteq {i \in 0 .. n : f[i] \in UserVars}
  <2> DEFINE Q == {i \in 0 .. n : f[i] \in UserVars}
  <2>1. 0 \in Q
    BY <1>1, <1>7
  <2>2. \A i \in 1 .. n : i - 1 \in Q => i \in Q
    BY <1>1, <1>7, PoisonTyped
  <2> HIDE DEF Q
  <2>3. 0 .. n \subseteq Q
    BY <1>1, <2>1, <2>2, UpTo
  <2> QED BY <2>3 DEF Q
<1>9. f \in [0 .. n -> UserVars]
  BY <1>6, <1>8
<1> QED
  BY <1>2, <1>7, <1>9 DEF n

----------------------------------------------------------------------------
(* What the scanner knows of the session.                                  *)

(* What triggers and routines may write is not trusted. *)
Accounted(w, written) == \A v \in written : w.all \/ v \in w.poisoned

(* A variable the scanner trusts holds the system variable saved in it. *)
Held(w, held) ==
  \A v \in Vars :
    ~w.all /\ v \notin w.poisoned /\ w.saved[v] \in {"mode", "client"} => held[v] = w.saved[v]

Safe(x) == x.mode = "mode" /\ x.client = "client"

(* Accepted so far, assignments leave the session safe. *)
Sound(s, r) == s.ok => Safe(r.session) /\ Held(s.u, r.vals)

(* checkAssignment takes back no refusal and trusts no variable again. *)
LEMMA CheckKeeps ==
  ASSUME NEW s \in Checked, NEW a \in Assignments
  PROVE  /\ CheckAssignment(s, a).ok => s.ok
         /\ CheckAssignment(s, a).u.poisoned = s.u.poisoned
         /\ s.u.all => CheckAssignment(s, a).u.all
<1>1. s.u \in UserVars /\ s.ok \in BOOLEAN
  BY DEF Checked
<1>2. \A v, x : Save(s.u, v, x).poisoned = s.u.poisoned /\ (s.u.all => Save(s.u, v, x).all)
  BY <1>1 DEF Save, UserVars
<1> QED
  BY <1>1, <1>2, CheckOutcomes, AssignmentForms DEF CheckAssignment

(* What a save and an assignment leave in a variable. *)
LEMMA SaveHeld ==
  ASSUME NEW w \in UserVars, NEW held \in [Vars -> SessionValues], NEW v \in Vars,
         NEW x \in SysVars, NEW y \in SessionValues,
         Held(w, held), x \in {"mode", "client"} => y = x
  PROVE  Held(Save(w, v, x), [held EXCEPT ![v] = y])
BY DEF Held, Save, UserVars, SysVars

(* An accepted assignment keeps the session safe. *)
LEMMA AssignmentSound ==
  ASSUME NEW s \in Checked, NEW r \in Ran, NEW a \in Assignments, Sound(s, r)
  PROVE  Sound(CheckAssignment(s, a), Assign(r, a))
<1> DEFINE v == a.right.of
           c == CheckAssignment(s, a)
           q == Assign(r, a)
<1>1. s.u \in UserVars /\ s.ok \in BOOLEAN
  BY DEF Checked
<1>2. r.session \in Sessions /\ r.vals \in [Vars -> SessionValues]
  BY DEF Ran
<1>3. SUFFICES ASSUME c.ok PROVE Safe(q.session) /\ Held(c.u, q.vals)
  BY DEF Sound
<1>4. s.ok /\ Safe(r.session) /\ Held(s.u, r.vals)
  BY <1>3, CheckKeeps DEF Sound
<1>5. CASE a.left \in Vars
  <2>1. a.left # "NAMES" /\ a.left \notin {"other", "mode", "client"} /\ a.scope = "none"
    BY <1>5, AssignmentForms, VarsAssumption
  <2>2. a.right.kind = "sys"
    <3>1. a.right.kind # "sys" => c = Refused(s)
      BY <1>5, <2>1 DEF CheckAssignment
    <3> QED BY <3>1, <1>3, CheckOutcomes
  <2>3. c = SaveIn(s, a.left, v)
    <3>1. Name(a) \notin Lexical
      BY <2>1 DEF Name, Lexical
    <3> QED BY <1>5, <2>2, <3>1 DEF CheckAssignment
  <2>4. c.u = Save(s.u, a.left, v)
    BY <1>4, <1>5, <2>3, CheckOutcomes
  <2>5. v \in SysVars
    BY <2>2, AssignmentForms
  <2>6. Value(r, a) \in SessionValues /\ (v \in {"mode", "client"} => Value(r, a) = v)
    BY <2>2, <2>5, <1>2, <1>4 DEF Value, Safe, Sessions, SessionValues, SysVars
  <2>7. q = SetVar(r, a.left, Value(r, a))
    BY <1>5, <2>1, <2>2 DEF Assign
  <2>8. q.session = r.session /\ q.vals = [r.vals EXCEPT ![a.left] = Value(r, a)]
    BY <1>5, <2>6, <2>7, SetVarOutcome
  <2>9. Held(c.u, q.vals)
    BY <1>1, <1>2, <1>4, <1>5, <2>4, <2>5, <2>6, <2>8, SaveHeld
  <2> QED BY <1>4, <2>8, <2>9
<1>6. CASE a.left \in {"NAMES", "client", "other", "mode"}
  <2>1. a.left \notin Vars
    BY <1>6, VarsAssumption
  <2>2. c.u = s.u
    BY <2>1, CheckOutcomes, AssignmentForms DEF CheckAssignment
  <2>3. CASE a.scope # "none" \/ a.left = "other"
    <3>1. q = r
      BY <2>1, <2>3 DEF Assign
    <3> QED BY <1>4, <2>2, <3>1
  <2>4. CASE a.scope = "none" /\ a.left # "other"
    <3> DEFINE sysvar == IF a.left = "mode" THEN "mode" ELSE "client"
    <3>1. q = SetSession(r, sysvar, Value(r, a))
      BY <2>1, <2>4 DEF Assign
    <3>2. Value(r, a) = sysvar
      <4>1. CASE a.left = "NAMES" \/ a.right.kind # "var"
        <5>1. a.right.kind # "var"
          BY <4>1, AssignmentForms
        <5>2. a.right.kind # "safe" => c = Refused(s)
          <6>1. Name(a) \in Lexical
            BY <1>6, <2>4 DEF Name, Lexical
          <6> QED BY <2>1, <5>1, <6>1 DEF CheckAssignment
        <5>3. a.right.kind = "safe"
          BY <1>3, <5>2, CheckOutcomes
        <5> QED BY <1>6, <5>3 DEF Value
      <4>2. CASE a.left # "NAMES" /\ a.right.kind = "var"
        <5>1. c = Restored(s, v, a.left)
          BY <2>1, <2>4, <4>2 DEF CheckAssignment, Name
        <5>2. v \in Vars
          BY <4>2, AssignmentForms
        <5>3. Trusted(s.u, v, a.left)
          BY <1>3, <5>1, <5>2, CheckOutcomes
        <5>4. r.vals[v] = a.left
          BY <1>4, <1>6, <2>4, <4>2, <5>2, <5>3 DEF Trusted, Held
        <5> QED BY <1>6, <2>4, <4>2, <5>4 DEF Value
      <4> QED BY <4>1, <4>2
    <3>3. sysvar \in {"mode", "client"} /\ sysvar \in SessionValues
      BY DEF SessionValues
    <3> HIDE DEF sysvar
    <3>4. q.vals = r.vals /\ q.session = [r.session EXCEPT ![sysvar] = sysvar]
      BY <3>1, <3>2, <3>3, SetSessionOutcome
    <3>5. Safe(q.session)
      BY <1>2, <1>4, <3>3, <3>4 DEF Safe, Sessions
    <3> QED BY <1>4, <2>2, <3>4, <3>5
  <2> QED BY <2>3, <2>4
<1> QED
  BY <1>5, <1>6, AssignmentForms

(* The elements of a sequence. *)
LEMMA SeqElements ==
  ASSUME NEW T, NEW s \in Seq(T)
  PROVE  Len(s) \in Nat /\ \A i \in 1 .. Len(s) : s[i] \in T
OBVIOUS

(* An accepted SET keeps the session safe, and what is poisoned, poisoned. *)
LEMMA SetSound ==
  ASSUME NEW w \in UserVars, NEW x \in Sessions, NEW held \in [Vars -> SessionValues],
         NEW as \in Seq(Assignments), NEW c, NEW q, c = CheckSet(w, as), q = RunSet(x, held, as),
         Safe(x), Held(w, held), c.ok
  PROVE  /\ c \in Checked /\ q \in Ran
         /\ Safe(q.session) /\ Held(c.u, q.vals)
         /\ c.u.poisoned = w.poisoned /\ (w.all => c.u.all)
<1> DEFINE c0 == [ok |-> TRUE, u |-> w, set |-> {}]
           q0 == [session |-> x, vals |-> held]
           n == Len(as)
<1>1. c0 \in Checked /\ q0 \in Ran /\ Sound(c0, q0) /\ c0.u = w
  BY DEF Checked, Ran, Sound
<1> HIDE DEF c0, q0
<1>2. PICK f \in [0 .. n -> Checked] :
        f[0] = c0 /\ (\A i \in 1 .. n : f[i] = CheckAssignment(f[i - 1], as[i])) /\ f[n] = c
  BY <1>1, CheckSteps DEF c0, CheckSet
<1>3. PICK g \in [0 .. n -> Ran] :
        g[0] = q0 /\ (\A i \in 1 .. n : g[i] = Assign(g[i - 1], as[i])) /\ g[n] = q
  BY <1>1, AssignSteps DEF q0, RunSet
<1>4. n \in Nat /\ \A i \in 1 .. n : as[i] \in Assignments
  BY SeqElements
<1> HIDE DEF n
<1> DEFINE Good(i) == /\ Sound(f[i], g[i])
                      /\ f[i].u.poisoned = w.poisoned
                      /\ w.all => f[i].u.all
           Q == {i \in 0 .. n : Good(i)}
<1>5. 0 \in Q
  BY <1>1, <1>2, <1>3, <1>4
<1>6. ASSUME NEW i \in 1 .. n, i - 1 \in Q PROVE i \in Q
  <2>0. i - 1 \in 0 .. n /\ i \in 0 .. n
    BY <1>4
  <2>1. f[i - 1] \in Checked /\ g[i - 1] \in Ran /\ as[i] \in Assignments
    BY <1>4, <2>0
  <2>2. f[i] = CheckAssignment(f[i - 1], as[i]) /\ g[i] = Assign(g[i - 1], as[i])
    BY <1>2, <1>3
  <2>3. Good(i - 1)
    BY <1>6
  <2>4. Sound(f[i - 1], g[i - 1])
    BY <2>3
  <2>5. f[i - 1].u.poisoned = w.poisoned /\ (w.all => f[i - 1].u.all)
    BY <2>3
  <2> HIDE DEF Good
  <2>6. Sound(f[i], g[i])
    BY <2>1, <2>2, <2>4, AssignmentSound
  <2>7. f[i].u.poisoned = f[i - 1].u.poisoned /\ (f[i - 1].u.all => f[i].u.all)
    <3> DEFINE z == CheckAssignment(f[i - 1], as[i])
    <3>1. z.u.poisoned = f[i - 1].u.poisoned /\ (f[i - 1].u.all => z.u.all)
      BY <2>1, CheckKeeps
    <3>2. f[i] = z
      BY <2>2
    <3> HIDE DEF z
    <3> QED BY <3>1, <3>2
  <2>8. Good(i)
    BY <2>5, <2>6, <2>7 DEF Good
  <2> QED BY <2>0, <2>8
<1>7. n \in Q
  <2> HIDE DEF Q
  <2>1. 0 .. n \subseteq Q
    BY <1>4, <1>5, <1>6, UpTo
  <2> QED BY <1>4, <2>1
<1>8. c \in Checked /\ q \in Ran
  BY <1>2, <1>3, <1>4
<1>9. Good(n)
  BY <1>7
<1> QED BY <1>2, <1>3, <1>8, <1>9 DEF Sound

(* Poisoning a variable changes no other, and leaves none of them trusted. *)
LEMMA PoisonGrows ==
  ASSUME NEW w \in UserVars, NEW name \in Mentionable
  PROVE  LET p == PoisonOne(w, name)
         IN /\ p.saved = w.saved /\ w.poisoned \subseteq p.poisoned /\ (w.all => p.all)
            /\ p.all \/ name \in p.poisoned
BY DEF PoisonOne, UserVars

(* After the end of a statement no variable it mentions is trusted. *)
LEMMA PoisonSound ==
  ASSUME NEW w \in UserVars, NEW names \in SUBSET Mentionable, NEW p \in Poison(w, names)
  PROVE  /\ p \in UserVars
         /\ p.saved = w.saved /\ w.poisoned \subseteq p.poisoned /\ (w.all => p.all)
         /\ \A name \in names : p.all \/ name \in p.poisoned
<1>1. IsFiniteSet(names) /\ Cardinality(names) \in Nat
  <2>1. IsFiniteSet(Mentionable)
    BY VarsAssumption, FS_AddElement DEF Mentionable
  <2> QED BY <2>1, FS_Subset, FS_CardinalityType
<1> DEFINE n == Cardinality(names)
<1>2. PICK order \in Surjection(1 .. n, names) : p = PoisonAll(w, order)
  BY DEF Poison
<1>3. order \in [1 .. n -> names] /\ \A name \in names : \E i \in 1 .. n : order[i] = name
  BY <1>2 DEF Surjection
<1>4. order \in Seq(Mentionable) /\ Len(order) = n
  BY <1>1, <1>3
<1> HIDE DEF n
<1>5. PICK f : /\ f \in [0 .. n -> UserVars]
               /\ f[0] = w
               /\ \A i \in 1 .. n : f[i] = PoisonOne(f[i - 1], order[i])
               /\ f[n] = PoisonAll(w, order)
  BY <1>4, PoisonSteps DEF PoisonAll
<1>6. n \in Nat
  BY <1>1 DEF n
<1> DEFINE Good(i) == /\ f[i].saved = w.saved
                      /\ w.poisoned \subseteq f[i].poisoned
                      /\ w.all => f[i].all
                      /\ \A j \in 1 .. i : f[i].all \/ order[j] \in f[i].poisoned
           Q == {i \in 0 .. n : Good(i)}
<1>7. 0 \in Q
  BY <1>5, <1>6
<1>8. ASSUME NEW i \in 1 .. n, i - 1 \in Q PROVE i \in Q
  <2> DEFINE x == f[i - 1]
             y == f[i]
  <2>1. x \in UserVars /\ order[i] \in Mentionable
    BY <1>3, <1>5, <1>6
  <2>2. y = PoisonOne(x, order[i])
    BY <1>5
  <2>3. Good(i - 1)
    BY <1>8
  <2>4. /\ x.saved = w.saved /\ w.poisoned \subseteq x.poisoned /\ (w.all => x.all)
        /\ \A j \in 1 .. i - 1 : x.all \/ order[j] \in x.poisoned
    BY <2>3
  <2> HIDE DEF x, y
  <2>5. /\ y.saved = x.saved /\ x.poisoned \subseteq y.poisoned /\ (x.all => y.all)
        /\ y.all \/ order[i] \in y.poisoned
    BY <2>1, <2>2, PoisonGrows
  <2>6. ASSUME NEW j \in 1 .. i PROVE y.all \/ order[j] \in y.poisoned
    <3>1. CASE j = i
      BY <2>5, <3>1
    <3>2. CASE j # i
      <4>1. j \in 1 .. i - 1
        BY <1>6, <3>2
      <4> QED BY <2>4, <2>5, <4>1
    <3> QED BY <3>1, <3>2
  <2>7. Good(i)
    BY <2>4, <2>5, <2>6 DEF x, y
  <2> QED BY <1>6, <2>7
<1>9. n \in Q
  <2> HIDE DEF Q
  <2>1. 0 .. n \subseteq Q
    BY <1>6, <1>7, <1>8, UpTo
  <2> QED BY <1>6, <2>1
<1>10. p \in UserVars /\ p = f[n]
  BY <1>2, <1>5, <1>6
<1>11. Good(n)
  BY <1>9
<1> QED BY <1>3, <1>10, <1>11
----------------------------------------------------------------------------
(* The session is lexically safe, and the scanner's view of its variables  *)
(* is right: the strengthening of SessionLexicallySafe that every step     *)
(* preserves.                                                              *)
SessionInv ==
  /\ u \in UserVars
  /\ session \in Sessions
  /\ vals \in [Vars -> SessionValues]
  /\ writes \subseteq Vars
  /\ Safe(session)
  /\ Accounted(u, writes)
  /\ Held(u, vals)

(* A scanner's view that trusts fewer variables is right where the other is. *)
LEMMA TrustingLess ==
  ASSUME NEW w, NEW p, NEW held, NEW written,
         p.saved = w.saved, w.poisoned \subseteq p.poisoned, w.all => p.all
  PROVE  /\ Held(w, held) => Held(p, held)
         /\ Accounted(w, written) => Accounted(p, written)
BY DEF Held, Accounted

(* A SET mentions variables. *)
LEMMA SetMentions ==
  ASSUME NEW as \in Seq(Assignments)
  PROVE  Mentions(as) \in SUBSET Vars
<1>1. \A i \in 1 .. Len(as) : as[i] \in Assignments
  BY SeqElements
<1>2. \A i \in 1 .. Len(as) : as[i].right.kind \in {"var", "expr"} => as[i].right.of \in Vars
  BY <1>1, AssignmentForms
<1> QED
  BY <1>2 DEF Mentions

(* importPreamble's session is safe and no variable is known. *)
LEMMA SessionStarts == Init => SessionInv
<1> SUFFICES ASSUME Init PROVE SessionInv
  OBVIOUS
<1>1. u \in UserVars /\ \A v \in Vars : u.saved[v] = "none"
  BY DEF Init, U0, UserVars
<1> QED
  BY <1>1 DEF Init, SessionInv, Sessions, SessionValues, Safe, Accounted, Held

(* SetStatement keeps the session safe. *)
LEMMA SetStatementSafe == SessionInv /\ SetStatement => SessionInv'
<1> SUFFICES ASSUME SessionInv, SetStatement PROVE SessionInv'
  OBVIOUS
<1>1. PICK as \in Sets :
        LET checked == CheckSet(u, as)
            ran == RunSet(session, vals, as)
            w == IF TooManyRefs(Mentions(as)) THEN [checked.u EXCEPT !.all = TRUE] ELSE checked.u
        IN /\ checked.ok
           /\ u' \in Poison(w, Mentions(as) \ checked.set)
           /\ session' = ran.session /\ vals' = ran.vals
  BY DEF SetStatement
<1> DEFINE checked == CheckSet(u, as)
           ran == RunSet(session, vals, as)
           w == IF TooManyRefs(Mentions(as)) THEN [checked.u EXCEPT !.all = TRUE] ELSE checked.u
           names == Mentions(as) \ checked.set
<1>2. checked.ok /\ u' \in Poison(w, names) /\ session' = ran.session /\ vals' = ran.vals
  BY <1>1
<1>3. as \in Seq(Assignments)
  BY SetsAssumption
<1> HIDE DEF checked, ran
<1>4. /\ checked \in Checked /\ ran \in Ran
      /\ Safe(ran.session) /\ Held(checked.u, ran.vals)
      /\ checked.u.poisoned = u.poisoned /\ (u.all => checked.u.all)
  BY <1>2, <1>3, SetSound DEF SessionInv, checked, ran
<1>5. checked.u \in UserVars
  BY <1>4 DEF Checked
<1>6. /\ w \in UserVars
      /\ w.saved = checked.u.saved /\ w.poisoned = checked.u.poisoned /\ (checked.u.all => w.all)
  BY <1>5 DEF UserVars
<1>7. names \in SUBSET Mentionable
  BY <1>3, SetMentions DEF Mentionable
<1> HIDE DEF w, names
<1>8. /\ u' \in UserVars
      /\ u'.saved = w.saved /\ w.poisoned \subseteq u'.poisoned /\ (w.all => u'.all)
  BY <1>2, <1>6, <1>7, PoisonSound
<1>9. Held(u', vals')
  <2>1. Held(w, ran.vals)
    BY <1>4, <1>6, TrustingLess
  <2> QED BY <1>2, <1>8, <2>1, TrustingLess
<1>10. Accounted(u', writes')
  <2>1. Accounted(u, writes) /\ writes' = writes
    BY DEF SessionInv, SetStatement
  <2> QED BY <1>4, <1>6, <1>8, <2>1 DEF Accounted
<1>11. session' \in Sessions /\ vals' \in [Vars -> SessionValues] /\ Safe(session')
  BY <1>2, <1>4 DEF Ran
<1> QED
  BY <1>8, <1>9, <1>10, <1>11 DEF SessionInv, SetStatement

(* StoredProgram poisons what the program may write. *)
LEMMA StoredProgramSafe == SessionInv /\ StoredProgram => SessionInv'
<1> SUFFICES ASSUME SessionInv, StoredProgram PROVE SessionInv'
  OBVIOUS
<1>1. PICK names \in SUBSET (Vars \cup {"unnamed"}) \ {{}} :
        LET w == IF TooManyRefs(names) THEN [u EXCEPT !.all = TRUE] ELSE u
        IN /\ u' \in Poison(w, names)
           /\ writes' = writes \cup (IF "unnamed" \in names THEN Vars ELSE names)
  BY DEF StoredProgram
<1> DEFINE w == IF TooManyRefs(names) THEN [u EXCEPT !.all = TRUE] ELSE u
<1>2. /\ u' \in Poison(w, names) /\ names \in SUBSET Mentionable
      /\ writes' = writes \cup (IF "unnamed" \in names THEN Vars ELSE names)
  BY <1>1 DEF Mentionable
<1>3. /\ w \in UserVars
      /\ w.saved = u.saved /\ w.poisoned = u.poisoned /\ (u.all => w.all)
  BY DEF SessionInv, UserVars
<1> HIDE DEF w
<1>4. /\ u' \in UserVars
      /\ u'.saved = w.saved /\ w.poisoned \subseteq u'.poisoned /\ (w.all => u'.all)
      /\ \A name \in names : u'.all \/ name \in u'.poisoned
  BY <1>2, <1>3, PoisonSound
<1>5. Held(u', vals')
  BY <1>3, <1>4, TrustingLess DEF SessionInv, StoredProgram
<1>6. Accounted(u', writes')
  <2>1. \A v \in writes : u'.all \/ v \in u'.poisoned
    BY <1>3, <1>4 DEF SessionInv, Accounted
  <2>2. CASE "unnamed" \in names
    <3>1. "unnamed" \notin u'.poisoned
      BY <1>4, VarsAssumption DEF UserVars
    <3> QED BY <1>4, <2>2, <3>1 DEF Accounted
  <2>3. CASE "unnamed" \notin names
    BY <1>2, <1>4, <2>1, <2>3 DEF Accounted
  <2> QED BY <2>2, <2>3
<1>7. writes' \subseteq Vars
  BY <1>2 DEF SessionInv, Mentionable
<1> QED
  BY <1>4, <1>5, <1>6, <1>7 DEF SessionInv, StoredProgram

(* What a program writes is not trusted. *)
LEMMA ProgramRunsSafe == SessionInv /\ ProgramRuns => SessionInv'
<1> SUFFICES ASSUME SessionInv, ProgramRuns PROVE SessionInv'
  OBVIOUS
<1>1. PICK v \in writes : vals' = [vals EXCEPT ![v] = "bad"]
  BY DEF ProgramRuns
<1>2. vals' \in [Vars -> SessionValues]
  BY <1>1 DEF SessionInv, SessionValues
<1>3. Held(u, vals')
  BY <1>1 DEF SessionInv, Accounted, Held
<1> QED
  BY <1>2, <1>3 DEF SessionInv, ProgramRuns

(* The session and the scanner's view of it are right after every step. *)
LEMMA SessionStays == SessionInv /\ [Next]_vars => SessionInv'
<1> SUFFICES ASSUME SessionInv, [Next]_vars PROVE SessionInv'
  OBVIOUS
<1>1. CASE UNCHANGED <<u, session, vals, writes>>
  BY <1>1 DEF SessionInv
<1>2. CASE TokenArrives
  BY <1>1, <1>2 DEF TokenArrives
<1>3. CASE SpaceArrives
  BY <1>1, <1>3 DEF SpaceArrives
<1>4. CASE StatementEnds
  BY <1>1, <1>4 DEF StatementEnds
<1>5. CASE SetStatement
  BY <1>5, SetStatementSafe
<1>6. CASE StoredProgram
  BY <1>6, StoredProgramSafe
<1>7. CASE ProgramRuns
  BY <1>7, ProgramRunsSafe
<1>8. CASE UNCHANGED vars
  BY <1>1, <1>8 DEF vars
<1> QED
  BY <1>2, <1>3, <1>4, <1>5, <1>6, <1>7, <1>8 DEF Next

(* What the scanner knows of the session is right: no variable it trusts   *)
(* has been written by a trigger or routine, and each holds the system     *)
(* variable that was saved in it (userVars, checkAssignment, end).         *)
THEOREM SessionTracked == Spec => []SessionInv
<1>1. Init => SessionInv
  BY SessionStarts
<1>2. SessionInv /\ [Next]_vars => SessionInv'
  BY SessionStays
<1> QED
  BY <1>1, <1>2, PTL DEF Spec

(* Whatever a dump saves, sets back and lets its triggers and routines     *)
(* write, the session keeps the sql_mode and the character set that        *)
(* importPreamble set.                                                     *)
THEOREM SessionStaysSafe == Spec => []SessionLexicallySafe
<1>1. SessionInv => SessionLexicallySafe
  BY DEF SessionInv, Safe, SessionLexicallySafe
<1> QED
  BY <1>1, SessionTracked, PTL
----------------------------------------------------------------------------
(* The check of the rows and the server are at the same place of the body, *)
(* or the server has stopped, or the check refuses whatever comes next.    *)
RowsAgree(v, r) ==
  \/ r.in = "broken" /\ ~r.evaluates
  \/ v.state = "literalSep" /\ v.sign
  \/ v.state = "columnSep" /\ ~v.sign /\ r.in = "rows" /\ r.last = "VALUES" /\ ~r.evaluates
  \/ /\ ~r.evaluates
     /\ r.in = "columns" <=> v.state \in {"head", "column", "columnSep", "keyword"}
     /\ r.in = "rows" <=> v.state \notin {"head", "column", "columnSep", "keyword"}
     /\ v.state = "head" => r.last = "none"
     /\ v.state = "column" => r.last \in {"(", "comma"}
     /\ v.state = "keyword" => r.last = ")"
     /\ v.state = "tuple" => r.last \in {"VALUES", "comma", "("}
     /\ v.state = "literal" => IF v.sign THEN r.last = "sign" ELSE r.last \in {"(", "comma"}
     /\ v.state = "introduced" => r.last \in {"X", "N", "_utf8"} /\ (v.radix <=> r.last = "X")
     /\ v.state \in {"literalSep", "tupleSep"} => r.last \notin {"sign", "X", "N", "_utf8"}
     /\ v.sign => v.state = "literal"

(* Where the server waits for a default's value, or its end, the check of  *)
(* the columns does; it may wait for more, where the server is elsewhere.  *)
ColumnsAgree(tail, r) ==
  /\ r.computes \subseteq {"later"}
  /\ r.in \in {"default", "signed"} => tail.value
  /\ r.in \in {"value", "now"} => tail.after
  /\ r.in = "value" => tail.word # "CURRENT_TIMESTAMP"

(* After the head: the names are home, and the body is read alike.  The    *)
(* word at its end is heard before it is checked.                          *)
Settled(c, g) ==
  /\ ~g.abroad /\ g.place \in {"ended", "after"} /\ g.verb \notin {"DROP", "LOCK"}
  /\ g.kind = "TRIGGER" => g.names = 1
  /\ c.inValues <=> g.verb = "INSERT"
  /\ c.tail.table <=> g.verb = "CREATE" /\ g.kind = "TABLE"
  /\ IF c.inValues
     THEN /\ g.place = "after" /\ c.cur = NoToken
          /\ c.values.state # "refused" /\ RowsAgree(c.values, g.row)
     ELSE g.row = Rows0
  /\ IF c.tail.table
     THEN /\ g.place = "after"
          /\ IF c.cur = NoToken THEN ColumnsAgree(c.tail, g.column)
             ELSE \E r \in ColumnReadings :
                    ColumnsAgree(c.tail, r) /\ g.column = HearColumn(r, Lexeme(c.cur))
     ELSE g.column = Default0

(* Between two statements all is as at the start, but for what defaults    *)
(* computed later.                                                         *)
Started(g) ==
  /\ g.place = "verb" /\ ~g.abroad /\ ~g.row.evaluates
  /\ g.column.computes \subseteq {"later"}

Pending(c) == IF c.cur = NoToken THEN c.tokens ELSE Append(c.tokens, c.cur)

(* Before that: the head is undecided, and what has been heard has the     *)
(* shape of its tokens.                                                    *)
Unsettled(c, g) ==
  /\ c.values = Values0 /\ c.tail = Tail0 /\ ~c.inValues
  /\ c.tokens # <<>> => CheckHead(c.tokens, FALSE) = "more" /\ Len(c.tokens) <= MaxHead
  /\ Pending(c) = <<>> => Started(g)
  /\ Pending(c) # <<>> => g.place # "verb" /\ Follows(Pending(c), g)

Reads(c, g) ==
  /\ c \in Checks /\ g \in Readings
  /\ c.accepted => c.tokens = <<>>
  /\ c.inValues => c.accepted
  /\ Len(c.tokens) <= MaxHead + 1
  /\ ~c.refused => IF c.accepted THEN Settled(c, g) ELSE Unsettled(c, g)

(* The strengthening of TypeOK, NamesStayHome, LiteralRows and             *)
(* LiteralDefaults that every step preserves.                              *)
StatementInv ==
  /\ Reads(d, heard)
  /\ d.cur = NoToken \/ d.cur.kind = "w"
----------------------------------------------------------------------------

(* The bodies.                                                             *)

Tails == [table : BOOLEAN, word : TailWords \cup {"none"}, value : BOOLEAN, after : BOOLEAN,
          refused : {FALSE}]
RowChecks == [state : ValueStates, sign : BOOLEAN, radix : BOOLEAN]

(* A record of the check of columns, field by field. *)
LEMMA TailRecord ==
  ASSUME NEW t, NEW w, NEW v, NEW a, NEW b, NEW e,
         e = [table |-> t, word |-> w, value |-> v, after |-> a, refused |-> b]
  PROVE  /\ e.table = t /\ e.word = w /\ e.value = v /\ e.after = a /\ e.refused = b
         /\ [e EXCEPT !.refused = b] = e
OBVIOUS

(* checkTail, field by field. *)
LEMMA CheckTailFields ==
  ASSUME NEW c \in Tails, NEW x, NEW e, e = CheckTail(c, x)
  PROVE  /\ e.table = c.table /\ e.refused = TailRefuses(c, x)
         /\ [e EXCEPT !.refused = FALSE] \in Tails
         /\ ~e.refused /\ ~(c.table /\ c.value /\ x = "sign") =>
              /\ e.after = (c.table /\ c.value /\ x \notin OptionWords)
              /\ e.value = (c.table /\ x = "DEFAULT")
              /\ e.word = IF x \in TailWords THEN x ELSE "none"
         /\ ~e.refused /\ c.table /\ c.value /\ x = "sign" => e = c
<1>0. TailRefuses(c, x) \in BOOLEAN
  BY DEF TailRefuses
<1>4. /\ c.refused = FALSE /\ c.table \in BOOLEAN /\ c.value \in BOOLEAN /\ c.after \in BOOLEAN
      /\ c.word \in TailWords \cup {"none"}
      /\ c = [table |-> c.table, word |-> c.word, value |-> c.value, after |-> c.after, refused |-> FALSE]
  BY DEF Tails
<1>1. CASE TailRefuses(c, x)
  <2>1. e = [c EXCEPT !.refused = TRUE]
    BY <1>1 DEF CheckTail
  <2> QED BY <1>1, <2>1 DEF Tails
<1>2. CASE ~TailRefuses(c, x) /\ c.table /\ c.value /\ x = "sign"
  <2>1. e = c
    BY <1>2 DEF CheckTail
  <2>2. [e EXCEPT !.refused = FALSE] = c
    BY <1>4, <2>1
  <2> QED BY <1>0, <1>2, <1>4, <2>1, <2>2
<1>3. CASE ~TailRefuses(c, x) /\ ~(c.table /\ c.value /\ x = "sign")
  <2>1. e = [c EXCEPT !.after = c.table /\ c.value /\ x \notin OptionWords,
                      !.value = c.table /\ x = "DEFAULT",
                      !.word = IF x \in TailWords THEN x ELSE "none"]
    BY <1>3 DEF CheckTail
  <2> DEFINE w == IF x \in TailWords THEN x ELSE "none"
             v == c.table /\ x = "DEFAULT"
             a == c.table /\ c.value /\ x \notin OptionWords
  <2>2. e = [table |-> c.table, word |-> w, value |-> v, after |-> a, refused |-> FALSE]
    BY <1>4, <2>1
  <2>5. v \in BOOLEAN /\ a \in BOOLEAN /\ w \in TailWords \cup {"none"}
    OBVIOUS
  <2>6. /\ e.table = c.table /\ e.word = w /\ e.value = v /\ e.after = a /\ e.refused = FALSE
        /\ [e EXCEPT !.refused = FALSE] = e
    <3> HIDE DEF w, v, a
    <3>1. \A b : e = [table |-> c.table, word |-> w, value |-> v, after |-> a, refused |-> b] =>
            /\ e.table = c.table /\ e.word = w /\ e.value = v /\ e.after = a /\ e.refused = b
            /\ [e EXCEPT !.refused = b] = e
      BY TailRecord
    <3> QED BY <2>2, <3>1, Zenon
  <2>4. e \in Tails
    <3> HIDE DEF w, v, a
    <3> QED BY <1>4, <2>2, <2>5 DEF Tails
  <2> QED BY <1>0, <1>3, <2>4, <2>6
<1> QED BY <1>0, <1>1, <1>2, <1>3

(* What the server computes of a lexeme after which the check goes on. *)
LEMMA ComputesLater ==
  ASSUME NEW c \in Tails, NEW r \in ColumnReadings, c.table, ColumnsAgree(c, r),
         NEW x, ~TailRefuses(c, x)
  PROVE  ColumnComputes(r.in, x) \subseteq {"later"}
<1>1. /\ x # "AS"
      /\ c.after => x \in {"comma", ")", "NOT", "NULL", "COLLATE"} \/ (x = "(" /\ c.word = "CURRENT_TIMESTAMP")
      /\ c.value => x \in Literals \cup {"CURRENT_TIMESTAMP", "CHARSET", "COLLATE", "sign"}
  BY DEF TailRefuses, MayFollowDefault, Attributes, DefaultLiterals, OptionWords, Literals
<1>2. CASE r.in = "no"
  BY <1>1, <1>2 DEF ColumnComputes
<1>3. CASE r.in = "default"
  BY <1>1, <1>3 DEF ColumnComputes, ColumnsAgree
<1>4. CASE r.in \in {"value", "now"}
  <2>1. ~GoesOn(r.in, x)
    BY <1>1, <1>4 DEF GoesOn, ColumnsAgree
  <2> QED BY <1>4, <2>1 DEF ColumnComputes
<1>5. CASE r.in \notin {"no", "default", "value", "now"}
  BY <1>5 DEF ColumnComputes
<1> QED BY <1>2, <1>3, <1>4, <1>5

(* A column the check does not refuse, the server reads alike. *)
LEMMA ColumnsFollow ==
  ASSUME NEW c \in Tails, NEW r \in ColumnReadings, c.table, ColumnsAgree(c, r),
         NEW x \in Atoms \cup {"id"}, ~CheckTail(c, x).refused
  PROVE  ColumnsAgree([CheckTail(c, x) EXCEPT !.refused = FALSE], HearColumn(r, x))
<1> DEFINE e == CheckTail(c, x)
           f == [e EXCEPT !.refused = FALSE]
           h == HearColumn(r, x)
<1>1. /\ e.table = c.table /\ ~TailRefuses(c, x)
      /\ f \in Tails
      /\ ~(c.table /\ c.value /\ x = "sign") =>
           /\ e.after = (c.table /\ c.value /\ x \notin OptionWords)
           /\ e.value = (c.table /\ x = "DEFAULT")
           /\ e.word = IF x \in TailWords THEN x ELSE "none"
      /\ c.table /\ c.value /\ x = "sign" => e = c
  BY CheckTailFields
<1> HIDE DEF e
<1>2. f.after = e.after /\ f.value = e.value /\ f.word = e.word
  BY <1>1
<1> HIDE DEF f
<1>3. h.in = ColumnState(r.in, x) /\ h.computes = r.computes \cup ColumnComputes(r.in, x)
  BY DEF HearColumn
<1>4. h.computes \subseteq {"later"}
  BY <1>1, <1>3, ComputesLater DEF ColumnsAgree
<1> HIDE DEF h
<1>5. h.in \in {"default", "signed"} => f.value
  <2>1. CASE h.in = "default"
    <3>1. x = "DEFAULT"
      BY <1>3, <2>1 DEF ColumnState
    <3> QED BY <1>1, <1>2, <3>1
  <2>2. CASE h.in = "signed"
    <3>1. r.in = "default" /\ x = "sign"
      BY <1>3, <2>2 DEF ColumnState
    <3> QED BY <1>1, <1>2, <3>1 DEF ColumnsAgree
  <2> QED BY <2>1, <2>2
<1>6. h.in \in {"value", "now"} =>
        f.after /\ (h.in = "value" => f.word # "CURRENT_TIMESTAMP")
  <2>1. SUFFICES ASSUME h.in \in {"value", "now"}
                 PROVE  f.after /\ (h.in = "value" => f.word # "CURRENT_TIMESTAMP")
    OBVIOUS
  <2>2. /\ r.in \in {"default", "signed"} /\ x # "sign" /\ x \notin {"CHARSET", "COLLATE"}
        /\ h.in = "value" => x # "CURRENT_TIMESTAMP"
    BY <1>3, <2>1 DEF ColumnState
  <2>3. c.value
    BY <2>2 DEF ColumnsAgree
  <2> QED BY <1>1, <1>2, <2>2, <2>3 DEF OptionWords
<1>7. ColumnsAgree(f, h)
  BY <1>4, <1>5, <1>6 DEF ColumnsAgree
<1> QED BY <1>7 DEF f, e, h

(* The server's rows, field by field. *)
LEMMA HearRowFields ==
  ASSUME NEW r \in RowReadings, NEW x, NEW h, h = HearRow(r, x)
  PROVE  /\ h.last = x
         /\ h.in = IF r.in = "columns" /\ x = "VALUES" THEN "rows"
                   ELSE IF r.in = "rows" /\ r.last = "VALUES" /\ x # "(" THEN "broken" ELSE r.in
         /\ r.in = "broken" \/ (r.last = "VALUES" /\ x # "(") => h.evaluates = r.evaluates
         /\ ~Computes(r, x) => h.evaluates = r.evaluates
<1>1. r.evaluates \in BOOLEAN /\ r.in \in {"columns", "rows", "broken"}
  BY DEF RowReadings
<1>2. h.last = x
  BY DEF HearRow
<1>3. h.in = IF r.in = "columns" /\ x = "VALUES" THEN "rows"
             ELSE IF r.in = "rows" /\ r.last = "VALUES" /\ x # "(" THEN "broken" ELSE r.in
  BY <1>1 DEF HearRow
<1>4. h.evaluates = (r.evaluates \/ (Computes(r, x) /\ ~(r.last = "VALUES" /\ x # "(")))
  BY DEF HearRow
<1>5. r.in = "broken" => ~Computes(r, x)
  BY DEF Computes
<1> QED BY <1>1, <1>2, <1>3, <1>4, <1>5

(* The check's states, field by field. *)
LEMMA ToFields ==
  ASSUME NEW v \in RowChecks, NEW s \in ValueStates
  PROVE  /\ To(v, s) \in RowChecks
         /\ To(v, s).state = s /\ ~To(v, s).sign /\ To(v, s).radix = v.radix
BY DEF To, RowChecks

(* A refusal is a state. *)
LEMMA BadTyped == BadValues \in RowChecks /\ BadValues.state = "refused"
BY DEF BadValues, Values0, RowChecks, ValueStates

(* Space refuses a pending sign anywhere but where a literal is expected. *)
LEMMA SpacedFields ==
  ASSUME NEW v \in RowChecks
  PROVE  /\ Spaced(v) \in RowChecks
         /\ Spaced(v).state # "refused" => Spaced(v) = v /\ (v.sign => v.state = "literal")
         /\ v.sign /\ v.state # "literal" => Spaced(v) = BadValues
         /\ v.state # "refused" /\ (v.sign => v.state = "literal") => Spaced(v).state = v.state
BY BadTyped DEF Spaced

(* What a word does. *)
LEMMA ValueWordFields ==
  ASSUME NEW v \in RowChecks, NEW x, NEW w, w = ValueWord(v, x)
  PROVE  /\ w \in RowChecks
         /\ \/ w.state = "refused"
            \/ /\ v.state \in {"head", "keyword"} /\ x = "VALUES"
               /\ w.state = "tuple" /\ ~w.sign
            \/ /\ v.state = "column" /\ x \notin {"sign", "sum"}
               /\ w.state = "columnSep" /\ ~w.sign
            \/ v.state = "literal" /\ ~v.sign /\ x = "sign" /\ w.state = "literal" /\ w.sign
            \/ /\ v.state = "literal" /\ (x = "num" \/ (~v.sign /\ x \in {"NULL", "0x1F"}))
               /\ w.state = "literalSep" /\ ~w.sign
            \/ /\ v.state = "literal" /\ ~v.sign /\ x \in {"X", "N", "_utf8"}
               /\ w.state = "introduced" /\ ~w.sign /\ (w.radix <=> x = "X")
<1>1. CASE v.state \in {"head", "keyword"} /\ x = "VALUES"
  <2>1. w = To(v, "tuple")
    BY <1>1 DEF ValueWord
  <2> QED BY <1>1, <2>1, ToFields DEF ValueStates
<1>2. CASE v.state = "column" /\ x \notin {"sign", "sum"}
  <2>1. w = To(v, "columnSep")
    BY <1>2 DEF ValueWord
  <2> QED BY <1>2, <2>1, ToFields DEF ValueStates
<1>3. CASE v.state = "literal"
  <2>1. w = ValueLiteral(v, x)
    BY <1>3 DEF ValueWord
  <2>2. CASE ~v.sign /\ x = "sign"
    <3>1. w = [v EXCEPT !.sign = TRUE]
      BY <2>1, <2>2 DEF ValueLiteral
    <3>2. w \in RowChecks /\ w.state = v.state /\ w.sign
      BY <3>1 DEF RowChecks
    <3> QED BY <1>3, <2>2, <3>2
  <2>3. CASE x = "num" \/ (~v.sign /\ x \in {"NULL", "0x1F"})
    <3>1. w = To(v, "literalSep")
      BY <2>1, <2>3 DEF ValueLiteral
    <3> QED BY <1>3, <2>3, <3>1, ToFields DEF ValueStates
  <2>4. CASE ~v.sign /\ x \in {"X", "N", "_utf8"}
    <3> DEFINE t == To(v, "introduced")
    <3>1. w = [t EXCEPT !.radix = (x = "X")]
      BY <2>1, <2>4 DEF ValueLiteral
    <3>2. t \in RowChecks /\ t.state = "introduced" /\ ~t.sign
      BY ToFields DEF ValueStates
    <3> HIDE DEF t
    <3>3. w \in RowChecks /\ w.state = t.state /\ w.sign = t.sign /\ (w.radix <=> x = "X")
      BY <3>1, <3>2 DEF RowChecks
    <3> QED BY <1>3, <2>4, <3>2, <3>3
  <2>5. CASE ~(~v.sign /\ x = "sign") /\ ~(x = "num" \/ (~v.sign /\ x \in {"NULL", "0x1F"}))
             /\ ~(~v.sign /\ x \in {"X", "N", "_utf8"})
    <3>1. w = BadValues
      BY <2>1, <2>5 DEF ValueLiteral
    <3> QED BY <3>1, BadTyped
  <2> QED BY <2>2, <2>3, <2>4, <2>5
<1>4. CASE ~(v.state \in {"head", "keyword"} /\ x = "VALUES") /\ v.state # "literal"
           /\ ~(v.state = "column" /\ x \notin {"sign", "sum"})
  <2>1. w = BadValues
    BY <1>4 DEF ValueWord
  <2> QED BY <2>1, BadTyped
<1> QED BY <1>1, <1>2, <1>3, <1>4

(* What punctuation does. *)
LEMMA ValuePunctFields ==
  ASSUME NEW v \in RowChecks, NEW x, NEW w, w = ValuePunct(v, x)
  PROVE  /\ w \in RowChecks
         /\ \/ w.state = "refused"
            \/ /\ ~w.sign /\ (v.sign => v.state = "literal")
               /\ \/ v.state = "head" /\ x = "(" /\ w.state = "column"
                  \/ v.state = "tuple" /\ x = "(" /\ w.state = "literal"
                  \/ v.state = "columnSep" /\ x = "comma" /\ w.state = "column"
                  \/ v.state = "columnSep" /\ x = ")" /\ w.state = "keyword"
                  \/ v.state = "literalSep" /\ x = "comma" /\ w.state = "literal"
                  \/ v.state = "literalSep" /\ x = ")" /\ w.state = "tupleSep"
                  \/ v.state = "tupleSep" /\ x = "comma" /\ w.state = "tuple"
<1> DEFINE t == Spaced(v)
<1>1. t \in RowChecks /\ (t.state # "refused" => t = v /\ (v.sign => v.state = "literal"))
  BY SpacedFields
<1>2. w = CASE x = "(" /\ t.state = "head" -> To(t, "column")
            [] x = "(" /\ t.state = "tuple" -> To(t, "literal")
            [] x = "comma" /\ t.state = "columnSep" -> To(t, "column")
            [] x = ")" /\ t.state = "columnSep" -> To(t, "keyword")
            [] x = "comma" /\ t.state = "literalSep" -> To(t, "literal")
            [] x = ")" /\ t.state = "literalSep" -> To(t, "tupleSep")
            [] x = "comma" /\ t.state = "tupleSep" -> To(t, "tuple")
            [] OTHER -> BadValues
  BY DEF ValuePunct
<1> HIDE DEF t
<1>3. \A s \in ValueStates : To(t, s) \in RowChecks /\ To(t, s).state = s /\ ~To(t, s).sign
  BY <1>1, ToFields
<1>4. \/ w = BadValues
      \/ x = "(" /\ t.state = "head" /\ w = To(t, "column")
      \/ x = "(" /\ t.state = "tuple" /\ w = To(t, "literal")
      \/ x = "comma" /\ t.state = "columnSep" /\ w = To(t, "column")
      \/ x = ")" /\ t.state = "columnSep" /\ w = To(t, "keyword")
      \/ x = "comma" /\ t.state = "literalSep" /\ w = To(t, "literal")
      \/ x = ")" /\ t.state = "literalSep" /\ w = To(t, "tupleSep")
      \/ x = "comma" /\ t.state = "tupleSep" /\ w = To(t, "tuple")
  BY <1>2
<1>5. CASE w = BadValues
  BY <1>5, BadTyped
<1>6. CASE w # BadValues
  <2>1. t = v /\ (v.sign => v.state = "literal")
    BY <1>1, <1>4, <1>6
  <2>2. {"column", "literal", "keyword", "tupleSep", "tuple"} \subseteq ValueStates
    BY DEF ValueStates
  <2> QED BY <1>3, <1>4, <1>6, <2>1, <2>2
<1> QED BY <1>5, <1>6

(* What a quote does. *)
LEMMA ValueQuoteFields ==
  ASSUME NEW v \in RowChecks, NEW x, NEW w, w = ValueQuote(v, x)
  PROVE  /\ w \in RowChecks
         /\ \/ w.state = "refused"
            \/ v.state = "column" /\ ~v.sign /\ x = "id" /\ w.state = "columnSep" /\ ~w.sign
            \/ v.state = "literal" /\ x \in Strings /\ w.state = "literalSep" /\ w.sign = v.sign
            \/ /\ v.state = "introduced" /\ ~v.sign /\ x \in Strings /\ (v.radix => x = "hexstr")
               /\ w.state = "literalSep" /\ ~w.sign
<1> DEFINE t == Spaced(v)
<1>1. t \in RowChecks /\ (t.state # "refused" => t = v /\ (v.sign => v.state = "literal"))
  BY SpacedFields
<1>2. w = CASE t.state = "column" /\ x = "id" -> To(t, "columnSep")
            [] t.state = "literal" /\ x \in Strings -> [t EXCEPT !.state = "literalSep"]
            [] t.state = "introduced" /\ x \in Strings /\ (t.radix => x = "hexstr") ->
                 [To(t, "literalSep") EXCEPT !.radix = FALSE]
            [] OTHER -> BadValues
  BY DEF ValueQuote
<1> HIDE DEF t
<1>3. CASE t.state = "column" /\ x = "id"
  <2>1. w = To(t, "columnSep")
    BY <1>2, <1>3
  <2> QED BY <1>1, <1>3, <2>1, ToFields DEF ValueStates
<1>4. CASE t.state = "literal" /\ x \in Strings
  <2>1. w = [t EXCEPT !.state = "literalSep"]
    BY <1>2, <1>4
  <2>2. w \in RowChecks /\ w.state = "literalSep" /\ w.sign = t.sign
    BY <1>1, <2>1 DEF RowChecks, ValueStates
  <2> QED BY <1>1, <1>4, <2>2
<1>5. CASE t.state = "introduced" /\ x \in Strings /\ (t.radix => x = "hexstr")
  <2> DEFINE q == To(t, "literalSep")
  <2>1. w = [q EXCEPT !.radix = FALSE]
    BY <1>2, <1>5
  <2>2. q \in RowChecks /\ q.state = "literalSep" /\ ~q.sign
    BY <1>1, ToFields DEF ValueStates
  <2> HIDE DEF q
  <2>3. w \in RowChecks /\ w.state = q.state /\ w.sign = q.sign
    BY <2>1, <2>2 DEF RowChecks
  <2> QED BY <1>1, <1>5, <2>2, <2>3
<1>6. CASE ~(t.state = "column" /\ x = "id") /\ ~(t.state = "literal" /\ x \in Strings)
           /\ ~(t.state = "introduced" /\ x \in Strings /\ (t.radix => x = "hexstr"))
  <2>1. w = BadValues
    BY <1>2, <1>6
  <2> QED BY <2>1, BadTyped
<1> QED BY <1>3, <1>4, <1>5, <1>6

(* Where rows and their check agree, they agree on the next lexeme unless  *)
(* the check refuses it: on a word.                                        *)
LEMMA WordFollows ==
  ASSUME NEW v \in RowChecks, NEW r \in RowReadings, RowsAgree(v, r), v.state # "refused",
         NEW x \in ValueWords \cup TailWords \cup {"id"},
         NEW w, w = ValueWord(v, x), w.state # "refused", NEW h, h = HearRow(r, x)
  PROVE  RowsAgree(w, h)
<1>1. /\ h.last = x
      /\ h.in = IF r.in = "columns" /\ x = "VALUES" THEN "rows"
                ELSE IF r.in = "rows" /\ r.last = "VALUES" /\ x # "(" THEN "broken" ELSE r.in
      /\ r.in = "broken" \/ (r.last = "VALUES" /\ x # "(") => h.evaluates = r.evaluates
      /\ ~Computes(r, x) => h.evaluates = r.evaluates
  BY HearRowFields
<1>2. \/ /\ v.state \in {"head", "keyword"} /\ x = "VALUES"
         /\ w.state = "tuple" /\ ~w.sign
      \/ /\ v.state = "column" /\ x \notin {"sign", "sum"}
         /\ w.state = "columnSep" /\ ~w.sign
      \/ v.state = "literal" /\ ~v.sign /\ x = "sign" /\ w.state = "literal" /\ w.sign
      \/ /\ v.state = "literal" /\ (x = "num" \/ (~v.sign /\ x \in {"NULL", "0x1F"}))
         /\ w.state = "literalSep" /\ ~w.sign
      \/ /\ v.state = "literal" /\ ~v.sign /\ x \in {"X", "N", "_utf8"}
         /\ w.state = "introduced" /\ ~w.sign /\ (w.radix <=> x = "X")
  BY ValueWordFields
<1>3. CASE r.in = "broken" /\ ~r.evaluates
  BY <1>1, <1>3 DEF RowsAgree
<1>4. CASE r.in # "broken" /\ v.state \notin {"literalSep", "columnSep"}
  <2>1. /\ ~r.evaluates
        /\ r.in = "columns" <=> v.state \in {"head", "column", "columnSep", "keyword"}
        /\ r.in = "rows" <=> v.state \notin {"head", "column", "columnSep", "keyword"}
        /\ v.state = "head" => r.last = "none"
        /\ v.state = "column" => r.last \in {"(", "comma"}
        /\ v.state = "keyword" => r.last = ")"
        /\ v.state = "literal" => IF v.sign THEN r.last = "sign" ELSE r.last \in {"(", "comma"}
    BY <1>4 DEF RowsAgree
  <2>2. CASE v.state \in {"head", "keyword"} /\ x = "VALUES" /\ w.state = "tuple" /\ ~w.sign
    <3>1. ~Computes(r, x) /\ r.in = "columns"
      BY <2>1, <2>2 DEF Computes, Strings
    <3> QED BY <1>1, <2>1, <2>2, <3>1 DEF RowsAgree
  <2>3. CASE v.state = "column" /\ x \notin {"sign", "sum"} /\ w.state = "columnSep" /\ ~w.sign
    <3>1. ~Computes(r, x) /\ r.in = "columns" /\ r.last # "VALUES"
      BY <2>1, <2>3 DEF Computes, Strings, ValueWords, TailWords
    <3>2. ~h.evaluates
      BY <1>1, <2>1, <3>1
    <3>3. CASE x = "VALUES"
      BY <1>1, <2>3, <3>1, <3>2, <3>3 DEF RowsAgree
    <3>4. CASE x # "VALUES"
      BY <1>1, <2>3, <3>1, <3>2, <3>4 DEF RowsAgree
    <3> QED BY <3>3, <3>4
  <2>4. CASE v.state = "literal" /\ ~v.sign /\ x = "sign" /\ w.state = "literal" /\ w.sign
    <3>1. ~Computes(r, x) /\ r.in = "rows" /\ r.last # "VALUES"
      BY <2>1, <2>4 DEF Computes, Strings, Literals
    <3> QED BY <1>1, <2>1, <2>4, <3>1 DEF RowsAgree
  <2>5. CASE v.state = "literal" /\ (x = "num" \/ (~v.sign /\ x \in {"NULL", "0x1F"}))
             /\ w.state = "literalSep" /\ ~w.sign
    <3>1. ~Computes(r, x) /\ r.in = "rows" /\ r.last # "VALUES"
      BY <2>1, <2>5 DEF Computes, Strings, Literals
    <3> QED BY <1>1, <2>1, <2>5, <3>1 DEF RowsAgree
  <2>6. CASE v.state = "literal" /\ ~v.sign /\ x \in {"X", "N", "_utf8"}
             /\ w.state = "introduced" /\ ~w.sign /\ (w.radix <=> x = "X")
    <3>1. ~Computes(r, x) /\ r.in = "rows" /\ r.last # "VALUES"
      BY <2>1, <2>6 DEF Computes, Strings, Literals
    <3> QED BY <1>1, <2>1, <2>6, <3>1 DEF RowsAgree
  <2> QED BY <1>2, <1>4, <2>2, <2>3, <2>4, <2>5, <2>6
<1>5. v.state \notin {"literalSep", "columnSep"}
  BY <1>2
<1>6. r.in = "broken" => ~r.evaluates
  <2>1. ~(v.state = "literalSep" /\ v.sign) /\ v.state # "columnSep"
    BY <1>5
  <2> QED BY <2>1 DEF RowsAgree
<1> QED BY <1>3, <1>4, <1>5, <1>6

(* On punctuation, and so on the parenthesis after VALUES. *)
LEMMA PunctFollows ==
  ASSUME NEW v \in RowChecks, NEW r \in RowReadings, RowsAgree(v, r), v.state # "refused", NEW x,
         NEW w, w = ValuePunct(v, x), w.state # "refused", NEW h, h = HearRow(r, x)
  PROVE  RowsAgree(w, h)
<1>1. /\ h.last = x
      /\ h.in = IF r.in = "columns" /\ x = "VALUES" THEN "rows"
                ELSE IF r.in = "rows" /\ r.last = "VALUES" /\ x # "(" THEN "broken" ELSE r.in
      /\ r.in = "broken" \/ (r.last = "VALUES" /\ x # "(") => h.evaluates = r.evaluates
      /\ ~Computes(r, x) => h.evaluates = r.evaluates
  BY HearRowFields
<1>2. /\ ~w.sign /\ (v.sign => v.state = "literal")
      /\ \/ v.state = "head" /\ x = "(" /\ w.state = "column"
         \/ v.state = "tuple" /\ x = "(" /\ w.state = "literal"
         \/ v.state = "columnSep" /\ x = "comma" /\ w.state = "column"
         \/ v.state = "columnSep" /\ x = ")" /\ w.state = "keyword"
         \/ v.state = "literalSep" /\ x = "comma" /\ w.state = "literal"
         \/ v.state = "literalSep" /\ x = ")" /\ w.state = "tupleSep"
         \/ v.state = "tupleSep" /\ x = "comma" /\ w.state = "tuple"
  BY ValuePunctFields
<1>3. CASE r.in = "broken" /\ ~r.evaluates
  BY <1>1, <1>3 DEF RowsAgree
<1>4. CASE v.state = "columnSep" /\ r.in = "rows" /\ r.last = "VALUES" /\ ~r.evaluates
  <2>1. h.in = "broken" /\ ~h.evaluates
    BY <1>1, <1>2, <1>4
  <2> QED BY <2>1 DEF RowsAgree
<1>5. CASE r.in # "broken" /\ ~(v.state = "columnSep" /\ r.in = "rows" /\ r.last = "VALUES")
  <2>1. /\ ~r.evaluates
        /\ r.in = "columns" <=> v.state \in {"head", "column", "columnSep", "keyword"}
        /\ r.in = "rows" <=> v.state \notin {"head", "column", "columnSep", "keyword"}
        /\ v.state = "head" => r.last = "none"
        /\ v.state = "tuple" => r.last \in {"VALUES", "comma", "("}
        /\ v.state \in {"literalSep", "tupleSep"} => r.last \notin {"sign", "X", "N", "_utf8"}
    BY <1>2, <1>5 DEF RowsAgree
  <2>2. r.in = "columns" => r.last \notin {"name", "id"} \/ x # "("
    BY <1>2, <2>1
  <2>3. ~Computes(r, x)
    <3>1. x \in {"(", ")", "comma"}
      BY <1>2
    <3>2. CASE r.in = "columns"
      BY <2>2, <3>1, <3>2 DEF Computes, Strings
    <3>3. CASE r.in = "rows"
      BY <1>2, <2>1, <3>1, <3>3 DEF Computes, Strings, Literals
    <3> QED BY <2>1, <3>2, <3>3
  <2> QED BY <1>1, <1>2, <2>1, <2>3 DEF RowsAgree
<1>6. r.in = "broken" => ~r.evaluates
  BY <1>2 DEF RowsAgree
<1> QED BY <1>2, <1>3, <1>4, <1>5, <1>6 DEF RowsAgree

(* On a quote. *)
LEMMA QuoteFollows ==
  ASSUME NEW v \in RowChecks, NEW r \in RowReadings, RowsAgree(v, r), v.state # "refused", NEW x,
         NEW w, w = ValueQuote(v, x), w.state # "refused", NEW h, h = HearRow(r, x)
  PROVE  RowsAgree(w, h)
<1>1. /\ h.last = x
      /\ h.in = IF r.in = "columns" /\ x = "VALUES" THEN "rows"
                ELSE IF r.in = "rows" /\ r.last = "VALUES" /\ x # "(" THEN "broken" ELSE r.in
      /\ r.in = "broken" \/ (r.last = "VALUES" /\ x # "(") => h.evaluates = r.evaluates
      /\ ~Computes(r, x) => h.evaluates = r.evaluates
  BY HearRowFields
<1>2. \/ v.state = "column" /\ ~v.sign /\ x = "id" /\ w.state = "columnSep" /\ ~w.sign
      \/ v.state = "literal" /\ x \in Strings /\ w.state = "literalSep" /\ w.sign = v.sign
      \/ /\ v.state = "introduced" /\ ~v.sign /\ x \in Strings /\ (v.radix => x = "hexstr")
         /\ w.state = "literalSep" /\ ~w.sign
  BY ValueQuoteFields
<1>3. CASE r.in = "broken" /\ ~r.evaluates
  BY <1>1, <1>3 DEF RowsAgree
<1>4. CASE w.state = "literalSep" /\ w.sign
  BY <1>4 DEF RowsAgree
<1>5. CASE r.in # "broken" /\ ~(w.state = "literalSep" /\ w.sign)
  <2>1. /\ ~r.evaluates
        /\ r.in = "columns" <=> v.state \in {"head", "column", "columnSep", "keyword"}
        /\ r.in = "rows" <=> v.state \notin {"head", "column", "columnSep", "keyword"}
        /\ v.state = "column" => r.last \in {"(", "comma"}
        /\ v.state = "literal" => IF v.sign THEN r.last = "sign" ELSE r.last \in {"(", "comma"}
        /\ v.state = "introduced" => r.last \in {"X", "N", "_utf8"} /\ (v.radix <=> r.last = "X")
    BY <1>2, <1>5 DEF RowsAgree
  <2>2. CASE v.state = "column" /\ ~v.sign /\ x = "id" /\ w.state = "columnSep" /\ ~w.sign
    <3>1. ~Computes(r, x) /\ r.in = "columns"
      BY <2>1, <2>2 DEF Computes, Strings
    <3> QED BY <1>1, <2>1, <2>2, <3>1 DEF RowsAgree
  <2>3. CASE v.state = "literal" /\ x \in Strings /\ w.state = "literalSep" /\ ~v.sign /\ ~w.sign
    <3>1. ~Computes(r, x) /\ r.in = "rows"
      BY <2>1, <2>3 DEF Computes, Strings, Literals
    <3> QED BY <1>1, <2>1, <2>3, <3>1 DEF RowsAgree, Strings
  <2>4. CASE v.state = "introduced" /\ ~v.sign /\ x \in Strings /\ (v.radix => x = "hexstr")
             /\ w.state = "literalSep" /\ ~w.sign
    <3>1. ~Computes(r, x) /\ r.in = "rows"
      BY <2>1, <2>4 DEF Computes, Strings, Literals
    <3> QED BY <1>1, <2>1, <2>4, <3>1 DEF RowsAgree, Strings
  <2>5. v.sign \in BOOLEAN /\ w.sign \in BOOLEAN
    BY ValueQuoteFields DEF RowChecks
  <2> QED BY <1>2, <1>5, <2>2, <2>3, <2>4, <2>5
<1>6. r.in = "broken" => ~r.evaluates
  BY <1>2 DEF RowsAgree
<1> QED BY <1>3, <1>4, <1>5, <1>6

(* Space leaves them where they are. *)
LEMMA SpaceFollows ==
  ASSUME NEW v \in RowChecks, NEW r, RowsAgree(v, r), Spaced(v).state # "refused"
  PROVE  Spaced(v) = v
BY SpacedFields

----------------------------------------------------------------------------
(* The body of an accepted statement, token by token.                      *)

(* The parts of a check. *)
LEMMA ChecksParts ==
  ASSUME NEW c \in Checks
  PROVE  /\ c.tokens \in Seq(Token) /\ c.cur \in Token /\ c.accepted \in BOOLEAN
         /\ c.inValues \in BOOLEAN /\ c.values \in RowChecks /\ c.tail \in Tails
         /\ c.refused \in BOOLEAN
BY DEF Checks, RowChecks, Tails

WithValues(c, v, b) == [c EXCEPT !.values = v, !.refused = b]
WithTail(c, v, b) == [c EXCEPT !.tail = v, !.refused = b]

(* The values of a check change. *)
LEMMA ValuesFields ==
  ASSUME NEW c \in Checks, NEW v \in RowChecks, NEW b \in BOOLEAN,
         NEW e, e = WithValues(c, v, b)
  PROVE  /\ e \in Checks /\ e.values = v /\ (e.refused <=> b)
         /\ e.tokens = c.tokens /\ e.cur = c.cur /\ e.accepted = c.accepted
         /\ e.inValues = c.inValues /\ e.tail = c.tail
BY DEF WithValues, Checks, RowChecks

(* So does its tail. *)
LEMMA TailFields ==
  ASSUME NEW c \in Checks, NEW v \in Tails, NEW b \in BOOLEAN,
         NEW e, e = WithTail(c, v, b)
  PROVE  /\ e \in Checks /\ e.tail = v /\ (e.refused <=> b)
         /\ e.tokens = c.tokens /\ e.cur = c.cur /\ e.accepted = c.accepted
         /\ e.inValues = c.inValues /\ e.values = c.values
BY DEF WithTail, Checks, Tails

(* The lexeme of a word. *)
LEMMA WordLexeme ==
  ASSUME NEW t \in Token, t.kind = "w"
  PROVE  Lexeme(t) \in ValueWords \cup TailWords
<1>1. "sum" \in ValueWords /\ "name" \in ValueWords
  BY DEF ValueWords
<1> QED BY <1>1 DEF Lexeme

(* A token of the rows. *)
LEMMA ToValuesFields ==
  ASSUME NEW c \in Checks, NEW t \in Token, NEW e, e = ToValues(c, t)
  PROVE  /\ e \in Checks
         /\ e.tokens = c.tokens /\ e.cur = c.cur /\ e.accepted = c.accepted
         /\ e.inValues = c.inValues /\ e.tail = c.tail
         /\ c.refused => e.refused
         /\ ~e.refused => e.values.state # "refused"
         /\ e.values = CASE t.kind = "w" \/ t.text = <<"sign">> -> ValueWord(c.values, Lexeme(t))
                         [] t.kind = "p" /\ t.text /= <<"sign">> -> ValuePunct(c.values, t.text[1])
                         [] OTHER -> ValueQuote(c.values, Lexeme(t))
<1> DEFINE x == Lexeme(t)
           v == CASE t.kind = "w" \/ t.text = <<"sign">> -> ValueWord(c.values, x)
                  [] t.kind = "p" /\ t.text /= <<"sign">> -> ValuePunct(c.values, t.text[1])
                  [] OTHER -> ValueQuote(c.values, x)
           b == c.refused \/ v.state = "refused"
<1>1. c.values \in RowChecks /\ c.refused \in BOOLEAN
  BY ChecksParts
<1>2. e = WithValues(c, v, b)
  BY DEF ToValues, WithValues
<1>3. v \in RowChecks
  <2>1. CASE t.kind = "w" \/ t.text = <<"sign">>
    <3>1. v = ValueWord(c.values, x)
      BY <2>1
    <3> HIDE DEF v, x
    <3> QED BY <1>1, <3>1, ValueWordFields
  <2>2. CASE t.kind = "p" /\ t.text /= <<"sign">>
    <3>1. v = ValuePunct(c.values, t.text[1])
      BY <2>2
    <3> HIDE DEF v
    <3> QED BY <1>1, <3>1, ValuePunctFields
  <2>3. CASE t.kind # "w" /\ t.text # <<"sign">> /\ t.kind # "p"
    <3>1. v = ValueQuote(c.values, x)
      BY <2>3
    <3> HIDE DEF v, x
    <3> QED BY <1>1, <3>1, ValueQuoteFields
  <2> HIDE DEF v
  <2> QED BY <2>1, <2>2, <2>3
<1>4. e.values = v
  <2> HIDE DEF v
  <2>1. b \in BOOLEAN
    BY <1>1
  <2> HIDE DEF b
  <2> QED BY <1>2, <1>3, <2>1, ValuesFields
<1> HIDE DEF v, x
<1>5. b \in BOOLEAN
  BY <1>1
<1>6. /\ e \in Checks /\ e.values = v /\ (e.refused <=> b)
      /\ e.tokens = c.tokens /\ e.cur = c.cur /\ e.accepted = c.accepted
      /\ e.inValues = c.inValues /\ e.tail = c.tail
  <2> HIDE DEF b
  <2> QED BY <1>2, <1>3, <1>5, ValuesFields
<1> QED BY <1>6 DEF v, x

(* c becomes e by a token of the rows, and reads on like the server.       *)
RowsGoOn(c, e, t, r) ==
  /\ e \in Checks
  /\ e.tokens = c.tokens /\ e.cur = c.cur /\ e.accepted = c.accepted
  /\ e.inValues = c.inValues /\ e.tail = c.tail
  /\ ~e.refused => RowsAgree(e.values, HearRow(r, Lexeme(t))) /\ e.values.state # "refused"

(* A token of the rows: the check refuses it or agrees with the server. *)
LEMMA RowsFollow ==
  ASSUME NEW c \in Checks, NEW t \in Token, NEW r \in RowReadings, RowsAgree(c.values, r),
         c.values.state # "refused", NEW e, e = ToValues(c, t)
  PROVE  RowsGoOn(c, e, t, r)
<1> DEFINE x == Lexeme(t)
           v == e.values
<1>1. c.values \in RowChecks
  BY ChecksParts
<1>2. /\ e \in Checks
      /\ e.tokens = c.tokens /\ e.cur = c.cur /\ e.accepted = c.accepted
      /\ e.inValues = c.inValues /\ e.tail = c.tail
      /\ ~e.refused => v.state # "refused"
  BY ToValuesFields
<1>3. v = CASE t.kind = "w" \/ t.text = <<"sign">> -> ValueWord(c.values, x)
            [] t.kind = "p" /\ t.text /= <<"sign">> -> ValuePunct(c.values, t.text[1])
            [] OTHER -> ValueQuote(c.values, x)
  BY ToValuesFields
<1>4. v.state # "refused" => RowsAgree(v, HearRow(r, x))
  <2> HIDE DEF v
  <2>1. CASE t.kind = "w" \/ t.text = <<"sign">>
    <3>1. v = ValueWord(c.values, x)
      BY <1>3, <2>1
    <3>2. x \in ValueWords \cup TailWords \cup {"id"}
      <4>1. CASE t.kind = "w"
        BY <4>1, WordLexeme
      <4>2. CASE t.kind # "w"
        <5>1. t.text[1] = "sign" /\ "sign" \in ValueWords
          BY <2>1, <4>2 DEF ValueWords
        <5> QED BY <4>2, <5>1 DEF Lexeme, Token
      <4> QED BY <4>1, <4>2
    <3> HIDE DEF x
    <3> QED BY <1>1, <3>1, <3>2, ValueWordFields, WordFollows
  <2>2. CASE t.kind = "p" /\ t.text /= <<"sign">>
    <3>1. v = ValuePunct(c.values, x)
      BY <1>3, <2>2 DEF Lexeme
    <3> HIDE DEF x
    <3> QED BY <1>1, <3>1, ValuePunctFields, PunctFollows
  <2>3. CASE t.kind # "w" /\ t.text # <<"sign">> /\ t.kind # "p"
    <3>1. v = ValueQuote(c.values, x)
      BY <1>3, <2>3
    <3> HIDE DEF x
    <3> QED BY <1>1, <3>1, ValueQuoteFields, QuoteFollows
  <2> QED BY <2>1, <2>2, <2>3
<1> QED BY <1>2, <1>4 DEF x, v, RowsGoOn

(* A token of the columns, and of a statement without a body. *)
LEMMA TailFollows ==
  ASSUME NEW c \in Checks, NEW t \in Token, NEW e, e = ToTail(c, t)
  PROVE  /\ e \in Checks
         /\ e.tokens = c.tokens /\ e.cur = c.cur /\ e.accepted = c.accepted
         /\ e.inValues = c.inValues /\ e.values = c.values /\ e.tail.table = c.tail.table
         /\ \A r \in ColumnReadings :
              ~e.refused /\ c.tail.table /\ ColumnsAgree(c.tail, r) =>
                ColumnsAgree(e.tail, HearColumn(r, Lexeme(t)))
<1> DEFINE x == Lexeme(t)
           v == CheckTail(c.tail, x)
           w == [v EXCEPT !.refused = FALSE]
           b == c.refused \/ v.refused
<1>1. c.tail \in Tails /\ c.refused \in BOOLEAN /\ x \in Atoms \cup {"id"}
  BY ChecksParts, LexemeTyped
<1>2. e = WithTail(c, w, b)
  BY DEF ToTail, WithTail
<1> HIDE DEF x
<1>3. w \in Tails /\ v.table = c.tail.table /\ v.refused = TailRefuses(c.tail, x)
  BY <1>1, CheckTailFields
<1>4. v.refused \in BOOLEAN
  <2> HIDE DEF v
  <2> QED BY <1>3 DEF TailRefuses
<1>5. w.table = c.tail.table
  <2> HIDE DEF v
  <2> QED BY <1>3 DEF Tails
<1>6. \A r \in ColumnReadings :
        ~v.refused /\ c.tail.table /\ ColumnsAgree(c.tail, r) => ColumnsAgree(w, HearColumn(r, x))
  BY <1>1, ColumnsFollow
<1> HIDE DEF v, w
<1>7. b \in BOOLEAN
  BY <1>1, <1>4
<1>8. /\ e \in Checks /\ e.tail = w /\ (e.refused <=> b)
      /\ e.tokens = c.tokens /\ e.cur = c.cur /\ e.accepted = c.accepted
      /\ e.inValues = c.inValues /\ e.values = c.values
  <2> HIDE DEF b
  <2> QED BY <1>2, <1>3, <1>7, TailFields
<1> QED BY <1>5, <1>6, <1>8 DEF x
----------------------------------------------------------------------------
(* A head is accepted.                                                     *)

(* What an accepted head says of its statement. *)
Accepted(T, g) ==
  \/ /\ g.verb = "INSERT" /\ g.kind = "none" /\ g.place = "after" /\ Is(T, 1, {"INSERT"})
     /\ NameEnd(T, InsertName(T)) = Len(T)
     /\ g.row = HearRow(Rows0, Lexeme(T[Len(T)])) /\ g.column = Default0
  \/ /\ g.verb = "CREATE" /\ g.kind = "TABLE" /\ g.place = "after"
     /\ ~Is(T, 1, {"INSERT"}) /\ Is(T, 1, {"CREATE"}) /\ Is(T, KindAt(T), {"TABLE"})
     /\ NameEnd(T, SkipWords(T, KindAt(T) + 1, IfNotExists)) = Len(T)
     /\ g.row = Rows0 /\ g.column = HearColumn(Default0, Lexeme(T[Len(T)]))
  \/ /\ g.verb \notin {"INSERT", "DROP", "LOCK"} /\ ~(g.verb = "CREATE" /\ g.kind = "TABLE")
     /\ g.kind = "TRIGGER" => g.names = 1
     /\ g.place \in {"ended", "after"}
     /\ ~Is(T, 1, {"INSERT"}) /\ ~(Is(T, 1, {"CREATE"}) /\ Is(T, KindAt(T), {"TABLE"}))
     /\ g.row = Rows0 /\ g.column = Default0

(* A head is accepted once all its names are home. *)
LEMMA HeadAccepted ==
  ASSUME NEW T \in Seq(Token), Len(T) >= 1, NEW g \in Readings, Shape(T, g),
         CheckHead(T, FALSE) = "yes"
  PROVE  ~g.abroad /\ Accepted(T, g)
<1>0. Len(T) \in Nat
  OBVIOUS
<1>1. CASE KindShape(T, g)
  <2>1. CheckHead(T, FALSE) = "more"
    BY <1>1, KindSays DEF More
  <2> QED BY <2>1
<1>2. CASE WordShape(T, g)
  <2>1. g.verb = "COMMIT"
    BY <1>2, WordSays DEF More
  <2>2. T[1] = W("COMMIT") /\ g.place = "after" /\ g.kind = "none" /\ ~g.abroad
        /\ g.row = Rows0 /\ g.column = Default0
    BY <1>2, <2>1 DEF WordShape
  <2>3. ~Is(T, 1, {"INSERT"}) /\ ~Is(T, 1, {"CREATE"})
    BY <2>2 DEF Is, W
  <2> QED BY <2>1, <2>2, <2>3 DEF Accepted
<1>3. CASE \E j \in 0 .. Len(T) + 1 : InsertShape(T, g, j)
  <2>1. PICK j \in 0 .. Len(T) + 1 : InsertShape(T, g, j)
    BY <1>3
  <2>2. InsertName(T) = j
        /\ CheckHead(T, FALSE) = IF j = Len(T) + 1 THEN "more"
                                 ELSE IF j = Len(T) THEN "more"
                                 ELSE IF ~CheckQualifier(T, j) THEN "refuse"
                                 ELSE IF g.place # "after" THEN "more" ELSE "yes"
    BY <2>1, InsertSays
  <2>3. g.place = "after" /\ CheckQualifier(T, j)
    BY <2>2
  <2>4. /\ T[1] = W("INSERT") /\ g.verb = "INSERT" /\ g.kind = "none" /\ g.column = Default0
        /\ ~g.abroad /\ NameEnd(T, j) = Len(T) /\ g.row = HearRow(Rows0, Lexeme(T[Len(T)]))
    BY <2>1, <2>3 DEF InsertShape
  <2>5. Is(T, 1, {"INSERT"})
    BY <2>4 DEF Is, W
  <2> QED BY <2>2, <2>3, <2>4, <2>5 DEF Accepted
<1>4. CASE \E k, j \in 0 .. Len(T) + 1 : CreateShape(T, g, k, j)
  <2>1. PICK k, j \in 0 .. Len(T) + 1 : CreateShape(T, g, k, j)
    BY <1>4
  <2>2. /\ KindAt(T) = k /\ (j <= Len(T) => SkipWords(T, k + 1, IfNotExists) = j)
        /\ CheckHead(T, FALSE) = IF j = Len(T) + 1 THEN "more"
                                 ELSE IF j = Len(T) THEN "more"
                                 ELSE IF ~CheckQualifier(T, j) THEN "refuse"
                                 ELSE IF g.place # "after" THEN "more"
                                 ELSE IF g.kind # "TRIGGER" THEN "yes"
                                 ELSE IF Len(T) < k + 8 THEN "more" ELSE "refuse"
    BY <2>1, CreateSays
  <2>3. g.place = "after" /\ CheckQualifier(T, j) /\ g.kind # "TRIGGER" /\ j # Len(T) + 1
    BY <2>2
  <2>4. /\ T[1] = W("CREATE") /\ g.verb = "CREATE" /\ g.row = Rows0 /\ g.kind \in Objects
        /\ Kinded(T, g, k) /\ j \in k + 1 .. Len(T) + 1
        /\ ~g.abroad /\ NameEnd(T, j) = Len(T)
        /\ g.column = IF g.kind = "TABLE" THEN HearColumn(Default0, Lexeme(T[Len(T)]))
                      ELSE Default0
    BY <2>1, <2>3 DEF CreateShape
  <2>5. Is(T, 1, {"CREATE"}) /\ ~Is(T, 1, {"INSERT"})
    BY <2>4 DEF Is, W
  <2>6. Is(T, k, {"TABLE"}) <=> g.kind = "TABLE"
    <3>1. Is(T, k, {"TABLE"}) <=> g.kind \in {"TABLE"}
      BY <2>4, KindedAt
    <3> QED BY <3>1
  <2>7. NameEnd(T, SkipWords(T, k + 1, IfNotExists)) = Len(T)
    <3>1. j \in Nat /\ j <= Len(T)
      BY <1>0, <2>1, <2>3
    <3> QED BY <2>2, <2>4, <3>1
  <2> QED BY <2>2, <2>3, <2>4, <2>5, <2>6, <2>7 DEF Accepted
<1>5. CASE \E k, j, o \in 0 .. Len(T) + 1 : TriggerShape(T, g, k, j, o)
  <2>1. PICK k, j, o \in 0 .. Len(T) + 1 : TriggerShape(T, g, k, j, o)
    BY <1>5
  <2>2. CheckHead(T, FALSE) = IF o = Len(T) THEN "more"
                              ELSE IF o + 1 = Len(T) THEN "more"
                              ELSE IF ~CheckQualifier(T, o + 1) THEN "refuse"
                              ELSE IF g.place # "after" THEN "more" ELSE "yes"
    BY <2>1, TriggerSays
  <2>3. g.place = "after" /\ CheckQualifier(T, o + 1)
    BY <2>2
  <2>4. /\ T[1] = W("CREATE") /\ g.verb = "CREATE" /\ g.row = Rows0 /\ g.column = Default0
        /\ g.names = 1 /\ Kinded(T, g, k) /\ g.kind = "TRIGGER" /\ ~g.abroad
    BY <2>1, <2>3 DEF TriggerShape
  <2>5. KindAt(T) = k /\ ~Is(T, k, {"TABLE"}) /\ ~Is(T, 1, {"INSERT"})
    <3>1. KindAt(T) = k /\ (Is(T, k, {"TABLE"}) <=> g.kind \in {"TABLE"})
      BY <2>4, KindedAt
    <3>2. ~Is(T, 1, {"INSERT"})
      BY <2>4 DEF Is, W
    <3> QED BY <2>4, <3>1, <3>2
  <2> QED BY <2>3, <2>4, <2>5 DEF Accepted
<1>6. CASE \E k \in 0 .. Len(T) : AlterShape(T, g, k)
  <2>1. CheckHead(T, FALSE) = "more"
    BY <1>6, AlterSays
  <2> QED BY <2>1
<1>7. CASE \E k \in 0 .. Len(T) : ListShape(T, g, k)
  <2>1. CheckHead(T, FALSE) = "more"
    BY <1>7, ListSays
  <2> QED BY <2>1
<1>8. CASE \E a \in 0 .. Len(T) + 1 : DatabaseShape(T, g, a)
  <2>1. PICK a \in 0 .. Len(T) + 1 : DatabaseShape(T, g, a)
    BY <1>8
  <2>2. ~g.abroad /\ g.place \in {"ended", "after"}
    BY <2>1, DatabaseSays
  <2>3. g.row = Rows0 /\ g.column = Default0
    BY <2>1 DEF DatabaseShape
  <2>4. CASE T[1] = W("USE") /\ g.verb = "USE" /\ g.kind = "none"
    <3>1. ~Is(T, 1, {"INSERT"}) /\ ~Is(T, 1, {"CREATE"})
      BY <2>4 DEF Is, W
    <3> QED BY <2>2, <2>3, <2>4, <3>1 DEF Accepted
  <2>5. CASE /\ g.verb \in {"CREATE", "ALTER"} /\ T[1] = W(g.verb)
             /\ a \in Nat /\ Kinded(T, g, a - 1) /\ g.kind = "DATABASE"
    <3>1. KindAt(T) = a - 1 /\ (Is(T, a - 1, {"TABLE"}) <=> g.kind \in {"TABLE"})
      BY <2>5, KindedAt
    <3>2. ~Is(T, 1, {"INSERT"})
      BY <2>5 DEF Is, W
    <3>3. ~Is(T, KindAt(T), {"TABLE"})
      BY <2>5, <3>1
    <3> QED BY <2>2, <2>3, <2>5, <3>2, <3>3 DEF Accepted
  <2> QED BY <2>1, <2>4, <2>5 DEF DatabaseShape
<1> QED BY <1>1, <1>2, <1>3, <1>4, <1>5, <1>6, <1>7, <1>8 DEF Shape

(* What is pushed on to a body is the one token after the head, if any. *)
LEMMA RowsOfOne ==
  ASSUME NEW c, NEW s, Len(s) = 1
  PROVE  ToRows(c, s) = ToValues(c, s[1])
<1> DEFINE F(f) == f = [i \in 0 .. 1 |-> IF i = 0 THEN c ELSE ToValues(f[i - 1], s[i])]
           w == [i \in 0 .. 1 |-> IF i = 0 THEN c ELSE ToValues(c, s[1])]
           h == CHOOSE f : F(f)
<1>1. F(w)
  OBVIOUS
<1>2. F(h)
  <2> HIDE DEF F
  <2> QED BY <1>1
<1>3. ToRows(c, s) = h[1]
  BY DEF ToRows, Through
<1> HIDE DEF h
<1>4. h[0] = c
  BY <1>2
<1>5. h[1] = ToValues(h[1 - 1], s[1])
  BY <1>2
<1> QED BY <1>3, <1>4, <1>5

(* The same for the columns. *)
LEMMA ColumnsOfOne ==
  ASSUME NEW c, NEW s, Len(s) = 1
  PROVE  ToColumns(c, s) = ToTail(c, s[1])
<1> DEFINE F(f) == f = [i \in 0 .. 1 |-> IF i = 0 THEN c ELSE ToTail(f[i - 1], s[i])]
           w == [i \in 0 .. 1 |-> IF i = 0 THEN c ELSE ToTail(c, s[1])]
           h == CHOOSE f : F(f)
<1>1. F(w)
  OBVIOUS
<1>2. F(h)
  <2> HIDE DEF F
  <2> QED BY <1>1
<1>3. ToColumns(c, s) = h[1]
  BY DEF ToColumns, Through
<1> HIDE DEF h
<1>4. h[0] = c
  BY <1>2
<1>5. h[1] = ToTail(h[1 - 1], s[1])
  BY <1>2
<1> QED BY <1>3, <1>4, <1>5

Opened(c) == [c EXCEPT !.accepted = TRUE, !.tokens = <<>>]
InRows(c) == [c EXCEPT !.inValues = TRUE]
InTable(c) == [c EXCEPT !.tail.table = TRUE]

(* The tokens of an accepted head are dropped. *)
LEMMA OpenedFields ==
  ASSUME NEW c \in Checks, NEW e, e = Opened(c)
  PROVE  /\ e \in Checks /\ e.tokens = <<>> /\ e.accepted /\ e.cur = c.cur
         /\ e.inValues = c.inValues /\ e.values = c.values /\ e.tail = c.tail
         /\ e.refused = c.refused
<1>1. c = [tokens |-> c.tokens, cur |-> c.cur, accepted |-> c.accepted, inValues |-> c.inValues,
           values |-> c.values, tail |-> c.tail, refused |-> c.refused]
  BY DEF Checks
<1>2. e = [tokens |-> <<>>, cur |-> c.cur, accepted |-> TRUE, inValues |-> c.inValues,
           values |-> c.values, tail |-> c.tail, refused |-> c.refused]
  BY <1>1 DEF Opened
<1>3. /\ e.tokens = <<>> /\ e.accepted = TRUE /\ e.cur = c.cur /\ e.inValues = c.inValues
      /\ e.values = c.values /\ e.tail = c.tail /\ e.refused = c.refused
  BY <1>2
<1>4. <<>> \in Seq(Token) /\ TRUE \in BOOLEAN
  OBVIOUS
<1>5. e \in Checks
  <2>1. /\ c.tokens \in Seq(Token) /\ c.cur \in Token /\ c.accepted \in BOOLEAN
        /\ c.inValues \in BOOLEAN /\ c.values \in RowChecks /\ c.tail \in Tails
        /\ c.refused \in BOOLEAN
    BY ChecksParts
  <2>2. Checks = [tokens : Seq(Token), cur : Token, accepted : BOOLEAN, inValues : BOOLEAN,
                  values : RowChecks, tail : Tails, refused : BOOLEAN]
    BY DEF Checks, RowChecks, Tails
  <2> QED BY <1>2, <1>4, <2>1, <2>2
<1> QED BY <1>3, <1>5

(* The body of an INSERT. *)
LEMMA InRowsFields ==
  ASSUME NEW c \in Checks, NEW e, e = InRows(c)
  PROVE  /\ e \in Checks /\ e.tokens = c.tokens /\ e.accepted = c.accepted /\ e.cur = c.cur
         /\ e.inValues /\ e.values = c.values /\ e.tail = c.tail /\ e.refused = c.refused
BY DEF InRows, Checks

(* The body of a CREATE TABLE. *)
LEMMA InTableFields ==
  ASSUME NEW c \in Checks, NEW e, e = InTable(c)
  PROVE  /\ e \in Checks /\ e.tokens = c.tokens /\ e.accepted = c.accepted /\ e.cur = c.cur
         /\ e.inValues = c.inValues /\ e.values = c.values /\ e.refused = c.refused
         /\ e.tail \in Tails /\ e.tail.table /\ e.tail.word = c.tail.word
         /\ e.tail.value = c.tail.value /\ e.tail.after = c.tail.after
<1>1. c.tail \in Tails
  BY ChecksParts
<1> DEFINE t == [c.tail EXCEPT !.table = TRUE]
<1>2. e = [c EXCEPT !.tail = t]
  BY DEF InTable
<1>3. /\ t \in Tails /\ t.table /\ t.word = c.tail.word
      /\ t.value = c.tail.value /\ t.after = c.tail.after
  BY <1>1 DEF Tails
<1> HIDE DEF t
<1>4. /\ e \in Checks /\ e.tokens = c.tokens /\ e.accepted = c.accepted /\ e.cur = c.cur
      /\ e.inValues = c.inValues /\ e.values = c.values /\ e.refused = c.refused /\ e.tail = t
  BY <1>2, <1>3 DEF Checks, Tails
<1> QED BY <1>3, <1>4

(* Nothing of a body has been read. *)
LEMMA BodiesStart ==
  /\ Values0 \in RowChecks /\ Values0.state = "head" /\ ~Values0.sign
  /\ Rows0 \in RowReadings /\ Rows0.in = "columns" /\ Rows0.last = "none" /\ ~Rows0.evaluates
  /\ Default0 \in ColumnReadings /\ Default0.in = "no" /\ Default0.computes = {}
  /\ Tail0 \in Tails /\ ~Tail0.table /\ ~Tail0.value /\ ~Tail0.after
  /\ RowsAgree(Values0, Rows0)
<1>1. Values0 \in RowChecks /\ Values0.state = "head" /\ ~Values0.sign
  BY DEF Values0, RowChecks, ValueStates
<1>2. Rows0 \in RowReadings /\ Rows0.in = "columns" /\ Rows0.last = "none" /\ ~Rows0.evaluates
  BY DEF Rows0, RowReadings, Atoms
<1>3. Default0 \in ColumnReadings /\ Default0.in = "no" /\ Default0.computes = {}
  BY DEF Default0, ColumnReadings, ColumnStates
<1>4. Tail0 \in Tails /\ ~Tail0.table /\ ~Tail0.value /\ ~Tail0.after
  BY DEF Tail0, Tails
<1> QED BY <1>1, <1>2, <1>3, <1>4 DEF RowsAgree

(* The head of a statement, and the tokens on which no check has yet been  *)
(* made.                                                                   *)
Fresh(c) ==
  /\ c \in Checks /\ ~c.refused /\ ~c.accepted /\ ~c.inValues /\ c.cur = NoToken
  /\ c.values = Values0 /\ c.tail = Tail0

(* An accepted head leaves the check and the server in step.  Where a word *)
(* accepted it, that word is VALUES.                                       *)
LEMMA AcceptSettles ==
  ASSUME NEW p, Fresh(p), Len(p.tokens) >= 1, NEW g \in Readings, ~g.abroad, Accepted(p.tokens, g),
         NEW e, e = Accept(p)
  PROVE  /\ e \in Checks /\ e.tokens = <<>> /\ e.accepted /\ e.cur = NoToken
         /\ ~e.refused => Settled(e, g)
         /\ ~e.refused /\ e.inValues /\ p.tokens[Len(p.tokens)].kind = "w" =>
              e.values.state = "tuple" /\ ~e.values.sign /\ g.row = HearRow(Rows0, "VALUES")
<1> DEFINE T == p.tokens
           a == Opened(p)
           n == Len(T)
           From(i) == SubSeq(T, i, n)
<1>0. /\ T \in Seq(Token) /\ n \in Nat /\ n >= 1 /\ T[n] \in Token
      /\ p \in Checks /\ ~p.refused /\ ~p.inValues /\ p.cur = NoToken
      /\ p.values = Values0 /\ p.tail = Tail0
  BY ChecksParts DEF Fresh
<1>1. Len(From(n)) = 1 /\ From(n)[1] = T[n]
  BY <1>0
<1>2. /\ a \in Checks /\ a.tokens = <<>> /\ a.accepted /\ a.cur = NoToken
      /\ ~a.inValues /\ a.values = Values0 /\ a.tail = Tail0 /\ ~a.refused
  BY <1>0, OpenedFields
<1>3. /\ Is(T, 1, {"INSERT"}) => e = ToRows(InRows(a), From(NameEnd(T, InsertName(T))))
      /\ ~Is(T, 1, {"INSERT"}) /\ Is(T, 1, {"CREATE"}) /\ Is(T, KindAt(T), {"TABLE"}) =>
           e = ToColumns(InTable(a), From(NameEnd(T, SkipWords(T, KindAt(T) + 1, IfNotExists))))
      /\ ~Is(T, 1, {"INSERT"}) /\ ~(Is(T, 1, {"CREATE"}) /\ Is(T, KindAt(T), {"TABLE"})) => e = a
  <2>4. Is(T, 1, {"INSERT"}) => ~Is(T, 1, {"CREATE"})
    <3> HIDE DEF T
    <3> QED BY DEF Is
  <2>1. CASE Is(T, 1, {"INSERT"})
    BY <2>1, <2>4, Zenon DEF Accept, Opened, InRows
  <2>2. CASE ~Is(T, 1, {"INSERT"}) /\ Is(T, 1, {"CREATE"}) /\ Is(T, KindAt(T), {"TABLE"})
    BY <2>2, Zenon DEF Accept, Opened, InTable
  <2>3. CASE ~Is(T, 1, {"INSERT"}) /\ ~(Is(T, 1, {"CREATE"}) /\ Is(T, KindAt(T), {"TABLE"}))
    BY <2>3, Zenon DEF Accept, Opened
  <2> QED BY <2>1, <2>2, <2>3
<1> HIDE DEF T, a, From
<1>4. CASE /\ g.verb = "INSERT" /\ g.kind = "none" /\ g.place = "after" /\ Is(T, 1, {"INSERT"})
           /\ NameEnd(T, InsertName(T)) = Len(T)
           /\ g.row = HearRow(Rows0, Lexeme(T[Len(T)])) /\ g.column = Default0
  <2> DEFINE b == InRows(a)
             x == Lexeme(T[n])
  <2>1. e = ToValues(b, T[n])
    <3>1. e = ToRows(b, From(n))
      BY <1>3, <1>4
    <3> HIDE DEF b
    <3> QED BY <1>1, <3>1, RowsOfOne
  <2>2. /\ b \in Checks /\ b.tokens = <<>> /\ b.accepted /\ b.cur = NoToken
        /\ b.inValues /\ b.values = Values0 /\ b.tail = Tail0 /\ ~b.refused
    BY <1>2, InRowsFields
  <2> HIDE DEF b
  <2>3. /\ e \in Checks /\ e.tokens = <<>> /\ e.cur = NoToken /\ e.accepted = b.accepted
        /\ e.inValues = b.inValues /\ e.tail = Tail0
        /\ ~e.refused => RowsAgree(e.values, g.row) /\ e.values.state # "refused"
    <3>1. RowsAgree(b.values, Rows0) /\ b.values.state # "refused" /\ Rows0 \in RowReadings
      BY <2>2, BodiesStart
    <3>2. /\ e \in Checks /\ e.tokens = b.tokens /\ e.cur = b.cur /\ e.accepted = b.accepted
          /\ e.inValues = b.inValues /\ e.tail = b.tail
          /\ ~e.refused => RowsAgree(e.values, HearRow(Rows0, Lexeme(T[n]))) /\ e.values.state # "refused"
      <4> DEFINE t == T[n]
      <4>1. t \in Token /\ b \in Checks /\ e = ToValues(b, t)
        BY <1>0, <2>1, <2>2
      <4> HIDE DEF t
      <4>2. RowsGoOn(b, e, t, Rows0)
        BY <3>1, <4>1, RowsFollow
      <4> QED BY <4>2 DEF t, RowsGoOn
    <3> QED BY <1>4, <2>2, <3>2
  <2>4. ~e.refused => Settled(e, g)
    BY <1>4, <2>2, <2>3, BodiesStart DEF Settled
  <2>5. ASSUME ~e.refused, T[n].kind = "w"
        PROVE  e.values.state = "tuple" /\ ~e.values.sign /\ g.row = HearRow(Rows0, "VALUES")
    <3> DEFINE v == ValueWord(Values0, x)
    <3>1. e = WithValues(b, v, b.refused \/ v.state = "refused")
      <4>1. b.values = Values0
        BY <2>2
      <4>2. ToValues(b, T[n]) =
              WithValues(b, ValueWord(b.values, x), b.refused \/ ValueWord(b.values, x).state = "refused")
        BY <2>5, Zenon DEF ToValues, WithValues
      <4> QED BY <2>1, <4>1, <4>2
    <3> HIDE DEF x
    <3>2. /\ v \in RowChecks
          /\ v.state = "refused" \/ (x = "VALUES" /\ v.state = "tuple" /\ ~v.sign)
      BY BodiesStart, ValueWordFields
    <3> HIDE DEF v
    <3>3. e.values = v /\ (e.refused <=> v.state = "refused")
      <4> DEFINE r == b.refused \/ v.state = "refused"
      <4>1. r \in BOOLEAN /\ (r <=> v.state = "refused") /\ e = WithValues(b, v, r)
        BY <2>2, <3>1
      <4> HIDE DEF r
      <4> QED BY <2>2, <3>2, <4>1, ValuesFields
    <3>4. x = "VALUES"
      BY <2>5, <3>2, <3>3
    <3> QED BY <1>4, <2>5, <3>2, <3>3, <3>4 DEF x
  <2> QED BY <2>2, <2>3, <2>4, <2>5 DEF T
<1>5. CASE /\ g.verb = "CREATE" /\ g.kind = "TABLE" /\ g.place = "after"
           /\ ~Is(T, 1, {"INSERT"}) /\ Is(T, 1, {"CREATE"}) /\ Is(T, KindAt(T), {"TABLE"})
           /\ NameEnd(T, SkipWords(T, KindAt(T) + 1, IfNotExists)) = Len(T)
           /\ g.row = Rows0 /\ g.column = HearColumn(Default0, Lexeme(T[Len(T)]))
  <2> DEFINE b == InTable(a)
  <2>1. e = ToTail(b, T[n])
    <3>1. e = ToColumns(b, From(n))
      BY <1>3, <1>5
    <3> HIDE DEF b
    <3> QED BY <1>1, <3>1, ColumnsOfOne
  <2>2. /\ b \in Checks /\ b.tokens = <<>> /\ b.accepted /\ b.cur = NoToken
        /\ ~b.inValues /\ b.values = Values0 /\ ~b.refused
        /\ b.tail.table /\ ~b.tail.value /\ ~b.tail.after
    BY <1>2, InTableFields, BodiesStart
  <2> HIDE DEF b
  <2>3. ColumnsAgree(b.tail, Default0)
    BY <2>2, BodiesStart DEF ColumnsAgree
  <2>4. /\ e \in Checks /\ e.tokens = <<>> /\ e.cur = NoToken /\ e.accepted = b.accepted
        /\ e.inValues = b.inValues /\ e.tail.table = b.tail.table
        /\ ~e.refused => ColumnsAgree(e.tail, g.column)
    <3>1. /\ e \in Checks /\ e.tokens = b.tokens /\ e.cur = b.cur /\ e.accepted = b.accepted
          /\ e.inValues = b.inValues /\ e.values = b.values /\ e.tail.table = b.tail.table
          /\ \A r \in ColumnReadings :
               ~e.refused /\ b.tail.table /\ ColumnsAgree(b.tail, r) =>
                 ColumnsAgree(e.tail, HearColumn(r, Lexeme(T[n])))
      <4> DEFINE t == T[n]
      <4>1. t \in Token /\ b \in Checks /\ e = ToTail(b, t)
        BY <1>0, <2>1, <2>2
      <4> HIDE DEF t
      <4>2. /\ e \in Checks /\ e.tokens = b.tokens /\ e.cur = b.cur /\ e.accepted = b.accepted
            /\ e.inValues = b.inValues /\ e.values = b.values /\ e.tail.table = b.tail.table
            /\ \A r \in ColumnReadings :
                 ~e.refused /\ b.tail.table /\ ColumnsAgree(b.tail, r) =>
                   ColumnsAgree(e.tail, HearColumn(r, Lexeme(t)))
        BY <4>1, TailFollows
      <4> QED BY <4>2 DEF t
    <3>2. Default0 \in ColumnReadings
      BY BodiesStart
    <3> QED BY <1>5, <2>2, <2>3, <3>1, <3>2
  <2>5. ~e.refused => Settled(e, g)
    BY <1>5, <2>2, <2>4 DEF Settled
  <2> QED BY <2>2, <2>4, <2>5
<1>6. CASE /\ g.verb \notin {"INSERT", "DROP", "LOCK"} /\ ~(g.verb = "CREATE" /\ g.kind = "TABLE")
           /\ g.kind = "TRIGGER" => g.names = 1
           /\ g.place \in {"ended", "after"}
           /\ ~Is(T, 1, {"INSERT"}) /\ ~(Is(T, 1, {"CREATE"}) /\ Is(T, KindAt(T), {"TABLE"}))
           /\ g.row = Rows0 /\ g.column = Default0
  <2>1. e = a
    BY <1>3, <1>6
  <2>2. Settled(a, g)
    BY <1>2, <1>6, BodiesStart DEF Settled
  <2> QED BY <1>2, <2>1, <2>2
<1> QED BY <1>4, <1>5, <1>6 DEF Accepted, T
----------------------------------------------------------------------------
(* A token arrives.                                                        *)

(* Once it has heard the verb, the server does not wait for one before the *)
(* end of the statement.                                                   *)
LEMMA HearLeaves ==
  ASSUME NEW g \in Readings, NEW t \in Tokens(g), NEW h, h = Hear(g, t)
  PROVE  h.place # "verb"
<1> DEFINE m == Read(g, t)
<1>1. m \in Readings /\ (g.place \in NamePlaces => m.place \in NamePlaces)
  BY ReadTyped
<1>2. h.place = m.place
  <2> HIDE DEF m
  <2>1. m = IF g.place = "verb" THEN HearVerb(t.text[1]) ELSE HearText(g, t.text, t.kind)
    BY DEF m, Read
  <2> QED BY <1>1, <2>1, HearFields
<1> HIDE DEF m
<1>3. g.place \in Places
  BY DEF Readings
<1>4. CASE g.place \in NamePlaces
  BY <1>1, <1>2, <1>4 DEF NamePlaces
<1>5. CASE g.place = "verb"
  <2>1. m.place = CASE m.verb \in {"CREATE", "DROP", "ALTER"} -> "kind"
                    [] m.verb = "LOCK" -> "tables"
                    [] m.verb = "INSERT" -> "name"
                    [] m.verb = "USE" -> "database"
                    [] OTHER -> "after"
    BY <1>5, ReadVerb DEF m
  <2> QED BY <1>2, <2>1
<1>6. CASE g.place = "kind"
  <2>1. m.place = CASE m.kind = "DEFINER" -> "kind"
                    [] m.kind = "DATABASE" -> "database"
                    [] OTHER -> "name"
    BY <1>6, ReadKind DEF m
  <2> QED BY <1>2, <2>1
<1>7. CASE g.place = "tables"
  BY <1>2, <1>7, ReadTables DEF m
<1>8. CASE g.place = "database"
  <2>1. m.place \in {"database", "after", "ended"}
    BY <1>8, ReadDatabase DEF m
  <2> QED BY <1>2, <2>1
<1> QED BY <1>3, <1>4, <1>5, <1>6, <1>7, <1>8 DEF Places, NamePlaces

(* After its head a statement names nothing more. *)
LEMMA BodyHears ==
  ASSUME NEW g \in Readings, g.place \in {"ended", "after"}, g.verb \notin {"DROP", "LOCK"},
         g.kind = "TRIGGER" => g.names = 1, NEW t \in Tokens(g), NEW h, h = Hear(g, t)
  PROVE  /\ h \in Readings /\ t \in Token /\ h.place = "after"
         /\ h.verb = g.verb /\ h.kind = g.kind /\ h.names = g.names /\ h.abroad = g.abroad
         /\ h.row = IF h.verb = "INSERT" THEN HearRow(g.row, Lexeme(t)) ELSE g.row
         /\ h.column = IF h.verb = "CREATE" /\ h.kind = "TABLE"
                       THEN HearColumn(g.column, Lexeme(t)) ELSE g.column
<1>1. h \in Readings /\ t \in Token /\ h.verb = g.verb /\ h.kind = g.kind
      /\ h.row = (IF h.place = "after" /\ h.verb = "INSERT" THEN HearRow(g.row, Lexeme(t)) ELSE g.row)
      /\ h.column = (IF h.place = "after" /\ h.verb = "CREATE" /\ h.kind = "TABLE"
                     THEN HearColumn(g.column, Lexeme(t)) ELSE g.column)
  BY HearTyped
<1> DEFINE m == HearText(g, t.text, t.kind)
<1>2. t \in Continuations(g)
  BY TokensAfterName
<1>3. /\ m \in Readings /\ m.abroad = g.abroad
      /\ (m.place = "after" /\ m.names = g.names) \/ m.place = "name"
      /\ m.place = "name" /\ g.verb \notin {"DROP", "LOCK"} => g.kind = "TRIGGER" /\ g.names = 0
  BY <1>2, HearContinuation
<1>4. h.place = m.place /\ h.names = m.names /\ h.abroad = m.abroad
  <2> HIDE DEF m
  <2>1. m = IF g.place = "verb" THEN HearVerb(t.text[1]) ELSE HearText(g, t.text, t.kind)
    BY DEF m
  <2> QED BY <1>3, <2>1, HearFields
<1>5. m.place # "name"
  BY <1>3
<1> HIDE DEF m
<1> QED BY <1>1, <1>3, <1>4, <1>5

(* What checkHead can say of a head in a shape. *)
LEMMA HeadSays ==
  ASSUME NEW T \in Seq(Token), Len(T) >= 1, NEW g \in Readings, Shape(T, g)
  PROVE  CheckHead(T, FALSE) \in {"yes", "refuse", "more"}
<1>1. CASE KindShape(T, g)
  <2>1. CheckHead(T, FALSE) = More(FALSE)
    BY <1>1, KindSays
  <2> QED BY <2>1 DEF More
<1>2. CASE WordShape(T, g)
  <2>1. CheckHead(T, FALSE) = IF g.verb = "COMMIT" THEN "yes" ELSE More(FALSE)
    BY <1>2, WordSays
  <2> QED BY <2>1 DEF More
<1>3. CASE \E j \in 0 .. Len(T) + 1 : InsertShape(T, g, j)
  <2>1. PICK j \in 0 .. Len(T) + 1 : InsertShape(T, g, j)
    BY <1>3
  <2>2. CheckHead(T, FALSE) = IF j = Len(T) + 1 THEN "more"
                              ELSE IF j = Len(T) THEN "more"
                              ELSE IF ~CheckQualifier(T, j) THEN "refuse"
                              ELSE IF g.place # "after" THEN "more" ELSE "yes"
    BY <2>1, InsertSays
  <2> QED BY <2>2
<1>4. CASE \E k, j \in 0 .. Len(T) + 1 : CreateShape(T, g, k, j)
  <2>1. PICK k, j \in 0 .. Len(T) + 1 : CreateShape(T, g, k, j)
    BY <1>4
  <2>2. CheckHead(T, FALSE) = IF j = Len(T) + 1 THEN "more"
                              ELSE IF j = Len(T) THEN "more"
                              ELSE IF ~CheckQualifier(T, j) THEN "refuse"
                              ELSE IF g.place # "after" THEN "more"
                              ELSE IF g.kind # "TRIGGER" THEN "yes"
                              ELSE IF Len(T) < k + 8 THEN "more" ELSE "refuse"
    BY <2>1, CreateSays
  <2> QED BY <2>2
<1>5. CASE \E k, j, o \in 0 .. Len(T) + 1 : TriggerShape(T, g, k, j, o)
  <2>1. PICK k, j, o \in 0 .. Len(T) + 1 : TriggerShape(T, g, k, j, o)
    BY <1>5
  <2>2. CheckHead(T, FALSE) = IF o = Len(T) THEN "more"
                              ELSE IF o + 1 = Len(T) THEN "more"
                              ELSE IF ~CheckQualifier(T, o + 1) THEN "refuse"
                              ELSE IF g.place # "after" THEN "more" ELSE "yes"
    BY <2>1, TriggerSays
  <2> QED BY <2>2
<1>6. CASE \E k \in 0 .. Len(T) : AlterShape(T, g, k)
  BY <1>6, AlterSays
<1>7. CASE \E k \in 0 .. Len(T) : ListShape(T, g, k)
  BY <1>7, ListSays
<1>8. CASE \E a \in 0 .. Len(T) + 1 : DatabaseShape(T, g, a)
  <2>1. PICK a \in 0 .. Len(T) + 1 : DatabaseShape(T, g, a)
    BY <1>8
  <2>2. /\ g.place = "database" => CheckHead(T, FALSE) = More(FALSE)
        /\ g.place # "database" => CheckHead(T, FALSE) \in {"yes", "refuse"}
    BY <2>1, DatabaseSays
  <2> QED BY <2>2 DEF More
<1> QED BY <1>1, <1>2, <1>3, <1>4, <1>5, <1>6, <1>7, <1>8 DEF Shape
----------------------------------------------------------------------------
(* push and flush.                                                         *)

Grown(c, t) == [c EXCEPT !.tokens = Append(@, t)]
Refusing(c, b) == [c EXCEPT !.refused = b]
Holding(c, t) == [c EXCEPT !.cur = t]

(* A head with one more token. *)
LEMMA GrownFields ==
  ASSUME NEW c \in Checks, NEW t \in Token, NEW e, e = Grown(c, t)
  PROVE  /\ e \in Checks /\ e.tokens = Append(c.tokens, t) /\ e.cur = c.cur
         /\ e.accepted = c.accepted /\ e.inValues = c.inValues /\ e.values = c.values
         /\ e.tail = c.tail /\ e.refused = c.refused
<1>1. c.tokens \in Seq(Token)
  BY ChecksParts
<1> DEFINE s == Append(c.tokens, t)
<1>2. s \in Seq(Token)
  BY <1>1
<1>3. e = [c EXCEPT !.tokens = s]
  BY DEF Grown
<1> HIDE DEF s
<1>4. /\ e \in Checks /\ e.tokens = s /\ e.cur = c.cur
      /\ e.accepted = c.accepted /\ e.inValues = c.inValues /\ e.values = c.values
      /\ e.tail = c.tail /\ e.refused = c.refused
  BY <1>2, <1>3 DEF Checks
<1> QED BY <1>4 DEF s

(* A refusal. *)
LEMMA RefusingFields ==
  ASSUME NEW c \in Checks, NEW b \in BOOLEAN, NEW e, e = Refusing(c, b)
  PROVE  /\ e \in Checks /\ e.tokens = c.tokens /\ e.cur = c.cur
         /\ e.accepted = c.accepted /\ e.inValues = c.inValues /\ e.values = c.values
         /\ e.tail = c.tail /\ (e.refused <=> b)
BY DEF Refusing, Checks

(* A word is kept until something follows it. *)
LEMMA HoldingFields ==
  ASSUME NEW c \in Checks, NEW t \in Token, NEW e, e = Holding(c, t)
  PROVE  /\ e \in Checks /\ e.tokens = c.tokens /\ e.cur = t
         /\ e.accepted = c.accepted /\ e.inValues = c.inValues /\ e.values = c.values
         /\ e.tail = c.tail /\ e.refused = c.refused
BY DEF Holding, Checks

(* push, case by case. *)
LEMMA PushCases ==
  ASSUME NEW c, NEW t, NEW says, says = CheckHead(Append(c.tokens, t), FALSE), NEW p, p = Grown(c, t),
         p.tokens = Append(c.tokens, t)
  PROVE  /\ c.refused => Push(c, t) = c
         /\ ~c.refused /\ c.accepted => Push(c, t) = ToTail(c, t)
         /\ ~c.refused /\ ~c.accepted /\ says = "refuse" => Push(c, t) = Refusing(p, TRUE)
         /\ ~c.refused /\ ~c.accepted /\ says = "yes" => Push(c, t) = Accept(p)
         /\ ~c.refused /\ ~c.accepted /\ says = "more" => Push(c, t) = Refusing(p, Len(p.tokens) > MaxHead)
<1>1. Push(c, t) = CASE c.refused -> c
                     [] ~c.refused /\ c.accepted -> ToTail(c, t)
                     [] ~c.refused /\ ~c.accepted /\ says = "refuse" -> Refusing(p, TRUE)
                     [] ~c.refused /\ ~c.accepted /\ says = "yes" -> Accept(p)
                     [] OTHER -> Refusing(p, Len(p.tokens) > MaxHead)
  BY DEF Push, Grown, Refusing
<1>2. says = "refuse" => says # "yes"
  OBVIOUS
<1>3. CASE c.refused
  BY <1>1, <1>3
<1>4. CASE ~c.refused /\ c.accepted
  BY <1>1, <1>4
<1>5. CASE ~c.refused /\ ~c.accepted /\ says = "refuse"
  BY <1>1, <1>2, <1>5
<1>6. CASE ~c.refused /\ ~c.accepted /\ says = "yes"
  BY <1>1, <1>2, <1>6
<1>7. CASE ~c.refused /\ ~c.accepted /\ says = "more"
  BY <1>1, <1>7
<1> QED BY <1>3, <1>4, <1>5, <1>6, <1>7

(* The first word of the rows, which is VALUES, has just been checked. *)
AtValues(c, g) ==
  c.values.state = "tuple" /\ ~c.values.sign /\ g.row = HearRow(Rows0, "VALUES")

(* A token of the head is pushed. *)
LEMMA PushHead ==
  ASSUME NEW f, Fresh(f), Len(f.tokens) <= MaxHead, NEW t \in Token, NEW g \in Readings,
         g.place # "verb", Follows(Append(f.tokens, t), g), NEW e, e = Push(f, t)
  PROVE  /\ Reads(e, g) /\ e.cur = NoToken
         /\ ~e.refused /\ e.accepted /\ e.inValues /\ t.kind = "w" => AtValues(e, g)
<1> DEFINE A == Append(f.tokens, t)
           p == Grown(f, t)
           says == CheckHead(A, FALSE)
<1>0. /\ f \in Checks /\ ~f.refused /\ ~f.accepted /\ ~f.inValues /\ f.cur = NoToken
      /\ f.values = Values0 /\ f.tail = Tail0
  BY DEF Fresh
<1>1. /\ p \in Checks /\ p.tokens = A /\ p.cur = NoToken /\ ~p.accepted /\ ~p.inValues
      /\ p.values = Values0 /\ p.tail = Tail0 /\ ~p.refused
  BY <1>0, GrownFields
<1>2. /\ A \in Seq(Token) /\ Len(A) = Len(f.tokens) + 1 /\ Len(f.tokens) \in Nat
      /\ A[Len(A)] = t
  BY <1>0, ChecksParts, Appended
<1>3. /\ says = "refuse" => e = Refusing(p, TRUE)
      /\ says = "yes" => e = Accept(p)
      /\ says = "more" => e = Refusing(p, Len(p.tokens) > MaxHead)
  BY <1>0, <1>1, PushCases
<1>4. says = "refuse" \/ Shape(A, g)
  BY DEF Follows
<1> HIDE DEF p, A
<1>5. MaxHead \in Nat
  BY BoundsAssumption
<1>6. CASE says = "refuse"
  <2>1. /\ e \in Checks /\ e.tokens = A /\ e.cur = NoToken /\ ~e.accepted /\ ~e.inValues /\ e.refused
    <3> DEFINE b == TRUE
    <3>1. b \in BOOLEAN /\ e = Refusing(p, b)
      BY <1>3, <1>6
    <3>3. b
      OBVIOUS
    <3> HIDE DEF b
    <3>2. /\ e \in Checks /\ e.tokens = p.tokens /\ e.cur = p.cur /\ e.accepted = p.accepted
          /\ e.inValues = p.inValues /\ (e.refused <=> b)
      <4>1. p \in Checks
        BY <1>1
      <4> QED BY <3>1, <4>1, RefusingFields
    <3> QED BY <1>1, <3>2, <3>3
  <2> QED BY <1>2, <1>5, <2>1 DEF Reads
<1>7. CASE says = "yes"
  <2>1. ~g.abroad /\ Accepted(p.tokens, g)
    <3>1. A \in Seq(Token) /\ Len(A) >= 1 /\ Shape(A, g) /\ CheckHead(A, FALSE) = "yes"
      <4>1. Len(A) >= 1
        BY <1>2
      <4>2. Shape(A, g) /\ says = "yes"
        BY <1>4, <1>7
      <4> QED BY <1>2, <4>1, <4>2
    <3>2. ~g.abroad /\ Accepted(A, g)
      BY <3>1, HeadAccepted
    <3> QED BY <1>1, <3>2
  <2>2. Fresh(p) /\ Len(p.tokens) >= 1
    BY <1>1, <1>2 DEF Fresh
  <2>3. e = Accept(p)
    BY <1>3, <1>7
  <2>4. /\ e \in Checks /\ e.tokens = <<>> /\ e.accepted /\ e.cur = NoToken
        /\ ~e.refused => Settled(e, g)
        /\ ~e.refused /\ e.inValues /\ p.tokens[Len(p.tokens)].kind = "w" =>
             e.values.state = "tuple" /\ ~e.values.sign /\ g.row = HearRow(Rows0, "VALUES")
    BY <2>1, <2>2, <2>3, AcceptSettles
  <2>5. Len(e.tokens) <= MaxHead + 1
    BY <1>5, <2>4
  <2> QED BY <1>1, <1>2, <2>4, <2>5 DEF Reads, AtValues
<1>8. CASE says = "more"
  <2> DEFINE b == Len(p.tokens) > MaxHead
  <2>1. b \in BOOLEAN /\ e = Refusing(p, b)
    BY <1>3, <1>8
  <2>2. /\ e \in Checks /\ e.tokens = A /\ e.cur = NoToken /\ ~e.accepted /\ ~e.inValues
        /\ e.values = Values0 /\ e.tail = Tail0 /\ (e.refused <=> b)
    <3> HIDE DEF b
    <3> QED BY <1>1, <2>1, RefusingFields
  <2>3. ~e.refused => Unsettled(e, g)
    <3>1. A # <<>> /\ Pending(e) = A
      BY <1>2, <2>2 DEF Pending
    <3>2. ~e.refused => Len(A) <= MaxHead
      BY <1>1, <1>2, <1>5, <2>2
    <3>3. CheckHead(A, FALSE) = "more" /\ Follows(A, g)
      BY <1>8 DEF A
    <3> QED BY <2>2, <3>1, <3>2, <3>3 DEF Unsettled
  <2> QED BY <1>2, <1>5, <2>2, <2>3 DEF Reads
<1>9. says \in {"yes", "refuse", "more"}
  <2>1. A \in Seq(Token) /\ Len(A) >= 1
    BY <1>2
  <2>2. Shape(A, g) => CheckHead(A, FALSE) \in {"yes", "refuse", "more"}
    BY <2>1, HeadSays
  <2> QED BY <1>4, <2>2
<1> QED BY <1>6, <1>7, <1>8, <1>9

(* The pending word is pushed, as it was heard. *)
LEMMA FlushReads ==
  ASSUME NEW c, NEW g, Reads(c, g), ~c.refused, c.cur = NoToken \/ c.cur.kind = "w",
         NEW e, e = Flush(c)
  PROVE  /\ Reads(e, g) /\ e.cur = NoToken
         /\ ~c.accepted /\ ~e.refused /\ e.accepted /\ e.inValues => AtValues(e, g)
         /\ c.accepted => e.inValues = c.inValues
<1> DEFINE f == Holding(c, NoToken)
           t == c.cur
<1>0. c \in Checks /\ g \in Readings /\ t \in Token
  BY ChecksParts DEF Reads
<1>1. CASE t = NoToken
  <2>1. e = c
    BY <1>1 DEF Flush
  <2> QED BY <1>1, <2>1
<1>2. CASE t # NoToken
  <2>1. e = Push(f, t)
    BY <1>2 DEF Flush, Holding
  <2>2. NoToken \in Token
    BY DEF NoToken, P, Token, Atoms
  <2>3. /\ f \in Checks /\ f.tokens = c.tokens /\ f.cur = NoToken
        /\ f.accepted = c.accepted /\ f.inValues = c.inValues /\ f.values = c.values
        /\ f.tail = c.tail /\ f.refused = c.refused
    BY <1>0, <2>2, HoldingFields
  <2> HIDE DEF f
  <2>4. CASE c.accepted
    <3>1. Settled(c, g) /\ c.tokens = <<>> /\ Len(c.tokens) <= MaxHead + 1
      BY <2>4 DEF Reads
    <3>2. ~c.inValues
      BY <1>2, <3>1 DEF Settled
    <3>3. e = ToTail(f, t)
      <4> DEFINE p == Grown(f, t)
      <4>1. p.tokens = Append(f.tokens, t)
        BY <1>0, <2>3, GrownFields
      <4>2. ~f.refused /\ f.accepted
        BY <2>3, <2>4
      <4>3. ~f.refused /\ f.accepted => Push(f, t) = ToTail(f, t)
        BY <4>1, PushCases
      <4> QED BY <2>1, <4>2, <4>3
    <3>4. /\ e \in Checks
          /\ e.tokens = f.tokens /\ e.cur = f.cur /\ e.accepted = f.accepted
          /\ e.inValues = f.inValues /\ e.values = f.values /\ e.tail.table = f.tail.table
          /\ \A r \in ColumnReadings :
               ~e.refused /\ f.tail.table /\ ColumnsAgree(f.tail, r) =>
                 ColumnsAgree(e.tail, HearColumn(r, Lexeme(t)))
      BY <1>0, <2>3, <3>3, TailFollows
    <3>5. ~e.refused => Settled(e, g)
      <4>1. CASE c.tail.table
        <5>1. PICK r \in ColumnReadings :
                ColumnsAgree(c.tail, r) /\ g.column = HearColumn(r, Lexeme(t))
          BY <1>2, <3>1, <4>1 DEF Settled
        <5>2. ~e.refused => ColumnsAgree(e.tail, g.column)
          BY <2>3, <3>4, <4>1, <5>1
        <5>3. e.tail.table /\ ~e.inValues /\ e.cur = NoToken
          BY <2>3, <3>2, <3>4, <4>1
        <5> QED BY <3>1, <3>2, <4>1, <5>2, <5>3 DEF Settled
      <4>2. CASE ~c.tail.table
        <5>1. ~e.tail.table /\ ~e.inValues /\ e.cur = NoToken
          BY <2>3, <3>2, <3>4, <4>2
        <5> QED BY <3>1, <3>2, <4>2, <5>1 DEF Settled
      <4> QED BY <4>1, <4>2
    <3> QED BY <1>0, <2>3, <2>4, <3>1, <3>2, <3>4, <3>5 DEF Reads
  <2>5. CASE ~c.accepted
    <3>1. Unsettled(c, g)
      BY <2>5 DEF Reads
    <3>2. Fresh(f)
      <4>1. c.inValues \in BOOLEAN /\ c.accepted \in BOOLEAN /\ c.refused \in BOOLEAN
        BY <1>0, ChecksParts
      <4> QED BY <2>3, <2>5, <3>1 DEF Fresh, Unsettled
    <3>3. Len(f.tokens) <= MaxHead
      <4>1. CASE c.tokens = <<>>
        BY <2>3, <4>1, BoundsAssumption
      <4>2. CASE c.tokens # <<>>
        BY <2>3, <3>1, <4>2 DEF Unsettled
      <4> QED BY <4>1, <4>2
    <3>4. g.place # "verb" /\ Follows(Append(f.tokens, t), g)
      <4>1. Pending(c) = Append(c.tokens, t)
        BY <1>2 DEF Pending
      <4>2. c.tokens \in Seq(Token)
        BY <1>0, ChecksParts
      <4>3. Append(c.tokens, t) # <<>>
        <5>1. Len(Append(c.tokens, t)) = Len(c.tokens) + 1 /\ Len(c.tokens) \in Nat
          BY <1>0, <4>2, Appended
        <5>2. Len(<<>>) = 0
          OBVIOUS
        <5> QED BY <5>1, <5>2
      <4> QED BY <2>3, <3>1, <4>1, <4>3 DEF Unsettled
    <3>5. /\ Reads(e, g) /\ e.cur = NoToken
          /\ ~e.refused /\ e.accepted /\ e.inValues /\ t.kind = "w" => AtValues(e, g)
      BY <1>0, <2>1, <3>2, <3>3, <3>4, PushHead
    <3> QED BY <1>2, <2>5, <3>5
  <2> QED BY <2>4, <2>5
<1> QED BY <1>1, <1>2

(* The next token of a head leaves it refused or in a shape. *)
LEMMA HeadHears ==
  ASSUME NEW c \in Checks, NEW g \in Readings, c.cur = NoToken, Unsettled(c, g),
         NEW t \in Tokens(g), NEW h, h = Hear(g, t)
  PROVE  /\ t \in Token /\ h \in Readings /\ h.place # "verb"
         /\ Follows(Append(c.tokens, t), h) /\ Append(c.tokens, t) # <<>>
<1> DEFINE T == c.tokens
<1>1. t \in Token /\ h \in Readings
  BY HearTyped
<1>2. h.place # "verb"
  BY HearLeaves
<1>3. T \in Seq(Token) /\ Len(T) \in Nat /\ Pending(c) = T
  BY ChecksParts DEF Pending
<1>6. Append(T, t) # <<>>
  <2>1. Len(Append(T, t)) = Len(T) + 1
    BY <1>1, <1>3, Appended
  <2>2. Len(<<>>) = 0
    OBVIOUS
  <2> QED BY <1>3, <2>1, <2>2
<1>7. Follows(Append(T, t), h)
  <2>1. CASE T = <<>>
    <3>1. g.place = "verb"
      BY <1>3, <2>1 DEF Unsettled, Started
    <3>2. Follows(<<t>>, h)
      BY <3>1, HeadStarts
    <3>3. Append(T, t) = <<t>>
      BY <2>1
    <3> HIDE DEF T
    <3> QED BY <3>2, <3>3
  <2>2. CASE T # <<>>
    <3>1. CheckHead(T, FALSE) = "more" /\ Follows(T, g)
      BY <1>3, <2>2 DEF Unsettled
    <3>2. Shape(T, g)
      BY <3>1 DEF Follows
    <3>3. Len(T) >= 1
      <4>1. \A s \in Seq(Token) : s # <<>> => Len(s) >= 1
        OBVIOUS
      <4> QED BY <1>3, <2>2, <4>1
    <3> QED BY <1>3, <3>1, <3>2, <3>3, HeadGoesOn
  <2> QED BY <2>1, <2>2
<1> QED BY <1>1, <1>2, <1>6, <1>7

(* A token outside the rows, pushed as it is heard. *)
LEMMA PushHears ==
  ASSUME NEW f, NEW g, Reads(f, g), f.cur = NoToken, ~(f.accepted /\ f.inValues),
         NEW t \in Tokens(g), NEW h, h = Hear(g, t), NEW e, e = Push(f, t)
  PROVE  Reads(e, h) /\ e.cur = NoToken
<1>0. f \in Checks /\ g \in Readings /\ h \in Readings /\ t \in Token
  BY HearTyped DEF Reads
<1> DEFINE p == Grown(f, t)
<1>1. p.tokens = Append(f.tokens, t)
  BY <1>0, GrownFields
<1>2. CASE f.refused
  <2>1. f.refused => e = f
    BY <1>1, PushCases
  <2>2. e = f
    BY <1>2, <2>1
  <2> QED BY <1>0, <1>2, <2>2 DEF Reads
<1>3. CASE ~f.refused /\ f.accepted
  <2>1. ~f.refused /\ f.accepted => e = ToTail(f, t)
    BY <1>1, PushCases
  <2>2. e = ToTail(f, t)
    BY <1>3, <2>1
  <2>3. Settled(f, g) /\ f.tokens = <<>> /\ ~f.inValues /\ Len(f.tokens) <= MaxHead + 1
    BY <1>3 DEF Reads
  <2>4. /\ h.place = "after"
        /\ h.verb = g.verb /\ h.kind = g.kind /\ h.names = g.names /\ h.abroad = g.abroad
        /\ h.row = IF h.verb = "INSERT" THEN HearRow(g.row, Lexeme(t)) ELSE g.row
        /\ h.column = IF h.verb = "CREATE" /\ h.kind = "TABLE"
                      THEN HearColumn(g.column, Lexeme(t)) ELSE g.column
    BY <1>0, <2>3, BodyHears DEF Settled
  <2>5. /\ e \in Checks
        /\ e.tokens = f.tokens /\ e.cur = f.cur /\ e.accepted = f.accepted
        /\ e.inValues = f.inValues /\ e.values = f.values /\ e.tail.table = f.tail.table
        /\ \A r \in ColumnReadings :
             ~e.refused /\ f.tail.table /\ ColumnsAgree(f.tail, r) =>
               ColumnsAgree(e.tail, HearColumn(r, Lexeme(t)))
    BY <1>0, <2>2, TailFollows
  <2>6. g.column \in ColumnReadings
    BY <1>0 DEF Readings
  <2>7. ~e.refused => Settled(e, h)
    <3>1. h.row = Rows0 /\ g.verb # "INSERT"
      BY <2>3, <2>4 DEF Settled
    <3>2. CASE f.tail.table
      <4>1. ColumnsAgree(f.tail, g.column) /\ h.column = HearColumn(g.column, Lexeme(t))
        BY <2>3, <2>4, <3>2 DEF Settled
      <4>2. ~e.refused => ColumnsAgree(e.tail, h.column)
        BY <2>5, <2>6, <3>2, <4>1
      <4> QED BY <2>3, <2>4, <2>5, <3>1, <3>2, <4>2 DEF Settled
    <3>3. CASE ~f.tail.table
      <4>1. h.column = Default0
        BY <2>3, <2>4, <3>3 DEF Settled
      <4> QED BY <2>3, <2>4, <2>5, <3>1, <3>3, <4>1 DEF Settled
    <3> QED BY <3>2, <3>3
  <2> QED BY <1>0, <1>3, <2>3, <2>5, <2>7 DEF Reads
<1>4. CASE ~f.refused /\ ~f.accepted
  <2>1. Unsettled(f, g)
    BY <1>4 DEF Reads
  <2>2. h.place # "verb" /\ Follows(Append(f.tokens, t), h)
    BY <1>0, <2>1, HeadHears
  <2>3. Fresh(f)
    BY <1>0, <1>4, <2>1 DEF Fresh, Unsettled
  <2>4. Len(f.tokens) <= MaxHead
    <3>1. CASE f.tokens = <<>>
      BY <3>1, BoundsAssumption
    <3>2. CASE f.tokens # <<>>
      BY <2>1, <3>2 DEF Unsettled
    <3> QED BY <3>1, <3>2
  <2> QED BY <1>0, <2>2, <2>3, <2>4, PushHead
<1> QED BY <1>2, <1>3, <1>4

(* A word outside the rows is heard before it is checked. *)
LEMMA WordHears ==
  ASSUME NEW c, NEW g, Reads(c, g), c.cur = NoToken, ~c.refused, ~(c.accepted /\ c.inValues),
         NEW t \in Tokens(g), t.kind = "w", NEW h, h = Hear(g, t), NEW e, e = Holding(c, t)
  PROVE  Reads(e, h) /\ e.cur.kind = "w"
<1>0. c \in Checks /\ g \in Readings /\ h \in Readings /\ t \in Token /\ t # NoToken
  <2>1. NoToken.kind = "p"
    BY DEF NoToken, P
  <2> QED BY <2>1, HearTyped DEF Reads
<1>1. /\ e \in Checks /\ e.tokens = c.tokens /\ e.cur = t
      /\ e.accepted = c.accepted /\ e.inValues = c.inValues /\ e.values = c.values
      /\ e.tail = c.tail /\ e.refused = c.refused
  BY <1>0, HoldingFields
<1>2. CASE c.accepted
  <2>1. Settled(c, g) /\ ~c.inValues
    BY <1>2 DEF Reads
  <2>2. /\ h.place = "after"
        /\ h.verb = g.verb /\ h.kind = g.kind /\ h.names = g.names /\ h.abroad = g.abroad
        /\ h.row = IF h.verb = "INSERT" THEN HearRow(g.row, Lexeme(t)) ELSE g.row
        /\ h.column = IF h.verb = "CREATE" /\ h.kind = "TABLE"
                      THEN HearColumn(g.column, Lexeme(t)) ELSE g.column
    BY <1>0, <2>1, BodyHears DEF Settled
  <2>3. g.column \in ColumnReadings
    BY <1>0 DEF Readings
  <2>4. h.row = Rows0 /\ g.verb # "INSERT"
    BY <2>1, <2>2 DEF Settled
  <2>5. Settled(e, h)
    <3>1. CASE c.tail.table
      <4>1. ColumnsAgree(c.tail, g.column) /\ h.column = HearColumn(g.column, Lexeme(t))
        BY <2>1, <2>2, <3>1 DEF Settled
      <4> QED BY <1>0, <1>1, <2>1, <2>2, <2>3, <2>4, <3>1, <4>1 DEF Settled
    <3>2. CASE ~c.tail.table
      <4>1. h.column = Default0
        BY <2>1, <2>2, <3>2 DEF Settled
      <4> QED BY <1>1, <2>1, <2>2, <2>4, <3>2, <4>1 DEF Settled
    <3> QED BY <3>1, <3>2
  <2> QED BY <1>0, <1>1, <1>2, <2>5 DEF Reads
<1>3. CASE ~c.accepted
  <2>1. Unsettled(c, g)
    BY <1>3 DEF Reads
  <2>2. h.place # "verb" /\ Follows(Append(c.tokens, t), h) /\ Append(c.tokens, t) # <<>>
    BY <1>0, <2>1, HeadHears
  <2>3. Pending(e) = Append(c.tokens, t)
    BY <1>0, <1>1 DEF Pending
  <2>4. Unsettled(e, h)
    BY <1>1, <2>1, <2>2, <2>3 DEF Unsettled
  <2> QED BY <1>0, <1>1, <1>3, <2>4 DEF Reads
<1> QED BY <1>2, <1>3

(* A token of the rows. *)
LEMMA RowHears ==
  ASSUME NEW c, NEW g, Reads(c, g), ~c.refused, c.accepted, c.inValues,
         NEW t \in Tokens(g), NEW h, h = Hear(g, t), NEW e, e = ToValues(c, t)
  PROVE  Reads(e, h) /\ e.cur = NoToken
<1>0. c \in Checks /\ g \in Readings /\ h \in Readings /\ t \in Token
  BY HearTyped DEF Reads
<1>1. Settled(c, g) /\ c.tokens = <<>> /\ Len(c.tokens) <= MaxHead + 1
  BY DEF Reads
<1>2. g.verb = "INSERT" /\ c.cur = NoToken /\ c.values.state # "refused" /\ RowsAgree(c.values, g.row)
      /\ ~c.tail.table /\ g.column = Default0
  BY <1>1 DEF Settled
<1>3. /\ h.place = "after"
      /\ h.verb = g.verb /\ h.kind = g.kind /\ h.names = g.names /\ h.abroad = g.abroad
      /\ h.row = IF h.verb = "INSERT" THEN HearRow(g.row, Lexeme(t)) ELSE g.row
      /\ h.column = IF h.verb = "CREATE" /\ h.kind = "TABLE"
                    THEN HearColumn(g.column, Lexeme(t)) ELSE g.column
  BY <1>0, <1>1, BodyHears DEF Settled
<1>4. g.row \in RowReadings
  BY <1>0 DEF Readings
<1>5. /\ e \in Checks
      /\ e.tokens = c.tokens /\ e.cur = c.cur /\ e.accepted = c.accepted
      /\ e.inValues = c.inValues /\ e.tail = c.tail
      /\ ~e.refused => RowsAgree(e.values, HearRow(g.row, Lexeme(t))) /\ e.values.state # "refused"
  <2> DEFINE r == g.row
  <2>1. c.values.state # "refused" /\ RowsAgree(c.values, r) /\ r \in RowReadings
    BY <1>2, <1>4
  <2> HIDE DEF r
  <2>2. RowsGoOn(c, e, t, r)
    BY <1>0, <2>1, RowsFollow
  <2> QED BY <2>2 DEF r, RowsGoOn
<1>6. ~e.refused => Settled(e, h)
  BY <1>1, <1>2, <1>3, <1>5 DEF Settled
<1> QED BY <1>0, <1>1, <1>2, <1>5, <1>6 DEF Reads

(* Punctuation right after VALUES goes to the tail: the check stays where  *)
(* it is, and waits for the row.                                           *)
LEMMA AfterValues ==
  ASSUME NEW c, NEW g, Reads(c, g), ~c.refused, c.accepted, c.inValues, AtValues(c, g),
         NEW t \in Tokens(g), NEW h, h = Hear(g, t), NEW e, e = Push(c, t)
  PROVE  Reads(e, h) /\ e.cur = NoToken
<1>0. c \in Checks /\ g \in Readings /\ h \in Readings /\ t \in Token
  BY HearTyped DEF Reads
<1>1. Settled(c, g) /\ c.tokens = <<>> /\ Len(c.tokens) <= MaxHead + 1
  BY DEF Reads
<1>2. g.verb = "INSERT" /\ c.cur = NoToken /\ c.values.state # "refused"
      /\ ~c.tail.table /\ g.column = Default0
  BY <1>1 DEF Settled
<1> DEFINE r == g.row
           x == Lexeme(t)
<1>3. /\ h.place = "after"
      /\ h.verb = g.verb /\ h.kind = g.kind /\ h.names = g.names /\ h.abroad = g.abroad
      /\ h.row = IF h.verb = "INSERT" THEN HearRow(r, x) ELSE r
      /\ h.column = IF h.verb = "CREATE" /\ h.kind = "TABLE" THEN HearColumn(g.column, x) ELSE g.column
  BY <1>0, <1>1, BodyHears DEF Settled
<1>4. e = ToTail(c, t)
  <2> DEFINE p == Grown(c, t)
  <2>1. p.tokens = Append(c.tokens, t)
    BY <1>0, GrownFields
  <2>2. ~c.refused /\ c.accepted => Push(c, t) = ToTail(c, t)
    BY <2>1, PushCases
  <2> QED BY <2>2
<1>5. /\ e \in Checks
      /\ e.tokens = c.tokens /\ e.cur = c.cur /\ e.accepted = c.accepted
      /\ e.inValues = c.inValues /\ e.values = c.values /\ e.tail.table = c.tail.table
  BY <1>0, <1>4, TailFollows
<1>6. r \in RowReadings /\ r.last = "VALUES" /\ r.in = "rows" /\ ~r.evaluates
  <2>1. r \in RowReadings
    BY <1>0 DEF Readings
  <2>2. Rows0 \in RowReadings /\ Rows0.in = "columns" /\ Rows0.last = "none" /\ ~Rows0.evaluates
    BY BodiesStart
  <2>3. r = HearRow(Rows0, "VALUES")
    BY DEF AtValues
  <2>4. ~Computes(Rows0, "VALUES")
    BY <2>2 DEF Computes, Strings
  <2>5. r.last = "VALUES" /\ r.in = "rows" /\ r.evaluates = Rows0.evaluates
    BY <2>2, <2>3, <2>4, HearRowFields
  <2> QED BY <2>1, <2>2, <2>5
<1>7. RowsAgree(c.values, HearRow(r, x))
  <2> DEFINE q == HearRow(r, x)
  <2>1. /\ q.last = x
        /\ q.in = IF x # "(" THEN "broken" ELSE "rows"
        /\ x # "(" => q.evaluates = r.evaluates
        /\ ~Computes(r, x) => q.evaluates = r.evaluates
    BY <1>6, HearRowFields
  <2>2. x = "(" => ~Computes(r, x)
    BY <1>6 DEF Computes, Strings, Literals
  <2>3. c.values.state = "tuple" /\ ~c.values.sign
    BY DEF AtValues
  <2> HIDE DEF q, r, x
  <2>4. RowsAgree(c.values, q)
    BY <1>6, <2>1, <2>2, <2>3 DEF RowsAgree
  <2> QED BY <2>4 DEF q
<1> HIDE DEF r, x
<1>8. ~e.refused => Settled(e, h)
  BY <1>1, <1>2, <1>3, <1>5, <1>7 DEF Settled
<1> QED BY <1>0, <1>1, <1>2, <1>5, <1>8 DEF Reads

(* What was refused before a token of the rows stays refused. *)
LEMMA RefusedStays ==
  ASSUME NEW c \in Checks, c.refused, NEW t \in Token, NEW e, e = ToValues(c, t)
  PROVE  /\ e \in Checks /\ e.tokens = c.tokens /\ e.cur = c.cur /\ e.accepted = c.accepted
         /\ e.inValues = c.inValues /\ e.refused
BY ToValuesFields

(* A token of a statement, whatever the check is at. *)
LEMMA TakeReads ==
  ASSUME NEW c, NEW g, Reads(c, g), ~c.refused, c.cur = NoToken \/ c.cur.kind = "w",
         NEW t \in Tokens(g), t.kind = "w" => c.cur = NoToken,
         NEW h, h = Hear(g, t), NEW e, e = Take(c, t)
  PROVE  Reads(e, h) /\ (e.cur = NoToken \/ e.cur.kind = "w")
<1>0. c \in Checks /\ g \in Readings /\ h \in Readings /\ t \in Token
  BY HearTyped DEF Reads
<1>1. CASE c.accepted /\ c.inValues
  <2>1. e = ToValues(c, t)
    BY <1>1 DEF Take
  <2> QED BY <1>1, <2>1, RowHears
<1>2. CASE ~(c.accepted /\ c.inValues) /\ t.kind = "w"
  <2>1. e = Holding(c, t)
    BY <1>2 DEF Take, Holding
  <2> QED BY <1>2, <2>1, WordHears
<1>3. CASE ~(c.accepted /\ c.inValues) /\ t.kind # "w"
  <2> DEFINE f == Flush(c)
  <2>1. /\ Reads(f, g) /\ f.cur = NoToken
        /\ ~c.accepted /\ ~f.refused /\ f.accepted /\ f.inValues => AtValues(f, g)
    BY FlushReads
  <2>2. c.accepted => ~f.inValues
    BY <1>3, FlushReads
  <2>3. e = IF t.kind # "p" /\ f.accepted /\ f.inValues THEN ToValues(f, t) ELSE Push(f, t)
    BY <1>3 DEF Take
  <2> HIDE DEF f
  <2>4. CASE ~(f.accepted /\ f.inValues)
    <3>1. e = Push(f, t)
      BY <2>3, <2>4
    <3> QED BY <2>1, <2>4, <3>1, PushHears
  <2>5. CASE f.accepted /\ f.inValues /\ ~f.refused /\ t.kind = "p"
    <3>1. e = Push(f, t)
      BY <2>3, <2>5
    <3> QED BY <2>1, <2>2, <2>5, <3>1, AfterValues
  <2>6. CASE f.accepted /\ f.inValues /\ ~f.refused /\ t.kind # "p"
    <3>1. e = ToValues(f, t)
      BY <2>3, <2>6
    <3> QED BY <2>1, <2>6, <3>1, RowHears
  <2>7. CASE f.accepted /\ f.inValues /\ f.refused /\ t.kind = "p"
    <3>1. e = Push(f, t)
      BY <2>3, <2>7
    <3>2. Push(f, t) = f
      BY <2>7 DEF Push
    <3> QED BY <1>0, <2>1, <2>7, <3>1, <3>2 DEF Reads
  <2>8. CASE f.accepted /\ f.inValues /\ f.refused /\ t.kind # "p"
    <3>1. e = ToValues(f, t) /\ f \in Checks
      BY <2>1, <2>3, <2>8 DEF Reads
    <3>2. /\ e \in Checks /\ e.tokens = f.tokens /\ e.cur = f.cur /\ e.accepted = f.accepted
          /\ e.inValues = f.inValues /\ e.refused
      BY <1>0, <2>8, <3>1, RefusedStays
    <3> QED BY <1>0, <2>1, <2>8, <3>2 DEF Reads
  <2> QED BY <2>4, <2>5, <2>6, <2>7, <2>8
<1> QED BY <1>1, <1>2, <1>3

(* A space ends the pending word. *)
LEMMA SpaceReads ==
  ASSUME NEW c, NEW g, Reads(c, g), ~c.refused, c.cur # NoToken, c.cur.kind = "w",
         NEW e, e = Space(c)
  PROVE  Reads(e, g) /\ e.cur = NoToken
<1>1. ~(c.accepted /\ c.inValues)
  BY DEF Reads, Settled
<1>2. e = Flush(c)
  BY <1>1 DEF Space
<1> QED BY <1>2, FlushReads

(* What a statement ends with was heard, and nothing in it is abroad or    *)
(* computed.                                                               *)
LEMMA EndReads ==
  ASSUME NEW c, NEW g, Reads(c, g), ~c.refused, c.cur = NoToken \/ c.cur.kind = "w",
         g.place # "verb", NEW e, e = Ended(c), ~e.refused
  PROVE  ~g.abroad /\ ~g.row.evaluates /\ g.column.computes \subseteq {"later"}
<1> DEFINE f == Space(c)
           says == CheckHead(f.tokens, TRUE)
           last == IF f.refused \/ f.accepted \/ f.tokens = <<>> THEN f
                   ELSE IF says = "refuse" THEN [f EXCEPT !.refused = TRUE]
                   ELSE IF says = "yes" THEN Accept(f) ELSE f
<1>0. c \in Checks /\ g \in Readings
  BY DEF Reads
<1>1. ~last.refused /\ (last.inValues => ValuesComplete(last.values))
  <2>1. e = [D0 EXCEPT !.refused = last.refused \/ (last.inValues /\ ~ValuesComplete(last.values))]
    BY DEF Ended
  <2> HIDE DEF last
  <2>2. e.refused = (last.refused \/ (last.inValues /\ ~ValuesComplete(last.values)))
    BY <2>1 DEF D0
  <2> QED BY <2>2
<1>2. Rows0.evaluates = FALSE /\ Default0.computes = {}
  BY DEF Rows0, Default0
<1> HIDE DEF last
<1>3. CASE c.accepted /\ c.inValues
  <2> DEFINE v == Spaced(c.values)
             b == c.refused \/ v.state = "refused"
  <2>1. Settled(c, g) /\ c.values \in RowChecks /\ c.refused \in BOOLEAN
    BY <1>0, <1>3, ChecksParts DEF Reads
  <2>2. RowsAgree(c.values, g.row) /\ g.column = Default0 /\ ~g.abroad
    BY <1>3, <2>1 DEF Settled
  <2>3. f = WithValues(c, v, b)
    BY <1>3 DEF Space, WithValues
  <2>4. v \in RowChecks /\ b \in BOOLEAN
    BY <2>1, SpacedFields
  <2> HIDE DEF f, b
  <2>5. f.values = v /\ f.accepted = c.accepted /\ f.inValues = c.inValues
    <3> HIDE DEF v
    <3> QED BY <1>0, <2>3, <2>4, ValuesFields
  <2>6. last = f
    BY <1>3, <2>5 DEF last
  <2>7. v.state = "tupleSep" /\ ~v.sign
    <3> HIDE DEF v
    <3> QED BY <1>1, <1>3, <2>5, <2>6 DEF ValuesComplete
  <2>8. v = c.values
    BY <2>1, <2>7, SpacedFields
  <2>9. ~g.row.evaluates
    BY <2>2, <2>7, <2>8 DEF RowsAgree
  <2> QED BY <1>2, <2>2, <2>9
<1>4. CASE ~(c.accepted /\ c.inValues)
  <2>1. f = Flush(c)
    BY <1>4 DEF Space
  <2>2. Reads(f, g) /\ f.cur = NoToken
    BY <2>1, FlushReads
  <2> HIDE DEF f
  <2>3. ~f.refused
    <3>1. SUFFICES ASSUME f.refused PROVE FALSE
      OBVIOUS
    <3>2. last = f
      BY <3>1 DEF last
    <3> QED BY <1>1, <3>1, <3>2
  <2>4. CASE f.accepted
    <3>1. last = f
      BY <2>4 DEF last
    <3> QED BY <1>1, <1>2, <2>2, <2>3, <2>4, <3>1 DEF Reads, Settled, RowsAgree, ColumnsAgree, ValuesComplete
  <2>5. CASE ~f.accepted
    <3>1. Unsettled(f, g) /\ f \in Checks
      BY <2>2, <2>3, <2>5 DEF Reads
    <3>2. Pending(f) = f.tokens
      BY <2>2 DEF Pending
    <3>3. f.tokens # <<>>
      BY <3>1, <3>2 DEF Unsettled, Started
    <3>4. says # "refuse"
      <4>1. SUFFICES ASSUME says = "refuse" PROVE FALSE
        OBVIOUS
      <4>2. last = Refusing(f, TRUE)
        BY <2>3, <2>5, <3>3, <4>1 DEF last, Refusing
      <4>3. \A b \in BOOLEAN : \A m : m = Refusing(f, b) => (m.refused <=> b)
        BY <3>1, RefusingFields
      <4>4. last.refused <=> TRUE
        BY <4>2, <4>3
      <4> QED BY <1>1, <4>4
    <3>5. CheckHead(f.tokens, FALSE) = "more" /\ Shape(f.tokens, g)
      BY <3>1, <3>2, <3>3 DEF Unsettled, Follows
    <3>6. Harmless(g)
      <4>1. f.tokens \in Seq(Token) /\ Len(f.tokens) >= 1
        <5>1. f.tokens \in Seq(Token)
          BY <3>1, ChecksParts
        <5>2. \A s \in Seq(Token) : s # <<>> => Len(s) >= 1
          OBVIOUS
        <5> QED BY <3>3, <5>1, <5>2
      <4> QED BY <1>0, <3>4, <3>5, <4>1, HeadEnds
    <3> QED BY <1>2, <3>6 DEF Harmless
  <2> QED BY <2>4, <2>5
<1> QED BY <1>3, <1>4
----------------------------------------------------------------------------
(* Every step.                                                             *)

(* The check and the server start a statement alike. *)
LEMMA StatementStarts ==
  /\ D0 \in Checks /\ D0.cur = NoToken /\ D0.tokens = <<>>
  /\ ~D0.accepted /\ ~D0.inValues /\ ~D0.refused
  /\ Heard0 \in Readings
  /\ Reads(D0, Heard0)
<1>1. NoToken \in Token /\ <<>> \in Seq(Token)
  BY DEF NoToken, P, Token, Atoms
<1>2. /\ D0 \in Checks /\ D0.cur = NoToken /\ D0.tokens = <<>>
      /\ ~D0.accepted /\ ~D0.inValues /\ ~D0.refused
      /\ D0.values = Values0 /\ D0.tail = Tail0
  BY <1>1, BodiesStart DEF D0, Checks, RowChecks, Tails
<1>3. Heard0 \in Readings
  BY BodiesStart DEF Heard0, Readings, Kinds, Places, Atoms
<1>4. Len(D0.tokens) <= MaxHead + 1
  BY <1>2, BoundsAssumption
<1>5. Unsettled(D0, Heard0)
  BY <1>2, BodiesStart DEF Unsettled, Pending, Started, Heard0
<1> QED BY <1>2, <1>3, <1>4, <1>5 DEF Reads

(* A check that refuses reads whatever the server does. *)
LEMMA RefusedReads ==
  ASSUME NEW b \in BOOLEAN, NEW e, e = [D0 EXCEPT !.refused = b], NEW g \in Readings,
         ~b => Started(g)
  PROVE  Reads(e, g) /\ e.cur = NoToken /\ (e.refused <=> b)
<1>1. /\ e \in Checks /\ e.cur = NoToken /\ e.tokens = <<>>
      /\ ~e.accepted /\ ~e.inValues /\ (e.refused <=> b)
      /\ e.values = Values0 /\ e.tail = Tail0
  <2>1. /\ D0.values = Values0 /\ D0.tail = Tail0
    BY DEF D0
  <2>2. e = Refusing(D0, b)
    BY DEF Refusing
  <2> QED BY <2>1, <2>2, StatementStarts, RefusingFields
<1>2. Len(e.tokens) <= MaxHead + 1
  BY <1>1, BoundsAssumption
<1>3. ~b => Unsettled(e, g)
  BY <1>1 DEF Unsettled, Pending
<1> QED BY <1>1, <1>2, <1>3 DEF Reads

(* A statement ends, and the next one starts. *)
LEMMA StatementEndsReads ==
  ASSUME NEW c, NEW g, Reads(c, g), ~c.refused, c.cur = NoToken \/ c.cur.kind = "w",
         g.place # "verb", NEW e, e = Ended(c),
         NEW h, h = [Heard0 EXCEPT !.abroad = g.abroad, !.row.evaluates = g.row.evaluates,
                                   !.column.computes = g.column.computes]
  PROVE  Reads(e, h) /\ e.cur = NoToken
<1>0. g \in Readings /\ g.abroad \in BOOLEAN /\ g.row.evaluates \in BOOLEAN
      /\ g.column.computes \subseteq {"value", "next", "later"}
  BY DEF Reads, Readings, RowReadings, ColumnReadings
<1>1. /\ h.verb = "none" /\ h.kind = "none" /\ h.place = "verb" /\ h.id = "none" /\ h.names = 0
      /\ h.abroad = g.abroad
      /\ h.row = [in |-> "columns", last |-> "none", evaluates |-> g.row.evaluates]
      /\ h.column = [in |-> "no", computes |-> g.column.computes]
      /\ h = [verb |-> "none", kind |-> "none", place |-> "verb", id |-> "none", names |-> 0,
              abroad |-> g.abroad,
              row |-> [in |-> "columns", last |-> "none", evaluates |-> g.row.evaluates],
              column |-> [in |-> "no", computes |-> g.column.computes]]
  BY DEF Heard0, Rows0, Default0
<1>2. h \in Readings
  <2>1. /\ "none" \in Verbs \cup {"none"} /\ "none" \in Kinds /\ "verb" \in Places /\ "none" \in Atoms
    BY DEF Kinds, Places, Atoms
  <2>2. h.row \in RowReadings
    BY <1>0, <1>1, <2>1 DEF RowReadings
  <2>3. h.column \in ColumnReadings
    BY <1>0, <1>1 DEF ColumnReadings, ColumnStates
  <2>4. h = [verb |-> "none", kind |-> "none", place |-> "verb", id |-> "none", names |-> 0,
             abroad |-> h.abroad, row |-> h.row, column |-> h.column]
    BY <1>1
  <2> QED BY <1>0, <1>1, <2>1, <2>2, <2>3, <2>4 DEF Readings
<1>3. ~e.refused => Started(h)
  <2>1. SUFFICES ASSUME ~e.refused PROVE Started(h)
    OBVIOUS
  <2>2. ~g.abroad /\ ~g.row.evaluates /\ g.column.computes \subseteq {"later"}
    BY <2>1, EndReads
  <2>3. /\ h.place = "verb" /\ h.abroad = g.abroad /\ h.row.evaluates = g.row.evaluates
        /\ h.column.computes = g.column.computes
    BY <1>1
  <2> QED BY <2>2, <2>3 DEF Started
<1>4. \E b \in BOOLEAN : e = [D0 EXCEPT !.refused = b]
  BY DEF Ended
<1> QED BY <1>2, <1>3, <1>4, RefusedReads

(* Between two statements all is as at the start. *)
LEMMA BetweenReads ==
  ASSUME NEW c, NEW g, Reads(c, g), ~c.refused, g.place = "verb"
  PROVE  Started(g)
BY DEF Reads, Settled, Unsettled

(* The initial states satisfy the invariant. *)
LEMMA StatementInvStarts == Init => StatementInv
BY StatementStarts DEF Init, StatementInv

(* Every step preserves it. *)
LEMMA StatementInvStays == StatementInv /\ [Next]_vars => StatementInv'
<1> SUFFICES ASSUME StatementInv, [Next]_vars PROVE StatementInv'
  OBVIOUS
<1>0. Reads(d, heard) /\ (d.cur = NoToken \/ d.cur.kind = "w")
  BY DEF StatementInv
<1>1. CASE TokenArrives
  <2>1. PICK t \in Tokens(heard) :
          /\ t.kind = "w" => d.cur = NoToken
          /\ d' = Take(d, t) /\ heard' = Hear(heard, t) /\ ~d.refused
    BY <1>1 DEF TokenArrives
  <2> QED BY <1>0, <2>1, TakeReads DEF StatementInv
<1>2. CASE SpaceArrives
  <2>1. ~d.refused /\ d.cur # NoToken /\ d' = Space(d) /\ heard' = heard
    BY <1>2 DEF SpaceArrives
  <2> QED BY <1>0, <2>1, SpaceReads DEF StatementInv
<1>3. CASE StatementEnds
  <2>1. /\ ~d.refused /\ heard.place # "verb" /\ d' = Ended(d)
        /\ heard' = [Heard0 EXCEPT !.abroad = heard.abroad, !.row.evaluates = heard.row.evaluates,
                                   !.column.computes = heard.column.computes]
    BY <1>3 DEF StatementEnds, Between
  <2> QED BY <1>0, <2>1, StatementEndsReads DEF StatementInv
<1>4. CASE SetStatement \/ StoredProgram
  <2>1. d' = d /\ heard' = Heard0 /\ ~d.refused /\ heard.place = "verb"
    BY <1>4 DEF SetStatement, StoredProgram, Between
  <2>2. Reads(d, Heard0)
    <3>1. d \in Checks /\ ~d.accepted /\ Unsettled(d, heard) /\ Pending(d) = <<>>
      BY <1>0, <2>1 DEF Reads, Settled, Unsettled
    <3>2. Unsettled(d, Heard0)
      BY <3>1, StatementStarts DEF Unsettled, Reads, D0, Pending
    <3> QED BY <1>0, <3>1, <3>2, StatementStarts DEF Reads
  <2> QED BY <1>0, <2>1, <2>2 DEF StatementInv
<1>5. CASE ProgramRuns
  <2>1. d' = d /\ heard' = heard
    BY <1>5 DEF ProgramRuns
  <2> QED BY <1>0, <2>1 DEF StatementInv
<1>6. CASE UNCHANGED vars
  <2>1. d' = d /\ heard' = heard
    BY <1>6 DEF vars
  <2> QED BY <1>0, <2>1 DEF StatementInv
<1> QED BY <1>1, <1>2, <1>3, <1>4, <1>5, <1>6 DEF Next

(* The check and the server read every statement alike: while it is        *)
(* undecided, once its head is accepted, and at its end.                   *)
THEOREM StatementsRead == Spec => []StatementInv
<1>1. Init => StatementInv
  BY StatementInvStarts
<1>2. StatementInv /\ [Next]_vars => StatementInv'
  BY StatementInvStays
<1> QED BY <1>1, <1>2, PTL DEF Spec

(* Every variable has its type, and no more than maxHeadTokens and one     *)
(* tokens of a head are kept, none of them once it is accepted.            *)
THEOREM TypeCorrect == Spec => []TypeOK
<1>1. StatementInv /\ SessionInv => TypeOK
  BY DEF StatementInv, Reads, SessionInv, Sessions, TypeOK
<1> QED BY <1>1, StatementsRead, SessionTracked, PTL

(* No accepted statement names anything outside the target database.       *)
THEOREM AcceptedNamesStayHome == Spec => []NamesStayHome
<1>1. StatementInv => NamesStayHome
  BY BetweenReads DEF StatementInv, Reads, Settled, Started, NamesStayHome, Between
<1> QED BY <1>1, StatementsRead, PTL

(* The rows of an accepted INSERT, of any length, are literals.            *)
THEOREM AcceptedRowsAreLiteral == Spec => []LiteralRows
<1>1. StatementInv => LiteralRows
  BY BetweenReads DEF StatementInv, Started, LiteralRows, Between
<1> QED BY <1>1, StatementsRead, PTL

(* For the value of a default in an accepted CREATE TABLE, and next to it, *)
(* nothing is computed.                                                    *)
THEOREM AcceptedDefaultsAreLiteral == Spec => []LiteralDefaults
<1>1. StatementInv => LiteralDefaults
  BY BetweenReads DEF StatementInv, Started, LiteralDefaults, Between
<1> QED BY <1>1, StatementsRead, PTL
=============================================================================

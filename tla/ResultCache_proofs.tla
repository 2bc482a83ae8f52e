------------------------- MODULE ResultCache_proofs -------------------------
(***************************************************************************)
(* Proofs about module ResultCache, for any number of runs and any jobs.   *)
(* The inductive invariant adds to the property what makes it stick: a     *)
(* list that is about to store an answer knows everything that is told, or *)
(* is marked as overtaken, and no version is newer than the site's.        *)
(***************************************************************************)
EXTENDS ResultCache, TLAPS

(* Every job is one list or one command, at the places of its own kind.    *)
JobsFit ==
  /\ \A p \in Procs : pc[p] # "idle" => job[p] \in Jobs
  /\ \A p \in Procs : pc[p] \in {"get", "read", "store"} => job[p] \in Queries
  /\ \A p \in Procs : pc[p] \in {"run", "orphan", "invalidate"} => job[p] \in Commands
  /\ \A p \in Procs : pc[p] = "store" => seen[p] \in Nat \cup {Phantom}
  /\ \A p \in Procs : pc[p] = "orphan" => result[p] \in {"lost", "killed", "dropped"}

(* Only a command that runs or ran has made versions, and no dry run; none *)
(* goes beyond the site's.                                                 *)
Versions ==
  /\ \A p \in Procs : \A k \in Content : made[p][k] <= remote[k]
  /\ \A p \in Procs : \A k \in Content :
       made[p][k] # 0 => pc[p] # "idle" /\ job[p] \in Commands /\ "dry-run" \notin flags[p]

(* A list that is about to store misses nothing told, or is overtaken. *)
AnswersKnow ==
  \A l \in Procs :
    pc[l] = "store" /\ seen[l] # Phantom /\ l \notin overtaken =>
      \A m \in Procs :
        made[m][Category(l)] > seen[l] => Untold(m, Category(l))

IInv == TypeOK /\ JobsFit /\ Versions /\ AnswersKnow /\ InvalidationSticks

(* The tables: an entry belongs to a category of content, and every        *)
(* handler but those of update-all and db query invalidates what its       *)
(* command is about.                                                       *)
LEMMA Categorised ==
  /\ \A q \in Queries : CategoryOf[q] \in Content
  /\ \A j \in Commands : Subject[j] \subseteq Content
  /\ \A j \in Commands : j \in {"updateAll", "dbQuery"} \/ Subject[j] \subseteq Invalidates[j]
  /\ Queries \cap Commands = {}
<1>1. \A q \in Queries : CategoryOf[q] \in Content
  BY DEF Queries, CategoryOf, Content, PluginList, ThemeList, UserList, OptionList,
    CoreVersion, CoreCheckUpdate
<1>2. \A j \in Commands : Subject[j] \subseteq Content
  BY DEF Commands, Invalidates, Subject, Content
<1>3. \A j \in Commands : j \in {"updateAll", "dbQuery"} \/ Subject[j] \subseteq Invalidates[j]
  BY DEF Commands, Invalidates, Subject, Content, Categories, PluginCommands,
    PluginAutoUpdates, ThemeCommands, ThemeAutoUpdates, UserRosterCommands,
    UserEditCommands, OptionCommands, OptionPatch, CoreUpdate, DBCommands, DBImport,
    Eval, SearchReplace, Raw, UpdateAll, DBQuery
<1>4. Queries \cap Commands = {}
  BY DEF Queries, CategoryOf, Commands, Invalidates
<1> QED BY <1>1, <1>2, <1>3, <1>4

(* Every step keeps types, jobs and versions. *)
LEMMA BasicsInductive ==
  TypeOK /\ JobsFit /\ Versions /\ [Next]_vars => TypeOK' /\ JobsFit' /\ Versions'
<1> SUFFICES ASSUME TypeOK, JobsFit, Versions, [Next]_vars
             PROVE  TypeOK' /\ JobsFit' /\ Versions'
  OBVIOUS
<1> USE CacheAssumption, Categorised
    DEF TypeOK, JobsFit, Versions, Goto, Flags, Results, Phantom
<1>1. ASSUME NEW p \in Procs, NEW j \in Jobs, Begin(p, j)
      PROVE  TypeOK' /\ JobsFit' /\ Versions'
  BY <1>1 DEF Begin
<1>2. ASSUME NEW p \in Procs, CacheGet(p)
      PROVE  TypeOK' /\ JobsFit' /\ Versions'
  BY <1>2 DEF CacheGet
<1>3. ASSUME NEW p \in Procs, Read(p)
      PROVE  TypeOK' /\ JobsFit' /\ Versions'
  BY <1>3 DEF Read, Category
<1>4. ASSUME NEW p \in Procs, ReadFails(p)
      PROVE  TypeOK' /\ JobsFit' /\ Versions'
  BY <1>4 DEF ReadFails
<1>5. ASSUME NEW p \in Procs, CacheSet(p)
      PROVE  TypeOK' /\ JobsFit' /\ Versions'
  <2>1. /\ pc[p] = "store" /\ job[p] \in Queries /\ seen[p] \in Nat \cup {Phantom}
        /\ pc' = [pc EXCEPT ![p] = "done"] /\ seen' = [seen EXCEPT ![p] = None]
    BY <1>5 DEF CacheSet
  <2>2. entry' \in [Queries -> [answer : Nat \cup {Phantom}, overtaken : BOOLEAN] \cup {None}]
    <3>1. CASE entry' = entry BY <3>1
    <3>2. CASE entry' = [entry EXCEPT ![job[p]] =
                           [answer |-> seen[p], overtaken |-> p \in overtaken]]
      BY <2>1, <3>2
    <3> QED BY <1>5, <3>1, <3>2 DEF CacheSet
  <2>3. TypeOK' BY <1>5, <2>1, <2>2 DEF CacheSet
  <2>4. JobsFit' /\ Versions' BY <1>5, <2>1 DEF CacheSet
  <2> QED BY <2>3, <2>4
<1>6. ASSUME NEW p \in Procs, NEW k \in Content, Change(p, k)
      PROVE  TypeOK' /\ JobsFit' /\ Versions'
  BY <1>6 DEF Change
<1>7. ASSUME NEW p \in Procs, Succeeds(p) \/ Fails(p) \/ IsLost(p) \/ IsKilled(p)
      PROVE  TypeOK' /\ JobsFit' /\ Versions'
  <2>1. CASE Succeeds(p) BY <2>1 DEF Succeeds
  <2>2. CASE Fails(p)
    <3>1. TypeOK' BY <2>2 DEF Fails
    <3>2. JobsFit' /\ Versions' BY <2>2 DEF Fails, IsImport
    <3> QED BY <3>1, <3>2
  <2>3. CASE IsLost(p) BY <2>3 DEF IsLost
  <2>4. CASE IsKilled(p) BY <2>4 DEF IsKilled
  <2> QED BY <1>7, <2>1, <2>2, <2>3, <2>4
<1>8. ASSUME NEW p \in Procs, CacheInvalidate(p)
      PROVE  TypeOK' /\ JobsFit' /\ Versions'
  BY <1>8 DEF CacheInvalidate, Overtakes, Ends
<1>9. ASSUME NEW p \in Procs, InvalidatesNothing(p)
      PROVE  TypeOK' /\ JobsFit' /\ Versions'
  BY <1>9 DEF InvalidatesNothing, Ends
<1>10. ASSUME NEW q \in Queries, Expire(q)
       PROVE  TypeOK' /\ JobsFit' /\ Versions'
  BY <1>10 DEF Expire
<1>11. CASE UNCHANGED vars BY <1>11 DEF vars
<1> QED BY <1>1, <1>2, <1>3, <1>4, <1>5, <1>6, <1>7, <1>8, <1>9, <1>10, <1>11 DEF Next

----------------------------------------------------------------------------
(* What has never been told stays so, but for the commands that the step   *)
(* has invalidate the cache.                                               *)
LEMMA UntoldKept ==
  ASSUME JobsFit, Versions, TypeOK, [Next]_vars,
         NEW m \in Procs, NEW k \in Content, made[m][k] # 0, Untold(m, k),
         ~CacheInvalidate(m)
  PROVE  Untold(m, k)'
<1> USE CacheAssumption, Categorised DEF TypeOK, JobsFit, Versions, Goto, Untold, IsImport
<1>1. ASSUME NEW p \in Procs, NEW j \in Jobs, Begin(p, j) PROVE Untold(m, k)'
  BY <1>1 DEF Begin
<1>2. ASSUME NEW p \in Procs, CacheGet(p) PROVE Untold(m, k)'
  BY <1>2 DEF CacheGet
<1>3. ASSUME NEW p \in Procs, Read(p) PROVE Untold(m, k)'
  BY <1>3 DEF Read
<1>4. ASSUME NEW p \in Procs, ReadFails(p) PROVE Untold(m, k)'
  BY <1>4 DEF ReadFails
<1>5. ASSUME NEW p \in Procs, CacheSet(p) PROVE Untold(m, k)'
  BY <1>5 DEF CacheSet
<1>6. ASSUME NEW p \in Procs, NEW x \in Content, Change(p, x) PROVE Untold(m, k)'
  BY <1>6 DEF Change
<1>7. ASSUME NEW p \in Procs, Succeeds(p) PROVE Untold(m, k)'
  BY <1>7 DEF Succeeds
<1>8. ASSUME NEW p \in Procs, Fails(p) PROVE Untold(m, k)'
  BY <1>8 DEF Fails
<1>9. ASSUME NEW p \in Procs, IsLost(p) PROVE Untold(m, k)'
  BY <1>9 DEF IsLost
<1>10. ASSUME NEW p \in Procs, CacheInvalidate(p) PROVE Untold(m, k)'
  <2>1. p # m BY <1>10
  <2>2. pc'[m] = pc[m] /\ result' = result /\ job' = job /\ late' = late
    BY <1>10, <2>1 DEF CacheInvalidate, Ends
  <2> QED BY <2>1, <2>2
<1>11. ASSUME NEW p \in Procs, InvalidatesNothing(p) PROVE Untold(m, k)'
  BY <1>11 DEF InvalidatesNothing, Ends
<1>12. ASSUME NEW q \in Queries, Expire(q) PROVE Untold(m, k)'
  BY <1>12 DEF Expire
<1>13. ASSUME NEW p \in Procs, IsKilled(p) PROVE Untold(m, k)'
  BY <1>13 DEF IsKilled
<1>14. CASE UNCHANGED vars BY <1>14 DEF vars
<1> QED BY <1>1, <1>2, <1>3, <1>4, <1>5, <1>6, <1>7, <1>8, <1>9, <1>10, <1>11, <1>12,
        <1>13, <1>14 DEF Next

(* A command that invalidates the cache tells it what it is about. *)
LEMMA TellsItsSubject ==
  ASSUME JobsFit, NEW m \in Procs, NEW k \in Content, CacheInvalidate(m),
         ~Untold(m, k)'
  PROVE  k \in Invalidates[job[m]]
<1>1. pc[m] = "invalidate" /\ job[m] \in Commands /\ job' = job
  BY DEF CacheInvalidate, JobsFit
<1>2. k \in Subject[job[m]] /\ job[m] \notin {"updateAll", "dbQuery"}
  BY <1>1 DEF Untold
<1> QED BY <1>1, <1>2, Categorised

(* A change is made before its run is over, or after it and is late, or by *)
(* a command that need not tell.                                           *)
LEMMA ChangeIsUntold ==
  ASSUME TypeOK, JobsFit, NEW m \in Procs, NEW k \in Content, Change(m, k)
  PROVE  Untold(m, k)'
<1>1. pc' = pc /\ result' = result /\ job' = job
  BY DEF Change
<1>2. CASE pc[m] \in {"run", "invalidate"}
  BY <1>1, <1>2 DEF Untold
<1>3. CASE pc[m] = "orphan" /\ result[m] = "lost" /\ IsImport(m)
  <2>1. late' = [late EXCEPT ![m] = @ \cup {k}]
    BY <1>3 DEF Change
  <2>2. k \in late'[m]
    BY <2>1 DEF TypeOK
  <2> QED BY <2>2 DEF Untold
<1>4. CASE pc[m] = "orphan" /\ ~(result[m] = "lost" /\ IsImport(m))
  BY <1>1, <1>4 DEF JobsFit, Untold, IsImport
<1> QED BY <1>2, <1>3, <1>4 DEF Change

(* Only a change makes a version. *)
LEMMA MadeByChange ==
  ASSUME [Next]_vars, made' # made
  PROVE  \E p \in Procs, x \in Content : Change(p, x)
BY DEF Next, vars, Begin, CacheGet, Read, ReadFails, CacheSet, Succeeds, Fails, IsLost,
  IsKilled, CacheInvalidate, InvalidatesNothing, Expire

(* A list that has an answer to store has just read it, or had it before.  *)
LEMMA StoringBefore ==
  ASSUME TypeOK, [Next]_vars, NEW l \in Procs, pc'[l] = "store", l \notin overtaken'
  PROVE  \/ Read(l)
         \/ /\ pc[l] = "store" /\ seen'[l] = seen[l] /\ job'[l] = job[l]
            /\ l \notin overtaken
<1> USE DEF TypeOK, Goto
<1> DEFINE Same == /\ pc[l] = "store" /\ seen'[l] = seen[l] /\ job'[l] = job[l]
                   /\ l \notin overtaken
<1>1. ASSUME NEW p \in Procs, NEW j \in Jobs, Begin(p, j) PROVE Same
  BY <1>1 DEF Begin
<1>2. ASSUME NEW p \in Procs, CacheGet(p) PROVE Same BY <1>2 DEF CacheGet
<1>3. ASSUME NEW p \in Procs, Read(p) PROVE Read(l) \/ Same
  <2>1. CASE p = l BY <1>3, <2>1
  <2>2. CASE p # l BY <1>3, <2>2 DEF Read
  <2> QED BY <2>1, <2>2
<1>4. ASSUME NEW p \in Procs, ReadFails(p) PROVE Same BY <1>4 DEF ReadFails
<1>5. ASSUME NEW p \in Procs, CacheSet(p) PROVE Same BY <1>5 DEF CacheSet
<1>6. ASSUME NEW p \in Procs, NEW k \in Content, Change(p, k) PROVE Same
  BY <1>6 DEF Change
<1>7. ASSUME NEW p \in Procs, Succeeds(p) PROVE Same BY <1>7 DEF Succeeds
<1>8. ASSUME NEW p \in Procs, Fails(p) PROVE Same BY <1>8 DEF Fails
<1>9. ASSUME NEW p \in Procs, IsLost(p) PROVE Same BY <1>9 DEF IsLost
<1>10. ASSUME NEW p \in Procs, CacheInvalidate(p) PROVE Same
  BY <1>10 DEF CacheInvalidate, Ends
<1>11. ASSUME NEW p \in Procs, InvalidatesNothing(p) PROVE Same
  BY <1>11 DEF InvalidatesNothing, Ends
<1>12. ASSUME NEW q \in Queries, Expire(q) PROVE Same BY <1>12 DEF Expire
<1>13. ASSUME NEW p \in Procs, IsKilled(p) PROVE Same BY <1>13 DEF IsKilled
<1>14. ASSUME UNCHANGED vars PROVE Same BY <1>14 DEF vars
<1> HIDE DEF Same
<1>15. Read(l) \/ Same
  BY <1>1, <1>2, <1>3, <1>4, <1>5, <1>6, <1>7, <1>8, <1>9, <1>10, <1>11, <1>12, <1>13,
     <1>14 DEF Next
<1> QED BY <1>15 DEF Same

(* A row there is has just been stored by a list, or was there before. *)
LEMMA EntriesBefore ==
  ASSUME TypeOK, [Next]_vars, NEW q \in Queries, entry'[q] # None
  PROVE  \/ \E l \in Procs :
              /\ CacheSet(l) /\ job[l] = q
              /\ entry'[q] = [answer |-> seen[l], overtaken |-> l \in overtaken]
         \/ entry'[q] = entry[q]
<1> USE DEF TypeOK
<1>1. ASSUME NEW l \in Procs, CacheSet(l), entry'[q] # entry[q]
      PROVE  /\ job[l] = q
             /\ entry'[q] = [answer |-> seen[l], overtaken |-> l \in overtaken]
  BY <1>1 DEF CacheSet
<1>2. ASSUME NEW p \in Procs, CacheInvalidate(p) PROVE entry'[q] = entry[q]
  BY <1>2 DEF CacheInvalidate
<1>3. ASSUME NEW r \in Queries, Expire(r) PROVE entry'[q] = entry[q]
  BY <1>3 DEF Expire
<1>4. \/ entry' = entry \/ \E l \in Procs : CacheSet(l) \/ CacheInvalidate(l)
      \/ \E r \in Queries : Expire(r)
  BY DEF Next, vars, Begin, CacheGet, Read, ReadFails, Change, Succeeds, Fails, IsLost,
    IsKilled, InvalidatesNothing
<1> QED BY <1>1, <1>2, <1>3, <1>4

(* Answers on their way into the cache miss nothing, or are overtaken. *)
LEMMA AnswersInductive ==
  TypeOK /\ JobsFit /\ Versions /\ AnswersKnow /\ [Next]_vars => AnswersKnow'
<1> SUFFICES ASSUME TypeOK, JobsFit, Versions, AnswersKnow, [Next]_vars,
                    NEW l \in Procs, NEW m \in Procs,
                    (pc[l] = "store" /\ seen[l] # Phantom /\ l \notin overtaken)',
                    (made[m][Category(l)] > seen[l])'
             PROVE  Untold(m, Category(l))'
  BY DEF AnswersKnow
<1> DEFINE k == Category(l)'
<1>1. TypeOK' /\ JobsFit' /\ Versions' BY BasicsInductive
<1>2. job'[l] \in Queries /\ k \in Content /\ seen'[l] \in Nat
  BY <1>1, Categorised DEF JobsFit, Category
<1>3. made'[m][k] \in Nat /\ made'[m][k] # 0 /\ made'[m][k] <= remote'[k]
  BY <1>1, <1>2 DEF TypeOK, Versions
<1>4. CASE \E p \in Procs : Read(p) /\ p = l
  <2>1. seen'[l] = remote[Category(l)] /\ job' = job /\ remote' = remote
    BY <1>4, <1>2 DEF Read, TypeOK, Phantom
  <2> QED BY <2>1, <1>2, <1>3 DEF Category
<1>5. CASE pc[l] = "store" /\ seen'[l] = seen[l] /\ job'[l] = job[l] /\ l \notin overtaken
  <2>1. k = Category(l) BY <1>5 DEF Category
  <2>2. CASE made'[m][k] = made[m][k]
    <3>1. Untold(m, k) BY <1>5, <1>2, <2>1, <2>2 DEF AnswersKnow
    <3>2. CASE CacheInvalidate(m)
      <4>1. l \in Overtakes(m) \/ k \notin Invalidates[job[m]]
        BY <1>5, <2>1 DEF Overtakes
      <4>2. overtaken' = overtaken \cup Overtakes(m) BY <3>2 DEF CacheInvalidate
      <4>3. k \notin Invalidates[job[m]] BY <4>1, <4>2
      <4> QED BY <3>2, <4>3, <1>2, TellsItsSubject
    <3>3. CASE ~CacheInvalidate(m)
      BY <3>1, <3>3, <1>2, <1>3, <2>2, UntoldKept
    <3> QED BY <3>2, <3>3
  <2>3. CASE made'[m][k] # made[m][k]
    <3>1. PICK p \in Procs, x \in Content : Change(p, x) BY <2>3, MadeByChange
    <3>2. p = m /\ x = k BY <2>3, <3>1, <1>2 DEF Change, TypeOK
    <3> QED BY <1>1, <3>1, <3>2, ChangeIsUntold
  <2> QED BY <2>2, <2>3
<1> QED BY <1>4, <1>5, StoringBefore

(* The cache misses nothing it has been told, but for overtaken answers. *)
LEMMA SticksInductive ==
  TypeOK /\ JobsFit /\ Versions /\ AnswersKnow /\ InvalidationSticks /\ [Next]_vars
    => InvalidationSticks'
<1> SUFFICES ASSUME TypeOK, JobsFit, Versions, AnswersKnow, InvalidationSticks, [Next]_vars,
                    NEW q \in Queries, NEW m \in Procs,
                    entry'[q] # None, entry'[q].answer # Phantom, ~entry'[q].overtaken,
                    made'[m][CategoryOf[q]] > entry'[q].answer
             PROVE  Untold(m, CategoryOf[q])'
  BY DEF InvalidationSticks
<1> DEFINE k == CategoryOf[q]
<1>1. TypeOK' /\ JobsFit' /\ Versions' BY BasicsInductive
<1>2. k \in Content BY Categorised
<1>3. entry'[q].answer \in Nat /\ made'[m][k] \in Nat /\ made'[m][k] # 0
  BY <1>1, <1>2 DEF TypeOK, Phantom
<1>4. CASE \E l \in Procs : /\ CacheSet(l) /\ job[l] = q
                           /\ entry'[q] = [answer |-> seen[l], overtaken |-> l \in overtaken]
  <2>1. PICK l \in Procs : /\ CacheSet(l) /\ job[l] = q
                           /\ entry'[q] = [answer |-> seen[l], overtaken |-> l \in overtaken]
    BY <1>4
  <2>2. made' = made /\ pc[l] = "store" /\ Category(l) = k BY <2>1 DEF CacheSet, Category
  <2>3. seen[l] # Phantom /\ made[m][k] > seen[l]
    BY <2>1, <2>2
  <2>4. l \notin overtaken
    <3>1. entry'[q].overtaken = (l \in overtaken) BY <2>1
    <3> QED BY <3>1
  <2>5. Untold(m, k) BY <2>2, <2>3, <2>4 DEF AnswersKnow
  <2>6. ~CacheInvalidate(m)
    <3>1. pc[l] = "store" /\ pc' = [pc EXCEPT ![l] = "done"]
      BY <2>1 DEF CacheSet, Goto
    <3>2. pc[m] = "invalidate" => pc'[m] = "invalidate"
      BY <3>1 DEF TypeOK
    <3>3. CacheInvalidate(m) => pc[m] = "invalidate" /\ pc'[m] # "invalidate"
      BY DEF CacheInvalidate, Ends, Goto, TypeOK
    <3> QED BY <3>2, <3>3
  <2> QED BY <2>2, <2>5, <2>6, <1>2, <1>3, UntoldKept
<1>5. CASE entry'[q] = entry[q]
  <2>1. CASE made'[m][k] = made[m][k]
    <3>1. Untold(m, k) BY <1>5, <2>1 DEF InvalidationSticks
    <3>2. CASE CacheInvalidate(m)
      <4>1. k \notin Invalidates[job[m]]
        BY <1>5, <3>2 DEF CacheInvalidate, Drops
      <4> QED BY <3>2, <4>1, <1>2, TellsItsSubject
    <3>3. CASE ~CacheInvalidate(m)
      BY <3>1, <3>3, <1>2, <1>3, <2>1, UntoldKept
    <3> QED BY <3>2, <3>3
  <2>2. CASE made'[m][k] # made[m][k]
    <3>1. PICK p \in Procs, x \in Content : Change(p, x) BY <2>2, MadeByChange
    <3>2. p = m /\ x = k BY <2>2, <3>1, <1>2 DEF Change, TypeOK
    <3> QED BY <1>1, <3>1, <3>2, ChangeIsUntold
  <2> QED BY <2>1, <2>2
<1> QED BY <1>4, <1>5, EntriesBefore

----------------------------------------------------------------------------
(* Initially, all is empty. *)
LEMMA InitIInv == Init => IInv
BY CacheAssumption
   DEF Init, IInv, TypeOK, JobsFit, Versions, AnswersKnow, InvalidationSticks, Flags,
       Results, Queries, Content

(* Every step keeps the inductive invariant. *)
LEMMA NextIInv == IInv /\ [Next]_vars => IInv'
BY BasicsInductive, AnswersInductive, SticksInductive DEF IInv

(* The inductive invariant holds, for any runs of wpgo and any jobs.       *)
THEOREM Invariance == Spec => []IInv
<1> QED BY InitIInv, NextIInv, PTL DEF Spec

(* Types hold: what a list stores is always an answer or an empty result.  *)
THEOREM TypeCorrect == Spec => []TypeOK
<1>1. IInv => TypeOK BY DEF IInv
<1> QED BY <1>1, Invariance, PTL

(* What a command has done and told the cache, no later hit will hide,     *)
(* unless the answer was on its way into the cache at that moment.         *)
THEOREM InvalidationAlwaysSticks == Spec => []InvalidationSticks
<1>1. IInv => InvalidationSticks BY DEF IInv
<1> QED BY <1>1, Invariance, PTL
=============================================================================

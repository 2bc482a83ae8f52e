----------------------- MODULE BatchExecutor_proofs -----------------------
(***************************************************************************)
(* Proofs about BatchExecutor, for every batch, every grouping of its      *)
(* sites by host and every Options.Concurrency: one result per site, the   *)
(* limit on commands in flight, the progress count, and that Execute       *)
(* implements BatchContract.                                               *)
(***************************************************************************)
EXTENDS BatchExecutor, FiniteSetTheorems, TLAPS

(* The hosts whose goroutine holds a slot. *)
Holding == {h \in Hosts : gpc[h] \in {"loop", "run"}}

(* Sites that have been taken up. *)
Taken == Recorded \cup running

Typed ==
  /\ opts \in Options
  /\ phase \in {"gate", "sequential", "parallel", "returned"}
  /\ gpc \in [Hosts -> {"none", "wait", "loop", "run", "done"}]
  /\ sem \in Nat
  /\ running \subseteq Sites
  /\ results \in Seq([site : Sites, status : Statuses])
  /\ completed \in Nat
  /\ ctxDone \in BOOLEAN

(* A site has one result, and none while its command runs. *)
OnePerSite ==
  /\ \A m, n \in DOMAIN results : results[m].site = results[n].site => m = n
  /\ running \cap Recorded = {}

(* The sites of a host are taken up in order, one after the other. *)
InTurn ==
  \A i \in Taken : \A j \in Group(HostOf[i]) : j < i => j \in Recorded

(* Before the first command nothing is recorded. *)
Gate ==
  phase = "gate" =>
    /\ results = <<>> /\ running = {} /\ sem = 0 /\ completed = 0
    /\ \A h \in Hosts : gpc[h] = "none"

(* executeSequential has recorded a prefix of the batch. *)
Sequential ==
  phase = "sequential" =>
    /\ Concurrency = 1
    /\ Len(results) <= N
    /\ \A n \in DOMAIN results : results[n].site = n
    /\ running \subseteq {Len(results) + 1}

(* What each goroutine has done, and how many hold a slot. *)
Parallel ==
  phase = "parallel" =>
    /\ \A h \in Hosts : gpc[h] = "none" => Group(h) = {}
    /\ \A h \in Hosts : gpc[h] = "done" => Group(h) \subseteq Recorded
    /\ \A h \in Hosts : gpc[h] # "run" => running \cap Group(h) = {}
    /\ \A i, j \in running : HostOf[i] = HostOf[j] => i = j
    /\ IsFiniteSet(Holding)
    /\ sem = Cardinality(Holding)
    /\ sem <= Concurrency
    /\ completed = Cardinality(Taken)

(* Goroutines are on their way only in executeParallel. *)
OnlyParallel ==
  \A h \in Hosts : gpc[h] \in {"wait", "loop", "run"} => phase = "parallel"

(* Commands run only once the gate has let them through. *)
Allowed ==
  phase \in {"sequential", "parallel"} => Consent /\ ~opts.dryRun

Returned ==
  phase = "returned" => running = {} /\ Recorded = Sites

(* The inductive invariant. *)
IInv ==
  /\ Typed
  /\ OnePerSite
  /\ InTurn
  /\ Gate
  /\ Sequential
  /\ Parallel
  /\ OnlyParallel
  /\ Allowed
  /\ Returned
  /\ completed <= N
----------------------------------------------------------------------------
(* Sites and their groups. *)
LEMMA GroupOf == \A i \in Sites : i \in Group(HostOf[i]) /\ HostOf[i] \in Hosts
  BY BatchAssumption DEF Sites, Group

(* Results are those of sites of the batch. *)
LEMMA RecordedSites ==
  Typed => /\ \A n \in DOMAIN results : results[n].site \in Sites /\ results[n].status \in Statuses
           /\ Recorded \subseteq Sites
<1> SUFFICES ASSUME Typed PROVE
      /\ \A n \in DOMAIN results : results[n].site \in Sites /\ results[n].status \in Statuses
      /\ Recorded \subseteq Sites
  OBVIOUS
<1>1. ASSUME NEW n \in DOMAIN results
      PROVE  results[n].site \in Sites /\ results[n].status \in Statuses
  <2> DEFINE R == [site : Sites, status : Statuses]
  <2>1. results \in Seq(R) BY DEF Typed
  <2>2. results[n] \in R
    <3> HIDE DEF R
    <3> QED BY <2>1
  <2> QED BY <2>2
<1> QED BY <1>1 DEF Recorded

(* Sets of sites are finite, and no larger than the batch. *)
LEMMA SitesFinite ==
  ASSUME NEW S \in SUBSET Sites
  PROVE  IsFiniteSet(S) /\ Cardinality(S) \in Nat /\ Cardinality(S) <= N
<1>1. IsFiniteSet(Sites) /\ Cardinality(Sites) = N
  BY BatchAssumption, FS_Interval DEF Sites
<1> QED BY <1>1, FS_Subset, FS_CardinalityType

(* The limit is one at least. *)
LEMMA ConcurrencyPositive == Typed => Concurrency \in Int /\ Concurrency >= 1
<1> SUFFICES ASSUME Typed PROVE Concurrency \in Int /\ Concurrency >= 1 OBVIOUS
<1>1. opts \in Options BY DEF Typed
<1>2. opts.concurrency \in Int BY <1>1, BatchAssumption DEF Options
<1> QED BY <1>2 DEF Concurrency

(* The gate lets a batch pass exactly when there is the consent that the   *)
(* comment of CheckBatchSafety asks for.                                   *)
LEMMA GateIsConsent == Typed => (CheckBatchSafety(opts) <=> Consent)
  BY DEF Typed, Options, Tiers, CheckBatchSafety, Consent

(* What recording a result does to the set of recorded sites. *)
LEMMA Recording ==
  ASSUME Typed, OnePerSite, NEW i \in Sites \ Recorded, NEW s \in Statuses, Record(i, s)
  PROVE  /\ results' \in Seq([site : Sites, status : Statuses])
         /\ Len(results') = Len(results) + 1
         /\ results'[Len(results')] = [site |-> i, status |-> s]
         /\ \A n \in DOMAIN results : n \in DOMAIN results' /\ results'[n] = results[n]
         /\ \A n \in DOMAIN results' : n \in DOMAIN results \/ n = Len(results')
         /\ Recorded' = Recorded \cup {i}
         /\ \A m, n \in DOMAIN results' :
              results'[m].site = results'[n].site => m = n
<1>1. /\ results \in Seq([site : Sites, status : Statuses])
      /\ results' = Append(results, [site |-> i, status |-> s])
      /\ [site |-> i, status |-> s] \in [site : Sites, status : Statuses]
  BY DEF Typed, Record
<1>2. /\ results' \in Seq([site : Sites, status : Statuses])
      /\ Len(results') = Len(results) + 1
      /\ results'[Len(results')] = [site |-> i, status |-> s]
      /\ DOMAIN results = 1 .. Len(results)
      /\ DOMAIN results' = 1 .. Len(results) + 1
      /\ Len(results) \in Nat
      /\ \A n \in 1 .. Len(results) : results'[n] = results[n]
  BY <1>1
<1>3. /\ \A n \in DOMAIN results : n \in DOMAIN results' /\ results'[n] = results[n]
      /\ \A n \in DOMAIN results' : n \in DOMAIN results \/ n = Len(results')
      /\ Len(results') \in DOMAIN results'
  BY <1>2
<1>4. Recorded' = Recorded \cup {i}
  <2>1. ASSUME NEW x \in Recorded' PROVE x \in Recorded \cup {i}
    <3>1. PICK n \in DOMAIN results' : x = results'[n].site BY <2>1 DEF Recorded
    <3>2. CASE n \in DOMAIN results BY <3>1, <3>2, <1>3 DEF Recorded
    <3>3. CASE n = Len(results') BY <3>1, <3>3, <1>2
    <3> QED BY <3>1, <3>2, <3>3, <1>3
  <2>2. ASSUME NEW x \in Recorded PROVE x \in Recorded'
    <3>1. PICK n \in DOMAIN results : x = results[n].site BY <2>2 DEF Recorded
    <3> QED BY <3>1, <1>3 DEF Recorded
  <2>3. i \in Recorded'
    <3>1. results'[Len(results')].site = i BY <1>2
    <3> QED BY <3>1, <1>3 DEF Recorded
  <2> QED BY <2>1, <2>2, <2>3
<1>5. ASSUME NEW m \in DOMAIN results', NEW n \in DOMAIN results',
             results'[m].site = results'[n].site
      PROVE  m = n
  <2>1. \A k \in DOMAIN results : results'[k].site # i
    BY <1>3 DEF Recorded
  <2>2. results'[Len(results')].site = i BY <1>2
  <2> QED BY <2>1, <2>2, <1>3, <1>5 DEF OnePerSite
<1> QED BY <1>2, <1>3, <1>4, <1>5
----------------------------------------------------------------------------
(* Execute starts with nothing recorded. *)
LEMMA InitIInv == Init => IInv
<1> SUFFICES ASSUME Init PROVE IInv OBVIOUS
<1>1. Recorded = {} /\ Taken = {} BY DEF Init, Recorded, Taken
<1>2. Typed
  <2>1. <<>> \in Seq([site : Sites, status : Statuses]) OBVIOUS
  <2> QED BY <2>1 DEF Init, Typed
<1> QED BY <1>1, <1>2, BatchAssumption
    DEF Init, IInv, OnePerSite, InTurn, Gate, Sequential, Parallel, OnlyParallel,
        Allowed, Returned

(* A refused batch, and a dry run, has a result for every site. *)
LEMMA SkipBatchIInv == IInv /\ SkipBatch => IInv'
<1> SUFFICES ASSUME IInv, SkipBatch PROVE IInv' OBVIOUS
<1> USE BatchAssumption DEF IInv, Statuses
<1>1. /\ phase = "gate" /\ phase' = "returned" /\ running = {}
      /\ results' = [i \in 1 .. N |-> [site |-> i, status |-> "skipped"]]
      /\ UNCHANGED <<opts, gpc, sem, running, completed, ctxDone>>
  BY DEF SkipBatch, Gate, Sites
<1>2. /\ results' \in Seq([site : Sites, status : Statuses])
      /\ DOMAIN results' = Sites
      /\ \A i \in Sites : results'[i].site = i
  BY <1>1 DEF Sites
<1>3. Recorded' = Sites BY <1>2 DEF Recorded
<1>4. Typed' BY <1>1, <1>2 DEF Typed
<1>5. OnePerSite' BY <1>1, <1>2 DEF OnePerSite
<1>6. InTurn' BY <1>3 DEF InTurn, Group
<1> QED BY <1>1, <1>3, <1>4, <1>5, <1>6
    DEF Gate, Sequential, Parallel, OnlyParallel, Allowed, Returned

(* The commands start with nothing taken up. *)
LEMMA BeginIInv == IInv /\ Begin => IInv'
<1> SUFFICES ASSUME IInv, Begin PROVE IInv' OBVIOUS
<1> USE BatchAssumption, ConcurrencyPositive DEF IInv
<1>1. /\ results = <<>> /\ running = {} /\ sem = 0 /\ completed = 0
      /\ \A h \in Hosts : gpc[h] = "none"
      /\ UNCHANGED <<opts, sem, running, results, completed, ctxDone>>
  BY DEF Begin, Gate
<1>2. Recorded = {} /\ Recorded' = {} /\ Taken' = {} BY <1>1 DEF Recorded, Taken
<1>3. Concurrency' = Concurrency BY <1>1 DEF Concurrency
<1>4. Typed' BY <1>1 DEF Begin, Typed
<1>5. OnePerSite' /\ InTurn' BY <1>1, <1>2 DEF OnePerSite, InTurn
<1>6. Allowed'
  BY <1>1, GateIsConsent DEF Begin, Allowed, Consent
<1>7. Sequential' BY <1>1, <1>3 DEF Begin, Sequential
<1>8. Parallel'
  <2> SUFFICES ASSUME phase' = "parallel" PROVE Parallel' BY DEF Parallel
  <2>1. gpc' = [h \in Hosts |-> IF Group(h) = {} THEN "none" ELSE "wait"]
    BY DEF Begin
  <2>2. Holding' = {} BY <2>1 DEF Holding
  <2> QED BY <1>1, <1>2, <1>3, <2>1, <2>2, FS_EmptySet DEF Parallel
<1>9. OnlyParallel' BY <1>1 DEF Begin, OnlyParallel
<1> QED BY <1>1, <1>4, <1>5, <1>6, <1>7, <1>8, <1>9 DEF Begin, Gate, Returned

(* executeSequential takes up the site after those it has recorded. *)
LEMMA RunInOrderIInv == IInv /\ RunInOrder => IInv'
<1> SUFFICES ASSUME IInv, RunInOrder PROVE IInv' OBVIOUS
<1> USE BatchAssumption DEF IInv
<1> DEFINE i == Len(results) + 1
<1>1. /\ phase = "sequential" /\ running = {} /\ Len(results) \in Nat /\ Len(results) < N
      /\ DOMAIN results = 1 .. Len(results)
      /\ \A n \in DOMAIN results : results[n].site = n
      /\ UNCHANGED <<opts, phase, gpc, sem, completed, ctxDone>>
  BY DEF RunInOrder, Sequential, Typed
<1>2. Recorded = 1 .. Len(results) BY <1>1 DEF Recorded
<1>3. i \in Sites /\ i \notin Recorded BY <1>1, <1>2 DEF Sites
<1>4. Concurrency' = Concurrency BY <1>1 DEF Concurrency
<1>5. Allowed' /\ Gate' /\ Parallel' /\ OnlyParallel' /\ Returned'
  BY <1>1 DEF Allowed, Consent, Gate, Parallel, OnlyParallel, Returned
<1>6. CASE ctxDone
  <2>1. Record(i, "skipped") /\ running' = running /\ "skipped" \in Statuses
    BY <1>6 DEF RunInOrder, Statuses
  <2> HIDE DEF i
  <2>2. /\ results' \in Seq([site : Sites, status : Statuses])
        /\ Len(results') = Len(results) + 1
        /\ results'[Len(results')] = [site |-> i, status |-> "skipped"]
        /\ \A n \in DOMAIN results : n \in DOMAIN results' /\ results'[n] = results[n]
        /\ \A n \in DOMAIN results' : n \in DOMAIN results \/ n = Len(results')
        /\ Recorded' = Recorded \cup {i}
        /\ \A m, n \in DOMAIN results' : results'[m].site = results'[n].site => m = n
    BY <2>1, <1>3, Recording
  <2> USE DEF i
  <2>3. Typed' BY <1>1, <2>1, <2>2 DEF Typed
  <2>4. OnePerSite' BY <1>1, <2>1, <2>2 DEF OnePerSite
  <2>5. InTurn' BY <1>1, <1>2, <2>1, <2>2 DEF InTurn, Taken, Group, Sites
  <2>6. Sequential' BY <1>1, <1>4, <2>1, <2>2 DEF Sequential
  <2> QED BY <1>1, <1>5, <2>3, <2>4, <2>5, <2>6
<1>7. CASE ~ctxDone
  <2>1. running' = {i} /\ results' = results BY <1>7 DEF RunInOrder
  <2>2. Recorded' = Recorded BY <2>1 DEF Recorded
  <2>3. Typed' BY <1>1, <1>3, <2>1 DEF Typed
  <2>4. OnePerSite' BY <1>3, <2>1, <2>2 DEF OnePerSite
  <2>5. InTurn' BY <1>1, <1>2, <2>1, <2>2 DEF InTurn, Taken, Group, Sites
  <2>6. Sequential' BY <1>1, <1>4, <2>1 DEF Sequential
  <2> QED BY <1>1, <1>5, <2>3, <2>4, <2>5, <2>6
<1> QED BY <1>6, <1>7

(* ... and records how its command ended. *)
LEMMA EndInOrderIInv == IInv /\ EndInOrder => IInv'
<1> SUFFICES ASSUME IInv, EndInOrder PROVE IInv' OBVIOUS
<1> USE BatchAssumption DEF IInv
<1>1. PICK i \in running, s \in {"ok", "failed"} : Record(i, s) BY DEF EndInOrder
<1>2. /\ phase = "sequential" /\ i = Len(results) + 1 /\ i \in Sites
      /\ running' = {} /\ Len(results) \in Nat
      /\ DOMAIN results = 1 .. Len(results)
      /\ \A n \in DOMAIN results : results[n].site = n
      /\ UNCHANGED <<opts, phase, gpc, sem, completed, ctxDone>>
  BY <1>1 DEF EndInOrder, Sequential, Typed
<1>3. Recorded = 1 .. Len(results) BY <1>2 DEF Recorded
<1>4. i \in Sites \ Recorded /\ s \in Statuses BY <1>2, <1>3 DEF Statuses
<1>5. /\ results' \in Seq([site : Sites, status : Statuses])
      /\ Len(results') = Len(results) + 1
      /\ results'[Len(results')] = [site |-> i, status |-> s]
      /\ \A n \in DOMAIN results : n \in DOMAIN results' /\ results'[n] = results[n]
      /\ \A n \in DOMAIN results' : n \in DOMAIN results \/ n = Len(results')
      /\ Recorded' = Recorded \cup {i}
      /\ \A m, n \in DOMAIN results' : results'[m].site = results'[n].site => m = n
  BY <1>1, <1>4, Recording
<1>6. Concurrency' = Concurrency BY <1>2 DEF Concurrency
<1>7. Allowed' /\ Gate' /\ Parallel' /\ OnlyParallel' /\ Returned'
  BY <1>2 DEF Allowed, Consent, Gate, Parallel, OnlyParallel, Returned
<1>8. Typed' BY <1>2, <1>5 DEF Typed
<1>9. OnePerSite' BY <1>2, <1>5 DEF OnePerSite
<1>10. InTurn' BY <1>2, <1>3, <1>5 DEF InTurn, Taken, Group, Sites
<1>11. Sequential' BY <1>2, <1>5, <1>6 DEF Sequential, Sites
<1> QED BY <1>2, <1>7, <1>8, <1>9, <1>10, <1>11

(* A goroutine takes a slot only while one is free. *)
LEMMA TakeSlotIInv ==
  ASSUME IInv, NEW h \in Hosts, TakeSlot(h) PROVE IInv'
<1> USE BatchAssumption DEF IInv
<1>1. /\ gpc[h] = "wait" /\ phase = "parallel" /\ sem < Concurrency
      /\ sem' = sem + 1 /\ gpc' = [gpc EXCEPT ![h] = "loop"]
      /\ UNCHANGED <<opts, phase, running, results, completed, ctxDone>>
  BY DEF TakeSlot, OnlyParallel
<1>2. Recorded' = Recorded /\ Taken' = Taken /\ Concurrency' = Concurrency
  BY <1>1 DEF Recorded, Taken, Concurrency
<1>3. Holding' = Holding \cup {h} /\ h \notin Holding
  BY <1>1 DEF Holding, Typed
<1>4. IsFiniteSet(Holding') /\ sem' = Cardinality(Holding')
  BY <1>1, <1>3, FS_AddElement, FS_CardinalityType DEF Parallel
<1>5. Typed' BY <1>1 DEF Typed
<1>6. OnePerSite' /\ InTurn' BY <1>1, <1>2 DEF OnePerSite, InTurn
<1>7. sem' <= Concurrency BY <1>1, ConcurrencyPositive DEF Typed
<1>8. Parallel' BY <1>1, <1>2, <1>4, <1>7 DEF Parallel, Typed
<1> QED BY <1>1, <1>5, <1>6, <1>8
    DEF Gate, Sequential, OnlyParallel, Allowed, Consent, Returned, Typed

(* A site skipped in its turn is recorded and counted. *)
LEMMA SkipInGroupIInv ==
  ASSUME IInv, NEW h \in Hosts, SkipInGroup(h) PROVE IInv'
<1> USE BatchAssumption DEF IInv
<1>1. PICK i \in Group(h) : IsNext(i) /\ Record(i, "skipped") BY DEF SkipInGroup
<1>2. /\ gpc[h] = "loop" /\ phase = "parallel" /\ completed' = completed + 1
      /\ UNCHANGED <<opts, phase, gpc, sem, running, ctxDone>>
  BY DEF SkipInGroup, OnlyParallel
<1>3. i \in Sites /\ HostOf[i] = h /\ i \notin Recorded /\ "skipped" \in Statuses
  BY <1>1 DEF IsNext, Group, Statuses
<1>4. /\ results' \in Seq([site : Sites, status : Statuses])
      /\ Recorded' = Recorded \cup {i}
      /\ \A m, n \in DOMAIN results' : results'[m].site = results'[n].site => m = n
  BY <1>1, <1>3, Recording
<1>5. i \notin running BY <1>1, <1>2 DEF Parallel
<1>6. Taken' = Taken \cup {i} /\ i \notin Taken BY <1>2, <1>3, <1>4, <1>5 DEF Taken
<1>7. Taken' \subseteq Sites /\ Taken \subseteq Sites
  BY <1>3, <1>6, RecordedSites DEF Taken, Typed
<1>8. completed' = Cardinality(Taken')
  BY <1>2, <1>6, <1>7, SitesFinite, FS_AddElement DEF Parallel
<1>9. completed' <= N /\ completed' \in Nat BY <1>7, <1>8, SitesFinite
<1>10. Typed' BY <1>2, <1>4, <1>9 DEF Typed
<1>11. OnePerSite' BY <1>2, <1>4, <1>5 DEF OnePerSite
<1>12. InTurn' BY <1>1, <1>3, <1>4, <1>6 DEF InTurn, IsNext
<1>13. Holding' = Holding /\ Concurrency' = Concurrency
  BY <1>2 DEF Holding, Concurrency
<1>14. Parallel' BY <1>2, <1>4, <1>8, <1>13 DEF Parallel
<1> QED BY <1>2, <1>9, <1>10, <1>11, <1>12, <1>14
    DEF Gate, Sequential, OnlyParallel, Allowed, Consent, Returned

(* A command started in its turn is counted. *)
LEMMA RunInGroupIInv ==
  ASSUME IInv, NEW h \in Hosts, RunInGroup(h) PROVE IInv'
<1> USE BatchAssumption DEF IInv
<1>1. PICK i \in Group(h) : IsNext(i) /\ running' = running \cup {i} BY DEF RunInGroup
<1>2. /\ gpc[h] = "loop" /\ phase = "parallel" /\ completed' = completed + 1
      /\ gpc' = [gpc EXCEPT ![h] = "run"]
      /\ UNCHANGED <<opts, phase, sem, results, ctxDone>>
  BY DEF RunInGroup, OnlyParallel
<1>3. i \in Sites /\ HostOf[i] = h /\ i \notin Recorded BY <1>1 DEF IsNext, Group
<1>4. Recorded' = Recorded BY <1>2 DEF Recorded
<1>5. running \cap Group(h) = {} BY <1>2 DEF Parallel
<1>6. Taken' = Taken \cup {i} /\ i \notin Taken BY <1>1, <1>3, <1>4, <1>5 DEF Taken
<1>7. Taken' \subseteq Sites /\ Taken \subseteq Sites
  BY <1>3, <1>6, RecordedSites DEF Taken, Typed
<1>8. completed' = Cardinality(Taken')
  BY <1>2, <1>6, <1>7, SitesFinite, FS_AddElement DEF Parallel
<1>9. completed' <= N /\ completed' \in Nat BY <1>7, <1>8, SitesFinite
<1>10. Typed' BY <1>1, <1>2, <1>3, <1>9 DEF Typed
<1>11. OnePerSite' BY <1>1, <1>2, <1>3, <1>4 DEF OnePerSite
<1>12. InTurn' BY <1>1, <1>3, <1>4, <1>6 DEF InTurn, IsNext
<1>13. Holding' = Holding /\ Concurrency' = Concurrency
  BY <1>2 DEF Holding, Concurrency, Typed
<1>14. \A j, k \in running' : HostOf[j] = HostOf[k] => j = k
  BY <1>1, <1>2, <1>3, <1>5 DEF Parallel, Group, Typed
<1>15. \A g \in Hosts : gpc'[g] # "run" => running' \cap Group(g) = {}
  BY <1>1, <1>2, <1>3 DEF Parallel, Group, Typed
<1>16. /\ \A g \in Hosts : gpc'[g] = "none" => Group(g) = {}
       /\ \A g \in Hosts : gpc'[g] = "done" => Group(g) \subseteq Recorded'
  BY <1>2, <1>4 DEF Parallel, Typed
<1>17. Parallel' BY <1>2, <1>8, <1>13, <1>14, <1>15, <1>16 DEF Parallel
<1> QED BY <1>2, <1>9, <1>10, <1>11, <1>12, <1>17
    DEF Gate, Sequential, OnlyParallel, Allowed, Consent, Returned, Typed

(* The end of a command is recorded, not counted. *)
LEMMA EndInGroupIInv ==
  ASSUME IInv, NEW h \in Hosts, EndInGroup(h) PROVE IInv'
<1> USE BatchAssumption DEF IInv
<1>1. PICK i \in running \cap Group(h) :
        /\ \E s \in {"ok", "failed"} : Record(i, s)
        /\ running' = running \ {i}
  BY DEF EndInGroup
<1>2. PICK s \in {"ok", "failed"} : Record(i, s) BY <1>1
<1>3. /\ gpc[h] = "run" /\ phase = "parallel"
      /\ gpc' = [gpc EXCEPT ![h] = "loop"]
      /\ UNCHANGED <<opts, phase, sem, completed, ctxDone>>
  BY DEF EndInGroup, OnlyParallel
<1>4. i \in Sites /\ HostOf[i] = h /\ i \notin Recorded /\ s \in Statuses
  BY <1>1 DEF Group, OnePerSite, Statuses
<1>5. /\ results' \in Seq([site : Sites, status : Statuses])
      /\ Recorded' = Recorded \cup {i}
      /\ \A m, n \in DOMAIN results' : results'[m].site = results'[n].site => m = n
  BY <1>2, <1>4, Recording
<1>6. Taken' = Taken BY <1>1, <1>5 DEF Taken
<1>7. Typed' BY <1>1, <1>3, <1>5 DEF Typed
<1>8. OnePerSite' BY <1>1, <1>5 DEF OnePerSite
<1>9. InTurn' BY <1>5, <1>6 DEF InTurn
<1>10. Holding' = Holding /\ Concurrency' = Concurrency
  BY <1>3 DEF Holding, Concurrency, Typed
<1>11. \A g \in Hosts : gpc'[g] # "run" => running' \cap Group(g) = {}
  BY <1>1, <1>3, <1>4 DEF Parallel, Group, Typed
<1>12. /\ \A g \in Hosts : gpc'[g] = "none" => Group(g) = {}
       /\ \A g \in Hosts : gpc'[g] = "done" => Group(g) \subseteq Recorded'
  BY <1>3, <1>5 DEF Parallel, Typed
<1>13. Parallel' BY <1>1, <1>3, <1>6, <1>10, <1>11, <1>12 DEF Parallel
<1> QED BY <1>3, <1>7, <1>8, <1>9, <1>13
    DEF Gate, Sequential, OnlyParallel, Allowed, Consent, Returned, Typed

(* A goroutine that is through gives its slot back. *)
LEMMA EndGroupIInv ==
  ASSUME IInv, NEW h \in Hosts, EndGroup(h) PROVE IInv'
<1> USE BatchAssumption DEF IInv
<1>1. /\ gpc[h] = "loop" /\ phase = "parallel" /\ Group(h) \subseteq Recorded
      /\ sem' = sem - 1 /\ gpc' = [gpc EXCEPT ![h] = "done"]
      /\ UNCHANGED <<opts, phase, running, results, completed, ctxDone>>
  BY DEF EndGroup, OnlyParallel
<1>2. Recorded' = Recorded /\ Taken' = Taken /\ Concurrency' = Concurrency
  BY <1>1 DEF Recorded, Taken, Concurrency
<1>3. Holding' = Holding \ {h} /\ h \in Holding
  BY <1>1 DEF Holding, Typed
<1>4. /\ IsFiniteSet(Holding') /\ Cardinality(Holding') \in Nat
      /\ sem' = Cardinality(Holding')
  BY <1>1, <1>3, FS_RemoveElement, FS_CardinalityType DEF Parallel
<1>5. Typed' BY <1>1, <1>4 DEF Typed
<1>6. OnePerSite' /\ InTurn' BY <1>1, <1>2 DEF OnePerSite, InTurn
<1>7. sem' <= Concurrency BY <1>1, ConcurrencyPositive DEF Typed, Parallel
<1>8. Parallel' BY <1>1, <1>2, <1>4, <1>7 DEF Parallel, Typed
<1> QED BY <1>1, <1>5, <1>6, <1>8
    DEF Gate, Sequential, OnlyParallel, Allowed, Consent, Returned, Typed

(* Execute returns with a result for every site. *)
LEMMA ReturnResultsIInv == IInv /\ ReturnResults => IInv'
<1> SUFFICES ASSUME IInv, ReturnResults PROVE IInv' OBVIOUS
<1> USE BatchAssumption DEF IInv
<1>1. phase' = "returned" /\ UNCHANGED <<opts, gpc, sem, running, results, completed, ctxDone>>
  BY DEF ReturnResults
<1>2. Recorded' = Recorded /\ Taken' = Taken BY <1>1 DEF Recorded, Taken
<1>3. Recorded \subseteq Sites BY RecordedSites
<1>4. running = {} /\ Recorded = Sites
  <2>1. CASE phase = "sequential" /\ Len(results) = N
    <3>1. DOMAIN results = 1 .. N BY <2>1 DEF Typed
    <3>2. \A n \in 1 .. N : results[n].site = n BY <2>1, <3>1 DEF Sequential
    <3>3. Recorded = Sites BY <3>1, <3>2 DEF Recorded, Sites
    <3>4. running \subseteq {N + 1} BY <2>1 DEF Sequential
    <3> QED BY <3>3, <3>4 DEF Typed, Sites
  <2>2. CASE phase = "parallel" /\ \A h \in Hosts : gpc[h] \in {"none", "done"}
    <3>1. ASSUME NEW i \in Sites PROVE i \in Recorded /\ i \notin running
      <4>1. i \in Group(HostOf[i]) /\ HostOf[i] \in Hosts BY GroupOf
      <4>2. gpc[HostOf[i]] = "done" BY <2>2, <4>1 DEF Parallel
      <4> QED BY <2>2, <4>1, <4>2 DEF Parallel
    <3> QED BY <1>3, <3>1 DEF Typed
  <2> QED BY <2>1, <2>2 DEF ReturnResults
<1>5. OnlyParallel' BY <1>1 DEF ReturnResults, OnlyParallel
<1>6. Typed' BY <1>1 DEF Typed
<1>7. OnePerSite' /\ InTurn' BY <1>1, <1>2 DEF OnePerSite, InTurn
<1> QED BY <1>1, <1>2, <1>4, <1>5, <1>6, <1>7
    DEF Gate, Sequential, Parallel, Allowed, Returned
----------------------------------------------------------------------------
(* A step that changes nothing but the context keeps the invariant. *)
LEMMA QuietIInv ==
  ASSUME IInv, ctxDone' \in BOOLEAN,
         UNCHANGED <<opts, phase, gpc, sem, running, results, completed>>
  PROVE  IInv'
<1>1. Recorded' = Recorded /\ Taken' = Taken BY DEF Recorded, Taken
<1>2. Holding' = Holding /\ Concurrency' = Concurrency BY DEF Holding, Concurrency
<1> QED BY <1>1, <1>2
    DEF IInv, Typed, OnePerSite, InTurn, Gate, Sequential, Parallel, OnlyParallel,
        Allowed, Consent, Returned

(* The invariant is inductive. *)
LEMMA StepIInv == IInv /\ [Next]_vars => IInv'
<1> SUFFICES ASSUME IInv, [Next]_vars PROVE IInv' OBVIOUS
<1>1. ASSUME NEW h \in Hosts, GroupStep(h) PROVE IInv'
  BY <1>1, TakeSlotIInv, SkipInGroupIInv, RunInGroupIInv, EndInGroupIInv, EndGroupIInv
     DEF GroupStep
<1>2. CASE Cancel BY <1>2, QuietIInv DEF Cancel
<1>3. CASE UNCHANGED vars
  <2>1. ctxDone' \in BOOLEAN BY <1>3 DEF vars, IInv, Typed
  <2> QED BY <1>3, <2>1, QuietIInv DEF vars
<1> QED BY <1>1, <1>2, <1>3, SkipBatchIInv, BeginIInv, RunInOrderIInv, EndInOrderIInv,
           ReturnResultsIInv DEF Next

(* The inductive invariant holds in every state of every batch. *)
THEOREM Invariance == Spec => []IInv
  BY InitIInv, StepIInv, PTL DEF Spec

(* Types: a site of the batch in every result, and a progress count that   *)
(* does not pass the number of sites.                                      *)
THEOREM TypeCorrect == Spec => []TypeOK
<1>1. IInv => TypeOK
  <2> SUFFICES ASSUME IInv PROVE completed \in 0 .. N BY DEF IInv, Typed, TypeOK
  <2> QED BY BatchAssumption DEF IInv, Typed
<1> QED BY <1>1, Invariance, PTL

(* However the goroutines interleave, fail or are cancelled, no site is    *)
(* reported twice, and none is missing when Execute returns.               *)
THEOREM EverySiteOnce == Spec => []ExactlyOneResult
<1>1. IInv => ExactlyOneResult BY DEF IInv, OnePerSite, Returned, ExactlyOneResult
<1> QED BY <1>1, Invariance, PTL

(* A command in flight holds a slot of the semaphore, and two in flight    *)
(* are on two hosts.                                                       *)
LEMMA RunningHold == IInv /\ phase = "parallel" => Cardinality(running) <= Cardinality(Holding)
<1> SUFFICES ASSUME IInv, phase = "parallel"
             PROVE  Cardinality(running) <= Cardinality(Holding)
  OBVIOUS
<1> USE DEF IInv
<1> DEFINE f == [i \in running |-> HostOf[i]]
<1>1. ASSUME NEW i \in running PROVE HostOf[i] \in Holding
  <2>1. i \in Group(HostOf[i]) /\ HostOf[i] \in Hosts BY GroupOf DEF Typed
  <2>2. gpc[HostOf[i]] = "run" BY <2>1 DEF Parallel
  <2> QED BY <2>1, <2>2 DEF Holding
<1>2. f \in Injection(running, Holding)
  <2>1. f \in [running -> Holding] BY <1>1
  <2>2. \A i, j \in running : f[i] = f[j] => i = j BY DEF Parallel
  <2> QED BY <2>1, <2>2 DEF Injection, IsInjective
<1>3. IsFiniteSet(Holding) BY DEF Parallel
<1> HIDE DEF f
<1> QED BY <1>2, <1>3, FS_Injection

(* The limit holds for commands in flight, whatever the grouping by host.  *)
THEOREM ConcurrencyHolds == Spec => []WithinConcurrency
<1>1. IInv => WithinConcurrency
  <2> SUFFICES ASSUME IInv PROVE Cardinality(running) <= Concurrency
    BY DEF WithinConcurrency
  <2> USE DEF IInv
  <2>1. Concurrency \in Int /\ Concurrency >= 1 BY ConcurrencyPositive
  <2>2. CASE phase = "gate" \/ phase = "returned"
    BY <2>1, <2>2, FS_EmptySet DEF Gate, Returned
  <2>3. CASE phase = "sequential"
    <3> DEFINE S == {Len(results) + 1}
    <3>1. running \subseteq S BY <2>3 DEF Sequential
    <3>2. IsFiniteSet(S) /\ Cardinality(S) = 1 BY FS_Singleton
    <3>3. Cardinality(running) <= 1 BY <3>1, <3>2, FS_Subset
    <3> QED BY <2>3, <3>3 DEF Sequential
  <2>4. CASE phase = "parallel"
    <3>1. Cardinality(running) <= Cardinality(Holding) BY <2>4, RunningHold
    <3>2. Cardinality(running) \in Nat BY SitesFinite DEF Typed
    <3>3. Cardinality(Holding) <= Concurrency /\ Cardinality(Holding) \in Nat
      BY <2>4 DEF Parallel, Typed
    <3> QED BY <2>1, <3>1, <3>2, <3>3
  <2> QED BY <2>2, <2>3, <2>4 DEF Typed
<1> QED BY <1>1, Invariance, PTL

(* As many results as recorded sites. *)
LEMMA ResultsCount == IInv => Cardinality(Recorded) = Len(results) /\ IsFiniteSet(Recorded)
<1> SUFFICES ASSUME IInv PROVE Cardinality(Recorded) = Len(results) /\ IsFiniteSet(Recorded)
  OBVIOUS
<1> DEFINE D == 1 .. Len(results)
           f == [n \in D |-> results[n].site]
<1>1. Len(results) \in Nat /\ DOMAIN results = D
  <2>1. results \in Seq([site : Sites, status : Statuses]) BY DEF IInv, Typed
  <2> QED BY <2>1
<1>2. f \in Surjection(D, Recorded)
  <2>1. f \in [D -> Recorded] BY <1>1 DEF Recorded
  <2>2. \A x \in Recorded : \E n \in D : f[n] = x BY <1>1 DEF Recorded
  <2> QED BY <2>1, <2>2 DEF Surjection
<1>3. f \in Injection(D, Recorded)
  <2>1. f \in [D -> Recorded] BY <1>2 DEF Surjection
  <2>2. \A m, n \in D : f[m] = f[n] => m = n BY <1>1 DEF IInv, OnePerSite
  <2> QED BY <2>1, <2>2 DEF Injection, IsInjective
<1>4. IsFiniteSet(D) /\ Cardinality(D) = Len(results)
  <2>1. Len(results) \in Int /\ 1 \in Int BY <1>1
  <2>2. IsFiniteSet(D) /\ Cardinality(D) = IF 1 > Len(results) THEN 0 ELSE Len(results) - 1 + 1
    BY <2>1, FS_Interval
  <2> QED BY <1>1, <2>2
<1> HIDE DEF f, D
<1> QED BY <1>2, <1>3, <1>4, FS_Surjection

(* The progress count is the number of settled and running sites.          *)
THEOREM ProgressIsRight == Spec => []ProgressAddsUp
<1>1. IInv => ProgressAddsUp
  <2> SUFFICES ASSUME IInv, phase = "parallel"
               PROVE  completed = Len(results) + Cardinality(running)
    BY DEF ProgressAddsUp
  <2> USE DEF IInv
  <2>1. completed = Cardinality(Recorded \cup running) BY DEF Parallel, Taken
  <2>2. IsFiniteSet(running) /\ Cardinality(running) \in Nat BY SitesFinite DEF Typed
  <2>3. IsFiniteSet(Recorded) /\ Cardinality(Recorded) = Len(results) BY ResultsCount
  <2>4. Recorded \cap running = {} /\ Cardinality({}) = 0
    BY FS_EmptySet DEF OnePerSite
  <2>5. Cardinality(Recorded \cup running)
          = Cardinality(Recorded) + Cardinality(running) - Cardinality(Recorded \cap running)
    BY <2>2, <2>3, FS_Union
  <2>6. Len(results) \in Nat
    <3>1. results \in Seq([site : Sites, status : Statuses]) BY DEF Typed
    <3> QED BY <3>1
  <2>7. completed = Cardinality(Recorded) + Cardinality(running) - 0
    BY <2>1, <2>4, <2>5
  <2> QED BY <2>2, <2>3, <2>6, <2>7
<1> QED BY <1>1, Invariance, PTL
----------------------------------------------------------------------------
(* The status of a site is that of its one result. *)
LEMMA StatusRecorded ==
  ASSUME OnePerSite, NEW n \in DOMAIN results
  PROVE  StatusOf(results[n].site) = results[n].status
<1> DEFINE m == CHOOSE k \in DOMAIN results : results[k].site = results[n].site
<1>1. results[n].site \in Recorded BY DEF Recorded
<1>2. m \in DOMAIN results /\ results[m].site = results[n].site OBVIOUS
<1>3. m = n BY <1>2 DEF OnePerSite
<1> HIDE DEF m
<1>4. StatusOf(results[n].site) = results[m].status BY <1>1 DEF StatusOf, m
<1> QED BY <1>3, <1>4

(* ... and one that is not recorded is running or still to do. *)
LEMMA StatusOpen ==
  ASSUME NEW i, i \notin Recorded
  PROVE  StatusOf(i) = IF i \in running THEN "running" ELSE "todo"
  BY DEF StatusOf

(* Recorded sites are settled. *)
LEMMA RecordedSettled ==
  ASSUME Typed, OnePerSite, NEW i \in Recorded
  PROVE  StatusOf(i) \in Statuses
<1>1. PICK n \in DOMAIN results : i = results[n].site BY DEF Recorded
<1> QED BY <1>1, StatusRecorded, RecordedSites

(* Recording a result settles one site and touches no other. *)
LEMMA StatusRecording ==
  ASSUME Typed, OnePerSite, OnePerSite', NEW i \in Sites \ Recorded, NEW s \in Statuses,
         Record(i, s), running' = running \ {i}
  PROVE  [j \in Sites |-> StatusOf(j)]' = [[j \in Sites |-> StatusOf(j)] EXCEPT ![i] = s]
<1>1. /\ Len(results') \in DOMAIN results'
      /\ results'[Len(results')].site = i /\ results'[Len(results')].status = s
      /\ \A n \in DOMAIN results : n \in DOMAIN results' /\ results'[n] = results[n]
      /\ Recorded' = Recorded \cup {i}
  <2>1. /\ results' \in Seq([site : Sites, status : Statuses])
        /\ Len(results') = Len(results) + 1
        /\ results'[Len(results')] = [site |-> i, status |-> s]
        /\ \A n \in DOMAIN results : n \in DOMAIN results' /\ results'[n] = results[n]
        /\ Recorded' = Recorded \cup {i}
    BY Recording
  <2>2. Len(results') \in DOMAIN results'
    <3>1. Len(results) \in Nat
      <4>1. results \in Seq([site : Sites, status : Statuses]) BY DEF Typed
      <4> QED BY <4>1
    <3> QED BY <2>1, <3>1
  <2> QED BY <2>1, <2>2
<1>2. ASSUME NEW j, NEW n \in DOMAIN results', j = results'[n].site
      PROVE  StatusOf(j)' = results'[n].status
  <2> DEFINE m == CHOOSE k \in DOMAIN results' : results'[k].site = j
  <2>1. j \in Recorded' BY <1>2 DEF Recorded
  <2>2. m \in DOMAIN results' /\ results'[m].site = j BY <1>2
  <2>3. m = n BY <1>2, <2>2 DEF OnePerSite
  <2> HIDE DEF m
  <2>4. StatusOf(j)' = results'[m].status BY <2>1 DEF StatusOf, m
  <2> QED BY <2>3, <2>4
<1>3. StatusOf(i)' = s BY <1>1, <1>2
<1>4. ASSUME NEW j \in Sites, j # i PROVE StatusOf(j)' = StatusOf(j)
  <2>1. CASE j \in Recorded
    <3>1. PICK n \in DOMAIN results : j = results[n].site BY <2>1 DEF Recorded
    <3>2. StatusOf(j)' = results'[n].status BY <1>1, <1>2, <3>1
    <3> QED BY <1>1, <3>1, <3>2, StatusRecorded
  <2>2. CASE j \notin Recorded
    <3>1. j \notin Recorded' BY <1>1, <1>4, <2>2
    <3> QED BY <1>4, <2>2, <3>1 DEF StatusOf
  <2> QED BY <2>1, <2>2
<1> QED BY <1>3, <1>4

(* The state of the contract, as BatchExecutor presents it. *)
Status == [i \in Sites |-> StatusOf(i)]
Permitted == Consent /\ ~opts.dryRun
Over == phase = "returned"

(* Recording a result is EndSite of the contract, or SkipSite. *)
LEMMA RecordingImplements ==
  ASSUME Typed, OnePerSite, OnePerSite', NEW i \in Sites \ Recorded, NEW s \in Statuses,
         Record(i, s), running' = running \ {i}, UNCHANGED <<opts, phase>>,
         i \in running => s # "skipped", i \notin running => s = "skipped"
  PROVE  [Contract!ContractNext]_Contract!contractVars
<1>1. Status' = [Status EXCEPT ![i] = s] BY StatusRecording DEF Status
<1>2. Status[i] = IF i \in running THEN "running" ELSE "todo"
  BY StatusOpen DEF Status
<1>3. Permitted' = Permitted /\ Over' = Over BY DEF Permitted, Consent, Over
<1>4. Contract!EndSite(i) \/ Contract!SkipSite(i)
  BY <1>1, <1>2, <1>3
     DEF Contract!EndSite, Contract!SkipSite, Status, Permitted, Over, Statuses
<1> QED BY <1>4 DEF Contract!ContractNext, Sites

(* Starting a command in its turn is StartSite of the contract. *)
LEMMA StartImplements ==
  ASSUME IInv, NEW i \in Sites \ Taken, Permitted,
         \A j \in Group(HostOf[i]) : j < i => j \in Recorded,
         running' = running \cup {i}, UNCHANGED <<opts, phase, results>>
  PROVE  [Contract!ContractNext]_Contract!contractVars
<1>1. Recorded' = Recorded BY DEF Recorded
<1>2. i \notin Recorded /\ i \notin running BY DEF Taken
<1>3. Status' = [Status EXCEPT ![i] = "running"]
  <2>1. StatusOf(i)' = "running" BY <1>1, <1>2 DEF StatusOf
  <2>2. ASSUME NEW j \in Sites, j # i PROVE StatusOf(j)' = StatusOf(j)
    BY <1>1, <2>2 DEF StatusOf
  <2> QED BY <2>1, <2>2 DEF Status
<1>4. Status[i] = "todo" BY <1>2, StatusOpen DEF Status
<1>5. \A j \in 1 .. N : HostOf[j] = HostOf[i] /\ j < i => Contract!Settled(j)
  BY RecordedSettled DEF Contract!Settled, IInv, Group, Sites, Statuses
<1>6. Permitted' = Permitted /\ Over' = Over BY DEF Permitted, Consent, Over
<1>7. Contract!StartSite(i)
  BY <1>3, <1>4, <1>5, <1>6 DEF Contract!StartSite, Status, Permitted, Over
<1> QED BY <1>7 DEF Contract!ContractNext, Sites

(* Steps between commands are invisible to the caller. *)
LEMMA QuietImplements ==
  ASSUME UNCHANGED <<opts, running, results>>, Over' = Over
  PROVE  UNCHANGED Contract!contractVars
<1>1. Status' = Status BY DEF Status, StatusOf, Recorded
<1>2. Permitted' = Permitted BY DEF Permitted, Consent
<1> QED BY <1>1, <1>2 DEF Contract!contractVars, Status, Permitted, Over

(* A batch that is skipped settles all its sites at once. *)
LEMMA SkipBatchImplements == IInv /\ IInv' /\ SkipBatch => Contract!SkipAll
<1> SUFFICES ASSUME IInv, IInv', SkipBatch PROVE Contract!SkipAll OBVIOUS
<1>1. /\ results = <<>> /\ running = {} /\ phase' = "returned" /\ opts' = opts
      /\ results' = [i \in 1 .. N |-> [site |-> i, status |-> "skipped"]]
  BY DEF SkipBatch, IInv, Gate, Sites
<1>2. Recorded = {} BY <1>1 DEF Recorded
<1>3. \A i \in Sites : Status[i] = "todo" BY <1>1, <1>2 DEF Status, StatusOf
<1>4. ASSUME NEW i \in Sites PROVE StatusOf(i)' = "skipped"
  <2> DEFINE m == CHOOSE k \in DOMAIN results' : results'[k].site = i
  <2>1. i \in DOMAIN results' /\ results'[i].site = i BY <1>1 DEF Sites
  <2>2. m \in DOMAIN results' BY <2>1
  <2>3. results'[m].status = "skipped" BY <1>1, <2>2
  <2>4. i \in Recorded' BY <2>1 DEF Recorded
  <2> HIDE DEF m
  <2>5. StatusOf(i)' = results'[m].status BY <2>4 DEF StatusOf, m
  <2> QED BY <2>3, <2>5
<1>5. Status' = [i \in Sites |-> "skipped"] BY <1>4 DEF Status
<1>6. Permitted' = Permitted /\ Over' BY <1>1 DEF Permitted, Consent, Over
<1> QED BY <1>3, <1>5, <1>6 DEF Contract!SkipAll, Status, Permitted, Over, Sites

(* Execute returns when every site is settled. *)
LEMMA ReturnImplements == IInv /\ IInv' /\ ReturnResults => Contract!Return
<1> SUFFICES ASSUME IInv, IInv', ReturnResults PROVE Contract!Return OBVIOUS
<1>1. /\ phase' = "returned" /\ phase # "returned"
      /\ UNCHANGED <<opts, running, results>>
  BY DEF ReturnResults
<1>2. Recorded' = Recorded BY <1>1 DEF Recorded
<1>3. \A i \in Sites : Status[i] \in Statuses
  BY <1>1, <1>2, RecordedSettled DEF IInv, Returned, Status
<1>4. Status' = Status BY <1>1 DEF Status, StatusOf, Recorded
<1>5. Permitted' = Permitted BY <1>1 DEF Permitted, Consent
<1> QED BY <1>1, <1>3, <1>4, <1>5
    DEF Contract!Return, Contract!Settled, Status, Permitted, Over, Sites, Statuses

(* Every step of Execute is a step of the contract, or a stutter. *)
LEMMA StepImplements ==
  IInv /\ IInv' /\ [Next]_vars => [Contract!ContractNext]_Contract!contractVars
<1> SUFFICES ASSUME IInv, IInv', [Next]_vars
             PROVE  [Contract!ContractNext]_Contract!contractVars
  OBVIOUS
<1>1. CASE SkipBatch BY <1>1, SkipBatchImplements DEF Contract!ContractNext
<1>2. CASE Begin BY <1>2, QuietImplements DEF Begin, Over
<1>3. CASE RunInOrder
  <2> DEFINE i == Len(results) + 1
  <2>1. /\ phase = "sequential" /\ running = {} /\ Len(results) < N
        /\ UNCHANGED <<opts, phase>>
    BY <1>3 DEF RunInOrder
  <2>2. Len(results) \in Nat /\ DOMAIN results = 1 .. Len(results)
    <3>1. results \in Seq([site : Sites, status : Statuses]) BY DEF IInv, Typed
    <3> QED BY <3>1
  <2>3. Recorded = 1 .. Len(results)
    BY <2>1, <2>2 DEF Recorded, IInv, Sequential
  <2>4. i \in Sites \ Recorded /\ i \notin running
    BY <2>1, <2>2, <2>3, BatchAssumption DEF Sites
  <2> HIDE DEF i
  <2>5. CASE ctxDone
    <3>1. Record(i, "skipped") /\ running' = running \ {i} /\ "skipped" \in Statuses
      BY <1>3, <2>4, <2>5 DEF RunInOrder, Statuses, i
    <3> QED BY <2>1, <2>4, <3>1, RecordingImplements DEF IInv
  <2>6. CASE ~ctxDone
    <3>1. running' = running \cup {i} /\ results' = results
      BY <1>3, <2>1, <2>6 DEF RunInOrder, i
    <3>2. \A j \in Group(HostOf[i]) : j < i => j \in Recorded
      BY <2>2, <2>3 DEF Group, Sites, i
    <3> QED BY <2>1, <2>4, <3>1, <3>2, StartImplements DEF IInv, Allowed, Permitted, Taken
  <2> QED BY <2>5, <2>6
<1>4. CASE EndInOrder
  <2>1. PICK i \in running, s \in {"ok", "failed"} : Record(i, s) BY <1>4 DEF EndInOrder
  <2>2. phase = "sequential" /\ running' = {} /\ UNCHANGED <<opts, phase>>
    BY <1>4 DEF EndInOrder
  <2>3. running' = running \ {i} BY <2>1, <2>2 DEF IInv, Sequential
  <2>4. i \in Sites \ Recorded /\ s \in Statuses /\ s # "skipped"
    BY <2>1 DEF IInv, Typed, OnePerSite, Statuses
  <2> QED BY <2>1, <2>2, <2>3, <2>4, RecordingImplements DEF IInv
<1>5. ASSUME NEW h \in Hosts, TakeSlot(h) \/ EndGroup(h)
      PROVE  UNCHANGED Contract!contractVars
  BY <1>5, QuietImplements DEF TakeSlot, EndGroup, Over
<1>6. ASSUME NEW h \in Hosts, SkipInGroup(h)
      PROVE  [Contract!ContractNext]_Contract!contractVars
  <2>1. PICK i \in Group(h) : IsNext(i) /\ Record(i, "skipped") BY <1>6 DEF SkipInGroup
  <2>2. gpc[h] = "loop" /\ UNCHANGED <<opts, phase, running>> BY <1>6 DEF SkipInGroup
  <2>3. phase = "parallel" BY <2>2 DEF IInv, OnlyParallel
  <2>4. i \notin running BY <2>1, <2>2, <2>3 DEF IInv, Parallel
  <2>5. i \in Sites \ Recorded /\ "skipped" \in Statuses /\ running' = running \ {i}
    BY <2>1, <2>2, <2>4 DEF IsNext, Group, Statuses
  <2> QED BY <2>1, <2>2, <2>4, <2>5, RecordingImplements DEF IInv
<1>7. ASSUME NEW h \in Hosts, RunInGroup(h)
      PROVE  [Contract!ContractNext]_Contract!contractVars
  <2>1. PICK i \in Group(h) : IsNext(i) /\ running' = running \cup {i}
    BY <1>7 DEF RunInGroup
  <2>2. gpc[h] = "loop" /\ UNCHANGED <<opts, phase, results>> BY <1>7 DEF RunInGroup
  <2>3. phase = "parallel" BY <2>2 DEF IInv, OnlyParallel
  <2>4. i \in Sites \ Taken
    BY <2>1, <2>2, <2>3 DEF IInv, Parallel, IsNext, Taken, Group
  <2>5. Permitted BY <2>3 DEF IInv, Allowed, Permitted
  <2> QED BY <2>1, <2>2, <2>4, <2>5, StartImplements DEF IsNext
<1>8. ASSUME NEW h \in Hosts, EndInGroup(h)
      PROVE  [Contract!ContractNext]_Contract!contractVars
  <2>1. PICK i \in running \cap Group(h) :
          /\ \E s \in {"ok", "failed"} : Record(i, s)
          /\ running' = running \ {i}
    BY <1>8 DEF EndInGroup
  <2>2. PICK s \in {"ok", "failed"} : Record(i, s) BY <2>1
  <2>3. UNCHANGED <<opts, phase>> BY <1>8 DEF EndInGroup
  <2>4. i \in Sites \ Recorded /\ s \in Statuses /\ s # "skipped"
    BY <2>1 DEF IInv, Typed, OnePerSite, Statuses
  <2> QED BY <2>1, <2>2, <2>3, <2>4, RecordingImplements DEF IInv
<1>9. CASE ReturnResults BY <1>9, ReturnImplements DEF Contract!ContractNext
<1>10. CASE Cancel BY <1>10, QuietImplements DEF Cancel, Over
<1>11. CASE UNCHANGED vars BY <1>11, QuietImplements DEF vars, Over
<1>12. ASSUME NEW h \in Hosts, GroupStep(h)
       PROVE  [Contract!ContractNext]_Contract!contractVars
  BY <1>5, <1>6, <1>7, <1>8, <1>12 DEF GroupStep
<1> QED BY <1>1, <1>2, <1>3, <1>4, <1>9, <1>10, <1>11, <1>12 DEF Next

(* Both ways of executing a batch, sequential and parallel, implement the  *)
(* contract: sites settle once, in turn on a host, and only with consent.  *)
THEOREM Implementation == Spec => ImplementsContract
<1>1. Init => Contract!ContractInit
  <2> SUFFICES ASSUME Init PROVE Contract!ContractInit OBVIOUS
  <2>1. Recorded = {} /\ running = {} BY DEF Init, Recorded
  <2>2. \A i \in Sites : StatusOf(i) = "todo" BY <2>1 DEF StatusOf
  <2>3. Permitted \in BOOLEAN /\ Over = FALSE BY DEF Permitted, Consent, Over, Init
  <2> QED BY <2>2, <2>3 DEF Contract!ContractInit, Permitted, Over, Sites
<1> QED BY <1>1, StepImplements, Invariance, PTL
        DEF Spec, ImplementsContract, Contract!ContractSpec
=============================================================================

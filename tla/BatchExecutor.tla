--------------------------- MODULE BatchExecutor ---------------------------
(***************************************************************************)
(* Executor.Execute of internal/batch/executor.go behind the safety gate   *)
(* of internal/safety/tiers.go: one call of Execute over the sites 1 .. N. *)
(* With concurrency above one, one goroutine per canonical host takes one  *)
(* of the concurrency slots and works through the sites of its host.       *)
(***************************************************************************)
EXTENDS Integers, Sequences, FiniteSets

CONSTANTS
  N,            \* the sites are 1 .. N, in the order of the batch
  Hosts,        \* grouping keys: canonical host, or the alias without one
  HostOf,       \* [1 .. N -> Hosts]
  Concurrencies \* the values of Options.Concurrency

ASSUME BatchAssumption ==
  /\ N \in Nat \ {0}
  /\ HostOf \in [1 .. N -> Hosts]
  /\ Concurrencies \subseteq Int

VARIABLES
  opts,       \* Options, and whether stdin is a terminal
  phase,      \* "gate", "sequential", "parallel" or "returned"
  gpc,        \* the goroutine of each host
  sem,        \* tokens in executeParallel's semaphore
  running,    \* the sites whose command is in flight
  results,    \* the SiteResults so far, in the order they were recorded
  completed,  \* executeParallel's progress counter
  ctxDone

vars == <<opts, phase, gpc, sem, running, results, completed, ctxDone>>

Sites == 1 .. N
Tiers == {"read", "mutate", "destructive"}
Statuses == {"ok", "failed", "skipped"}

Options ==
  [tier : Tiers, yes : BOOLEAN, ack : BOOLEAN, tty : BOOLEAN,
   dryRun : BOOLEAN, concurrency : Concurrencies]

(* Fault: --yes alone lets destructive commands through. *)
CheckBatchSafety_YesSuffices(o) ==
  \/ o.tier = "read"
  \/ o.tier = "mutate" /\ (o.yes \/ o.tty)
  \/ o.tier = "destructive" /\ o.yes

CheckBatchSafety(o) ==
  \/ o.tier = "read"
  \/ o.tier = "mutate" /\ (o.yes \/ o.tty)
  \/ o.tier = "destructive" /\ o.yes /\ o.ack

Concurrency == IF opts.concurrency < 1 THEN 1 ELSE opts.concurrency

Recorded == {results[n].site : n \in DOMAIN results}

(* groupByCanonicalHost *)
Group(h) == {i \in Sites : HostOf[i] = h}

(* The next site of a host's goroutine: the loop over its group. *)
IsNext(i) ==
  /\ i \notin Recorded
  /\ \A j \in Group(HostOf[i]) : j < i => j \in Recorded

Record(i, s) == results' = Append(results, [site |-> i, status |-> s])

Init ==
  /\ opts \in Options
  /\ phase = "gate"
  /\ gpc = [h \in Hosts |-> "none"]
  /\ sem = 0
  /\ running = {}
  /\ results = <<>>
  /\ completed = 0
  /\ ctxDone = FALSE
----------------------------------------------------------------------------
(* Execute: refused by the gate, or a dry run. *)
SkipBatch ==
  /\ phase = "gate"
  /\ ~CheckBatchSafety(opts) \/ opts.dryRun
  /\ results' = [i \in Sites |-> [site |-> i, status |-> "skipped"]]
  /\ phase' = "returned"
  /\ UNCHANGED <<opts, gpc, sem, running, completed, ctxDone>>

(* Execute: hands over; executeParallel starts its goroutines. *)
Begin ==
  /\ phase = "gate"
  /\ CheckBatchSafety(opts)
  /\ ~opts.dryRun
  /\ IF Concurrency = 1
       THEN /\ phase' = "sequential"
            /\ UNCHANGED gpc
       ELSE /\ phase' = "parallel"
            /\ gpc' = [h \in Hosts |-> IF Group(h) = {} THEN "none" ELSE "wait"]
  /\ UNCHANGED <<opts, sem, running, results, completed, ctxDone>>

(* executeSequential: the next site, in the order of the batch. *)
RunInOrder ==
  /\ phase = "sequential"
  /\ running = {}
  /\ Len(results) < N
  /\ IF ctxDone
       THEN Record(Len(results) + 1, "skipped") /\ UNCHANGED running
       ELSE running' = {Len(results) + 1} /\ UNCHANGED results
  /\ UNCHANGED <<opts, phase, gpc, sem, completed, ctxDone>>

EndInOrder ==
  /\ phase = "sequential"
  /\ \E i \in running, s \in {"ok", "failed"} : Record(i, s)
  /\ running' = {}
  /\ UNCHANGED <<opts, phase, gpc, sem, completed, ctxDone>>

(* Fault: the goroutines do not wait for a slot. *)
TakeSlot_AtOnce(h) ==
  /\ gpc[h] = "wait"
  /\ sem' = sem + 1
  /\ gpc' = [gpc EXCEPT ![h] = "loop"]
  /\ UNCHANGED <<opts, phase, running, results, completed, ctxDone>>

TakeSlot(h) ==
  /\ gpc[h] = "wait"
  /\ sem < Concurrency
  /\ sem' = sem + 1
  /\ gpc' = [gpc EXCEPT ![h] = "loop"]
  /\ UNCHANGED <<opts, phase, running, results, completed, ctxDone>>

(* Fault: a skipped site is not counted. *)
SkipInGroup_Uncounted(h) ==
  /\ gpc[h] = "loop"
  /\ ctxDone
  /\ \E i \in Group(h) : IsNext(i) /\ Record(i, "skipped")
  /\ UNCHANGED <<opts, phase, gpc, sem, running, completed, ctxDone>>

SkipInGroup(h) ==
  /\ gpc[h] = "loop"
  /\ ctxDone
  /\ \E i \in Group(h) : IsNext(i) /\ Record(i, "skipped")
  /\ completed' = completed + 1
  /\ UNCHANGED <<opts, phase, gpc, sem, running, ctxDone>>

(* Fault: a goroutine for each site, not for each host. *)
RunInGroup_NoTurns(h) ==
  /\ gpc[h] = "loop"
  /\ ~ctxDone
  /\ \E i \in Group(h) \ (Recorded \cup running) : running' = running \cup {i}
  /\ completed' = completed + 1
  /\ UNCHANGED <<opts, phase, gpc, sem, results, ctxDone>>

(* The look at the context, the count and the start of the command are one *)
(* step: a context that ends in between is one that ends in the command.   *)
RunInGroup(h) ==
  /\ gpc[h] = "loop"
  /\ ~ctxDone
  /\ \E i \in Group(h) : IsNext(i) /\ running' = running \cup {i}
  /\ completed' = completed + 1
  /\ gpc' = [gpc EXCEPT ![h] = "run"]
  /\ UNCHANGED <<opts, phase, sem, results, ctxDone>>

(* Fault: the end of a command is counted like its start. *)
EndInGroup_CountsToo(h) ==
  /\ gpc[h] = "run"
  /\ \E i \in running \cap Group(h) :
       /\ \E s \in {"ok", "failed"} : Record(i, s)
       /\ running' = running \ {i}
  /\ completed' = completed + 1
  /\ gpc' = [gpc EXCEPT ![h] = "loop"]
  /\ UNCHANGED <<opts, phase, sem, ctxDone>>

EndInGroup(h) ==
  /\ gpc[h] = "run"
  /\ \E i \in running \cap Group(h) :
       /\ \E s \in {"ok", "failed"} : Record(i, s)
       /\ running' = running \ {i}
  /\ gpc' = [gpc EXCEPT ![h] = "loop"]
  /\ UNCHANGED <<opts, phase, sem, completed, ctxDone>>

(* Fault: the goroutine ends without giving its slot back. *)
EndGroup_KeepsSlot(h) ==
  /\ gpc[h] = "loop"
  /\ Group(h) \subseteq Recorded
  /\ gpc' = [gpc EXCEPT ![h] = "done"]
  /\ UNCHANGED <<opts, phase, sem, running, results, completed, ctxDone>>

EndGroup(h) ==
  /\ gpc[h] = "loop"
  /\ Group(h) \subseteq Recorded
  /\ sem' = sem - 1
  /\ gpc' = [gpc EXCEPT ![h] = "done"]
  /\ UNCHANGED <<opts, phase, running, results, completed, ctxDone>>

(* Fault: goroutines that still wait for a slot are not waited for. *)
ReturnResults_NoWait ==
  /\ \/ phase = "sequential" /\ Len(results) = N
     \/ phase = "parallel" /\ \A h \in Hosts : gpc[h] \in {"none", "wait", "done"}
  /\ phase' = "returned"
  /\ UNCHANGED <<opts, gpc, sem, running, results, completed, ctxDone>>

(* The loop over the sites is through; or wg.Wait() returns. *)
ReturnResults ==
  /\ \/ phase = "sequential" /\ Len(results) = N
     \/ phase = "parallel" /\ \A h \in Hosts : gpc[h] \in {"none", "done"}
  /\ phase' = "returned"
  /\ UNCHANGED <<opts, gpc, sem, running, results, completed, ctxDone>>

Cancel ==
  /\ ~ctxDone
  /\ phase # "returned"
  /\ ctxDone' = TRUE
  /\ UNCHANGED <<opts, phase, gpc, sem, running, results, completed>>

GroupStep(h) ==
  \/ TakeSlot(h) \/ SkipInGroup(h) \/ RunInGroup(h)
  \/ EndInGroup(h) \/ EndGroup(h)

Next ==
  \/ SkipBatch \/ Begin \/ RunInOrder \/ EndInOrder
  \/ \E h \in Hosts : GroupStep(h)
  \/ ReturnResults
  \/ Cancel

(* The goroutines run, and every command ends: its SSH call returns. *)
Spec ==
  /\ Init /\ [][Next]_vars
  /\ WF_vars(SkipBatch \/ Begin \/ RunInOrder \/ EndInOrder \/ ReturnResults)
  /\ \A h \in Hosts : WF_vars(GroupStep(h))
----------------------------------------------------------------------------
TypeOK ==
  /\ opts \in Options
  /\ phase \in {"gate", "sequential", "parallel", "returned"}
  /\ gpc \in [Hosts -> {"none", "wait", "loop", "run", "done"}]
  /\ sem \in Nat
  /\ running \subseteq Sites
  /\ results \in Seq([site : Sites, status : Statuses])
  /\ completed \in 0 .. N
  /\ ctxDone \in BOOLEAN

(* No site is reported twice, and none is missing when Execute returns,    *)
(* whatever failed, was refused or was cancelled.                          *)
ExactlyOneResult ==
  /\ \A m, n \in DOMAIN results : results[m].site = results[n].site => m = n
  /\ phase = "returned" => Recorded = Sites

(* "Max parallel executions": commands in flight, over all hosts. *)
WithinConcurrency == Cardinality(running) <= Concurrency

(* The progress line "[3/30]": what has been settled and what is running   *)
(* is what has been counted, so the count ends at the number of sites.     *)
ProgressAddsUp ==
  phase = "parallel" => completed = Len(results) + Cardinality(running)

StatusOf(i) ==
  IF i \in Recorded
    THEN results[CHOOSE n \in DOMAIN results : results[n].site = i].status
    ELSE IF i \in running THEN "running" ELSE "todo"

(* Consent as the comment of CheckBatchSafety states it: reads always,     *)
(* mutations with --yes or at a terminal, destruction with both flags.     *)
Consent ==
  /\ opts.tier = "mutate" => opts.yes \/ opts.tty
  /\ opts.tier = "destructive" => opts.yes /\ opts.ack

(* Both ways of executing a batch implement the contract with the caller.  *)
Contract == INSTANCE BatchContract WITH
  status <- [i \in Sites |-> StatusOf(i)],
  allowed <- Consent /\ ~opts.dryRun,
  returned <- phase = "returned"

ImplementsContract == Contract!ContractSpec

(* Execute returns: no goroutine waits for ever for a slot. *)
Returns == <>(phase = "returned")
=============================================================================

--------------------------- MODULE BatchContract ---------------------------
(***************************************************************************)
(* What Executor.Execute (internal/batch/executor.go) promises its caller, *)
(* whichever way it schedules the sites: every site is settled once, as    *)
(* OK, FAILED or SKIPPED; a command is started only with the consent its   *)
(* tier demands; the sites of one canonical host take turns, in the order  *)
(* they were given; and Execute returns when all are settled.              *)
(***************************************************************************)
EXTENDS Integers

CONSTANTS
  N,        \* the sites are 1 .. N, in the order of the batch
  HostOf    \* [1 .. N -> canonical hosts]

VARIABLES
  status,   \* [1 .. N -> {"todo", "running", "ok", "failed", "skipped"}]
  allowed,  \* the safety gate lets commands run
  returned

contractVars == <<status, allowed, returned>>

Settled(i) == status[i] \in {"ok", "failed", "skipped"}

ContractInit ==
  /\ status = [i \in 1 .. N |-> "todo"]
  /\ allowed \in BOOLEAN
  /\ returned = FALSE

StartSite(i) ==
  /\ allowed
  /\ status[i] = "todo"
  /\ \A j \in 1 .. N : HostOf[j] = HostOf[i] /\ j < i => Settled(j)
  /\ status' = [status EXCEPT ![i] = "running"]
  /\ UNCHANGED <<allowed, returned>>

EndSite(i) ==
  /\ status[i] = "running"
  /\ \E s \in {"ok", "failed"} : status' = [status EXCEPT ![i] = s]
  /\ UNCHANGED <<allowed, returned>>

SkipSite(i) ==
  /\ status[i] = "todo"
  /\ status' = [status EXCEPT ![i] = "skipped"]
  /\ UNCHANGED <<allowed, returned>>

(* A refused batch, or a dry run, is skipped whole. *)
SkipAll ==
  /\ \A i \in 1 .. N : status[i] = "todo"
  /\ status' = [i \in 1 .. N |-> "skipped"]
  /\ returned' = TRUE
  /\ UNCHANGED allowed

Return ==
  /\ ~returned
  /\ \A i \in 1 .. N : Settled(i)
  /\ returned' = TRUE
  /\ UNCHANGED <<status, allowed>>

ContractNext ==
  \/ \E i \in 1 .. N : StartSite(i) \/ EndSite(i) \/ SkipSite(i)
  \/ SkipAll
  \/ Return

ContractSpec == ContractInit /\ [][ContractNext]_contractVars
=============================================================================

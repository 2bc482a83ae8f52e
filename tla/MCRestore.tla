----------------------------- MODULE MCRestore -----------------------------
(* A confirmed import beside another command: a second import, an export   *)
(* given the same final name, or a run that must change nothing.           *)
EXTENDS Restore

CONSTANTS r1, r2, p1, p2

MCSecond ==
  [cmd : {"export"}, mode : {"confirmed"}, path : {p1}]
  \cup [cmd : {"import"}, mode : {"confirmed", "dry", "unconfirmed"}, path : {p2}]
  \cup [cmd : {"export"}, mode : {"dry"}, path : {p2}]

MCCommands ==
  {f \in [Runs -> Options] :
     /\ f[r1] = [cmd |-> "import", mode |-> "confirmed", path |-> p1]
     /\ f[r2] \in MCSecond}
=============================================================================

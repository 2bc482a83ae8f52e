-------------------------- MODULE MCDumpStatement --------------------------
(* Instances of DumpStatement for TLC. *)
EXTENDS DumpStatement, TLC

VarSymmetry == Permutations(Vars)

(* Bound: one assignment, or a save and one assignment, as mysqldump's     *)
(* SET @OLD_SQL_MODE=@@SQL_MODE, SQL_MODE='...'.                           *)
MCSets ==
  {<<a>> : a \in Assignments}
  \cup {<<a, b>> : a \in {x \in Assignments : x.right.kind = "sys"}, b \in Assignments}
=============================================================================

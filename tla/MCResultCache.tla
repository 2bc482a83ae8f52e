--------------------------- MODULE MCResultCache ---------------------------
(* A query whose empty answer is a miss, one whose empty answer is a hit,  *)
(* a command that is about the first and may change the second, and one    *)
(* that is about both and invalidates also when it fails.                  *)
EXTENDS ResultCache, TLC

MCJobs == {"coreVersion", "optionList", "coreUpdate", "dbImport"}
Symmetry == Permutations(Procs)
=============================================================================

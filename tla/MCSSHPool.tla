----------------------------- MODULE MCSSHPool -----------------------------
EXTENDS SSHPool, TLC

MCKeyOf == [c \in Calls |-> CHOOSE k \in Keys : TRUE]
(* Every call has a key of its own. *)
MCOwnKeyOf ==
  CHOOSE f \in [Calls -> Keys] : \A c, d \in Calls : c # d => f[c] # f[d]
MCHostOf == [k \in Keys |-> CHOOSE h \in Hosts : TRUE]
MCMaxConns == [h \in Hosts |-> 2]
MCBaseDelay == [h \in Hosts |-> 1]
Symmetry == Permutations(Calls)
=============================================================================

--------------------------- MODULE MCRateLimiter ---------------------------
(* Three calls race for two slots of one host. *)
EXTENDS RateLimiter

MCHostOf == [c \in Calls |-> CHOOSE h \in Hosts : TRUE]
MCMaxConns == [h \in Hosts |-> 2]
MCBaseDelay == [h \in Hosts |-> 1]
=============================================================================

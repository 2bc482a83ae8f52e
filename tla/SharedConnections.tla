------------------------- MODULE SharedConnections -------------------------
(***************************************************************************)
(* What the pool promises to the commands that share its connections,      *)
(* without locks, limits, probes or errors: per key there is at most one   *)
(* current connection; commands lease the current one; a connection is     *)
(* taken away only from the command that asks for it, or by the shutdown;  *)
(* every connection that is not current is closed, but for the one a       *)
(* command has just made.  Pool.Get, Remove, Close and reapIdle            *)
(* (internal/ssh/pool.go) are shown to implement this in module SSHPool.   *)
(***************************************************************************)
CONSTANTS
  Calls,   \* the commands; a connection bears the name of its maker
  Keys,
  KeyOf,   \* [Calls -> Keys]
  None

VARIABLES
  current,  \* [Keys -> Calls \cup {None}]: the connection commands share
  usable,   \* the current connections that have not been closed
  fresh,    \* connections made and not yet current
  lease,    \* [Calls -> Calls \cup {None}]: what each command may use
  shut      \* the pool is closed

sharedVars == <<current, usable, fresh, lease, shut>>

Lessees(e) == {c \in Calls : lease[c] = e}

SharedInit ==
  /\ current = [k \in Keys |-> None]
  /\ usable = {}
  /\ fresh = {}
  /\ lease = [c \in Calls |-> None]
  /\ shut = FALSE

Make(c) ==
  /\ fresh' = fresh \cup {c}
  /\ UNCHANGED <<current, usable, lease, shut>>

Publish(c) ==
  /\ ~shut
  /\ c \in fresh
  /\ current[KeyOf[c]] = None
  /\ Lessees(c) = {}
  /\ current' = [current EXCEPT ![KeyOf[c]] = c]
  /\ usable' = usable \cup {c}
  /\ fresh' = fresh \ {c}
  /\ lease' = [lease EXCEPT ![c] = c]
  /\ UNCHANGED shut

Abandon(c) ==
  /\ c \in fresh
  /\ fresh' = fresh \ {c}
  /\ UNCHANGED <<current, usable, lease, shut>>

Lend(c) ==
  /\ ~shut
  /\ current[KeyOf[c]] # None
  /\ lease' = [lease EXCEPT ![c] = current[KeyOf[c]]]
  /\ UNCHANGED <<current, usable, fresh, shut>>

GiveBack(c) ==
  /\ lease' = [lease EXCEPT ![c] = None]
  /\ UNCHANGED <<current, usable, fresh, shut>>

(* A command closes the connection that it alone leases. *)
CloseOwn(c) ==
  /\ lease[c] # None
  /\ Lessees(lease[c]) = {c}
  /\ usable' = usable \ {lease[c]}
  /\ UNCHANGED <<current, fresh, lease, shut>>

(* The same, and it stops being current; the lease may end with it. *)
DropOwn(c) ==
  /\ current[KeyOf[c]] # None
  /\ Lessees(current[KeyOf[c]]) \subseteq {c}
  /\ usable' = usable \ {current[KeyOf[c]]}
  /\ current' = [current EXCEPT ![KeyOf[c]] = None]
  /\ lease' \in {lease, [lease EXCEPT ![c] = None]}
  /\ UNCHANGED <<fresh, shut>>

(* Connections nobody leases go. *)
DropUnused ==
  /\ \E S \in SUBSET Keys :
       /\ \A k \in S : current[k] # None /\ Lessees(current[k]) = {}
       /\ current' = [k \in Keys |-> IF k \in S THEN None ELSE current[k]]
       /\ usable' = usable \ {current[k] : k \in S}
  /\ UNCHANGED <<fresh, lease, shut>>

Shutdown ==
  /\ shut' = TRUE
  /\ current' = [k \in Keys |-> None]
  /\ usable' = {}
  /\ UNCHANGED <<fresh, lease>>

SharedNext ==
  \/ \E c \in Calls :
       \/ Make(c) \/ Publish(c) \/ Abandon(c) \/ Lend(c)
       \/ GiveBack(c) \/ CloseOwn(c) \/ DropOwn(c)
  \/ DropUnused
  \/ Shutdown

SharedSpec == SharedInit /\ [][SharedNext]_sharedVars
=============================================================================

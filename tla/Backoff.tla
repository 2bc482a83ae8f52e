------------------------------ MODULE Backoff ------------------------------
(***************************************************************************)
(* The arithmetic of a host bucket (internal/ssh/ratelimit.go): how the    *)
(* delay between commands grows and shrinks, and which time slot a command *)
(* gets.  Durations and times are natural numbers of one unit.             *)
(***************************************************************************)
EXTENDS Integers

CONSTANT MaxDelay   \* the 30 second ceiling of OnTransportError

ASSUME MaxDelayAssumption == MaxDelay \in Nat \ {0}

(* Doubles the delay, up to the ceiling. *)
OnTransportErrorDelay(d) == IF 2 * d > MaxDelay THEN MaxDelay ELSE 2 * d

(* Halves a raised delay, down to the configured delay. *)
OnSuccessDelay(d, base) ==
  IF d > base THEN IF d \div 2 < base THEN base ELSE d \div 2 ELSE d

(* The slot of a command that reserves at time now. *)
NextSlot(now, nextAllowed, d) ==
  (IF now > nextAllowed THEN now ELSE nextAllowed) + d
=============================================================================

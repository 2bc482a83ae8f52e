---------------------------- MODULE RateLimiter ----------------------------
(***************************************************************************)
(* RateLimiter of internal/ssh/ratelimit.go: one bucket per canonical host,*)
(* created by the first call that needs it, with a semaphore of MaxConns   *)
(* slots and a clock of reserved start times.  A call is one goroutine     *)
(* between Acquire and the release function Acquire hands it.              *)
(*                                                                         *)
(* A bucket is named by the call that created it, so that two buckets made *)
(* for one host by racing calls would be two buckets.                      *)
(***************************************************************************)
EXTENDS Backoff, FiniteSets

CONSTANTS
  Calls,      \* the calls of Acquire, one goroutine each
  Hosts,      \* canonical hosts (IP:port)
  HostOf,     \* [Calls -> Hosts]: the host a call is for
  MaxConns,   \* [Hosts -> Nat]: HostConfig.MaxConns
  BaseDelay,  \* [Hosts -> Nat]: HostConfig.Delay
  MaxTime,    \* bound: time passes beyond it only to let a sleeper wake
  None

ASSUME LimiterAssumption ==
  /\ IsFiniteSet(Calls)
  /\ HostOf \in [Calls -> Hosts]
  /\ MaxConns \in [Hosts -> Nat]
  /\ BaseDelay \in [Hosts -> Nat]
  /\ MaxTime \in Nat
  /\ None \notin Calls \cup Nat

VARIABLES
  now,          \* time.Now()
  buckets,      \* RateLimiter.buckets: [Hosts -> Calls \cup {None}]
  ref,          \* the bucket getBucket returned to a call, or None
  sem,          \* hostBucket.sem: tokens in the channel, per bucket
  currentDelay, \* hostBucket.currentDelay, per bucket
  nextAllowed,  \* hostBucket.nextAllowedAt, per bucket
  pc,           \* where each call is
  slot,         \* mySlot of a call that has reserved, or None
  cancelled     \* calls whose context is done

limiterVars == <<buckets, ref, sem, currentDelay, nextAllowed>>
vars == <<now, limiterVars, pc, slot, cancelled>>

Buckets == Calls
Host(c) == HostOf[c]

(* "missed": the read-locked lookup found no bucket.  "sem": blocked on    *)
(* the semaphore.  "timing": has a token, has not reserved yet.  "sleep":  *)
(* waits for its slot.  "held": Acquire returned.  "connected": the dial   *)
(* succeeded.  "running": the command runs.  "failed": the dial failed and *)
(* the slot is given back.  "done", "gaveUp": Acquire's caller is through. *)
PCs == {"idle", "missed", "sem", "timing", "sleep", "held", "connected",
        "running", "failed", "done", "gaveUp"}

HoldingPCs == {"timing", "sleep", "held", "connected", "running"}

Holders(h) == {c \in Calls : Host(c) = h /\ pc[c] \in HoldingPCs}

Init ==
  /\ now = 0
  /\ buckets = [h \in Hosts |-> None]
  /\ ref = [c \in Calls |-> None]
  /\ sem = [b \in Buckets |-> 0]
  /\ currentDelay = [b \in Buckets |-> 0]
  /\ nextAllowed = [b \in Buckets |-> 0]
  /\ pc = [c \in Calls |-> "idle"]
  /\ slot = [c \in Calls |-> None]
  /\ cancelled = {}

Goto(c, to) == pc' = [pc EXCEPT ![c] = to]
----------------------------------------------------------------------------
(* getBucket: the lookup under the read lock. *)
LookUp(c) ==
  /\ pc[c] = "idle"
  /\ IF buckets[Host(c)] = None
       THEN /\ Goto(c, "missed")
            /\ UNCHANGED ref
       ELSE /\ Goto(c, "sem")
            /\ ref' = [ref EXCEPT ![c] = buckets[Host(c)]]
  /\ UNCHANGED <<now, buckets, sem, currentDelay, nextAllowed, slot, cancelled>>

(* Fault: the bucket is created without looking again under the write lock. *)
Create_Unchecked(c) ==
  /\ pc[c] = "missed"
  /\ buckets' = [buckets EXCEPT ![Host(c)] = c]
  /\ ref' = [ref EXCEPT ![c] = c]
  /\ currentDelay' = [currentDelay EXCEPT ![c] = BaseDelay[Host(c)]]
  /\ Goto(c, "sem")
  /\ UNCHANGED <<now, sem, nextAllowed, slot, cancelled>>

(* getBucket: the second look and the creation under the write lock. *)
Create(c) ==
  /\ pc[c] = "missed"
  /\ IF buckets[Host(c)] # None
       THEN /\ ref' = [ref EXCEPT ![c] = buckets[Host(c)]]
            /\ UNCHANGED <<buckets, currentDelay>>
       ELSE /\ buckets' = [buckets EXCEPT ![Host(c)] = c]
            /\ ref' = [ref EXCEPT ![c] = c]
            /\ currentDelay' = [currentDelay EXCEPT ![c] = BaseDelay[Host(c)]]
  /\ Goto(c, "sem")
  /\ UNCHANGED <<now, sem, nextAllowed, slot, cancelled>>

(* Step 1 of Acquire: a token of the bucket's semaphore. *)
TakeToken(c) ==
  /\ pc[c] = "sem"
  /\ sem[ref[c]] < MaxConns[Host(c)]
  /\ sem' = [sem EXCEPT ![ref[c]] = @ + 1]
  /\ Goto(c, "timing")
  /\ UNCHANGED <<now, buckets, ref, currentDelay, nextAllowed, slot, cancelled>>

(* Fault: gives back a token it does not have. *)
CancelWait_Releases(c) ==
  /\ pc[c] = "sem"
  /\ c \in cancelled
  /\ sem' = [sem EXCEPT ![ref[c]] = @ - 1]
  /\ Goto(c, "gaveUp")
  /\ UNCHANGED <<now, buckets, ref, currentDelay, nextAllowed, slot, cancelled>>

(* Step 1 of Acquire, the context first. *)
CancelWait(c) ==
  /\ pc[c] = "sem"
  /\ c \in cancelled
  /\ Goto(c, "gaveUp")
  /\ UNCHANGED <<now, limiterVars, slot, cancelled>>

(* Fault: the reservation does not move nextAllowedAt. *)
Reserve_KeepsNext(c) ==
  /\ pc[c] = "timing"
  /\ LET b == ref[c]
         s == NextSlot(now, nextAllowed[b], currentDelay[b])
     IN  /\ slot' = [slot EXCEPT ![c] = s]
         /\ Goto(c, IF s > now THEN "sleep" ELSE "held")
  /\ UNCHANGED <<now, limiterVars, cancelled>>

(* Steps 2 to 5 of Acquire, under timingMu; no wait if the slot is now. *)
Reserve(c) ==
  /\ pc[c] = "timing"
  /\ LET b == ref[c]
         s == NextSlot(now, nextAllowed[b], currentDelay[b])
     IN  /\ slot' = [slot EXCEPT ![c] = s]
         /\ nextAllowed' = [nextAllowed EXCEPT ![b] = s]
         /\ Goto(c, IF s > now THEN "sleep" ELSE "held")
  /\ UNCHANGED <<now, buckets, ref, sem, currentDelay, cancelled>>

(* Fault: a call does not wait for its slot. *)
Wake_Early(c) ==
  /\ pc[c] = "sleep"
  /\ Goto(c, "held")
  /\ UNCHANGED <<now, limiterVars, slot, cancelled>>

(* Step 6: the timer fires at the slot or later. *)
Wake(c) ==
  /\ pc[c] = "sleep"
  /\ now >= slot[c]
  /\ Goto(c, "held")
  /\ UNCHANGED <<now, limiterVars, slot, cancelled>>

(* Fault: the cancelled sleeper keeps its token. *)
CancelSleep_KeepsToken(c) ==
  /\ pc[c] = "sleep"
  /\ c \in cancelled
  /\ Goto(c, "gaveUp")
  /\ UNCHANGED <<now, limiterVars, slot, cancelled>>

(* Step 6, the context first: the token goes back, the slot stays reserved. *)
CancelSleep(c) ==
  /\ pc[c] = "sleep"
  /\ c \in cancelled
  /\ sem' = [sem EXCEPT ![ref[c]] = @ - 1]
  /\ Goto(c, "gaveUp")
  /\ UNCHANGED <<now, buckets, ref, currentDelay, nextAllowed, slot, cancelled>>
----------------------------------------------------------------------------
(* What Pool.Get and its caller do with the slot (internal/ssh/pool.go).   *)

(* Fault: the delay is halved below the configured one. *)
OnSuccess_NoFloor(c) ==
  /\ pc[c] = "held"
  /\ currentDelay' = [currentDelay EXCEPT ![buckets[Host(c)]] = @ \div 2]
  /\ Goto(c, "connected")
  /\ UNCHANGED <<now, buckets, ref, sem, nextAllowed, slot, cancelled>>

(* A dial succeeded: OnSuccess. *)
OnSuccess(c) ==
  /\ pc[c] = "held"
  /\ currentDelay' = [currentDelay EXCEPT ![buckets[Host(c)]] =
                        OnSuccessDelay(@, BaseDelay[Host(c)])]
  /\ Goto(c, "connected")
  /\ UNCHANGED <<now, buckets, ref, sem, nextAllowed, slot, cancelled>>

(* The command starts, on a pooled connection or on the new one. *)
Start(c) ==
  /\ pc[c] \in {"held", "connected"}
  /\ Goto(c, "running")
  /\ UNCHANGED <<now, limiterVars, slot, cancelled>>

(* The release function: the command ended, or Get failed without a dial. *)
Release(c) ==
  /\ pc[c] \in {"held", "connected", "running"}
  /\ sem' = [sem EXCEPT ![ref[c]] = @ - 1]
  /\ Goto(c, "done")
  /\ UNCHANGED <<now, buckets, ref, currentDelay, nextAllowed, slot, cancelled>>

(* A dial failed: the slot goes back before the delay is raised. *)
DialFails(c) ==
  /\ pc[c] = "held"
  /\ sem' = [sem EXCEPT ![ref[c]] = @ - 1]
  /\ Goto(c, "failed")
  /\ UNCHANGED <<now, buckets, ref, currentDelay, nextAllowed, slot, cancelled>>

(* OnTransportError, which a cancelled dial does not report. *)
OnTransportError(c) ==
  /\ pc[c] = "failed"
  /\ currentDelay' = IF c \in cancelled THEN currentDelay
                     ELSE [currentDelay EXCEPT ![buckets[Host(c)]] =
                             OnTransportErrorDelay(@)]
  /\ Goto(c, "done")
  /\ UNCHANGED <<now, buckets, ref, sem, nextAllowed, slot, cancelled>>

(* A context can end at any time; it matters, and is modelled, only where  *)
(* the call looks at it.                                                   *)
Cancel(c) ==
  /\ c \notin cancelled
  /\ pc[c] \in {"sem", "sleep", "failed"}
  /\ cancelled' = cancelled \cup {c}
  /\ UNCHANGED <<now, limiterVars, pc, slot>>

Tick ==
  /\ \/ now < MaxTime
     \/ \E c \in Calls : pc[c] = "sleep" /\ slot[c] > now
  /\ now' = now + 1
  /\ UNCHANGED <<limiterVars, pc, slot, cancelled>>

Next ==
  \/ Tick
  \/ \E c \in Calls :
       \/ LookUp(c) \/ Create(c) \/ TakeToken(c) \/ CancelWait(c)
       \/ Reserve(c) \/ Wake(c) \/ CancelSleep(c)
       \/ OnSuccess(c) \/ Start(c) \/ Release(c)
       \/ DialFails(c) \/ OnTransportError(c) \/ Cancel(c)

(* Goroutines are scheduled, timers fire, and commands end.  Cancellation   *)
(* is never promised.                                                       *)
Fairness ==
  /\ WF_vars(Tick)
  /\ \A c \in Calls :
       WF_vars(\/ LookUp(c) \/ Create(c) \/ TakeToken(c) \/ CancelWait(c)
               \/ Reserve(c) \/ Wake(c) \/ Release(c) \/ OnTransportError(c))

Spec == Init /\ [][Next]_vars /\ Fairness
----------------------------------------------------------------------------
TypeOK ==
  /\ now \in Nat
  /\ buckets \in [Hosts -> Buckets \cup {None}]
  /\ ref \in [Calls -> Buckets \cup {None}]
  /\ sem \in [Buckets -> Nat]
  /\ currentDelay \in [Buckets -> Nat]
  /\ nextAllowed \in [Buckets -> Nat]
  /\ pc \in [Calls -> PCs]
  /\ slot \in [Calls -> Nat \cup {None}]
  /\ cancelled \subseteq Calls

(* Per-host limit ("Maximum concurrent connections."): however many calls  *)
(* race to create the bucket of a host, no more of them than MaxConns are  *)
(* between Acquire and its release, cancelled ones included.               *)
WithinMaxConns ==
  \A h \in Hosts : Cardinality(Holders(h)) <= MaxConns[h]

(* The spacing a host can count on: its configured delay, or the ceiling   *)
(* if that is less, since an error puts even a longer delay to the ceiling.*)
Spacing(h) == IF BaseDelay[h] < MaxDelay THEN BaseDelay[h] ELSE MaxDelay

(* The start times Acquire hands out on a host are pairwise at least its   *)
(* spacing apart, whatever errors and successes did to the delay and       *)
(* whoever gave up in between.                                             *)
SlotsSpaced ==
  \A c, d \in Calls :
    /\ c # d
    /\ Host(c) = Host(d)
    /\ slot[c] # None
    /\ slot[d] # None
    => \/ slot[c] >= slot[d] + Spacing(Host(c))
       \/ slot[d] >= slot[c] + Spacing(Host(c))

(* Throughput: n calls let through on a host take at least n spacings,     *)
(* counted from the start of the program, and none runs before its slot.   *)
LetThrough(h) ==
  {c \in Calls : Host(c) = h
     /\ pc[c] \in {"held", "connected", "running", "failed", "done"}}

Throughput ==
  \A h \in Hosts : Cardinality(LetThrough(h)) * Spacing(h) <= now

(* The delay of a host's bucket is never below the lesser of the           *)
(* configured delay and the ceiling, and above the configured delay it     *)
(* does not pass the ceiling (OnTransportError, OnSuccess).                *)
DelayInRange ==
  \A h \in Hosts :
    buckets[h] # None =>
      /\ currentDelay[buckets[h]] >= Spacing(h)
      /\ \/ currentDelay[buckets[h]] <= BaseDelay[h]
         \/ currentDelay[buckets[h]] <= MaxDelay

(* Every call that asks for a slot gets through or gives up: tokens come   *)
(* back on every path, also from a sleeper that is cancelled.              *)
Served == \A c \in Calls : pc[c] = "sem" ~> pc[c] \in {"done", "gaveUp"}
=============================================================================

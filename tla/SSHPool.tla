------------------------------ MODULE SSHPool ------------------------------
(***************************************************************************)
(* Pool and SSHClient of internal/ssh (pool.go, client.go): commands share *)
(* one SSH connection per connectionKey, under a per-key lock, a per-host  *)
(* semaphore and the pool's own mutex, while connections die, idle ones    *)
(* are reaped, contexts end and the pool is closed.                        *)
(*                                                                         *)
(* A call is one execInternal: it gets a connection, opens a session, runs *)
(* its command and releases.  A call dials at most once, so the connection *)
(* it makes bears its name: Conns == Calls.  A critical section of p.mu    *)
(* (with the entry.mu sections inside it) is one action.  The times of the *)
(* rate limiter are in module RateLimiter; here waiting for a slot is a    *)
(* state, and the limiter's semaphore and delay are kept per host.         *)
(***************************************************************************)
EXTENDS Backoff, FiniteSets

CONSTANTS
  Calls,      \* the commands to run
  Keys,       \* connection keys: host, user, identity, forwarding
  Hosts,      \* canonical hosts
  KeyOf,      \* [Calls -> Keys]
  HostOf,     \* [Keys -> Hosts]
  MaxConns,   \* [Hosts -> Nat]: HostConfig.MaxConns
  BaseDelay,  \* [Hosts -> Nat]: HostConfig.Delay
  Cancellable,\* the calls whose context may end; context.Background() never does
  None

ASSUME PoolAssumption ==
  /\ IsFiniteSet(Calls)
  /\ KeyOf \in [Calls -> Keys]
  /\ HostOf \in [Keys -> Hosts]
  /\ MaxConns \in [Hosts -> Nat]
  /\ BaseDelay \in [Hosts -> Nat]
  /\ None \notin Calls

VARIABLES
  pc,          \* where each call is
  result,      \* what execInternal returned, or "pending"
  conn,        \* the connection a call is counted on (entry.active), or None
  link,        \* each connection: "none", "up", "dead" or "closed"
  pooled,      \* Pool.connections: [Keys -> Conns \cup {None}]
  active,      \* poolEntry.active of each connection's entry
  idle,        \* the connections unused for longer than idleTimeout
  keyLock,     \* Pool.keyLocks: the call that holds a key's lock, or None
  sem,         \* tokens in the semaphore of each host's bucket
  currentDelay,\* hostBucket.currentDelay of each host
  cancelled,   \* the calls whose context is done
  closed       \* Pool.closed

poolVars == <<link, pooled, active, idle, closed>>
limiterVars == <<sem, currentDelay>>
vars == <<pc, result, conn, poolVars, keyLock, limiterVars, cancelled>>

Conns == Calls
Key(c) == KeyOf[c]
Host(c) == HostOf[KeyOf[c]]

(* "dead": the transport is gone and the client has not been closed yet.   *)
Links == {"none", "up", "dead", "closed"}

Results == {"pending", "ok", "error", "cancelled"}

(* Waiting for the key's lock in Get, and inside it. *)
GetLockedPCs == {"check", "probe", "evict", "dial", "handshake", "install",
                 "handOut", "report", "unwind"}
LockedPCs == GetLockedPCs \cup {"removing"}

(* With a connection in hand: the caller's part of the call. *)
UsingPCs == {"session", "running", "remove", "removing", "release"}

SlotPCs == {"sleep", "lock", "check", "probe", "evict", "dial", "handshake",
            "install", "handOut", "freeSlot"} \cup UsingPCs

PCs == {"start", "done"} \cup LockedPCs \cup SlotPCs

Users(e) == {c \in Calls : conn[c] = e}
SlotHolders(h) == {c \in Calls : Host(c) = h /\ pc[c] \in SlotPCs}

Init ==
  /\ pc = [c \in Calls |-> "start"]
  /\ result = [c \in Calls |-> "pending"]
  /\ conn = [c \in Calls |-> None]
  /\ link = [e \in Conns |-> "none"]
  /\ pooled = [k \in Keys |-> None]
  /\ active = [e \in Conns |-> 0]
  /\ idle = {}
  /\ keyLock = [k \in Keys |-> None]
  /\ sem = [h \in Hosts |-> 0]
  /\ currentDelay = BaseDelay
  /\ cancelled = {}
  /\ closed = FALSE

Goto(c, to) == pc' = [pc EXCEPT ![c] = to]
Return(c, r) == result' = [result EXCEPT ![c] = r]
SlotRelease(c) == sem' = [sem EXCEPT ![Host(c)] = @ - 1]
Unlock(c) == keyLock' = [keyLock EXCEPT ![Key(c)] = None]
----------------------------------------------------------------------------
(* Get: the slot of the rate limiter.                                      *)

AcquireSlot(c) ==
  /\ pc[c] = "start"
  /\ sem[Host(c)] < MaxConns[Host(c)]
  /\ sem' = [sem EXCEPT ![Host(c)] = @ + 1]
  /\ Goto(c, "sleep")
  /\ UNCHANGED <<result, conn, poolVars, keyLock, currentDelay, cancelled>>

(* Fault: gives back a slot it does not have. *)
CancelAcquire_Releases(c) ==
  /\ pc[c] = "start"
  /\ c \in cancelled
  /\ SlotRelease(c)
  /\ Goto(c, "done")
  /\ Return(c, "cancelled")
  /\ UNCHANGED <<conn, poolVars, keyLock, currentDelay, cancelled>>

CancelAcquire(c) ==
  /\ pc[c] = "start"
  /\ c \in cancelled
  /\ Goto(c, "done")
  /\ Return(c, "cancelled")
  /\ UNCHANGED <<conn, poolVars, keyLock, limiterVars, cancelled>>

SlotArrives(c) ==
  /\ pc[c] = "sleep"
  /\ Goto(c, "lock")
  /\ UNCHANGED <<result, conn, poolVars, keyLock, limiterVars, cancelled>>

(* While it sleeps for its slot, or waits for the key's lock. *)
CancelWait(c) ==
  /\ pc[c] \in {"sleep", "lock"}
  /\ c \in cancelled
  /\ SlotRelease(c)
  /\ Goto(c, "done")
  /\ Return(c, "cancelled")
  /\ UNCHANGED <<conn, poolVars, keyLock, currentDelay, cancelled>>
----------------------------------------------------------------------------
(* Get: under the key's lock.                                              *)

LockKey(c) ==
  /\ pc[c] = "lock"
  /\ keyLock[Key(c)] = None
  /\ keyLock' = [keyLock EXCEPT ![Key(c)] = c]
  /\ Goto(c, "check")
  /\ UNCHANGED <<result, conn, poolVars, limiterVars, cancelled>>

(* Fault: a closed pool keeps the slot. *)
RefuseClosed_KeepsSlot(c) ==
  /\ pc[c] = "check"
  /\ closed
  /\ Goto(c, "unwind")
  /\ Return(c, "error")
  /\ UNCHANGED <<conn, poolVars, keyLock, limiterVars, cancelled>>

RefuseClosed(c) ==
  /\ pc[c] = "check"
  /\ closed
  /\ SlotRelease(c)
  /\ Goto(c, "unwind")
  /\ Return(c, "error")
  /\ UNCHANGED <<conn, poolVars, keyLock, currentDelay, cancelled>>

(* Fault: a shared connection is probed too. *)
TakePooled_ProbesShared(c) ==
  /\ pc[c] = "check"
  /\ ~closed
  /\ pooled[Key(c)] # None
  /\ active' = [active EXCEPT ![pooled[Key(c)]] = @ + 1]
  /\ conn' = [conn EXCEPT ![c] = pooled[Key(c)]]
  /\ Goto(c, "probe")
  /\ UNCHANGED <<result, link, pooled, idle, closed, keyLock, limiterVars,
                 cancelled>>

(* An entry exists: count in, and probe it unless a live session shares it.*)
TakePooled(c) ==
  /\ pc[c] = "check"
  /\ ~closed
  /\ pooled[Key(c)] # None
  /\ LET e == pooled[Key(c)]
     IN  /\ active' = [active EXCEPT ![e] = @ + 1]
         /\ conn' = [conn EXCEPT ![c] = e]
         /\ Goto(c, IF active[e] + 1 > 1 THEN "handOut" ELSE "probe")
  /\ UNCHANGED <<result, link, pooled, idle, closed, keyLock, limiterVars,
                 cancelled>>

NoEntry(c) ==
  /\ pc[c] = "check"
  /\ ~closed
  /\ pooled[Key(c)] = None
  /\ Goto(c, "dial")
  /\ UNCHANGED <<result, conn, poolVars, keyLock, limiterVars, cancelled>>

(* keepalive: the server answers. *)
ProbeAnswered(c) ==
  /\ pc[c] = "probe"
  /\ link[conn[c]] = "up"
  /\ Goto(c, "handOut")
  /\ UNCHANGED <<result, conn, poolVars, keyLock, limiterVars, cancelled>>

(* keepalive: the request fails. *)
ProbeFails(c) ==
  /\ pc[c] = "probe"
  /\ link[conn[c]] # "up"
  /\ Goto(c, "evict")
  /\ UNCHANGED <<result, conn, poolVars, keyLock, limiterVars, cancelled>>

(* keepalive: the context ends, or five seconds pass; the client is closed.*)
ProbeAbandoned(c) ==
  /\ pc[c] = "probe"
  /\ link' = [link EXCEPT ![conn[c]] = "closed"]
  /\ Goto(c, "evict")
  /\ UNCHANGED <<result, conn, pooled, active, idle, closed, keyLock,
                 limiterVars, cancelled>>

(* Fault: the evicting call stays counted on the dead entry. *)
Evict_StaysCounted(c) ==
  /\ pc[c] = "evict"
  /\ pooled' = [pooled EXCEPT ![Key(c)] = None]
  /\ link' = [link EXCEPT ![conn[c]] = "closed"]
  /\ conn' = [conn EXCEPT ![c] = None]
  /\ IF c \in cancelled
       THEN SlotRelease(c) /\ Goto(c, "unwind") /\ Return(c, "cancelled")
       ELSE Goto(c, "dial") /\ UNCHANGED <<sem, result>>
  /\ UNCHANGED <<active, idle, closed, keyLock, currentDelay, cancelled>>

(* The dead entry leaves the pool; a live context dials afresh. *)
Evict(c) ==
  /\ pc[c] = "evict"
  /\ pooled' = [pooled EXCEPT ![Key(c)] = None]
  /\ active' = [active EXCEPT ![conn[c]] = @ - 1]
  /\ link' = [link EXCEPT ![conn[c]] = "closed"]
  /\ conn' = [conn EXCEPT ![c] = None]
  /\ IF c \in cancelled
       THEN SlotRelease(c) /\ Goto(c, "unwind") /\ Return(c, "cancelled")
       ELSE Goto(c, "dial") /\ UNCHANGED <<sem, result>>
  /\ UNCHANGED <<idle, closed, keyLock, currentDelay, cancelled>>

(* dial: the TCP connection, which the context can cancel. *)
Connect(c) ==
  /\ pc[c] = "dial"
  /\ Goto(c, "handshake")
  /\ UNCHANGED <<result, conn, poolVars, keyLock, limiterVars, cancelled>>

(* dial fails: no auth method, no TCP connection, or the context ended.    *)
ConnectFails(c) ==
  /\ pc[c] = "dial"
  /\ SlotRelease(c)
  /\ Goto(c, "report")
  /\ Return(c, IF c \in cancelled THEN "cancelled" ELSE "error")
  /\ UNCHANGED <<conn, poolVars, keyLock, currentDelay, cancelled>>

(* dial: the SSH handshake, which knows no context, then OnSuccess. *)
Handshake(c) ==
  /\ pc[c] = "handshake"
  /\ link' = [link EXCEPT ![c] = "up"]
  /\ currentDelay' = [currentDelay EXCEPT ![Host(c)] =
                        OnSuccessDelay(@, BaseDelay[Host(c)])]
  /\ Goto(c, "install")
  /\ UNCHANGED <<result, conn, pooled, active, idle, closed, keyLock, sem,
                 cancelled>>

HandshakeFails(c) ==
  /\ pc[c] = "handshake"
  /\ SlotRelease(c)
  /\ Goto(c, "report")
  /\ Return(c, "error")
  /\ UNCHANGED <<conn, poolVars, keyLock, currentDelay, cancelled>>

(* OnTransportError, unless the context ended. *)
Report(c) ==
  /\ pc[c] = "report"
  /\ currentDelay' = IF c \in cancelled THEN currentDelay
                     ELSE [currentDelay EXCEPT ![Host(c)] =
                             OnTransportErrorDelay(@)]
  /\ Goto(c, "unwind")
  /\ UNCHANGED <<result, conn, poolVars, keyLock, sem, cancelled>>

(* Fault: a failed Get keeps the key's lock. *)
Unwind_KeepsLock(c) ==
  /\ pc[c] = "unwind"
  /\ Goto(c, "done")
  /\ UNCHANGED <<result, conn, poolVars, keyLock, limiterVars, cancelled>>

(* A failed Get returns: the deferred release of the key's lock. *)
Unwind(c) ==
  /\ pc[c] = "unwind"
  /\ Unlock(c)
  /\ Goto(c, "done")
  /\ UNCHANGED <<result, conn, poolVars, limiterVars, cancelled>>

(* Fault: p.closed is not looked at again after the dial. *)
Install_Unchecked(c) ==
  /\ pc[c] = "install"
  /\ pooled' = [pooled EXCEPT ![Key(c)] = c]
  /\ active' = [active EXCEPT ![c] = 1]
  /\ conn' = [conn EXCEPT ![c] = c]
  /\ Goto(c, "handOut")
  /\ UNCHANGED <<result, link, idle, closed, keyLock, limiterVars, cancelled>>

(* The new connection enters the pool, unless the pool closed meanwhile. *)
Install(c) ==
  /\ pc[c] = "install"
  /\ IF closed
       THEN /\ link' = [link EXCEPT ![c] = "closed"]
            /\ SlotRelease(c)
            /\ Goto(c, "unwind")
            /\ Return(c, "error")
            /\ UNCHANGED <<pooled, active, conn>>
       ELSE /\ pooled' = [pooled EXCEPT ![Key(c)] = c]
            /\ active' = [active EXCEPT ![c] = 1]
            /\ conn' = [conn EXCEPT ![c] = c]
            /\ Goto(c, "handOut")
            /\ UNCHANGED <<link, sem, result>>
  /\ UNCHANGED <<idle, closed, keyLock, currentDelay, cancelled>>

(* A successful Get returns: lastUsed is now, the key's lock is released.  *)
HandOut(c) ==
  /\ pc[c] = "handOut"
  /\ idle' = idle \ {conn[c]}
  /\ Unlock(c)
  /\ Goto(c, "session")
  /\ UNCHANGED <<result, conn, link, pooled, active, closed, limiterVars,
                 cancelled>>
----------------------------------------------------------------------------
(* execInternal: the session.                                              *)

OpenSession(c) ==
  /\ pc[c] = "session"
  /\ link[conn[c]] = "up"
  /\ Goto(c, "running")
  /\ UNCHANGED <<result, conn, poolVars, keyLock, limiterVars, cancelled>>

(* The connection is gone, or the server refuses a session. *)
SessionFails(c) ==
  /\ pc[c] = "session"
  /\ Goto(c, "remove")
  /\ Return(c, "error")
  /\ UNCHANGED <<conn, poolVars, keyLock, limiterVars, cancelled>>

(* Remove: the key's lock, which no context interrupts. *)
RemoveLock(c) ==
  /\ pc[c] = "remove"
  /\ keyLock[Key(c)] = None
  /\ keyLock' = [keyLock EXCEPT ![Key(c)] = c]
  /\ Goto(c, "removing")
  /\ UNCHANGED <<result, conn, poolVars, limiterVars, cancelled>>

(* Fault: removes the entry under the feet of other calls. *)
Remove_Anyway(c) ==
  /\ pc[c] = "removing"
  /\ LET e == pooled[Key(c)]
     IN  IF e # None
           THEN /\ link' = [link EXCEPT ![e] = "closed"]
                /\ pooled' = [pooled EXCEPT ![Key(c)] = None]
           ELSE UNCHANGED <<link, pooled>>
  /\ Unlock(c)
  /\ Goto(c, "release")
  /\ UNCHANGED <<result, conn, active, idle, closed, limiterVars, cancelled>>

(* Remove: whatever entry the key now has, unless another call uses it. *)
Remove(c) ==
  /\ pc[c] = "removing"
  /\ LET e == pooled[Key(c)]
     IN  IF e # None /\ active[e] <= 1
           THEN /\ link' = [link EXCEPT ![e] = "closed"]
                /\ pooled' = [pooled EXCEPT ![Key(c)] = None]
           ELSE UNCHANGED <<link, pooled>>
  /\ Unlock(c)
  /\ Goto(c, "release")
  /\ UNCHANGED <<result, conn, active, idle, closed, limiterVars, cancelled>>

(* The command exits, with whatever status. *)
CommandEnds(c) ==
  /\ pc[c] = "running"
  /\ link[conn[c]] = "up"
  /\ Goto(c, "release")
  /\ Return(c, "ok")
  /\ UNCHANGED <<conn, poolVars, keyLock, limiterVars, cancelled>>

(* The session ends without an exit status. *)
CommandBreaks(c) ==
  /\ pc[c] = "running"
  /\ Goto(c, "release")
  /\ Return(c, "error")
  /\ UNCHANGED <<conn, poolVars, keyLock, limiterVars, cancelled>>

(* Fault: only a broken session makes a running command look at its context.*)
CancelCommand_Unheard(c) ==
  /\ pc[c] = "running"
  /\ c \in cancelled
  /\ link[conn[c]] # "up"
  /\ Goto(c, "release")
  /\ Return(c, "cancelled")
  /\ UNCHANGED <<conn, poolVars, keyLock, limiterVars, cancelled>>

CancelCommand(c) ==
  /\ pc[c] = "running"
  /\ c \in cancelled
  /\ Goto(c, "release")
  /\ Return(c, "cancelled")
  /\ UNCHANGED <<conn, poolVars, keyLock, limiterVars, cancelled>>

(* The deferred release: the entry first, then the slot. *)
Release(c) ==
  /\ pc[c] = "release"
  /\ active' = [active EXCEPT ![conn[c]] = @ - 1]
  /\ idle' = idle \ {conn[c]}
  /\ conn' = [conn EXCEPT ![c] = None]
  /\ Goto(c, "freeSlot")
  /\ UNCHANGED <<result, link, pooled, closed, keyLock, limiterVars, cancelled>>

FreeSlot(c) ==
  /\ pc[c] = "freeSlot"
  /\ SlotRelease(c)
  /\ Goto(c, "done")
  /\ UNCHANGED <<result, conn, poolVars, keyLock, currentDelay, cancelled>>
----------------------------------------------------------------------------
(* Everything else that happens to the pool.                               *)

Cancel(c) ==
  /\ pc[c] # "done"
  /\ c \in Cancellable /\ c \notin cancelled
  /\ cancelled' = cancelled \cup {c}
  /\ UNCHANGED <<pc, result, conn, poolVars, keyLock, limiterVars>>

(* The server or the network drops a connection. *)
LinkDies(e) ==
  /\ link[e] = "up"
  /\ link' = [link EXCEPT ![e] = "dead"]
  /\ UNCHANGED <<pc, result, conn, pooled, active, idle, closed, keyLock,
                 limiterVars, cancelled>>

(* idleTimeout passes since the last use of a pooled connection. *)
GoesIdle(e) ==
  /\ e \notin idle
  /\ \E k \in Keys : pooled[k] = e
  /\ idle' = idle \cup {e}
  /\ UNCHANGED <<pc, result, conn, link, pooled, active, closed, keyLock,
                 limiterVars, cancelled>>

Expired(k) == pooled[k] # None /\ pooled[k] \in idle /\ active[pooled[k]] = 0

(* reapIdle, in one critical section of p.mu. *)
ReapIdle ==
  /\ ~closed
  /\ \E k \in Keys : Expired(k)
  /\ link' = [e \in Conns |->
                IF \E k \in Keys : Expired(k) /\ pooled[k] = e
                  THEN "closed" ELSE link[e]]
  /\ pooled' = [k \in Keys |-> IF Expired(k) THEN None ELSE pooled[k]]
  /\ UNCHANGED <<pc, result, conn, active, idle, closed, keyLock, limiterVars,
                 cancelled>>

(* Close: every pooled connection, in use or not. *)
Close ==
  /\ ~closed
  /\ closed' = TRUE
  /\ link' = [e \in Conns |->
                IF \E k \in Keys : pooled[k] = e THEN "closed" ELSE link[e]]
  /\ pooled' = [k \in Keys |-> None]
  /\ UNCHANGED <<pc, result, conn, active, idle, keyLock, limiterVars,
                 cancelled>>
----------------------------------------------------------------------------
GetSteps(c) ==
  \/ AcquireSlot(c) \/ CancelAcquire(c) \/ SlotArrives(c) \/ CancelWait(c)
  \/ LockKey(c) \/ RefuseClosed(c) \/ TakePooled(c) \/ NoEntry(c)
  \/ ProbeAnswered(c) \/ ProbeFails(c) \/ ProbeAbandoned(c) \/ Evict(c)
  \/ Connect(c) \/ ConnectFails(c) \/ Report(c) \/ Unwind(c)
  \/ Install(c) \/ HandOut(c)

HandshakeSteps(c) == Handshake(c) \/ HandshakeFails(c)

SessionSteps(c) ==
  \/ OpenSession(c) \/ SessionFails(c) \/ RemoveLock(c) \/ Remove(c)
  \/ CancelCommand(c) \/ Release(c) \/ FreeSlot(c)

CommandSteps(c) == CommandEnds(c) \/ CommandBreaks(c)

Next ==
  \/ \E c \in Calls :
       \/ GetSteps(c) \/ HandshakeSteps(c) \/ SessionSteps(c)
       \/ CommandSteps(c) \/ Cancel(c) \/ LinkDies(c) \/ GoesIdle(c)
  \/ ReapIdle
  \/ Close

Spec == Init /\ [][Next]_vars

(* Goroutines are scheduled, the timers of the limiter and of keepalive    *)
(* fire, and a server asked for a session grants it, refuses it or goes.   *)
(* No command is assumed to end: a context is what ends it.                *)
GoroutineFairness == \A c \in Calls : WF_vars(GetSteps(c) \/ SessionSteps(c))

(* Servers also finish, or break off, every handshake they begin. *)
FairSpec == Spec /\ \A c \in Calls :
              WF_vars(GetSteps(c) \/ HandshakeSteps(c) \/ SessionSteps(c))

(* A server may accept the TCP connection and then say nothing more. *)
StallingSpec == Spec /\ GoroutineFairness
----------------------------------------------------------------------------
TypeOK ==
  /\ pc \in [Calls -> PCs]
  /\ result \in [Calls -> Results]
  /\ conn \in [Calls -> Conns \cup {None}]
  /\ link \in [Conns -> Links]
  /\ pooled \in [Keys -> Conns \cup {None}]
  /\ active \in [Conns -> Nat]
  /\ idle \subseteq Conns
  /\ keyLock \in [Keys -> Calls \cup {None}]
  /\ sem \in [Hosts -> Nat]
  /\ currentDelay \in [Hosts -> Nat]
  /\ cancelled \subseteq Calls
  /\ closed \in BOOLEAN

(* "Every call holds a host rate-limiter slot until release": each token   *)
(* in a host's semaphore is one call between Acquire and its release, on   *)
(* every path of Get and execInternal, and they are at most MaxConns.      *)
SlotsConserved ==
  \A h \in Hosts : /\ sem[h] = Cardinality(SlotHolders(h))
                   /\ sem[h] <= MaxConns[h]

(* The reaper and Remove trust entry.active: it is the number of calls     *)
(* that use the connection, whatever was evicted or closed meanwhile.      *)
ActiveIsUsers == \A e \in Conns : active[e] = Cardinality(Users(e))

(* No connection leaks: one that was opened and not closed is either in    *)
(* the pool, where Remove, the reaper and Close will find it, or just made *)
(* by a call that still has to put it there; a closed pool holds none.     *)
NoLeak ==
  /\ \A e \in Conns : link[e] \in {"up", "dead"} =>
       pooled[Key(e)] = e \/ pc[e] = "install"
  /\ closed => \A k \in Keys : pooled[k] = None

(* "Probing it could close that session": a connection is closed, before   *)
(* the pool is, only by the one call that uses it.  Probes, evictions and  *)
(* Remove never end the session of another call.                           *)
NoForeignClose ==
  [][\A e \in Conns :
       link[e] # "closed" /\ link'[e] = "closed" /\ ~closed'
         => \A c \in Users(e) : pc'[c] # pc[c]]_vars

(* A connection that has not been closed, once it is in the pool. *)
Usable == {e \in Conns : link[e] \in {"up", "dead"} /\ pc[e] # "install"}
Fresh == {c \in Calls : pc[c] = "install"}

Shared == INSTANCE SharedConnections WITH
  current <- pooled, usable <- Usable, fresh <- Fresh, lease <- conn, shut <- closed

(* The pool implements the lease of shared connections: however calls and  *)
(* the reaper interleave, a call loses its connection only by what it does *)
(* itself, or because the pool is closed.                                  *)
ImplementsSharing == Shared!SharedSpec

(* A call whose context ends returns, whatever other commands do.          *)
CancelledReturns == \A c \in Calls : c \in cancelled ~> pc[c] = "done"

(* Every call returns, unless some command runs for ever: who holds a slot *)
(* and waits for the key's lock, who holds the lock and who still waits    *)
(* for a slot never wait for each other in a circle.                       *)
AllReturn ==
  \/ <>(\A c \in Calls : pc[c] = "done")
  \/ \E d \in Calls : <>[](pc[d] = "running")

(* "OnSuccess decreases the delay for a canonical host after a successful  *)
(* command": a command that exits lowers a raised delay.                   *)
SuccessLowersDelay ==
  [][\A c \in Calls :
       result[c] = "pending" /\ result'[c] = "ok" /\ currentDelay[Host(c)] > BaseDelay[Host(c)]
         => currentDelay'[Host(c)] < currentDelay[Host(c)]]_vars
=============================================================================

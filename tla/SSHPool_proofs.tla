--------------------------- MODULE SSHPool_proofs ---------------------------
(***************************************************************************)
(* Proofs about module SSHPool, for any number of calls, keys and hosts.   *)
(* The inductive invariant is built in layers, each proved with the help   *)
(* of those before it: types (with integers for the counters), the owner   *)
(* of a key's lock, where a call has a connection and where its own one    *)
(* exists, the counters, and who shares which connection.                  *)
(***************************************************************************)
EXTENDS SSHPool, FiniteSetTheorems, TLAPS

----------------------------------------------------------------------------
(* Types.  That the counters stay natural numbers needs the counting       *)
(* layer; here they are integers.                                          *)
Typed ==
  /\ pc \in [Calls -> PCs]
  /\ result \in [Calls -> Results]
  /\ conn \in [Calls -> Conns \cup {None}]
  /\ link \in [Conns -> Links]
  /\ pooled \in [Keys -> Conns \cup {None}]
  /\ active \in [Conns -> Int]
  /\ idle \subseteq Conns
  /\ keyLock \in [Keys -> Calls \cup {None}]
  /\ sem \in [Hosts -> Int]
  /\ currentDelay \in [Hosts -> Nat]
  /\ cancelled \subseteq Calls
  /\ closed \in BOOLEAN

(* The two rules for the delay stay within the natural numbers. *)
LEMMA DelayIsNat ==
  \A d, base \in Nat :
    OnTransportErrorDelay(d) \in Nat /\ OnSuccessDelay(d, base) \in Nat
BY MaxDelayAssumption DEF OnTransportErrorDelay, OnSuccessDelay

(* The key and the host of a call. *)
LEMMA KeyAndHost ==
  \A c \in Calls : Key(c) \in Keys /\ Host(c) \in Hosts
BY PoolAssumption DEF Key, Host

(* Counting down at any key leaves a function of integers one. *)
LEMMA CountDown ==
  \A S : \A f \in [S -> Int] : \A x : [f EXCEPT ![x] = @ - 1] \in [S -> Int]
<1> SUFFICES ASSUME NEW S, NEW f \in [S -> Int], NEW x
             PROVE  [f EXCEPT ![x] = @ - 1] \in [S -> Int]
  OBVIOUS
<1>1. CASE x \in S BY <1>1
<1>2. CASE x \notin S
  <2>1. [f EXCEPT ![x] = @ - 1] = f BY <1>2
  <2> QED BY <2>1
<1> QED BY <1>1, <1>2

(* Every step keeps the types.                                             *)
LEMMA TypedInductive == Typed /\ [Next]_vars => Typed'
<1> SUFFICES ASSUME Typed, [Next]_vars PROVE Typed'
  OBVIOUS
<1> USE PoolAssumption, KeyAndHost DEF Typed, Conns
<1>1. ASSUME NEW c \in Calls, GetSteps(c) PROVE Typed'
  <2> USE DEF PCs, SlotPCs, LockedPCs, GetLockedPCs, UsingPCs, Results, Links,
        Goto, Return, SlotRelease, Unlock, poolVars, limiterVars
  <2>1. CASE AcquireSlot(c) BY <2>1 DEF AcquireSlot
  <2>2. CASE CancelAcquire(c) BY <2>2 DEF CancelAcquire
  <2>3. CASE SlotArrives(c) BY <2>3 DEF SlotArrives
  <2>4. CASE CancelWait(c) BY <2>4 DEF CancelWait
  <2>5. CASE LockKey(c) BY <2>5 DEF LockKey
  <2>6. CASE RefuseClosed(c) BY <2>6 DEF RefuseClosed
  <2>7. CASE TakePooled(c) BY <2>7 DEF TakePooled
  <2>8. CASE NoEntry(c) BY <2>8 DEF NoEntry
  <2>9. CASE ProbeAnswered(c) BY <2>9 DEF ProbeAnswered
  <2>10. CASE ProbeFails(c) BY <2>10 DEF ProbeFails
  <2>11. CASE ProbeAbandoned(c) BY <2>11 DEF ProbeAbandoned
  <2>12. CASE Evict(c)
    <3>1. active' \in [Conns -> Int] BY <2>12, CountDown DEF Evict
    <3>2. pc' \in [Calls -> PCs] /\ result' \in [Calls -> Results] /\ sem' \in [Hosts -> Int]
      BY <2>12 DEF Evict
    <3>3. conn' \in [Calls -> Conns \cup {None}] /\ link' \in [Conns -> Links]
          /\ pooled' \in [Keys -> Conns \cup {None}]
      BY <2>12 DEF Evict
    <3> QED BY <2>12, <3>1, <3>2, <3>3 DEF Evict
  <2>13. CASE Connect(c) BY <2>13 DEF Connect
  <2>14. CASE ConnectFails(c) BY <2>14 DEF ConnectFails
  <2>15. CASE Report(c) BY <2>15, DelayIsNat DEF Report
  <2>16. CASE Unwind(c) BY <2>16 DEF Unwind
  <2>17. CASE Install(c) BY <2>17 DEF Install
  <2>18. CASE HandOut(c) BY <2>18 DEF HandOut
  <2> QED BY <1>1, <2>1, <2>2, <2>3, <2>4, <2>5, <2>6, <2>7, <2>8, <2>9, <2>10,
        <2>11, <2>12, <2>13, <2>14, <2>15, <2>16, <2>17, <2>18 DEF GetSteps
<1>2. ASSUME NEW c \in Calls,
             \/ HandshakeSteps(c) \/ SessionSteps(c) \/ CommandSteps(c)
             \/ Cancel(c) \/ LinkDies(c) \/ GoesIdle(c)
      PROVE  Typed'
  <2> USE DEF PCs, SlotPCs, LockedPCs, GetLockedPCs, UsingPCs, Results, Links,
        Goto, Return, SlotRelease, Unlock, poolVars, limiterVars
  <2>1. CASE Handshake(c) BY <2>1, DelayIsNat DEF Handshake
  <2>2. CASE HandshakeFails(c) BY <2>2 DEF HandshakeFails
  <2>3. CASE OpenSession(c) BY <2>3 DEF OpenSession
  <2>4. CASE SessionFails(c) BY <2>4 DEF SessionFails
  <2>5. CASE RemoveLock(c) BY <2>5 DEF RemoveLock
  <2>6. CASE Remove(c) BY <2>6 DEF Remove
  <2>7. CASE CancelCommand(c) BY <2>7 DEF CancelCommand
  <2>8. CASE Release(c) BY <2>8, CountDown DEF Release
  <2>9. CASE FreeSlot(c) BY <2>9 DEF FreeSlot
  <2>10. CASE CommandEnds(c) BY <2>10 DEF CommandEnds
  <2>11. CASE CommandBreaks(c) BY <2>11 DEF CommandBreaks
  <2>12. CASE Cancel(c) BY <2>12 DEF Cancel
  <2>13. CASE LinkDies(c) BY <2>13 DEF LinkDies
  <2>14. CASE GoesIdle(c) BY <2>14 DEF GoesIdle
  <2> QED BY <1>2, <2>1, <2>2, <2>3, <2>4, <2>5, <2>6, <2>7, <2>8, <2>9, <2>10,
        <2>11, <2>12, <2>13, <2>14
        DEF HandshakeSteps, SessionSteps, CommandSteps
<1>3. CASE ReapIdle BY <1>3 DEF ReapIdle, Links, limiterVars
<1>4. CASE Close BY <1>4 DEF Close, Links, limiterVars
<1>5. CASE UNCHANGED vars BY <1>5 DEF vars, poolVars, limiterVars
<1> QED BY <1>1, <1>2, <1>3, <1>4, <1>5 DEF Next
----------------------------------------------------------------------------
(* Locks: inside the key's lock a call is its holder, so two calls of one  *)
(* key are never inside together.                                          *)
LockHeld == \A c \in Calls : pc[c] \in LockedPCs => keyLock[Key(c)] = c

(* Only the holder of a key's lock is inside it, after every step.         *)
LEMMA LockInductive == Typed /\ LockHeld /\ [Next]_vars => LockHeld'
<1> SUFFICES ASSUME Typed, LockHeld, [Next]_vars PROVE LockHeld'
  OBVIOUS
<1> USE PoolAssumption, KeyAndHost DEF Typed, LockHeld, Goto, Unlock, LockedPCs,
      GetLockedPCs, poolVars, limiterVars
<1>1. ASSUME NEW c \in Calls,
             \/ GetSteps(c) \/ HandshakeSteps(c) \/ SessionSteps(c)
             \/ CommandSteps(c) \/ Cancel(c) \/ LinkDies(c) \/ GoesIdle(c)
      PROVE  LockHeld'
  <2>1. CASE CancelAcquire(c) BY <2>1 DEF CancelAcquire
  <2>2. CASE AcquireSlot(c) BY <2>2 DEF AcquireSlot
  <2>3. CASE SlotArrives(c) BY <2>3 DEF SlotArrives
  <2>4. CASE CancelWait(c) BY <2>4 DEF CancelWait
  <2>5. CASE LockKey(c) BY <2>5 DEF LockKey
  <2>6. CASE RefuseClosed(c) BY <2>6 DEF RefuseClosed
  <2>7. CASE TakePooled(c) BY <2>7 DEF TakePooled
  <2>8. CASE NoEntry(c) BY <2>8 DEF NoEntry
  <2>9. CASE ProbeAnswered(c) BY <2>9 DEF ProbeAnswered
  <2>10. CASE ProbeFails(c) BY <2>10 DEF ProbeFails
  <2>11. CASE ProbeAbandoned(c) BY <2>11 DEF ProbeAbandoned
  <2>12. CASE Evict(c) BY <2>12 DEF Evict
  <2>13. CASE Connect(c) BY <2>13 DEF Connect
  <2>14. CASE ConnectFails(c) BY <2>14 DEF ConnectFails
  <2>15. CASE Report(c) BY <2>15 DEF Report
  <2>16. CASE Unwind(c) BY <2>16 DEF Unwind
  <2>17. CASE Install(c) BY <2>17 DEF Install
  <2>18. CASE HandOut(c) BY <2>18 DEF HandOut
  <2>19. CASE Handshake(c) BY <2>19 DEF Handshake
  <2>20. CASE HandshakeFails(c) BY <2>20 DEF HandshakeFails
  <2>21. CASE OpenSession(c) BY <2>21 DEF OpenSession
  <2>22. CASE SessionFails(c) BY <2>22 DEF SessionFails
  <2>23. CASE RemoveLock(c) BY <2>23 DEF RemoveLock
  <2>24. CASE Remove(c) BY <2>24 DEF Remove
  <2>25. CASE CancelCommand(c) BY <2>25 DEF CancelCommand
  <2>26. CASE Release(c) BY <2>26 DEF Release
  <2>27. CASE FreeSlot(c) BY <2>27 DEF FreeSlot
  <2>28. CASE CommandEnds(c) BY <2>28 DEF CommandEnds
  <2>29. CASE CommandBreaks(c) BY <2>29 DEF CommandBreaks
  <2>30. CASE Cancel(c) BY <2>30 DEF Cancel
  <2>31. CASE LinkDies(c) BY <2>31 DEF LinkDies
  <2>32. CASE GoesIdle(c) BY <2>32 DEF GoesIdle
  <2> QED BY <1>1, <2>1, <2>2, <2>3, <2>4, <2>5, <2>6, <2>7, <2>8, <2>9,
        <2>10, <2>11, <2>12, <2>13, <2>14, <2>15, <2>16, <2>17, <2>18, <2>19,
        <2>20, <2>21, <2>22, <2>23, <2>24, <2>25, <2>26, <2>27, <2>28, <2>29,
        <2>30, <2>31, <2>32 DEF GetSteps, HandshakeSteps, SessionSteps,
        CommandSteps
<1>2. CASE ReapIdle BY <1>2 DEF ReapIdle
<1>3. CASE Close BY <1>3 DEF Close
<1>4. CASE UNCHANGED vars BY <1>4 DEF vars, Key
<1> QED BY <1>1, <1>2, <1>3, <1>4 DEF Next
----------------------------------------------------------------------------
(* Places: a call has a connection exactly in certain states; it makes its *)
(* own one in its handshake, and nobody has a connection that is not made, *)
(* or that its maker has not yet put into the pool.                        *)
HasConnPCs == {"probe", "evict", "handOut"} \cup UsingPCs

EarlyPCs == {"start", "sleep", "lock", "check", "probe", "evict", "dial", "handshake"}

Made(e) == link[e] # "none" /\ pc[e] # "install"

Places ==
  /\ \A c \in Calls : conn[c] # None <=> pc[c] \in HasConnPCs
  /\ \A c \in Calls : pc[c] \in EarlyPCs => link[c] = "none"
  /\ \A c \in Calls : pc[c] = "install" => link[c] \in {"up", "dead"}
  /\ \A c \in Calls : conn[c] # None => Made(conn[c])
  /\ \A k \in Keys : pooled[k] # None => Made(pooled[k])

(* Every step leaves calls and connections in places that fit.             *)
LEMMA PlacesInductive == Typed /\ Places /\ [Next]_vars => Places'
<1> SUFFICES ASSUME Typed, Places, [Next]_vars PROVE Places'
  OBVIOUS
<1> USE PoolAssumption, KeyAndHost DEF Typed, Places, Made, Goto, Conns, HasConnPCs,
      EarlyPCs, UsingPCs, poolVars, limiterVars
<1>1. ASSUME NEW c \in Calls,
             \/ GetSteps(c) \/ HandshakeSteps(c) \/ SessionSteps(c)
             \/ CommandSteps(c) \/ Cancel(c) \/ LinkDies(c) \/ GoesIdle(c)
      PROVE  Places'
  <2>1. CASE CancelAcquire(c) BY <2>1 DEF CancelAcquire
  <2>2. CASE AcquireSlot(c) BY <2>2 DEF AcquireSlot
  <2>3. CASE SlotArrives(c) BY <2>3 DEF SlotArrives
  <2>4. CASE CancelWait(c) BY <2>4 DEF CancelWait
  <2>5. CASE LockKey(c) BY <2>5 DEF LockKey
  <2>6. CASE RefuseClosed(c) BY <2>6 DEF RefuseClosed
  <2>7. CASE TakePooled(c) BY <2>7 DEF TakePooled
  <2>8. CASE NoEntry(c) BY <2>8 DEF NoEntry
  <2>9. CASE ProbeAnswered(c) BY <2>9 DEF ProbeAnswered
  <2>10. CASE ProbeFails(c) BY <2>10 DEF ProbeFails
  <2>11. CASE ProbeAbandoned(c) BY <2>11 DEF ProbeAbandoned
  <2>12. CASE Evict(c) BY <2>12 DEF Evict
  <2>13. CASE Connect(c) BY <2>13 DEF Connect
  <2>14. CASE ConnectFails(c) BY <2>14 DEF ConnectFails
  <2>15. CASE Report(c) BY <2>15 DEF Report
  <2>16. CASE Unwind(c) BY <2>16 DEF Unwind
  <2>17. CASE Install(c)
    <3>1. CASE closed BY <2>17, <3>1 DEF Install
    <3>2. CASE ~closed BY <2>17, <3>2 DEF Install
    <3> QED BY <3>1, <3>2
  <2>18. CASE HandOut(c) BY <2>18 DEF HandOut
  <2>19. CASE Handshake(c) BY <2>19 DEF Handshake
  <2>20. CASE HandshakeFails(c) BY <2>20 DEF HandshakeFails
  <2>21. CASE OpenSession(c) BY <2>21 DEF OpenSession
  <2>22. CASE SessionFails(c) BY <2>22 DEF SessionFails
  <2>23. CASE RemoveLock(c) BY <2>23 DEF RemoveLock
  <2>24. CASE Remove(c) BY <2>24 DEF Remove
  <2>25. CASE CancelCommand(c) BY <2>25 DEF CancelCommand
  <2>26. CASE Release(c) BY <2>26 DEF Release
  <2>27. CASE FreeSlot(c) BY <2>27 DEF FreeSlot
  <2>28. CASE CommandEnds(c) BY <2>28 DEF CommandEnds
  <2>29. CASE CommandBreaks(c) BY <2>29 DEF CommandBreaks
  <2>30. CASE Cancel(c) BY <2>30 DEF Cancel
  <2>31. CASE LinkDies(c) BY <2>31 DEF LinkDies
  <2>32. CASE GoesIdle(c) BY <2>32 DEF GoesIdle
  <2> QED BY <1>1, <2>1, <2>2, <2>3, <2>4, <2>5, <2>6, <2>7, <2>8, <2>9,
        <2>10, <2>11, <2>12, <2>13, <2>14, <2>15, <2>16, <2>17, <2>18, <2>19,
        <2>20, <2>21, <2>22, <2>23, <2>24, <2>25, <2>26, <2>27, <2>28, <2>29,
        <2>30, <2>31, <2>32 DEF GetSteps, HandshakeSteps, SessionSteps,
        CommandSteps
<1>2. CASE ReapIdle BY <1>2 DEF ReapIdle, Expired
<1>3. CASE Close BY <1>3 DEF Close
<1>4. CASE UNCHANGED vars BY <1>4 DEF vars
<1> QED BY <1>1, <1>2, <1>3, <1>4 DEF Next
----------------------------------------------------------------------------
(* Slots: every step keeps, takes or gives back at most one slot, with its *)
(* token.                                                                  *)
OthersKeep(c) == \A d \in Calls \ {c} : pc'[d] \in SlotPCs <=> pc[d] \in SlotPCs

KeepsSlots ==
  sem' = sem /\ \A d \in Calls : pc'[d] \in SlotPCs <=> pc[d] \in SlotPCs

TakesSlot(c) ==
  /\ pc[c] \notin SlotPCs /\ pc'[c] \in SlotPCs /\ OthersKeep(c)
  /\ sem[Host(c)] < MaxConns[Host(c)]
  /\ sem' = [sem EXCEPT ![Host(c)] = @ + 1]

GivesSlot(c) ==
  /\ pc[c] \in SlotPCs /\ pc'[c] \notin SlotPCs /\ OthersKeep(c)
  /\ sem' = [sem EXCEPT ![Host(c)] = @ - 1]

(* What a step does to slots: nothing, one taken, or one given back.       *)
LEMMA SlotSteps ==
  Typed /\ [Next]_vars => KeepsSlots \/ \E c \in Calls : TakesSlot(c) \/ GivesSlot(c)
<1> SUFFICES ASSUME Typed, [Next]_vars
             PROVE  KeepsSlots \/ \E c \in Calls : TakesSlot(c) \/ GivesSlot(c)
  OBVIOUS
<1> USE PoolAssumption, KeyAndHost DEF Typed, KeepsSlots, TakesSlot, GivesSlot, OthersKeep,
      SlotPCs, UsingPCs, Goto, SlotRelease, poolVars, limiterVars
<1>1. ASSUME NEW c \in Calls,
             \/ GetSteps(c) \/ HandshakeSteps(c) \/ SessionSteps(c)
             \/ CommandSteps(c) \/ Cancel(c) \/ LinkDies(c) \/ GoesIdle(c)
      PROVE  KeepsSlots \/ TakesSlot(c) \/ GivesSlot(c)
  <2>1. CASE CancelAcquire(c) BY <2>1 DEF CancelAcquire
  <2>2. CASE AcquireSlot(c) BY <2>2 DEF AcquireSlot
  <2>3. CASE SlotArrives(c) BY <2>3 DEF SlotArrives
  <2>4. CASE CancelWait(c) BY <2>4 DEF CancelWait
  <2>5. CASE LockKey(c) BY <2>5 DEF LockKey
  <2>6. CASE RefuseClosed(c) BY <2>6 DEF RefuseClosed
  <2>7. CASE TakePooled(c) BY <2>7 DEF TakePooled
  <2>8. CASE NoEntry(c) BY <2>8 DEF NoEntry
  <2>9. CASE ProbeAnswered(c) BY <2>9 DEF ProbeAnswered
  <2>10. CASE ProbeFails(c) BY <2>10 DEF ProbeFails
  <2>11. CASE ProbeAbandoned(c) BY <2>11 DEF ProbeAbandoned
  <2>12. CASE Evict(c) BY <2>12 DEF Evict
  <2>13. CASE Connect(c) BY <2>13 DEF Connect
  <2>14. CASE ConnectFails(c) BY <2>14 DEF ConnectFails
  <2>15. CASE Report(c) BY <2>15 DEF Report
  <2>16. CASE Unwind(c) BY <2>16 DEF Unwind
  <2>17. CASE Install(c) BY <2>17 DEF Install
  <2>18. CASE HandOut(c) BY <2>18 DEF HandOut
  <2>19. CASE Handshake(c) BY <2>19 DEF Handshake
  <2>20. CASE HandshakeFails(c) BY <2>20 DEF HandshakeFails
  <2>21. CASE OpenSession(c) BY <2>21 DEF OpenSession
  <2>22. CASE SessionFails(c) BY <2>22 DEF SessionFails
  <2>23. CASE RemoveLock(c) BY <2>23 DEF RemoveLock
  <2>24. CASE Remove(c) BY <2>24 DEF Remove
  <2>25. CASE CancelCommand(c) BY <2>25 DEF CancelCommand
  <2>26. CASE Release(c) BY <2>26 DEF Release
  <2>27. CASE FreeSlot(c) BY <2>27 DEF FreeSlot
  <2>28. CASE CommandEnds(c) BY <2>28 DEF CommandEnds
  <2>29. CASE CommandBreaks(c) BY <2>29 DEF CommandBreaks
  <2>30. CASE Cancel(c) BY <2>30 DEF Cancel
  <2>31. CASE LinkDies(c) BY <2>31 DEF LinkDies
  <2>32. CASE GoesIdle(c) BY <2>32 DEF GoesIdle
  <2> QED BY <1>1, <2>1, <2>2, <2>3, <2>4, <2>5, <2>6, <2>7, <2>8, <2>9,
        <2>10, <2>11, <2>12, <2>13, <2>14, <2>15, <2>16, <2>17, <2>18, <2>19,
        <2>20, <2>21, <2>22, <2>23, <2>24, <2>25, <2>26, <2>27, <2>28, <2>29,
        <2>30, <2>31, <2>32 DEF GetSteps, HandshakeSteps, SessionSteps,
        CommandSteps
<1>2. CASE ReapIdle BY <1>2 DEF ReapIdle
<1>3. CASE Close BY <1>3 DEF Close
<1>4. CASE UNCHANGED vars BY <1>4 DEF vars
<1> QED BY <1>1, <1>2, <1>3, <1>4 DEF Next

(* The holders of slots can be counted.                                    *)
LEMMA SlotHoldersFinite == \A h \in Hosts : IsFiniteSet(SlotHolders(h))
BY PoolAssumption, FS_Subset DEF SlotHolders

(* The tokens of a host stay the number of calls that hold a slot.         *)
LEMMA SlotsInductive == Typed /\ SlotsConserved /\ [Next]_vars => SlotsConserved'
<1> SUFFICES ASSUME Typed, SlotsConserved, [Next]_vars,
                    NEW h \in Hosts
             PROVE  sem'[h] = Cardinality(SlotHolders(h)') /\ sem'[h] <= MaxConns[h]
  BY DEF SlotsConserved
<1>h. /\ sem[h] = Cardinality(SlotHolders(h))
      /\ sem[h] <= MaxConns[h]
      /\ IsFiniteSet(SlotHolders(h))
      /\ sem \in [Hosts -> Int]
      /\ MaxConns[h] \in Nat
  BY SlotHoldersFinite, PoolAssumption DEF Typed, SlotsConserved
<1>1. CASE KeepsSlots
  <2>1. SlotHolders(h)' = SlotHolders(h) BY <1>1 DEF KeepsSlots, SlotHolders, Host
  <2> QED BY <1>1, <1>h, <2>1 DEF KeepsSlots
<1>2. ASSUME NEW c \in Calls, TakesSlot(c)
      PROVE  sem'[h] = Cardinality(SlotHolders(h)') /\ sem'[h] <= MaxConns[h]
  <2>1. CASE Host(c) = h
    <3>1. SlotHolders(h)' = SlotHolders(h) \cup {c}
      BY <1>2, <2>1 DEF TakesSlot, OthersKeep, SlotHolders, Host
    <3>2. c \notin SlotHolders(h) BY <1>2 DEF TakesSlot, SlotHolders
    <3>3. Cardinality(SlotHolders(h)') = Cardinality(SlotHolders(h)) + 1
      BY <1>h, <3>1, <3>2, FS_AddElement
    <3>4. sem'[h] = sem[h] + 1 /\ sem[h] < MaxConns[h] BY <1>2, <1>h, <2>1 DEF TakesSlot
    <3> QED BY <1>h, <3>3, <3>4
  <2>2. CASE Host(c) # h
    <3>1. SlotHolders(h)' = SlotHolders(h)
      BY <1>2, <2>2 DEF TakesSlot, OthersKeep, SlotHolders, Host
    <3>2. sem'[h] = sem[h] BY <1>2, <1>h, <2>2 DEF TakesSlot
    <3> QED BY <1>h, <3>1, <3>2
  <2> QED BY <2>1, <2>2
<1>3. ASSUME NEW c \in Calls, GivesSlot(c)
      PROVE  sem'[h] = Cardinality(SlotHolders(h)') /\ sem'[h] <= MaxConns[h]
  <2>1. CASE Host(c) = h
    <3>1. SlotHolders(h)' = SlotHolders(h) \ {c}
      BY <1>3, <2>1 DEF GivesSlot, OthersKeep, SlotHolders, Host
    <3>2. c \in SlotHolders(h) BY <1>3, <2>1 DEF GivesSlot, SlotHolders
    <3>3. Cardinality(SlotHolders(h)') = Cardinality(SlotHolders(h)) - 1
      BY <1>h, <3>1, <3>2, FS_RemoveElement
    <3>4. sem'[h] = sem[h] - 1 BY <1>3, <1>h, <2>1 DEF GivesSlot
    <3> QED BY <1>h, <3>3, <3>4
  <2>2. CASE Host(c) # h
    <3>1. SlotHolders(h)' = SlotHolders(h)
      BY <1>3, <2>2 DEF GivesSlot, OthersKeep, SlotHolders, Host
    <3>2. sem'[h] = sem[h] BY <1>3, <1>h, <2>2 DEF GivesSlot
    <3> QED BY <1>h, <3>1, <3>2
  <2> QED BY <2>1, <2>2
<1> QED BY <1>1, <1>2, <1>3, SlotSteps
----------------------------------------------------------------------------
(* Users: every step keeps the users of all connections and their counts,  *)
(* or one call enters or leaves one connection, with its count.            *)
KeepsUsers == conn' = conn /\ active' = active

Enters(c, e) ==
  /\ conn[c] = None
  /\ conn' = [conn EXCEPT ![c] = e]
  /\ active' = [active EXCEPT ![e] = @ + 1]

Leaves(c) ==
  /\ conn[c] \in Conns
  /\ conn' = [conn EXCEPT ![c] = None]
  /\ active' = [active EXCEPT ![conn[c]] = @ - 1]

UserStep ==
  \/ KeepsUsers
  \/ \E c \in Calls : Leaves(c) \/ \E e \in Conns : Enters(c, e)

(* The users of a connection can be counted.                               *)
LEMMA UsersFinite == \A e \in Conns : IsFiniteSet(Users(e))
BY PoolAssumption, FS_Subset DEF Users

(* Before its maker installs it, a connection has no users. *)
LEMMA UnmadeUnused ==
  ASSUME Typed, Places, ActiveIsUsers, NEW c \in Calls, pc[c] = "install"
  PROVE  active[c] = 0
<1>1. Users(c) = {} BY PoolAssumption DEF Users, Places, Made, Conns
<1> QED BY <1>1, FS_EmptySet DEF ActiveIsUsers, Conns

(* What a step does to the users of a connection.                          *)
LEMMA UserSteps ==
  Typed /\ Places /\ ActiveIsUsers /\ [Next]_vars => UserStep
<1> SUFFICES ASSUME Typed, Places, ActiveIsUsers, [Next]_vars PROVE UserStep
  OBVIOUS
<1> USE PoolAssumption, KeyAndHost DEF Typed, Places, UserStep, KeepsUsers, Enters, Leaves,
      HasConnPCs, UsingPCs, poolVars, limiterVars, Conns
<1>1. ASSUME NEW c \in Calls,
             \/ GetSteps(c) \/ HandshakeSteps(c) \/ SessionSteps(c)
             \/ CommandSteps(c) \/ Cancel(c) \/ LinkDies(c) \/ GoesIdle(c)
      PROVE  UserStep
  <2>1. CASE CancelAcquire(c) BY <2>1 DEF CancelAcquire
  <2>2. CASE AcquireSlot(c) BY <2>2 DEF AcquireSlot
  <2>3. CASE SlotArrives(c) BY <2>3 DEF SlotArrives
  <2>4. CASE CancelWait(c) BY <2>4 DEF CancelWait
  <2>5. CASE LockKey(c) BY <2>5 DEF LockKey
  <2>6. CASE RefuseClosed(c) BY <2>6 DEF RefuseClosed
  <2>7. CASE TakePooled(c) BY <2>7 DEF TakePooled
  <2>8. CASE NoEntry(c) BY <2>8 DEF NoEntry
  <2>9. CASE ProbeAnswered(c) BY <2>9 DEF ProbeAnswered
  <2>10. CASE ProbeFails(c) BY <2>10 DEF ProbeFails
  <2>11. CASE ProbeAbandoned(c) BY <2>11 DEF ProbeAbandoned
  <2>12. CASE Evict(c) BY <2>12 DEF Evict
  <2>13. CASE Connect(c) BY <2>13 DEF Connect
  <2>14. CASE ConnectFails(c) BY <2>14 DEF ConnectFails
  <2>15. CASE Report(c) BY <2>15 DEF Report
  <2>16. CASE Unwind(c) BY <2>16 DEF Unwind
  <2>17. CASE Install(c)
    <3>1. CASE closed BY <2>17, <3>1 DEF Install
    <3>2. CASE ~closed
      <4>1. conn[c] = None /\ active[c] = 0 BY <2>17, UnmadeUnused DEF Install
      <4>2. Enters(c, c) BY <2>17, <3>2, <4>1 DEF Install
      <4> QED BY <4>2
    <3> QED BY <3>1, <3>2
  <2>18. CASE HandOut(c) BY <2>18 DEF HandOut
  <2>19. CASE Handshake(c) BY <2>19 DEF Handshake
  <2>20. CASE HandshakeFails(c) BY <2>20 DEF HandshakeFails
  <2>21. CASE OpenSession(c) BY <2>21 DEF OpenSession
  <2>22. CASE SessionFails(c) BY <2>22 DEF SessionFails
  <2>23. CASE RemoveLock(c) BY <2>23 DEF RemoveLock
  <2>24. CASE Remove(c) BY <2>24 DEF Remove
  <2>25. CASE CancelCommand(c) BY <2>25 DEF CancelCommand
  <2>26. CASE Release(c) BY <2>26 DEF Release
  <2>27. CASE FreeSlot(c) BY <2>27 DEF FreeSlot
  <2>28. CASE CommandEnds(c) BY <2>28 DEF CommandEnds
  <2>29. CASE CommandBreaks(c) BY <2>29 DEF CommandBreaks
  <2>30. CASE Cancel(c) BY <2>30 DEF Cancel
  <2>31. CASE LinkDies(c) BY <2>31 DEF LinkDies
  <2>32. CASE GoesIdle(c) BY <2>32 DEF GoesIdle
  <2> QED BY <1>1, <2>1, <2>2, <2>3, <2>4, <2>5, <2>6, <2>7, <2>8, <2>9,
        <2>10, <2>11, <2>12, <2>13, <2>14, <2>15, <2>16, <2>17, <2>18, <2>19,
        <2>20, <2>21, <2>22, <2>23, <2>24, <2>25, <2>26, <2>27, <2>28, <2>29,
        <2>30, <2>31, <2>32 DEF GetSteps, HandshakeSteps, SessionSteps,
        CommandSteps
<1>2. CASE ReapIdle BY <1>2 DEF ReapIdle
<1>3. CASE Close BY <1>3 DEF Close
<1>4. CASE UNCHANGED vars BY <1>4 DEF vars
<1> QED BY <1>1, <1>2, <1>3, <1>4 DEF Next

(* entry.active stays the number of users.                                 *)
LEMMA UsersInductive ==
  Typed /\ Places /\ ActiveIsUsers /\ [Next]_vars => ActiveIsUsers'
<1> SUFFICES ASSUME Typed, Places, ActiveIsUsers, [Next]_vars, NEW e \in Conns
             PROVE  active'[e] = Cardinality(Users(e)')
  BY DEF ActiveIsUsers
<1>e. /\ active[e] = Cardinality(Users(e))
      /\ IsFiniteSet(Users(e))
      /\ active \in [Conns -> Int]
      /\ conn \in [Calls -> Conns \cup {None}]
      /\ None \notin Conns
  BY UsersFinite, PoolAssumption DEF Typed, ActiveIsUsers, Conns
<1>1. CASE KeepsUsers BY <1>1, <1>e DEF KeepsUsers, Users
<1>2. ASSUME NEW c \in Calls, NEW d \in Conns, Enters(c, d)
      PROVE  active'[e] = Cardinality(Users(e)')
  <2>1. CASE d = e
    <3>1. Users(e)' = Users(e) \cup {c} /\ c \notin Users(e)
      BY <1>2, <1>e, <2>1 DEF Enters, Users
    <3>2. active'[e] = active[e] + 1 BY <1>2, <1>e, <2>1 DEF Enters
    <3> QED BY <1>e, <3>1, <3>2, FS_AddElement
  <2>2. CASE d # e
    <3>1. Users(e)' = Users(e) BY <1>2, <1>e, <2>2 DEF Enters, Users
    <3>2. active'[e] = active[e] BY <1>2, <1>e, <2>2 DEF Enters
    <3> QED BY <1>e, <3>1, <3>2
  <2> QED BY <2>1, <2>2
<1>3. ASSUME NEW c \in Calls, Leaves(c)
      PROVE  active'[e] = Cardinality(Users(e)')
  <2>1. CASE conn[c] = e
    <3>1. Users(e)' = Users(e) \ {c} /\ c \in Users(e)
      BY <1>3, <1>e, <2>1 DEF Leaves, Users
    <3>2. active'[e] = active[e] - 1 BY <1>3, <1>e, <2>1 DEF Leaves
    <3> QED BY <1>e, <3>1, <3>2, FS_RemoveElement
  <2>2. CASE conn[c] # e
    <3>1. Users(e)' = Users(e) BY <1>3, <1>e, <2>2 DEF Leaves, Users
    <3>2. active'[e] = active[e] BY <1>3, <1>e, <2>2 DEF Leaves
    <3> QED BY <1>e, <3>1, <3>2
  <2> QED BY <2>1, <2>2
<1> QED BY <1>1, <1>2, <1>3, UserSteps DEF UserStep
----------------------------------------------------------------------------
(* Sharing: a call uses the connection its key has in the pool, until it   *)
(* has removed it itself or the pool has closed; a call that probes or     *)
(* evicts is alone on its connection; one that dials finds no entry.       *)
Sharing ==
  /\ \A k \in Keys : pooled[k] # None => Key(pooled[k]) = k
  /\ \A c \in Calls : conn[c] # None => Key(conn[c]) = Key(c)
  /\ ~closed => \A c \in Calls :
       conn[c] # None /\ pc[c] # "release" => pooled[Key(c)] = conn[c]
  /\ \A c, d \in Calls :
       pc[c] \in {"probe", "evict"} /\ conn[d] = conn[c] => d = c
  /\ \A c \in Calls :
       pc[c] \in {"dial", "handshake", "install"} => pooled[Key(c)] = None

(* What the counters say about the users of a connection. *)
FewUsers ==
  \A e \in Conns :
    /\ active[e] \in Nat
    /\ active[e] = 0 => \A c \in Calls : conn[c] # e
    /\ active[e] <= 1 => \A c, d \in Calls : conn[c] = e /\ conn[d] = e => c = d

(* What 0 and 1 in entry.active tell the reaper, Remove and the probe.     *)
LEMMA CountsTell == ActiveIsUsers => FewUsers
<1> SUFFICES ASSUME ActiveIsUsers, NEW e \in Conns
             PROVE  /\ active[e] \in Nat
                    /\ active[e] = 0 => \A c \in Calls : conn[c] # e
                    /\ active[e] <= 1 => \A c, d \in Calls :
                                          conn[c] = e /\ conn[d] = e => c = d
  BY DEF FewUsers
<1>1. active[e] = Cardinality(Users(e)) /\ active[e] \in Nat /\ IsFiniteSet(Users(e))
  BY UsersFinite, FS_CardinalityType DEF ActiveIsUsers
<1>2. active[e] = 0 => Users(e) = {} BY <1>1, FS_EmptySet
<1>3. active[e] = 1 => \E x : Users(e) = {x} BY <1>1, FS_Singleton
<1>4. active[e] <= 1 => active[e] = 0 \/ active[e] = 1 BY <1>1
<1> QED BY <1>1, <1>2, <1>3, <1>4 DEF Users

(* Every step keeps the rules of sharing: no leak, no foreign prober.      *)
LEMMA SharingInductive ==
  Typed /\ LockHeld /\ Places /\ FewUsers /\ NoLeak /\ Sharing /\ [Next]_vars
    => NoLeak' /\ Sharing'
<1> SUFFICES ASSUME Typed, LockHeld, Places, FewUsers, NoLeak, Sharing, [Next]_vars
             PROVE  NoLeak' /\ Sharing'
  OBVIOUS
<1> USE PoolAssumption, KeyAndHost DEF Typed, LockHeld, LockedPCs, GetLockedPCs, Places,
      FewUsers, NoLeak, Sharing, Made, Conns, HasConnPCs, UsingPCs, Goto, poolVars,
      limiterVars
<1>1. ASSUME NEW c \in Calls,
             \/ GetSteps(c) \/ HandshakeSteps(c) \/ SessionSteps(c)
             \/ CommandSteps(c) \/ Cancel(c) \/ LinkDies(c) \/ GoesIdle(c)
      PROVE  NoLeak' /\ Sharing'
  <2>1. CASE CancelAcquire(c) BY <2>1 DEF CancelAcquire
  <2>2. CASE AcquireSlot(c) BY <2>2 DEF AcquireSlot
  <2>3. CASE SlotArrives(c) BY <2>3 DEF SlotArrives
  <2>4. CASE CancelWait(c) BY <2>4 DEF CancelWait
  <2>5. CASE LockKey(c) BY <2>5 DEF LockKey
  <2>6. CASE RefuseClosed(c) BY <2>6 DEF RefuseClosed
  <2>7. CASE TakePooled(c)
    <3> DEFINE e == pooled[Key(c)]
    <3>1. /\ pc[c] = "check" /\ e \in Conns /\ Key(e) = Key(c) /\ ~closed
          /\ conn' = [conn EXCEPT ![c] = e]
          /\ pc' = [pc EXCEPT ![c] = IF active[e] + 1 > 1 THEN "handOut" ELSE "probe"]
          /\ pooled' = pooled /\ link' = link /\ closed' = closed
      BY <2>7 DEF TakePooled
    <3>2. \A d \in Calls : pc[d] \in LockedPCs /\ Key(d) = Key(c) => d = c
      BY <3>1
    <3>3. pc'[c] = "probe" => \A d \in Calls : conn[d] # e BY <3>1
    <3>4. NoLeak' BY <3>1
    <3>5. \A x, d \in Calls :
            pc'[x] \in {"probe", "evict"} /\ conn'[d] = conn'[x] => d = x
      <4> SUFFICES ASSUME NEW x \in Calls, NEW d \in Calls,
                          pc'[x] \in {"probe", "evict"}, conn'[d] = conn'[x]
                   PROVE  d = x
        OBVIOUS
      <4>1. CASE x = c BY <3>1, <3>3, <4>1
      <4>2. CASE x # c
        <5>1. pc[x] \in {"probe", "evict"} /\ conn'[x] = conn[x] /\ conn[x] # None
          BY <3>1, <4>2
        <5>2. d # c BY <3>1, <3>2, <4>2, <5>1
        <5> QED BY <3>1, <5>1, <5>2
      <4> QED BY <4>1, <4>2
    <3>6. \A d \in Calls : conn'[d] # None => Key(conn'[d]) = Key(d) BY <3>1
    <3>7. \A d \in Calls :
            conn'[d] # None /\ pc'[d] # "release" => pooled'[Key(d)] = conn'[d]
      BY <3>1
    <3>8. \A d \in Calls :
            pc'[d] \in {"dial", "handshake", "install"} => pooled'[Key(d)] = None
      BY <3>1
    <3> QED BY <3>1, <3>4, <3>5, <3>6, <3>7, <3>8 DEF Key
  <2>8. CASE NoEntry(c) BY <2>8 DEF NoEntry
  <2>9. CASE ProbeAnswered(c) BY <2>9 DEF ProbeAnswered
  <2>10. CASE ProbeFails(c) BY <2>10 DEF ProbeFails
  <2>11. CASE ProbeAbandoned(c) BY <2>11 DEF ProbeAbandoned
  <2>12. CASE Evict(c) BY <2>12 DEF Evict
  <2>13. CASE Connect(c) BY <2>13 DEF Connect
  <2>14. CASE ConnectFails(c) BY <2>14 DEF ConnectFails
  <2>15. CASE Report(c) BY <2>15 DEF Report
  <2>16. CASE Unwind(c) BY <2>16 DEF Unwind
  <2>17. CASE Install(c)
    <3>1. CASE closed BY <2>17, <3>1 DEF Install
    <3>2. CASE ~closed
      <4>1. /\ pc[c] = "install" /\ pooled[Key(c)] = None
            /\ conn' = [conn EXCEPT ![c] = c] /\ pc' = [pc EXCEPT ![c] = "handOut"]
            /\ pooled' = [pooled EXCEPT ![Key(c)] = c]
            /\ link' = link /\ closed' = closed
        BY <2>17, <3>2 DEF Install
      <4>2. \A d \in Calls : pc[d] \in LockedPCs /\ Key(d) = Key(c) => d = c
        BY <4>1
      <4>3. \A d \in Calls : conn[d] # c BY <4>1
      <4>4. \A d \in Calls : Key(d) = Key(c) => conn[d] = None \/ pc[d] = "release"
        BY <3>2, <4>1
      <4>5. NoLeak' BY <3>2, <4>1
      <4>6. \A k \in Keys : pooled'[k] # None => Key(pooled'[k]) = k BY <4>1
      <4>7. \A d \in Calls : conn'[d] # None => Key(conn'[d]) = Key(d) BY <4>1
      <4>8. \A d \in Calls :
              conn'[d] # None /\ pc'[d] # "release" => pooled'[Key(d)] = conn'[d]
        BY <3>2, <4>1, <4>4
      <4>9. \A x, d \in Calls :
              pc'[x] \in {"probe", "evict"} /\ conn'[d] = conn'[x] => d = x
        BY <4>1, <4>3
      <4>10. \A d \in Calls :
              pc'[d] \in {"dial", "handshake", "install"} => pooled'[Key(d)] = None
        BY <4>1, <4>2
      <4> QED BY <4>5, <4>6, <4>7, <4>8, <4>9, <4>10 DEF Key
    <3> QED BY <3>1, <3>2
  <2>18. CASE HandOut(c) BY <2>18 DEF HandOut
  <2>19. CASE Handshake(c) BY <2>19 DEF Handshake
  <2>20. CASE HandshakeFails(c) BY <2>20 DEF HandshakeFails
  <2>21. CASE OpenSession(c) BY <2>21 DEF OpenSession
  <2>22. CASE SessionFails(c) BY <2>22 DEF SessionFails
  <2>23. CASE RemoveLock(c) BY <2>23 DEF RemoveLock
  <2>24. CASE Remove(c)
    <3>1. CASE pooled[Key(c)] # None /\ active[pooled[Key(c)]] <= 1
      <4>1. /\ link' = [link EXCEPT ![pooled[Key(c)]] = "closed"]
            /\ pooled' = [pooled EXCEPT ![Key(c)] = None]
            /\ pc' = [pc EXCEPT ![c] = "release"]
            /\ conn' = conn /\ closed' = closed
        BY <2>24, <3>1 DEF Remove
      <4> QED BY <2>24, <3>1, <4>1 DEF Remove
    <3>2. CASE ~(pooled[Key(c)] # None /\ active[pooled[Key(c)]] <= 1)
      BY <2>24, <3>2 DEF Remove
    <3> QED BY <3>1, <3>2
  <2>25. CASE CancelCommand(c) BY <2>25 DEF CancelCommand
  <2>26. CASE Release(c) BY <2>26 DEF Release
  <2>27. CASE FreeSlot(c) BY <2>27 DEF FreeSlot
  <2>28. CASE CommandEnds(c) BY <2>28 DEF CommandEnds
  <2>29. CASE CommandBreaks(c) BY <2>29 DEF CommandBreaks
  <2>30. CASE Cancel(c) BY <2>30 DEF Cancel
  <2>31. CASE LinkDies(c) BY <2>31 DEF LinkDies
  <2>32. CASE GoesIdle(c) BY <2>32 DEF GoesIdle
  <2> QED BY <1>1, <2>1, <2>2, <2>3, <2>4, <2>5, <2>6, <2>7, <2>8, <2>9,
        <2>10, <2>11, <2>12, <2>13, <2>14, <2>15, <2>16, <2>17, <2>18, <2>19,
        <2>20, <2>21, <2>22, <2>23, <2>24, <2>25, <2>26, <2>27, <2>28, <2>29,
        <2>30, <2>31, <2>32 DEF GetSteps, HandshakeSteps, SessionSteps,
        CommandSteps
<1>2. CASE ReapIdle BY <1>2 DEF ReapIdle, Expired
<1>3. CASE Close BY <1>3 DEF Close
<1>4. CASE UNCHANGED vars BY <1>4 DEF vars, Key
<1> QED BY <1>1, <1>2, <1>3, <1>4 DEF Next
----------------------------------------------------------------------------
(* The inductive invariant and what follows from it.                       *)
IInv ==
  /\ Typed
  /\ LockHeld
  /\ Places
  /\ SlotsConserved
  /\ ActiveIsUsers
  /\ NoLeak
  /\ Sharing

(* The inductive invariant holds at the start.                             *)
LEMMA InitIInv == Init => IInv
<1> SUFFICES ASSUME Init PROVE IInv
  OBVIOUS
<1> USE PoolAssumption DEF Init
<1>1. Typed
  <2>1. pc \in [Calls -> PCs] /\ result \in [Calls -> Results] /\ link \in [Conns -> Links]
    BY DEF PCs, Results, Links
  <2>2. conn \in [Calls -> Conns \cup {None}] /\ pooled \in [Keys -> Conns \cup {None}]
        /\ keyLock \in [Keys -> Calls \cup {None}]
    OBVIOUS
  <2>3. active \in [Conns -> Int] /\ sem \in [Hosts -> Int]
        /\ currentDelay \in [Hosts -> Nat]
    OBVIOUS
  <2> QED BY <2>1, <2>2, <2>3 DEF Typed
<1>2. LockHeld BY DEF LockHeld, LockedPCs, GetLockedPCs
<1>3. Places BY DEF Places, HasConnPCs, UsingPCs, EarlyPCs, Conns
<1>4. SlotsConserved
  <2>1. \A h \in Hosts : SlotHolders(h) = {} BY DEF SlotHolders, SlotPCs, UsingPCs
  <2>2. \A h \in Hosts : sem[h] = 0 /\ 0 <= MaxConns[h] OBVIOUS
  <2> QED BY <2>1, <2>2, FS_EmptySet DEF SlotsConserved
<1>5. ActiveIsUsers
  <2>1. \A e \in Conns : Users(e) = {} BY DEF Users, Conns
  <2> QED BY <2>1, FS_EmptySet DEF ActiveIsUsers
<1>6. NoLeak BY DEF NoLeak
<1>7. Sharing BY DEF Sharing
<1> QED BY <1>1, <1>2, <1>3, <1>4, <1>5, <1>6, <1>7 DEF IInv

(* Every step keeps the inductive invariant.                               *)
LEMMA NextIInv == IInv /\ [Next]_vars => IInv'
BY TypedInductive, LockInductive, PlacesInductive, SlotsInductive, UsersInductive,
   CountsTell, SharingInductive
   DEF IInv

(* The inductive invariant holds in every reachable state, for any calls,  *)
(* keys, hosts and limits.                                                 *)
THEOREM Invariance == Spec => []IInv
<1> QED BY InitIInv, NextIInv, PTL DEF Spec

(* Type correctness, with counters that never go below zero: a slot or a   *)
(* use of a connection is never given back twice.                          *)
THEOREM TypeCorrect == Spec => []TypeOK
<1>1. IInv => TypeOK
  <2> SUFFICES ASSUME IInv PROVE TypeOK
    OBVIOUS
  <2>1. active \in [Conns -> Nat] BY CountsTell DEF IInv, Typed, FewUsers
  <2>2. \A h \in Hosts : sem[h] \in Nat
    BY SlotHoldersFinite, FS_CardinalityType DEF IInv, SlotsConserved
  <2>3. sem \in [Hosts -> Nat] BY <2>2 DEF IInv, Typed
  <2> QED BY <2>1, <2>3 DEF IInv, Typed, TypeOK
<1> QED BY <1>1, Invariance, PTL

(* The slots of every host are conserved, and at most MaxConns are taken.  *)
THEOREM SlotsAreConserved == Spec => []SlotsConserved
<1>1. IInv => SlotsConserved BY DEF IInv
<1> QED BY <1>1, Invariance, PTL

(* entry.active is the number of users, for every connection and for ever. *)
THEOREM ActiveCountsUsers == Spec => []ActiveIsUsers
<1>1. IInv => ActiveIsUsers BY DEF IInv
<1> QED BY <1>1, Invariance, PTL

(* No connection that is open is forgotten, and a closed pool stays empty. *)
THEOREM NothingLeaks == Spec => []NoLeak
<1>1. IInv => NoLeak BY DEF IInv
<1> QED BY <1>1, Invariance, PTL
----------------------------------------------------------------------------
(* Who closes a connection.                                                *)

(* Who closes a connection of an open pool uses it, alone.                 *)
LEMMA CloserIsUser ==
  ASSUME IInv, [Next]_vars, NEW e \in Conns,
         link[e] # "closed", link'[e] = "closed", ~closed',
         NEW d \in Users(e)
  PROVE  pc'[d] # pc[d]
<1> FewUsers BY CountsTell DEF IInv
<1>d. d \in Calls /\ conn[d] = e BY DEF Users
<1> USE <1>d, PoolAssumption, KeyAndHost DEF IInv, Typed, Sharing, Places, FewUsers, Conns, Goto,
      poolVars, limiterVars
<1>1. ASSUME NEW c \in Calls,
             \/ GetSteps(c) \/ HandshakeSteps(c) \/ SessionSteps(c)
             \/ CommandSteps(c) \/ Cancel(c) \/ LinkDies(c) \/ GoesIdle(c)
      PROVE  pc'[d] # pc[d]
  <2>1. CASE ProbeAbandoned(c) BY <2>1 DEF ProbeAbandoned
  <2>2. CASE Evict(c) BY <2>2 DEF Evict
  <2>3. CASE Install(c) BY <2>3 DEF Install, Made
  <2>4. CASE Remove(c) BY <2>4 DEF Remove, HasConnPCs, UsingPCs
  <2>5. CASE Handshake(c) BY <2>5 DEF Handshake, EarlyPCs
  <2>6. CASE LinkDies(c) BY <2>6 DEF LinkDies
  <2>7. CASE link' = link BY <2>7
  <2> QED BY <1>1, <2>1, <2>2, <2>3, <2>4, <2>5, <2>6, <2>7
        DEF GetSteps, HandshakeSteps, SessionSteps, CommandSteps, AcquireSlot,
        CancelAcquire, SlotArrives, CancelWait, LockKey, RefuseClosed, TakePooled,
        NoEntry, ProbeAnswered, ProbeFails, Connect, ConnectFails, Report, Unwind,
        HandOut, HandshakeFails, OpenSession, SessionFails, RemoveLock,
        CancelCommand, Release, FreeSlot, CommandEnds, CommandBreaks, Cancel, GoesIdle
<1>2. CASE ReapIdle BY <1>2 DEF ReapIdle, Expired
<1>3. CASE Close BY <1>3 DEF Close
<1>4. CASE UNCHANGED vars BY <1>4 DEF vars
<1> QED BY <1>1, <1>2, <1>3, <1>4 DEF Next

(* Until the pool is closed, a connection is closed only by the call that  *)
(* alone uses it, in a step of its own.                                    *)
THEOREM NobodyElseCloses == Spec => NoForeignClose
<1>1. IInv /\ [Next]_vars =>
        [\A e \in Conns :
           link[e] # "closed" /\ link'[e] = "closed" /\ ~closed'
             => \A c \in Users(e) : pc'[c] # pc[c]]_vars
  BY CloserIsUser
<1> QED BY <1>1, Invariance, PTL DEF Spec, NoForeignClose
----------------------------------------------------------------------------
(* The pool implements the lease: each step of it is a step of             *)
(* SharedConnections, or leaves the lease as it is.                        *)

(* The steps that neither lend, make, publish nor take away a connection.  *)
QuietStep(c) ==
  \/ AcquireSlot(c) \/ CancelAcquire(c) \/ SlotArrives(c) \/ CancelWait(c)
  \/ LockKey(c) \/ RefuseClosed(c) \/ NoEntry(c) \/ ProbeAnswered(c)
  \/ ProbeFails(c) \/ Connect(c) \/ ConnectFails(c) \/ HandshakeFails(c)
  \/ Report(c) \/ Unwind(c) \/ HandOut(c) \/ OpenSession(c)
  \/ SessionFails(c) \/ RemoveLock(c) \/ CancelCommand(c) \/ FreeSlot(c)
  \/ CommandEnds(c) \/ CommandBreaks(c) \/ Cancel(c) \/ LinkDies(c)
  \/ GoesIdle(c)

(* Locks, slots and failures are stuttering steps of the abstract lease.   *)
LEMMA QuietStepsStutter ==
  ASSUME IInv, NEW c \in Calls, QuietStep(c)
  PROVE  /\ pooled' = pooled /\ Usable' = Usable /\ Fresh' = Fresh
         /\ conn' = conn /\ closed' = closed
<1> USE DEF IInv, Typed, Usable, Fresh, Conns, Goto, poolVars, limiterVars
<1>1. CASE AcquireSlot(c) BY <1>1 DEF AcquireSlot
<1>2. CASE CancelAcquire(c) BY <1>2 DEF CancelAcquire
<1>3. CASE SlotArrives(c) BY <1>3 DEF SlotArrives
<1>4. CASE CancelWait(c) BY <1>4 DEF CancelWait
<1>5. CASE LockKey(c) BY <1>5 DEF LockKey
<1>6. CASE RefuseClosed(c) BY <1>6 DEF RefuseClosed
<1>7. CASE NoEntry(c) BY <1>7 DEF NoEntry
<1>8. CASE ProbeAnswered(c) BY <1>8 DEF ProbeAnswered
<1>9. CASE ProbeFails(c) BY <1>9 DEF ProbeFails
<1>10. CASE Connect(c) BY <1>10 DEF Connect
<1>11. CASE ConnectFails(c) BY <1>11 DEF ConnectFails
<1>12. CASE HandshakeFails(c) BY <1>12 DEF HandshakeFails
<1>13. CASE Report(c) BY <1>13 DEF Report
<1>14. CASE Unwind(c) BY <1>14 DEF Unwind
<1>15. CASE HandOut(c) BY <1>15 DEF HandOut
<1>16. CASE OpenSession(c) BY <1>16 DEF OpenSession
<1>17. CASE SessionFails(c) BY <1>17 DEF SessionFails
<1>18. CASE RemoveLock(c) BY <1>18 DEF RemoveLock
<1>19. CASE CancelCommand(c) BY <1>19 DEF CancelCommand
<1>20. CASE FreeSlot(c) BY <1>20 DEF FreeSlot
<1>21. CASE CommandEnds(c) BY <1>21 DEF CommandEnds
<1>22. CASE CommandBreaks(c) BY <1>22 DEF CommandBreaks
<1>23. CASE Cancel(c) BY <1>23 DEF Cancel
<1>24. CASE LinkDies(c) BY <1>24 DEF LinkDies
<1>25. CASE GoesIdle(c) BY <1>25 DEF GoesIdle
<1> QED BY <1>1, <1>2, <1>3, <1>4, <1>5, <1>6, <1>7, <1>8, <1>9, <1>10, <1>11,
  <1>12, <1>13, <1>14, <1>15, <1>16, <1>17, <1>18, <1>19, <1>20, <1>21, <1>22,
  <1>23, <1>24, <1>25 DEF QuietStep

(* Every step of the pool is a step of the abstract lease, or a stutter.   *)
LEMMA StepImplements == IInv /\ [Next]_vars => [Shared!SharedNext]_Shared!sharedVars
<1> SUFFICES ASSUME IInv, [Next]_vars PROVE [Shared!SharedNext]_Shared!sharedVars
  OBVIOUS
<1> FewUsers BY CountsTell DEF IInv
<1> USE PoolAssumption, KeyAndHost DEF IInv, Typed, Places, Sharing, NoLeak, FewUsers, Made, Usable,
      Fresh, Conns, Key, Goto, poolVars, limiterVars
<1>1. ASSUME NEW c \in Calls, QuietStep(c) PROVE UNCHANGED Shared!sharedVars
  BY <1>1, QuietStepsStutter DEF Shared!sharedVars
<1>2. ASSUME NEW c \in Calls, TakePooled(c) PROVE Shared!Lend(c)
  BY <1>2 DEF TakePooled, Shared!Lend
<1>3. ASSUME NEW c \in Calls, ProbeAbandoned(c) PROVE Shared!CloseOwn(c)
  <2>1. /\ pc[c] = "probe" /\ conn[c] \in Conns
        /\ link' = [link EXCEPT ![conn[c]] = "closed"]
        /\ pc' = [pc EXCEPT ![c] = "evict"]
        /\ UNCHANGED <<conn, pooled, closed>>
    BY <1>3 DEF ProbeAbandoned, HasConnPCs
  <2>2. Shared!Lessees(conn[c]) = {c} BY <2>1 DEF Shared!Lessees
  <2>3. Usable' = Usable \ {conn[c]} BY <2>1
  <2>4. Fresh' = Fresh BY <2>1
  <2> QED BY <2>1, <2>2, <2>3, <2>4 DEF Shared!CloseOwn
<1>4. ASSUME NEW c \in Calls, Evict(c) PROVE Shared!DropOwn(c) \/ Shared!GiveBack(c)
  <2>1. /\ pc[c] = "evict" /\ conn[c] \in Conns
        /\ link' = [link EXCEPT ![conn[c]] = "closed"]
        /\ pooled' = [pooled EXCEPT ![Key(c)] = None]
        /\ conn' = [conn EXCEPT ![c] = None]
        /\ pc' \in {[pc EXCEPT ![c] = "unwind"], [pc EXCEPT ![c] = "dial"]}
        /\ closed' = closed
    BY <1>4 DEF Evict, HasConnPCs
  <2>2. Shared!Lessees(conn[c]) = {c} BY <2>1 DEF Shared!Lessees
  <2>3. Usable' = Usable \ {conn[c]} BY <2>1
  <2>4. Fresh' = Fresh BY <2>1
  <2>5. CASE ~closed
    <3>1. pooled[KeyOf[c]] = conn[c] BY <2>1, <2>5
    <3> QED BY <2>1, <2>2, <2>3, <2>4, <3>1 DEF Shared!DropOwn
  <2>6. CASE closed
    <3>1. pooled' = pooled BY <2>1, <2>6
    <3>2. conn[c] \notin Usable BY <2>1, <2>6
    <3> QED BY <2>1, <2>3, <2>4, <3>1, <3>2 DEF Shared!GiveBack
  <2> QED BY <2>5, <2>6
<1>5. ASSUME NEW c \in Calls, Handshake(c) PROVE Shared!Make(c)
  BY <1>5 DEF Handshake, Shared!Make
<1>6. ASSUME NEW c \in Calls, Install(c) PROVE Shared!Publish(c) \/ Shared!Abandon(c)
  BY <1>6 DEF Install, Shared!Publish, Shared!Abandon, Shared!Lessees
<1>7. ASSUME NEW c \in Calls, Remove(c)
      PROVE  Shared!DropOwn(c) \/ UNCHANGED Shared!sharedVars
  <2>1. /\ pc[c] = "removing" /\ conn[c] \in Conns
        /\ pc' = [pc EXCEPT ![c] = "release"]
        /\ UNCHANGED <<conn, closed>>
    BY <1>7 DEF Remove, HasConnPCs, UsingPCs
  <2>2. Fresh' = Fresh BY <2>1
  <2>3. CASE pooled[Key(c)] # None /\ active[pooled[Key(c)]] <= 1
    <3>1. /\ link' = [link EXCEPT ![conn[c]] = "closed"]
          /\ pooled' = [pooled EXCEPT ![Key(c)] = None]
          /\ pooled[Key(c)] = conn[c]
      BY <1>7, <2>1, <2>3 DEF Remove
    <3>2. Shared!Lessees(conn[c]) \subseteq {c} BY <2>1, <2>3, <3>1 DEF Shared!Lessees
    <3>3. Usable' = Usable \ {conn[c]} BY <2>1, <3>1
    <3> QED BY <2>1, <2>2, <3>1, <3>2, <3>3 DEF Shared!DropOwn
  <2>4. CASE ~(pooled[Key(c)] # None /\ active[pooled[Key(c)]] <= 1)
    <3>1. link' = link /\ pooled' = pooled BY <1>7, <2>4 DEF Remove
    <3>2. Usable' = Usable BY <2>1, <3>1
    <3> QED BY <2>1, <2>2, <3>1, <3>2 DEF Shared!sharedVars
  <2> QED BY <2>3, <2>4
<1>8. ASSUME NEW c \in Calls, Release(c) PROVE Shared!GiveBack(c)
  BY <1>8 DEF Release, Shared!GiveBack
<1>9. ASSUME ReapIdle PROVE Shared!DropUnused
  <2> DEFINE S == {k \in Keys : Expired(k)}
  <2>1. UNCHANGED <<pc, conn, closed>> /\ Fresh' = Fresh BY <1>9 DEF ReapIdle
  <2>2. \A k \in S : pooled[k] # None /\ Shared!Lessees(pooled[k]) = {}
    BY DEF Expired, Shared!Lessees
  <2>3. pooled' = [k \in Keys |-> IF k \in S THEN None ELSE pooled[k]]
    BY <1>9 DEF ReapIdle
  <2>4. Usable' = Usable \ {pooled[k] : k \in S}
    <3>1. link' = [e \in Conns |-> IF e \in {pooled[k] : k \in S} THEN "closed" ELSE link[e]]
      BY <1>9 DEF ReapIdle
    <3> HIDE DEF S
    <3> QED BY <2>1, <3>1
  <2> QED BY <2>1, <2>2, <2>3, <2>4 DEF Shared!DropUnused
<1>10. ASSUME Close PROVE Shared!Shutdown
  <2>1. UNCHANGED <<pc, conn>> /\ Fresh' = Fresh /\ closed' = TRUE BY <1>10 DEF Close
  <2>2. Usable' = {} BY <1>10, <2>1 DEF Close
  <2>3. pooled' = [k \in Keys |-> None] BY <1>10 DEF Close
  <2> QED BY <2>1, <2>2, <2>3 DEF Shared!Shutdown
<1>11. CASE UNCHANGED vars BY <1>11 DEF vars, Shared!sharedVars
<1>12. ASSUME NEW c \in Calls,
             \/ GetSteps(c) \/ HandshakeSteps(c) \/ SessionSteps(c)
             \/ CommandSteps(c) \/ Cancel(c) \/ LinkDies(c) \/ GoesIdle(c)
       PROVE [Shared!SharedNext]_Shared!sharedVars
  BY ONLY <1>1, <1>2, <1>3, <1>4, <1>5, <1>6, <1>7, <1>8, <1>12
     DEF QuietStep, GetSteps, HandshakeSteps, SessionSteps, CommandSteps, Shared!SharedNext
<1> QED BY <1>9, <1>10, <1>11, <1>12 DEF Next, Shared!SharedNext

(* However calls, the reaper and the shutdown interleave, the pool behaves *)
(* like connections that are leased: a call loses the one it uses by its   *)
(* own doing, or because the pool is closed.                               *)
THEOREM Implementation == Spec => ImplementsSharing
<1>1. Init => Shared!SharedInit
  BY PoolAssumption DEF Init, Shared!SharedInit, Usable, Fresh, Conns
<1> QED BY <1>1, StepImplements, Invariance, PTL
        DEF Spec, ImplementsSharing, Shared!SharedSpec
=============================================================================

------------------------- MODULE RateLimiter_proofs -------------------------
(***************************************************************************)
(* Proofs about module RateLimiter, for any number of calls and hosts and  *)
(* any configured delays.  The inductive invariant says which bucket a     *)
(* call works on, how its semaphore counts, and that no reserved time lies *)
(* beyond nextAllowedAt.                                                   *)
(***************************************************************************)
EXTENDS RateLimiter, FiniteSetTheorems, TLAPS

(* Types, with integers for the tokens of the semaphores. *)
Typed ==
  /\ now \in Nat
  /\ buckets \in [Hosts -> Buckets \cup {None}]
  /\ ref \in [Calls -> Buckets \cup {None}]
  /\ sem \in [Buckets -> Int]
  /\ currentDelay \in [Buckets -> Nat]
  /\ nextAllowed \in [Buckets -> Nat]
  /\ pc \in [Calls -> PCs]
  /\ slot \in [Calls -> Nat \cup {None}]
  /\ cancelled \subseteq Calls

(* The bucket of a host is made by a call for that host, and a call works  *)
(* on the bucket of its host.                                              *)
OwnBucket ==
  /\ \A h \in Hosts : buckets[h] # None => Host(buckets[h]) = h
  /\ \A c \in Calls : ref[c] # None => ref[c] = buckets[Host(c)]
  /\ \A c \in Calls : pc[c] \notin {"idle", "missed"} => ref[c] # None

(* No slot that was handed out lies beyond the next allowed time. *)
SlotsBehind ==
  /\ \A c \in Calls : pc[c] \in {"idle", "missed", "sem", "timing"} => slot[c] = None
  /\ \A c \in Calls : slot[c] # None =>
       /\ ref[c] # None
       /\ slot[c] <= nextAllowed[ref[c]]

(* The host of a call is a host.                                           *)
LEMMA HostOfCall == \A c \in Calls : Host(c) \in Hosts
BY LimiterAssumption DEF Host

(* The rules for the delay keep it in its range. *)
LEMMA DelayRules ==
  ASSUME NEW d \in Nat, NEW base \in Nat, NEW low \in Nat,
         low <= base, low <= MaxDelay, low <= d
  PROVE  /\ OnTransportErrorDelay(d) \in Nat
         /\ OnTransportErrorDelay(d) >= low
         /\ OnTransportErrorDelay(d) <= MaxDelay
         /\ OnSuccessDelay(d, base) \in Nat
         /\ OnSuccessDelay(d, base) >= low
         /\ OnSuccessDelay(d, base) <= base \/ OnSuccessDelay(d, base) <= d
BY MaxDelayAssumption DEF OnTransportErrorDelay, OnSuccessDelay

(* A new slot is a whole delay after every earlier one, and after now. *)
LEMMA NextSlotIsLater ==
  ASSUME NEW t \in Nat, NEW next \in Nat, NEW d \in Nat
  PROVE  /\ NextSlot(t, next, d) \in Nat
         /\ NextSlot(t, next, d) >= next + d
         /\ NextSlot(t, next, d) >= t + d
BY DEF NextSlot

(* The slot of a call that reserves now. *)
LEMMA ReservedSlot ==
  ASSUME Typed, OwnBucket, NEW c \in Calls, pc[c] = "timing"
  PROVE  LET b == ref[c]
             s == NextSlot(now, nextAllowed[b], currentDelay[b])
         IN  /\ b \in Buckets /\ b = buckets[Host(c)]
             /\ s \in Nat
             /\ s >= nextAllowed[b] + currentDelay[b]
             /\ s >= nextAllowed[b]
<1>1. ref[c] \in Buckets /\ ref[c] = buckets[Host(c)]
  BY LimiterAssumption DEF Typed, OwnBucket
<1>2. now \in Nat /\ nextAllowed[ref[c]] \in Nat /\ currentDelay[ref[c]] \in Nat
  BY <1>1 DEF Typed
<1> DEFINE s == NextSlot(now, nextAllowed[ref[c]], currentDelay[ref[c]])
<1>3. s \in Nat /\ s >= nextAllowed[ref[c]] + currentDelay[ref[c]]
  BY <1>2, NextSlotIsLater
<1>4. s >= nextAllowed[ref[c]]
  <2> HIDE DEF s
  <2> QED BY ONLY <1>2, <1>3
<1> QED BY <1>1, <1>3, <1>4

----------------------------------------------------------------------------
(* Every step keeps the types.                                             *)
LEMMA TypedInductive == Typed /\ OwnBucket /\ [Next]_vars => Typed'
<1> SUFFICES ASSUME Typed, OwnBucket, [Next]_vars PROVE Typed'
  OBVIOUS
<1> USE LimiterAssumption, HostOfCall DEF Typed, OwnBucket, Buckets, PCs, Goto, limiterVars
<1>1. ASSUME NEW c \in Calls,
             \/ LookUp(c) \/ Create(c) \/ TakeToken(c) \/ CancelWait(c)
             \/ Reserve(c) \/ Wake(c) \/ CancelSleep(c) \/ OnSuccess(c)
             \/ Start(c) \/ Release(c) \/ DialFails(c) \/ OnTransportError(c)
             \/ Cancel(c)
      PROVE  Typed'
  <2>1. CASE LookUp(c) BY <2>1 DEF LookUp
  <2>2. CASE Create(c)
    <3>1. CASE buckets[Host(c)] # None BY <2>2, <3>1 DEF Create
    <3>2. CASE buckets[Host(c)] = None BY <2>2, <3>2 DEF Create
    <3> QED BY <3>1, <3>2
  <2>3. CASE TakeToken(c) BY <2>3 DEF TakeToken
  <2>4. CASE CancelWait(c) BY <2>4 DEF CancelWait
  <2>5. CASE Reserve(c)
    <3> DEFINE s == NextSlot(now, nextAllowed[ref[c]], currentDelay[ref[c]])
    <3>1. s \in Nat BY <2>5, ReservedSlot DEF Reserve
    <3> QED BY <2>5, <3>1 DEF Reserve
  <2>6. CASE Wake(c) BY <2>6 DEF Wake
  <2>7. CASE CancelSleep(c) BY <2>7 DEF CancelSleep
  <2>8. CASE OnSuccess(c)
    <3>1. buckets[Host(c)] \in Buckets BY <2>8 DEF OnSuccess
    <3>2. OnSuccessDelay(currentDelay[buckets[Host(c)]], BaseDelay[Host(c)]) \in Nat
      BY <3>1, MaxDelayAssumption DEF OnSuccessDelay
    <3> QED BY <2>8, <3>1, <3>2 DEF OnSuccess
  <2>9. CASE Start(c) BY <2>9 DEF Start
  <2>10. CASE Release(c) BY <2>10 DEF Release
  <2>11. CASE DialFails(c) BY <2>11 DEF DialFails
  <2>12. CASE OnTransportError(c)
    <3>1. buckets[Host(c)] \in Buckets BY <2>12 DEF OnTransportError
    <3>2. OnTransportErrorDelay(currentDelay[buckets[Host(c)]]) \in Nat
      BY <3>1, MaxDelayAssumption DEF OnTransportErrorDelay
    <3> QED BY <2>12, <3>1, <3>2 DEF OnTransportError
  <2>13. CASE Cancel(c) BY <2>13 DEF Cancel
  <2> QED BY <1>1, <2>1, <2>2, <2>3, <2>4, <2>5, <2>6, <2>7, <2>8, <2>9, <2>10,
        <2>11, <2>12, <2>13
<1>2. CASE Tick BY <1>2 DEF Tick
<1>3. CASE UNCHANGED vars BY <1>3 DEF vars, limiterVars
<1> QED BY <1>1, <1>2, <1>3 DEF Next

(* A call past the lookup keeps the one bucket its host has (getBucket).   *)
LEMMA OwnBucketInductive == Typed /\ OwnBucket /\ [Next]_vars => OwnBucket'
<1> SUFFICES ASSUME Typed, OwnBucket, [Next]_vars PROVE OwnBucket'
  OBVIOUS
<1> USE LimiterAssumption, HostOfCall DEF Typed, OwnBucket, Buckets, Goto, limiterVars, Host
<1>1. ASSUME NEW c \in Calls,
             \/ LookUp(c) \/ Create(c) \/ TakeToken(c) \/ CancelWait(c)
             \/ Reserve(c) \/ Wake(c) \/ CancelSleep(c) \/ OnSuccess(c)
             \/ Start(c) \/ Release(c) \/ DialFails(c) \/ OnTransportError(c)
             \/ Cancel(c)
      PROVE  OwnBucket'
  <2>1. CASE LookUp(c) BY <2>1 DEF LookUp
  <2>2. CASE Create(c) BY <2>2 DEF Create
  <2>3. CASE TakeToken(c) BY <2>3 DEF TakeToken
  <2>4. CASE CancelWait(c) BY <2>4 DEF CancelWait
  <2>5. CASE Reserve(c) BY <2>5 DEF Reserve
  <2>6. CASE Wake(c) BY <2>6 DEF Wake
  <2>7. CASE CancelSleep(c) BY <2>7 DEF CancelSleep
  <2>8. CASE OnSuccess(c) BY <2>8 DEF OnSuccess
  <2>9. CASE Start(c) BY <2>9 DEF Start
  <2>10. CASE Release(c) BY <2>10 DEF Release
  <2>11. CASE DialFails(c) BY <2>11 DEF DialFails
  <2>12. CASE OnTransportError(c) BY <2>12 DEF OnTransportError
  <2>13. CASE Cancel(c) BY <2>13 DEF Cancel
  <2> QED BY <1>1, <2>1, <2>2, <2>3, <2>4, <2>5, <2>6, <2>7, <2>8, <2>9, <2>10,
        <2>11, <2>12, <2>13
<1>2. CASE Tick BY <1>2 DEF Tick
<1>3. CASE UNCHANGED vars BY <1>3 DEF vars, limiterVars
<1> QED BY <1>1, <1>2, <1>3 DEF Next

----------------------------------------------------------------------------
(* No step takes the delay of a host out of its range.                     *)
LEMMA DelayInductive == Typed /\ OwnBucket /\ DelayInRange /\ [Next]_vars => DelayInRange'
<1> SUFFICES ASSUME Typed, OwnBucket, DelayInRange, [Next]_vars PROVE DelayInRange'
  OBVIOUS
<1> USE LimiterAssumption, MaxDelayAssumption, HostOfCall
    DEF Typed, OwnBucket, DelayInRange, Spacing, Buckets, Goto, limiterVars
<1>1. ASSUME NEW c \in Calls,
             \/ LookUp(c) \/ Create(c) \/ TakeToken(c) \/ CancelWait(c)
             \/ Reserve(c) \/ Wake(c) \/ CancelSleep(c) \/ OnSuccess(c)
             \/ Start(c) \/ Release(c) \/ DialFails(c) \/ OnTransportError(c)
             \/ Cancel(c)
      PROVE  DelayInRange'
  <2>1. CASE LookUp(c) BY <2>1 DEF LookUp
  <2>2. CASE Create(c) BY <2>2 DEF Create
  <2>3. CASE TakeToken(c) BY <2>3 DEF TakeToken
  <2>4. CASE CancelWait(c) BY <2>4 DEF CancelWait
  <2>5. CASE Reserve(c) BY <2>5 DEF Reserve
  <2>6. CASE Wake(c) BY <2>6 DEF Wake
  <2>7. CASE CancelSleep(c) BY <2>7 DEF CancelSleep
  <2>8. CASE OnSuccess(c) BY <2>8 DEF OnSuccess, OnSuccessDelay
  <2>9. CASE Start(c) BY <2>9 DEF Start
  <2>10. CASE Release(c) BY <2>10 DEF Release
  <2>11. CASE DialFails(c) BY <2>11 DEF DialFails
  <2>12. CASE OnTransportError(c) BY <2>12 DEF OnTransportError, OnTransportErrorDelay
  <2>13. CASE Cancel(c) BY <2>13 DEF Cancel
  <2> QED BY <1>1, <2>1, <2>2, <2>3, <2>4, <2>5, <2>6, <2>7, <2>8, <2>9, <2>10,
        <2>11, <2>12, <2>13
<1>2. CASE Tick BY <1>2 DEF Tick
<1>3. CASE UNCHANGED vars BY <1>3 DEF vars, limiterVars
<1> QED BY <1>1, <1>2, <1>3 DEF Next

(* nextAllowedAt never falls behind a slot it has given out.               *)
LEMMA SlotsBehindInductive == Typed /\ OwnBucket /\ SlotsBehind /\ [Next]_vars => SlotsBehind'
<1> SUFFICES ASSUME Typed, OwnBucket, SlotsBehind, [Next]_vars PROVE SlotsBehind'
  OBVIOUS
<1> USE LimiterAssumption, HostOfCall DEF Typed, OwnBucket, SlotsBehind, Buckets, Goto, limiterVars
<1>1. ASSUME NEW c \in Calls,
             \/ LookUp(c) \/ Create(c) \/ TakeToken(c) \/ CancelWait(c)
             \/ Reserve(c) \/ Wake(c) \/ CancelSleep(c) \/ OnSuccess(c)
             \/ Start(c) \/ Release(c) \/ DialFails(c) \/ OnTransportError(c)
             \/ Cancel(c)
      PROVE  SlotsBehind'
  <2>1. CASE LookUp(c) BY <2>1 DEF LookUp
  <2>2. CASE Create(c) BY <2>2 DEF Create
  <2>3. CASE TakeToken(c) BY <2>3 DEF TakeToken
  <2>4. CASE CancelWait(c) BY <2>4 DEF CancelWait
  <2>5. CASE Reserve(c)
    <3> DEFINE s == NextSlot(now, nextAllowed[ref[c]], currentDelay[ref[c]])
    <3>1. s \in Nat /\ s >= nextAllowed[ref[c]] BY <2>5, ReservedSlot DEF Reserve
    <3> QED BY <2>5, <3>1 DEF Reserve
  <2>6. CASE Wake(c) BY <2>6 DEF Wake
  <2>7. CASE CancelSleep(c) BY <2>7 DEF CancelSleep
  <2>8. CASE OnSuccess(c) BY <2>8 DEF OnSuccess
  <2>9. CASE Start(c) BY <2>9 DEF Start
  <2>10. CASE Release(c) BY <2>10 DEF Release
  <2>11. CASE DialFails(c) BY <2>11 DEF DialFails
  <2>12. CASE OnTransportError(c) BY <2>12 DEF OnTransportError
  <2>13. CASE Cancel(c) BY <2>13 DEF Cancel
  <2> QED BY <1>1, <2>1, <2>2, <2>3, <2>4, <2>5, <2>6, <2>7, <2>8, <2>9, <2>10,
        <2>11, <2>12, <2>13
<1>2. CASE Tick BY <1>2 DEF Tick
<1>3. CASE UNCHANGED vars BY <1>3 DEF vars, limiterVars
<1> QED BY <1>1, <1>2, <1>3 DEF Next

(* A new slot is spaced from all slots given out before it (Acquire).      *)
LEMMA SpacedInductive ==
  Typed /\ OwnBucket /\ DelayInRange /\ SlotsBehind /\ SlotsSpaced /\ [Next]_vars
    => SlotsSpaced'
<1> SUFFICES ASSUME Typed, OwnBucket, DelayInRange, SlotsBehind, SlotsSpaced, [Next]_vars
             PROVE  SlotsSpaced'
  OBVIOUS
<1> USE LimiterAssumption, MaxDelayAssumption, HostOfCall
    DEF Typed, OwnBucket, DelayInRange, SlotsBehind, SlotsSpaced, Buckets, Goto, limiterVars, Host
<1>1. ASSUME NEW c \in Calls,
             \/ LookUp(c) \/ Create(c) \/ TakeToken(c) \/ CancelWait(c)
             \/ Reserve(c) \/ Wake(c) \/ CancelSleep(c) \/ OnSuccess(c)
             \/ Start(c) \/ Release(c) \/ DialFails(c) \/ OnTransportError(c)
             \/ Cancel(c)
      PROVE  SlotsSpaced'
  <2>1. CASE LookUp(c) BY <2>1 DEF LookUp
  <2>2. CASE Create(c) BY <2>2 DEF Create
  <2>3. CASE TakeToken(c) BY <2>3 DEF TakeToken
  <2>4. CASE CancelWait(c) BY <2>4 DEF CancelWait
  <2>5. CASE Reserve(c)
    <3> DEFINE s == NextSlot(now, nextAllowed[ref[c]], currentDelay[ref[c]])
    <3>1. s \in Nat /\ s >= nextAllowed[ref[c]] + currentDelay[ref[c]]
      BY <2>5, ReservedSlot DEF Reserve
    <3>2. currentDelay[ref[c]] >= Spacing(Host(c)) /\ Spacing(Host(c)) \in Nat
      BY <2>5 DEF Reserve, Spacing
    <3>3. \A d \in Calls :
            d # c /\ Host(d) = Host(c) /\ slot[d] # None => s >= slot[d] + Spacing(Host(c))
      <4> SUFFICES ASSUME NEW d \in Calls, d # c, Host(d) = Host(c), slot[d] # None
                   PROVE  s >= slot[d] + Spacing(Host(c))
        OBVIOUS
      <4>1. slot[d] \in Nat /\ slot[d] <= nextAllowed[ref[d]] OBVIOUS
      <4>2. ref[d] = ref[c] /\ nextAllowed[ref[c]] \in Nat BY <2>5 DEF Reserve
      <4>3. currentDelay[ref[c]] \in Nat BY <2>5 DEF Reserve
      <4> HIDE DEF s
      <4> QED BY ONLY <3>1, <3>2, <4>1, <4>2, <4>3
    <3>4. slot' = [slot EXCEPT ![c] = s] BY <2>5 DEF Reserve
    <3> HIDE DEF s
    <3> QED BY <3>1, <3>3, <3>4
  <2>6. CASE Wake(c) BY <2>6 DEF Wake
  <2>7. CASE CancelSleep(c) BY <2>7 DEF CancelSleep
  <2>8. CASE OnSuccess(c) BY <2>8 DEF OnSuccess
  <2>9. CASE Start(c) BY <2>9 DEF Start
  <2>10. CASE Release(c) BY <2>10 DEF Release
  <2>11. CASE DialFails(c) BY <2>11 DEF DialFails
  <2>12. CASE OnTransportError(c) BY <2>12 DEF OnTransportError
  <2>13. CASE Cancel(c) BY <2>13 DEF Cancel
  <2> QED BY <1>1, <2>1, <2>2, <2>3, <2>4, <2>5, <2>6, <2>7, <2>8, <2>9, <2>10,
        <2>11, <2>12, <2>13
<1>2. CASE Tick BY <1>2 DEF Tick
<1>3. CASE UNCHANGED vars BY <1>3 DEF vars, limiterVars
<1> QED BY <1>1, <1>2, <1>3 DEF Next
----------------------------------------------------------------------------
(* Tokens: the semaphore of a host's bucket counts the calls that hold a   *)
(* slot of the host; a bucket that is not a host's has no tokens.          *)
Counted ==
  /\ \A h \in Hosts : buckets[h] # None =>
       /\ sem[buckets[h]] = Cardinality(Holders(h))
       /\ sem[buckets[h]] <= MaxConns[h]
  /\ \A b \in Buckets : buckets[Host(b)] # b => sem[b] = 0

OthersHold(c) == \A d \in Calls \ {c} : pc'[d] \in HoldingPCs <=> pc[d] \in HoldingPCs

KeepsTokens ==
  /\ sem' = sem
  /\ \A d \in Calls : pc'[d] \in HoldingPCs <=> pc[d] \in HoldingPCs
  /\ \A h \in Hosts : buckets[h] # None => buckets'[h] = buckets[h]

TakesToken(c) ==
  /\ pc[c] \notin HoldingPCs /\ pc'[c] \in HoldingPCs /\ OthersHold(c)
  /\ ref[c] # None
  /\ sem[ref[c]] < MaxConns[Host(c)]
  /\ sem' = [sem EXCEPT ![ref[c]] = @ + 1]
  /\ buckets' = buckets

GivesToken(c) ==
  /\ pc[c] \in HoldingPCs /\ pc'[c] \notin HoldingPCs /\ OthersHold(c)
  /\ ref[c] # None
  /\ sem' = [sem EXCEPT ![ref[c]] = @ - 1]
  /\ buckets' = buckets

(* What a step does to tokens and holders: nothing, one in, or one out.    *)
LEMMA TokenSteps ==
  Typed /\ OwnBucket /\ [Next]_vars
    => KeepsTokens \/ \E c \in Calls : TakesToken(c) \/ GivesToken(c)
<1> SUFFICES ASSUME Typed, OwnBucket, [Next]_vars
             PROVE  KeepsTokens \/ \E c \in Calls : TakesToken(c) \/ GivesToken(c)
  OBVIOUS
<1> USE LimiterAssumption, HostOfCall DEF Typed, OwnBucket, HoldingPCs, OthersHold, KeepsTokens,
      TakesToken, GivesToken, Goto, limiterVars
<1>1. ASSUME NEW c \in Calls,
             \/ LookUp(c) \/ Create(c) \/ TakeToken(c) \/ CancelWait(c)
             \/ Reserve(c) \/ Wake(c) \/ CancelSleep(c) \/ OnSuccess(c)
             \/ Start(c) \/ Release(c) \/ DialFails(c) \/ OnTransportError(c)
             \/ Cancel(c)
      PROVE  KeepsTokens \/ TakesToken(c) \/ GivesToken(c)
  <2>1. CASE LookUp(c) BY <2>1 DEF LookUp
  <2>2. CASE Create(c) BY <2>2 DEF Create
  <2>3. CASE TakeToken(c) BY <2>3 DEF TakeToken
  <2>4. CASE CancelWait(c) BY <2>4 DEF CancelWait
  <2>5. CASE Reserve(c) BY <2>5 DEF Reserve
  <2>6. CASE Wake(c) BY <2>6 DEF Wake
  <2>7. CASE CancelSleep(c) BY <2>7 DEF CancelSleep
  <2>8. CASE OnSuccess(c) BY <2>8 DEF OnSuccess
  <2>9. CASE Start(c) BY <2>9 DEF Start
  <2>10. CASE Release(c) BY <2>10 DEF Release
  <2>11. CASE DialFails(c) BY <2>11 DEF DialFails
  <2>12. CASE OnTransportError(c) BY <2>12 DEF OnTransportError
  <2>13. CASE Cancel(c) BY <2>13 DEF Cancel
  <2> QED BY <1>1, <2>1, <2>2, <2>3, <2>4, <2>5, <2>6, <2>7, <2>8, <2>9, <2>10,
        <2>11, <2>12, <2>13
<1>2. CASE Tick BY <1>2 DEF Tick
<1>3. CASE UNCHANGED vars BY <1>3 DEF vars, limiterVars
<1> QED BY <1>1, <1>2, <1>3 DEF Next

(* Holders can be counted.                                                 *)
LEMMA HoldersFinite == \A h \in Hosts : IsFiniteSet(Holders(h))
BY LimiterAssumption, FS_Subset DEF Holders

(* Who holds a slot of a host has its bucket. *)
LEMMA HoldersHaveBucket ==
  ASSUME Typed, OwnBucket, NEW h \in Hosts, buckets[h] = None
  PROVE  Holders(h) = {}
BY DEF OwnBucket, Holders, HoldingPCs

(* The tokens of a bucket stay the number of its holders.                  *)
LEMMA CountedInductive == Typed /\ OwnBucket /\ Counted /\ [Next]_vars => Counted'
<1> SUFFICES ASSUME Typed, OwnBucket, Counted, [Next]_vars PROVE Counted'
  OBVIOUS
<1>o. Typed' /\ OwnBucket' BY TypedInductive, OwnBucketInductive
<1>a. LimiterAssumption /\ \A c \in Calls : Host(c) \in Hosts
  BY LimiterAssumption, HostOfCall
<1>1. CASE KeepsTokens
  <2>1. \A h \in Hosts : Holders(h)' = Holders(h) BY <1>1 DEF KeepsTokens, Holders, Host
  <2>2. ASSUME NEW h \in Hosts, buckets'[h] # None
        PROVE  sem'[buckets'[h]] = Cardinality(Holders(h)') /\ sem'[buckets'[h]] <= MaxConns[h]
    <3>1. CASE buckets[h] # None
      BY <1>1, <2>1, <2>2, <3>1 DEF KeepsTokens, Counted
    <3>2. CASE buckets[h] = None
      <4>1. Host(buckets'[h]) = h /\ buckets'[h] \in Buckets
        BY <1>o, <2>2 DEF OwnBucket, Typed, Host
      <4>2. sem[buckets'[h]] = 0 BY <1>a, <3>2, <4>1 DEF Counted, Buckets
      <4>3. Holders(h)' = {} BY <2>1, <3>2, HoldersHaveBucket
      <4> QED BY <1>1, <1>a, <4>2, <4>3, FS_EmptySet DEF KeepsTokens
    <3> QED BY <3>1, <3>2
  <2>3. ASSUME NEW b \in Buckets, buckets'[Host(b)] # b PROVE sem'[b] = 0
    <3>1. buckets[Host(b)] # b
      BY <1>1, <1>a, <2>3 DEF KeepsTokens, Buckets
    <3> QED BY <1>1, <2>3, <3>1 DEF KeepsTokens, Counted
  <2> QED BY <2>2, <2>3 DEF Counted, Host
<1>2. ASSUME NEW c \in Calls, TakesToken(c) PROVE Counted'
  <2>b. /\ ref[c] = buckets[Host(c)] /\ ref[c] \in Buckets /\ buckets' = buckets
        /\ sem' = [sem EXCEPT ![ref[c]] = @ + 1] /\ sem \in [Buckets -> Int]
        /\ sem[ref[c]] < MaxConns[Host(c)] /\ MaxConns[Host(c)] \in Nat
    BY <1>2, <1>a DEF TakesToken, OwnBucket, Typed
  <2>1. ASSUME NEW h \in Hosts, buckets'[h] # None
        PROVE  sem'[buckets'[h]] = Cardinality(Holders(h)') /\ sem'[buckets'[h]] <= MaxConns[h]
    <3>h. sem[buckets[h]] = Cardinality(Holders(h)) /\ sem[buckets[h]] <= MaxConns[h]
      BY <2>b, <2>1 DEF Counted
    <3>1. CASE Host(c) = h
      <4>1. Holders(h)' = Holders(h) \cup {c} /\ c \notin Holders(h)
        BY <1>2, <3>1 DEF TakesToken, OthersHold, Holders, Host
      <4>2. Cardinality(Holders(h)') = Cardinality(Holders(h)) + 1
        BY <4>1, HoldersFinite, FS_AddElement
      <4>3. sem'[buckets'[h]] = sem[buckets[h]] + 1 BY <2>b, <3>1
      <4>4. sem[buckets[h]] \in Int BY <2>b, <3>1
      <4> QED BY <2>b, <3>h, <3>1, <4>2, <4>3, <4>4
    <3>2. CASE Host(c) # h
      <4>1. Holders(h)' = Holders(h)
        BY <1>2, <3>2 DEF TakesToken, OthersHold, Holders, Host
      <4>2. buckets[h] # ref[c] /\ buckets[h] \in Buckets
        BY <1>a, <2>b, <2>1, <3>2 DEF OwnBucket, Typed
      <4> QED BY <2>b, <3>h, <4>1, <4>2
    <3> QED BY <3>1, <3>2
  <2>2. ASSUME NEW b \in Buckets, buckets'[Host(b)] # b PROVE sem'[b] = 0
    <3>1. b # ref[c]
      BY <1>a, <2>b, <2>2 DEF OwnBucket, Buckets
    <3> QED BY <2>b, <2>2, <3>1 DEF Counted
  <2> QED BY <2>1, <2>2 DEF Counted, Host
<1>3. ASSUME NEW c \in Calls, GivesToken(c) PROVE Counted'
  <2>b. /\ ref[c] = buckets[Host(c)] /\ ref[c] \in Buckets /\ buckets' = buckets
        /\ sem' = [sem EXCEPT ![ref[c]] = @ - 1] /\ sem \in [Buckets -> Int]
        /\ MaxConns[Host(c)] \in Nat
    BY <1>3, <1>a DEF GivesToken, OwnBucket, Typed
  <2>1. ASSUME NEW h \in Hosts, buckets'[h] # None
        PROVE  sem'[buckets'[h]] = Cardinality(Holders(h)') /\ sem'[buckets'[h]] <= MaxConns[h]
    <3>h. sem[buckets[h]] = Cardinality(Holders(h)) /\ sem[buckets[h]] <= MaxConns[h]
      BY <2>b, <2>1 DEF Counted
    <3>1. CASE Host(c) = h
      <4>1. Holders(h)' = Holders(h) \ {c} /\ c \in Holders(h)
        BY <1>3, <3>1 DEF GivesToken, OthersHold, Holders, Host
      <4>2. Cardinality(Holders(h)') = Cardinality(Holders(h)) - 1
        BY <4>1, HoldersFinite, FS_RemoveElement
      <4>3. sem'[buckets'[h]] = sem[buckets[h]] - 1 BY <2>b, <3>1
      <4>4. sem[buckets[h]] \in Int BY <2>b, <3>1
      <4> QED BY <2>b, <3>h, <3>1, <4>2, <4>3, <4>4
    <3>2. CASE Host(c) # h
      <4>1. Holders(h)' = Holders(h)
        BY <1>3, <3>2 DEF GivesToken, OthersHold, Holders, Host
      <4>2. buckets[h] # ref[c] /\ buckets[h] \in Buckets
        BY <1>a, <2>b, <2>1, <3>2 DEF OwnBucket, Typed
      <4> QED BY <2>b, <3>h, <4>1, <4>2
    <3> QED BY <3>1, <3>2
  <2>2. ASSUME NEW b \in Buckets, buckets'[Host(b)] # b PROVE sem'[b] = 0
    <3>1. b # ref[c]
      BY <1>a, <2>b, <2>2 DEF OwnBucket, Buckets
    <3> QED BY <2>b, <2>2, <3>1 DEF Counted
  <2> QED BY <2>1, <2>2 DEF Counted, Host
<1> QED BY <1>1, <1>2, <1>3, TokenSteps
----------------------------------------------------------------------------
(* Pace: up to any time t, no more than t / Spacing start times of a host  *)
(* have been reserved, and a call that is let through has its slot behind. *)
Reserved(h) == {c \in Calls : Host(c) = h /\ slot[c] # None}
ReservedBy(h, t) == {c \in Calls : Host(c) = h /\ slot[c] # None /\ slot[c] <= t}

Arrived ==
  /\ \A c \in Calls : pc[c] = "sleep" => slot[c] # None
  /\ \A c \in Calls : pc[c] \in {"held", "connected", "running", "failed", "done"} =>
       slot[c] # None /\ slot[c] <= now

Paced ==
  /\ \A h \in Hosts : buckets[h] # None =>
       Cardinality(Reserved(h)) * Spacing(h) <= nextAllowed[buckets[h]]
  /\ \A h \in Hosts : \A t \in Nat : Cardinality(ReservedBy(h, t)) * Spacing(h) <= t

(* Nobody passes its slot before the slot has come.                        *)
LEMMA ArrivedInductive == Typed /\ OwnBucket /\ Arrived /\ [Next]_vars => Arrived'
<1> SUFFICES ASSUME Typed, OwnBucket, Arrived, [Next]_vars PROVE Arrived'
  OBVIOUS
<1> USE LimiterAssumption, HostOfCall DEF Typed, Arrived, Buckets, Goto, limiterVars
<1>1. ASSUME NEW c \in Calls,
             \/ LookUp(c) \/ Create(c) \/ TakeToken(c) \/ CancelWait(c)
             \/ Reserve(c) \/ Wake(c) \/ CancelSleep(c) \/ OnSuccess(c)
             \/ Start(c) \/ Release(c) \/ DialFails(c) \/ OnTransportError(c)
             \/ Cancel(c)
      PROVE  Arrived'
  <2>1. CASE LookUp(c) BY <2>1 DEF LookUp
  <2>2. CASE Create(c) BY <2>2 DEF Create
  <2>3. CASE TakeToken(c) BY <2>3 DEF TakeToken
  <2>4. CASE CancelWait(c) BY <2>4 DEF CancelWait
  <2>5. CASE Reserve(c)
    <3> DEFINE s == NextSlot(now, nextAllowed[ref[c]], currentDelay[ref[c]])
    <3>1. s \in Nat BY <2>5, ReservedSlot DEF Reserve
    <3> QED BY <2>5, <3>1 DEF Reserve
  <2>6. CASE Wake(c) BY <2>6 DEF Wake
  <2>7. CASE CancelSleep(c) BY <2>7 DEF CancelSleep
  <2>8. CASE OnSuccess(c) BY <2>8 DEF OnSuccess
  <2>9. CASE Start(c) BY <2>9 DEF Start
  <2>10. CASE Release(c) BY <2>10 DEF Release
  <2>11. CASE DialFails(c) BY <2>11 DEF DialFails
  <2>12. CASE OnTransportError(c) BY <2>12 DEF OnTransportError
  <2>13. CASE Cancel(c) BY <2>13 DEF Cancel
  <2> QED BY <1>1, <2>1, <2>2, <2>3, <2>4, <2>5, <2>6, <2>7, <2>8, <2>9, <2>10,
        <2>11, <2>12, <2>13
<1>2. CASE Tick BY <1>2 DEF Tick
<1>3. CASE UNCHANGED vars BY <1>3 DEF vars, limiterVars
<1> QED BY <1>1, <1>2, <1>3 DEF Next

(* One more call, and one more spacing.                                    *)
LEMMA Products ==
  ASSUME NEW m \in Nat, NEW n \in Nat, NEW s \in Nat
  PROVE  /\ m * s \in Nat
         /\ (m + 1) * s = m * s + s
         /\ m <= n => m * s <= n * s
<1>1. m * s \in Nat /\ (m + 1) * s = m * s + s OBVIOUS
<1>2. ASSUME m <= n PROVE m * s <= n * s
  <2>1. PICK k \in Nat : n = m + k
    <3>1. n - m \in Nat /\ n = m + (n - m) BY <1>2
    <3> QED BY <3>1
  <2>2. k * s \in Nat /\ m * s \in Nat /\ (m + k) * s = m * s + k * s OBVIOUS
  <2> QED BY <2>1, <2>2
<1> QED BY <1>1, <1>2

(* Reservations can be counted.                                            *)
LEMMA ReservedFinite ==
  \A h \in Hosts : IsFiniteSet(Reserved(h)) /\ \A t \in Nat : IsFiniteSet(ReservedBy(h, t))
BY LimiterAssumption, FS_Subset DEF Reserved, ReservedBy

(* A spacing is a natural number.                                          *)
LEMMA SpacingIsNat == \A h \in Hosts : Spacing(h) \in Nat
BY LimiterAssumption, MaxDelayAssumption DEF Spacing

(* A step that hands out no slot changes no pace. *)
LEMMA PaceKept ==
  ASSUME Typed, OwnBucket, SlotsBehind, Paced, OwnBucket', Typed',
         slot' = slot,
         \A h \in Hosts : buckets[h] # None =>
           buckets'[h] = buckets[h] /\ nextAllowed'[buckets[h]] = nextAllowed[buckets[h]]
  PROVE  Paced'
<1>1. \A h \in Hosts : /\ Reserved(h)' = Reserved(h)
                      /\ \A t \in Nat : ReservedBy(h, t)' = ReservedBy(h, t)
  BY DEF Reserved, ReservedBy, Host
<1>2. ASSUME NEW h \in Hosts, buckets'[h] # None
      PROVE  Cardinality(Reserved(h)') * Spacing(h) <= nextAllowed'[buckets'[h]]
  <2>1. CASE buckets[h] # None BY <1>1, <1>2, <2>1 DEF Paced
  <2>2. CASE buckets[h] = None
    <3>1. Reserved(h) = {} BY <2>2 DEF Reserved, SlotsBehind, OwnBucket
    <3>2. nextAllowed'[buckets'[h]] \in Nat BY <1>2 DEF Typed
    <3> QED BY <1>1, <3>1, <3>2, FS_EmptySet, SpacingIsNat
  <2> QED BY <2>1, <2>2
<1>3. \A h \in Hosts : \A t \in Nat : Cardinality(ReservedBy(h, t)') * Spacing(h) <= t
  BY <1>1 DEF Paced
<1> QED BY <1>2, <1>3 DEF Paced, Spacing, Host

(* Reservations keep pace with the clock of the bucket.                    *)
LEMMA PacedInductive ==
  Typed /\ OwnBucket /\ DelayInRange /\ SlotsBehind /\ Paced /\ [Next]_vars => Paced'
<1> SUFFICES ASSUME Typed, OwnBucket, DelayInRange, SlotsBehind, Paced, [Next]_vars
             PROVE  Paced'
  OBVIOUS
<1>o. Typed' /\ OwnBucket' BY TypedInductive, OwnBucketInductive
<1>1. ASSUME NEW c \in Calls, Reserve(c) PROVE Paced'
  <2> DEFINE hc == Host(c)
             b == ref[c]
             s == NextSlot(now, nextAllowed[b], currentDelay[b])
  <2>1. /\ hc \in Hosts /\ b \in Buckets /\ b = buckets[hc] /\ b # None
        /\ s \in Nat /\ s >= nextAllowed[b] + currentDelay[b] /\ s >= nextAllowed[b]
        /\ nextAllowed[b] \in Nat /\ currentDelay[b] \in Nat
    BY <1>1, ReservedSlot, HostOfCall, LimiterAssumption DEF Reserve, Typed, Buckets
  <2>2. /\ slot' = [slot EXCEPT ![c] = s] /\ buckets' = buckets
        /\ nextAllowed' = [nextAllowed EXCEPT ![b] = s] /\ slot[c] = None
    BY <1>1 DEF Reserve, SlotsBehind
  <2>t. slot \in [Calls -> Nat \cup {None}] /\ nextAllowed \in [Buckets -> Nat]
    BY DEF Typed
  <2> HIDE DEF s, b, hc
  <2>3. currentDelay[b] >= Spacing(hc) /\ Spacing(hc) \in Nat
    BY <2>1, SpacingIsNat DEF DelayInRange
  <2>4. Cardinality(Reserved(hc)) * Spacing(hc) <= nextAllowed[b] BY <2>1 DEF Paced
  <2>5. /\ Cardinality(Reserved(hc)) \in Nat
        /\ Cardinality(Reserved(hc) \cup {c}) = Cardinality(Reserved(hc)) + 1
    BY <2>1, <2>2, ReservedFinite, FS_CardinalityType, FS_AddElement DEF Reserved
  <2>6. Cardinality(Reserved(hc) \cup {c}) * Spacing(hc) <= s
    <3>1. (Cardinality(Reserved(hc)) + 1) * Spacing(hc)
            = Cardinality(Reserved(hc)) * Spacing(hc) + Spacing(hc)
          /\ Cardinality(Reserved(hc)) * Spacing(hc) \in Nat
      BY <2>3, <2>5, Products
    <3> QED BY ONLY <2>1, <2>3, <2>4, <2>5, <3>1
  <2>7. ASSUME NEW h \in Hosts, buckets'[h] # None
        PROVE  Cardinality(Reserved(h)') * Spacing(h) <= nextAllowed'[buckets'[h]]
    <3>1. CASE h = hc
      <4>1. Reserved(h)' \subseteq Reserved(hc) \cup {c}
        BY <2>1, <2>2, <2>t, <3>1 DEF Reserved, Host
      <4>2. Cardinality(Reserved(h)') <= Cardinality(Reserved(hc) \cup {c})
            /\ Cardinality(Reserved(h)') \in Nat /\ Cardinality(Reserved(hc) \cup {c}) \in Nat
        BY <4>1, <2>1, ReservedFinite, FS_AddElement, FS_Subset, FS_CardinalityType
      <4>3. Cardinality(Reserved(h)') * Spacing(hc) <= Cardinality(Reserved(hc) \cup {c}) * Spacing(hc)
            /\ Cardinality(Reserved(h)') * Spacing(hc) \in Nat
            /\ Cardinality(Reserved(hc) \cup {c}) * Spacing(hc) \in Nat
        BY <4>2, <2>3, Products
      <4>4. nextAllowed'[buckets'[h]] = s BY <2>1, <2>2, <2>t, <3>1
      <4> QED BY <2>1, <2>6, <3>1, <4>3, <4>4
    <3>2. CASE h # hc
      <4>1. Reserved(h)' = Reserved(h)
        BY <2>1, <2>2, <2>t, <3>2 DEF Reserved, Host, hc
      <4>2. buckets[h] # b /\ buckets[h] \in Buckets
        BY <2>1, <2>2, <2>7, <3>2 DEF OwnBucket, Typed
      <4> QED BY <2>2, <2>7, <2>t, <4>1, <4>2 DEF Paced
    <3> QED BY <3>1, <3>2
  <2>8. ASSUME NEW h \in Hosts, NEW t \in Nat
        PROVE  Cardinality(ReservedBy(h, t)') * Spacing(h) <= t
    <3>1. CASE h = hc /\ s <= t
      <4>1. ReservedBy(h, t)' \subseteq Reserved(hc) \cup {c}
        BY <2>1, <2>2, <2>t, <3>1 DEF Reserved, ReservedBy, Host
      <4>2. Cardinality(ReservedBy(h, t)') <= Cardinality(Reserved(hc) \cup {c})
            /\ Cardinality(ReservedBy(h, t)') \in Nat /\ Cardinality(Reserved(hc) \cup {c}) \in Nat
        BY <4>1, <2>1, ReservedFinite, FS_AddElement, FS_Subset, FS_CardinalityType
      <4>3. Cardinality(ReservedBy(h, t)') * Spacing(hc) <= Cardinality(Reserved(hc) \cup {c}) * Spacing(hc)
            /\ Cardinality(ReservedBy(h, t)') * Spacing(hc) \in Nat
            /\ Cardinality(Reserved(hc) \cup {c}) * Spacing(hc) \in Nat
        BY <4>2, <2>3, Products
      <4> QED BY <2>1, <2>6, <3>1, <4>3
    <3>2. CASE h # hc \/ ~(s <= t)
      <4>1. ReservedBy(h, t)' = ReservedBy(h, t)
        BY <2>1, <2>2, <2>t, <3>2 DEF ReservedBy, Host, hc
      <4> QED BY <4>1 DEF Paced
    <3> QED BY <3>1, <3>2
  <2> QED BY <2>7, <2>8 DEF Paced, Spacing, Host
<1>2. ASSUME NEW c \in Calls,
             \/ LookUp(c) \/ Create(c) \/ TakeToken(c) \/ CancelWait(c)
             \/ Wake(c) \/ CancelSleep(c) \/ OnSuccess(c)
             \/ Start(c) \/ Release(c) \/ DialFails(c) \/ OnTransportError(c)
             \/ Cancel(c)
      PROVE  Paced'
  <2>1. slot' = slot /\ nextAllowed' = nextAllowed
    BY <1>2 DEF LookUp, Create, TakeToken, CancelWait, Wake, CancelSleep, OnSuccess, Start,
                Release, DialFails, OnTransportError, Cancel, limiterVars
  <2>2. \A h \in Hosts : buckets[h] # None => buckets'[h] = buckets[h]
    BY <1>2, HostOfCall
       DEF LookUp, Create, TakeToken, CancelWait, Wake, CancelSleep, OnSuccess, Start,
           Release, DialFails, OnTransportError, Cancel, limiterVars, Typed
  <2> QED BY <1>o, <2>1, <2>2, PaceKept
<1>3. CASE Tick BY <1>3, <1>o, PaceKept DEF Tick, limiterVars
<1>4. CASE UNCHANGED vars BY <1>4, <1>o, PaceKept DEF vars, limiterVars
<1> QED BY <1>1, <1>2, <1>3, <1>4 DEF Next
----------------------------------------------------------------------------
(* The inductive invariant and what follows from it.                       *)
IInv ==
  /\ Typed
  /\ OwnBucket
  /\ DelayInRange
  /\ SlotsBehind
  /\ SlotsSpaced
  /\ Counted
  /\ Arrived
  /\ Paced

(* The inductive invariant holds at the start.                             *)
LEMMA InitIInv == Init => IInv
<1> SUFFICES ASSUME Init PROVE IInv
  OBVIOUS
<1> USE LimiterAssumption DEF Init
<1>1. Typed BY DEF Typed, Buckets, PCs
<1>2. OwnBucket BY DEF OwnBucket
<1>3. DelayInRange BY DEF DelayInRange
<1>4. SlotsBehind BY DEF SlotsBehind
<1>5. SlotsSpaced BY DEF SlotsSpaced
<1>6. Counted BY DEF Counted, Buckets
<1>7. Arrived BY DEF Arrived
<1>8. Paced
  <2>1. \A h \in Hosts : \A t \in Nat : ReservedBy(h, t) = {} BY DEF ReservedBy
  <2>2. \A h \in Hosts : Cardinality({}) * Spacing(h) = 0 BY FS_EmptySet, SpacingIsNat
  <2>3. \A h \in Hosts : buckets[h] = None OBVIOUS
  <2>4. ASSUME NEW h \in Hosts, NEW t \in Nat
        PROVE  Cardinality(ReservedBy(h, t)) * Spacing(h) <= t
    <3>1. Cardinality(ReservedBy(h, t)) * Spacing(h) = 0 BY <2>1, <2>2
    <3> QED BY <3>1
  <2> QED BY ONLY <2>3, <2>4 DEF Paced
<1> QED BY <1>1, <1>2, <1>3, <1>4, <1>5, <1>6, <1>7, <1>8 DEF IInv

(* Every step keeps the inductive invariant.                               *)
LEMMA NextIInv == IInv /\ [Next]_vars => IInv'
BY TypedInductive, OwnBucketInductive, DelayInductive, SlotsBehindInductive, SpacedInductive,
   CountedInductive, ArrivedInductive, PacedInductive
   DEF IInv

(* The inductive invariant holds in every reachable state, for any hosts,  *)
(* limits, delays and number of calls.                                     *)
THEOREM Invariance == Spec => []IInv
<1> QED BY InitIInv, NextIInv, PTL DEF Spec

(* Type correctness: no semaphore is ever drained below empty. *)
THEOREM TypeCorrect == Spec => []TypeOK
<1>1. IInv => TypeOK
  <2> SUFFICES ASSUME IInv, NEW b \in Buckets PROVE sem[b] \in Nat
    BY DEF IInv, Typed, TypeOK
  <2>1. CASE buckets[Host(b)] = b
    <3>1. sem[b] = Cardinality(Holders(Host(b)))
      BY <2>1, HostOfCall, LimiterAssumption DEF IInv, Counted, Buckets
    <3> QED BY <3>1, HostOfCall, HoldersFinite, FS_CardinalityType DEF Buckets
  <2>2. CASE buckets[Host(b)] # b BY <2>2 DEF IInv, Counted
  <2> QED BY <2>1, <2>2
<1> QED BY <1>1, Invariance, PTL

(* No host ever has more calls between Acquire and release than MaxConns.  *)
THEOREM MaxConnsHolds == Spec => []WithinMaxConns
<1>1. IInv => WithinMaxConns
  <2> SUFFICES ASSUME IInv, NEW h \in Hosts
               PROVE  Cardinality(Holders(h)) <= MaxConns[h]
    BY DEF WithinMaxConns
  <2>1. CASE buckets[h] = None
    <3>1. Holders(h) = {} BY <2>1, HoldersHaveBucket DEF IInv
    <3> QED BY <3>1, FS_EmptySet, LimiterAssumption
  <2>2. CASE buckets[h] # None BY <2>2 DEF IInv, Counted
  <2> QED BY <2>1, <2>2
<1> QED BY <1>1, Invariance, PTL

(* The delay of every host stays in its range, whatever dials do. *)
THEOREM DelayStaysInRange == Spec => []DelayInRange
<1>1. IInv => DelayInRange BY DEF IInv
<1> QED BY <1>1, Invariance, PTL

(* Any two reserved start times on a host are its spacing apart. *)
THEOREM SlotsAreSpaced == Spec => []SlotsSpaced
<1>1. IInv => SlotsSpaced BY DEF IInv
<1> QED BY <1>1, Invariance, PTL

(* Letting n calls through on a host takes at least n times its spacing.   *)
THEOREM ThroughputIsBounded == Spec => []Throughput
<1>1. IInv => Throughput
  <2> SUFFICES ASSUME IInv, NEW h \in Hosts
               PROVE  Cardinality(LetThrough(h)) * Spacing(h) <= now
    BY DEF Throughput
  <2>1. now \in Nat /\ LetThrough(h) \subseteq ReservedBy(h, now)
    BY DEF IInv, Typed, Arrived, LetThrough, ReservedBy
  <2>2. /\ Cardinality(LetThrough(h)) \in Nat /\ Cardinality(ReservedBy(h, now)) \in Nat
        /\ Cardinality(LetThrough(h)) <= Cardinality(ReservedBy(h, now))
    BY <2>1, ReservedFinite, FS_Subset, FS_CardinalityType
  <2>3. /\ Cardinality(LetThrough(h)) * Spacing(h) <= Cardinality(ReservedBy(h, now)) * Spacing(h)
        /\ Cardinality(LetThrough(h)) * Spacing(h) \in Nat
        /\ Cardinality(ReservedBy(h, now)) * Spacing(h) \in Nat
    BY <2>2, SpacingIsNat, Products
  <2>4. Cardinality(ReservedBy(h, now)) * Spacing(h) <= now BY <2>1 DEF IInv, Paced
  <2> QED BY <2>1, <2>3, <2>4
<1> QED BY <1>1, Invariance, PTL
=============================================================================

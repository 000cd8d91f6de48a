------------------------ MODULE VariantManager_proofs ------------------------
(***************************************************************************)
(* Proofs about VariantManager, for every set of keys, clients and         *)
(* compilations and every budget: type correctness, the ownership and      *)
(* lease invariant, and what follows from it.                              *)
(***************************************************************************)
EXTENDS VariantManager, Collections_proofs

-----------------------------------------------------------------------------
(* Type correctness.  Steps of the pool service and of a client first. *)

LEMMA SubmitType ==
  ASSUME NEW k, Submit(k), permits \in 0..Capacity,
         flight \in [Keys -> {"free", "compiling", "delivering"}]
  PROVE  /\ permits' \in 0..Capacity
         /\ flight' \in [Keys -> {"free", "compiling", "delivering"}]
<1>1. permits # Capacity
  BY DEF Submit, Decision
<1>2. permits' \in 0..Capacity
  BY <1>1, ServiceAssumption DEF Submit
<1>3. flight' \in [Keys -> {"free", "compiling", "delivering"}]
  BY DEF Submit
<1> QED
  BY <1>2, <1>3

LEMMA StartType ==
  ASSUME NEW k, started \in 0..MaxCompiles, started < MaxCompiles,
         compile \in [Keys -> Values \cup {None}],
         started' = started + 1, compile' = [compile EXCEPT ![k] = started + 1]
  PROVE  /\ started' \in 0..MaxCompiles
         /\ compile' \in [Keys -> Values \cup {None}]
<1>1. started + 1 \in Values /\ started' \in 0..MaxCompiles
  BY ManagerAssumption DEF Values
<1> QED
  BY <1>1

LEMMA ResolveSubmitType ==
  ASSUME TypeOK, NEW c \in Clients, ResolveSubmit(c)
  PROVE  TypeOK'
<1> DEFINE k == client[c].key
<1>1. client' \in [Clients -> ClientStates]
  BY DEF ResolveSubmit, Idle, TypeOK, ClientStates, None, Values
<1>2. UNCHANGED <<variants, refs, negative, failures, cooling, shut, closing,
                  callback, sizeOf, discards>>
  BY DEF ResolveSubmit, cacheVars, gateVars
<1>3. CASE Decision(k) = "submitted"
  <2>1. /\ Submit(k)
        /\ started < MaxCompiles
        /\ started' = started + 1
        /\ compile' = [compile EXCEPT ![k] = started + 1]
    BY <1>3 DEF ResolveSubmit
  <2>2. UNCHANGED <<detached, gate>>
    BY <2>1 DEF Submit
  <2> HIDE DEF k
  <2>3. /\ permits' \in 0..Capacity
        /\ flight' \in [Keys -> {"free", "compiling", "delivering"}]
    BY <2>1, SubmitType DEF TypeOK
  <2>4. started' \in 0..MaxCompiles /\ compile' \in [Keys -> Values \cup {None}]
    BY <2>1, StartType DEF TypeOK
  <2> QED
    BY <1>1, <1>2, <2>2, <2>3, <2>4 DEF TypeOK
<1>4. CASE Decision(k) # "submitted"
  BY <1>1, <1>2, <1>4 DEF ResolveSubmit, serviceVars, TypeOK
<1> QED
  BY <1>3, <1>4

LEMMA ReleaseType ==
  ASSUME TypeOK, NEW c \in Clients, Release(c)
  PROVE  TypeOK'
<1> DEFINE k == client[c].key
<1>1. CASE refs[k] = 0
  <2>1. client' = [client EXCEPT ![c].at = "key_error"] /\ refs' = refs
    BY <1>1 DEF Release
  <2> QED
    BY <2>1 DEF Release, TypeOK, ClientStates, serviceVars, gateVars, valueVars
<1>2. CASE refs[k] # 0
  <2>1. client' = [client EXCEPT ![c] = Idle] /\ refs' = [refs EXCEPT ![k] = @ - 1]
    BY <1>2 DEF Release
  <2>2. client' \in [Clients -> ClientStates]
    BY <2>1 DEF Idle, TypeOK, ClientStates
  <2>3. refs' \in [Keys -> Nat]
    <3>1. k \in Keys => refs[k] - 1 \in Nat
      BY <1>2 DEF TypeOK
    <3> HIDE DEF k
    <3> QED
      BY <2>1, <3>1 DEF TypeOK
  <2> QED
    BY <2>2, <2>3 DEF Release, TypeOK, serviceVars, gateVars, valueVars
<1> QED
  BY <1>1, <1>2

(* A callback that moves on to another of its steps keeps its type. *)
Places == {"none", "record_failure", "break", "reject_size", "discard_rejected",
           "publish", "discard_refused", "reject_publish", "discard_evicted",
           "clear_negative", "reset_breaker", "done"}

LEMMA StepType ==
  ASSUME TypeOK, NEW k \in Keys, NEW step \in Places, Step(k, step)
  PROVE  callback' \in [Keys -> CallbackStates]
<1>1. callback' = [callback EXCEPT ![k] = [callback[k] EXCEPT !.at = step]]
  BY DEF Step
<1>2. callback[k] \in CallbackStates
  BY DEF TypeOK
<1>3. [callback[k] EXCEPT !.at = step] \in CallbackStates
  BY <1>2 DEF CallbackStates, Places
<1> QED
  BY <1>1, <1>3 DEF TypeOK

LEMMA CompletedValueType ==
  ASSUME TypeOK, NEW k \in Keys, NEW size \in Sizes, CompletedValue(k, size)
  PROVE  TypeOK'
<1>1. flight' \in [Keys -> {"free", "compiling", "delivering"}]
  BY DEF TypeOK, CompletedValue, Deliver
<1>2. sizeOf' \in [Values -> Int]
  BY ManagerAssumption DEF TypeOK, CompletedValue
<1>3. callback' \in [Keys -> CallbackStates]
  BY StepType DEF CompletedValue, Places
<1> QED
  BY <1>1, <1>2, <1>3 DEF CompletedValue, Deliver, TypeOK, cacheVars, gateVars

LEMMA CompletedFailureType ==
  ASSUME TypeOK, NEW k \in Keys, CompletedFailure(k)
  PROVE  TypeOK'
BY DEF CompletedFailure, Deliver, Step, TypeOK, CallbackStates, cacheVars,
       gateVars, valueVars

LEMMA ReturnPermitType ==
  ASSUME TypeOK, PoolStep
  PROVE  TypeOK'
<1>1. Cardinality(InFlight) \in Nat
  BY ServiceAssumption, FS_Subset, FS_CardinalityType DEF InFlight
<1>2. CASE ReturnPermit
  <2>1. permits' \in 0..Capacity
    BY <1>1, <1>2, ServiceAssumption DEF ReturnPermit, TypeOK
  <2> QED
    BY <1>2, <2>1 DEF PoolStep, ReturnPermit, TypeOK, cacheVars, gateVars, valueVars
<1>3. CASE \E k \in Keys : Detach(k)
  BY <1>3 DEF PoolStep, Detach, TypeOK, cacheVars, gateVars, valueVars
<1> QED
  BY <1>2, <1>3 DEF PoolStep

LEMMA TypeInit == Init => TypeOK
BY ServiceAssumption, ManagerAssumption
   DEF Init, ServiceInit, FailuresInit, TypeOK, ClientStates, CallbackStates, Idle, Quiet, None, Values

LEMMA TypeStep == TypeOK /\ CallbacksInFlight /\ [Next]_vars => TypeOK'
<1> SUFFICES ASSUME TypeOK, CallbacksInFlight, [Next]_vars PROVE TypeOK'
  OBVIOUS
<1> USE DEF serviceVars, cacheVars, gateVars, valueVars
<1>1. ASSUME NEW c \in Clients, NEW k \in Keys, ResolveHit(c, k) PROVE TypeOK'
  BY <1>1 DEF ResolveHit, TypeOK
<1>2. ASSUME NEW c \in Clients, NEW k \in Keys, ResolveMiss(c, k) PROVE TypeOK'
  BY <1>2 DEF ResolveMiss, TypeOK, ClientStates
<1>3. ASSUME NEW c \in Clients, NEW k \in Keys, Acquire(c, k) PROVE TypeOK'
  BY <1>3 DEF Acquire, TypeOK, ClientStates, Active
<1>4. ASSUME NEW k \in Keys, RecordNegative(k) PROVE TypeOK'
  BY <1>4 DEF RecordNegative, Reject, At, CallbacksInFlight, TypeOK, CallbackStates, None
<1>5. ASSUME NEW k \in Keys, RecordFailure(k) PROVE TypeOK'
  <2>1. callback' \in [Keys -> CallbackStates]
    BY <1>5, StepType DEF RecordFailure, Places
  <2>2. failures' \in [Keys -> Nat] /\ cooling' \subseteq Keys
    BY <1>5 DEF RecordFailure, Fail, TypeOK
  <2> QED
    BY <1>5, <2>1, <2>2 DEF RecordFailure, Fail, TypeOK
<1>6. ASSUME NEW k \in Keys, PublishRefused(k) PROVE TypeOK'
  BY <1>6 DEF PublishRefused, At, CallbacksInFlight, TypeOK, CallbackStates, None
<1>7. ASSUME NEW k \in Keys, Publish(k) PROVE TypeOK'
  BY <1>7 DEF Publish, At, CallbacksInFlight, LRUVictims, Evictable, Active,
              Leaving, TypeOK, CallbackStates, None
<1>8. ASSUME NEW k \in Keys, Discard(k) PROVE TypeOK'
  BY <1>8 DEF Discard, At, TypeOK, CallbackStates
<1>9. ASSUME NEW k \in Keys, ClearNegative(k) PROVE TypeOK'
  BY <1>9 DEF ClearNegative, Readmit, Step, TypeOK, CallbackStates
<1>10. ASSUME NEW k \in Keys, ResetBreaker(k) PROVE TypeOK'
  <2>1. callback' \in [Keys -> CallbackStates]
    BY <1>10, StepType DEF ResetBreaker, Places
  <2> QED
    BY <1>10, <2>1 DEF ResetBreaker, Succeed, TypeOK
<1>11. ASSUME NEW k \in Keys, CallbackReturns(k) PROVE TypeOK'
  BY <1>11 DEF CallbackReturns, Forget, Quiet, TypeOK, CallbackStates
<1>12. CASE ClockStep
  BY <1>12 DEF ClockStep, TimePasses, TypeOK
<1>13. CASE CloseBegin \/ CloseShutdown \/ CloseJoined \/ CloseRelease \/ CloseReturns
  BY <1>13 DEF CloseBegin, CloseShutdown, Close, CloseJoined, ShutdownReturns,
               CloseRelease, CloseReturns, TypeOK
<1>14. CASE CloseClear
  BY <1>14 DEF CloseClear, DropBreakers, TypeOK, ActiveValues, Active, None
<1>15. ASSUME NEW v \in closing, NEW raises \in BOOLEAN, CloseValue(v, raises)
       PROVE TypeOK'
  BY <1>15 DEF CloseValue, TypeOK
<1>16. ASSUME NEW o \in Owners, Neighbour(o) PROVE TypeOK'
  BY <1>16 DEF Neighbour, TypeOK
<1>17. CASE UNCHANGED vars
  BY <1>17 DEF vars, TypeOK
<1> QED
  BY <1>1, <1>2, <1>3, <1>4, <1>5, <1>6, <1>7, <1>8, <1>9, <1>10, <1>11, <1>12,
     <1>13, <1>14, <1>15, <1>16, <1>17, ResolveSubmitType, ReleaseType,
     CompletedValueType, CompletedFailureType, ReturnPermitType
     DEF Next, CallbackStep, CloseStep, Completed

-----------------------------------------------------------------------------
(* The rest of the invariant is about these variables; the other steps of  *)
(* the system leave all of them alone.                                     *)
core == <<flight, variants, refs, codeBytes, shut, closing, client, callback,
          compile, started, discards>>

ShutMoves(from, to) ==
  /\ shut = from /\ shut' = to
  /\ UNCHANGED <<flight, variants, refs, codeBytes, closing, client, callback,
                 compile, started, discards>>

CloseMoves ==
  \/ ShutMoves("no", "marked") \/ ShutMoves("marked", "joining")
  \/ ShutMoves("joining", "joined") \/ ShutMoves("cleared", "closing")
  \/ ShutMoves("closing", "closed")

CoreStep ==
  \/ \E c \in Clients :
      \/ \E k \in Keys : ResolveMiss(c, k) \/ Acquire(c, k)
      \/ ResolveSubmit(c)
      \/ Release(c)
  \/ \E k \in Keys :
      \/ CompletedFailure(k)
      \/ \E size \in Sizes : CompletedValue(k, size)
      \/ RecordNegative(k) \/ RecordFailure(k) \/ PublishRefused(k) \/ Publish(k)
      \/ Discard(k) \/ ClearNegative(k) \/ ResetBreaker(k) \/ CallbackReturns(k)
  \/ CloseMoves
  \/ CloseClear
  \/ \E v \in closing, raises \in BOOLEAN : CloseValue(v, raises)

LEMMA CoreSteps == [Next]_vars => UNCHANGED core \/ CoreStep
<1> SUFFICES ASSUME [Next]_vars PROVE UNCHANGED core \/ CoreStep
  OBVIOUS
<1> USE DEF core, serviceVars, cacheVars, gateVars, valueVars
<1>1. ASSUME NEW c \in Clients, NEW k \in Keys, ResolveHit(c, k) PROVE UNCHANGED core
  BY <1>1 DEF ResolveHit
<1>2. CASE ClockStep
  BY <1>2 DEF ClockStep
<1>3. CASE PoolStep
  BY <1>3 DEF PoolStep, ReturnPermit, Detach
<1>4. ASSUME NEW o \in Owners, Neighbour(o) PROVE UNCHANGED core
  BY <1>4 DEF Neighbour
<1>5. CASE UNCHANGED vars
  BY <1>5 DEF vars
<1>6. CASE CloseBegin \/ CloseShutdown \/ CloseJoined \/ CloseRelease \/ CloseReturns
  <2>1. CloseMoves
    BY <1>6 DEF CloseMoves, ShutMoves, CloseBegin, CloseShutdown, Close,
                CloseJoined, ShutdownReturns, CloseRelease, CloseReturns
  <2> QED
    BY <2>1 DEF CoreStep
<1> QED
  BY <1>1, <1>2, <1>3, <1>4, <1>5, <1>6
     DEF Next, CallbackStep, CloseStep, Completed, CoreStep

-----------------------------------------------------------------------------
(* Callbacks and compilations in flight. *)

LEMMA InFlightStep ==
  TypeOK /\ CallbacksInFlight /\ [Next]_vars => CallbacksInFlight'
<1> SUFFICES ASSUME TypeOK, CallbacksInFlight, [Next]_vars PROVE CallbacksInFlight'
  OBVIOUS
<1> USE DEF CallbacksInFlight
<1>1. CASE UNCHANGED core
  BY <1>1 DEF core
<1>2. ASSUME NEW c \in Clients, NEW k \in Keys, ResolveMiss(c, k) \/ Acquire(c, k)
      PROVE CallbacksInFlight'
  BY <1>2 DEF ResolveMiss, Acquire, serviceVars, valueVars
<1>3. ASSUME NEW c \in Clients, Release(c) PROVE CallbacksInFlight'
  BY <1>3 DEF Release, serviceVars, valueVars
<1>4. ASSUME NEW c \in Clients, ResolveSubmit(c) PROVE CallbacksInFlight'
  <2> DEFINE k == client[c].key
  <2>1. callback' = callback
    BY <1>4 DEF ResolveSubmit
  <2>2. CASE Decision(k) = "submitted"
    <3>1. /\ Submit(k)
          /\ compile' = [compile EXCEPT ![k] = started + 1]
      BY <1>4, <2>2 DEF ResolveSubmit
    <3>2. k \notin InFlight /\ flight' = [flight EXCEPT ![k] = "compiling"]
      BY <3>1 DEF Submit, Decision
    <3>3. started + 1 # None
      BY ManagerAssumption DEF TypeOK, None
    <3>4. k \in Keys => callback[k].at = "none"
      BY <3>2 DEF InFlight
    <3> HIDE DEF k
    <3> QED
      BY <2>1, <3>1, <3>2, <3>3, <3>4 DEF TypeOK
  <2>3. CASE Decision(k) # "submitted"
    BY <1>4, <2>1, <2>3 DEF ResolveSubmit, serviceVars
  <2> QED
    BY <2>2, <2>3
<1>5. ASSUME NEW k \in Keys, CompletedFailure(k) PROVE CallbacksInFlight'
  BY <1>5 DEF CompletedFailure, Deliver, Step, valueVars, TypeOK
<1>6. ASSUME NEW k \in Keys, NEW size \in Sizes, CompletedValue(k, size)
      PROVE CallbacksInFlight'
  BY <1>6 DEF CompletedValue, Deliver, Step, TypeOK
<1>7. ASSUME NEW k \in Keys,
             \/ RecordNegative(k) \/ RecordFailure(k) \/ PublishRefused(k)
             \/ Discard(k) \/ ClearNegative(k) \/ ResetBreaker(k)
      PROVE CallbacksInFlight'
  <2>1. callback[k].at # "none" /\ UNCHANGED <<compile, flight>>
    BY <1>7 DEF RecordNegative, RecordFailure, PublishRefused, Discard,
                ClearNegative, ResetBreaker, At, serviceVars, valueVars
  <2>2. \A j \in Keys : j # k => callback'[j] = callback[j]
    BY <1>7 DEF RecordNegative, RecordFailure, PublishRefused, Discard,
                ClearNegative, ResetBreaker, Step, TypeOK
  <2> QED
    BY <2>1, <2>2
<1>8. ASSUME NEW k \in Keys, Publish(k) PROVE CallbacksInFlight'
  BY <1>8 DEF Publish, At, serviceVars, valueVars, TypeOK
<1>9. ASSUME NEW k \in Keys, CallbackReturns(k) PROVE CallbacksInFlight'
  BY <1>9 DEF CallbackReturns, Forget, Quiet, TypeOK
<1>10. CASE CloseMoves
  BY <1>10 DEF CloseMoves, ShutMoves
<1>11. CASE CloseClear
  BY <1>11 DEF CloseClear, serviceVars, valueVars
<1>12. ASSUME NEW v \in closing, NEW raises \in BOOLEAN, CloseValue(v, raises)
       PROVE CallbacksInFlight'
  BY <1>12 DEF CloseValue, serviceVars
<1> QED
  BY <1>1, <1>2, <1>3, <1>4, <1>5, <1>6, <1>7, <1>8, <1>9, <1>10, <1>11, <1>12,
     CoreSteps DEF CoreStep

-----------------------------------------------------------------------------
(* Leases and reference counts. *)

LEMMA HoldersFinite ==
  ASSUME NEW k PROVE IsFiniteSet(Holders(k)) /\ Cardinality(Holders(k)) \in Nat
BY ManagerAssumption, FS_Subset, FS_CardinalityType DEF Holders, Leasing

LEMMA LeasedIsReferenced ==
  ASSUME TypeOK, RefsCountLeases, LeasesActive, ~Emptied, NEW c \in Leasing
  PROVE  client[c].key \in Keys /\ refs[client[c].key] > 0
<1> DEFINE k == client[c].key
<1>1. k \in Keys /\ c \in Holders(k)
  BY DEF LeasesActive, Leasing, Holders
<1>2. Cardinality(Holders(k)) > 0
  BY <1>1, HoldersFinite, FS_EmptySet
<1> QED
  BY <1>1, <1>2 DEF RefsCountLeases

(* A step that changes no lease, no count and not whether the table was    *)
(* emptied keeps the counts right.                                         *)
LEMMA SameHolders ==
  ASSUME RefsCountLeases, refs' = refs, Emptied' = Emptied,
         \A k \in Keys : Holders(k)' = Holders(k)
  PROVE  RefsCountLeases'
BY DEF RefsCountLeases

LEMMA RefsStep ==
  TypeOK /\ LeasesActive /\ RefsCountLeases /\ [Next]_vars => RefsCountLeases'
<1> SUFFICES ASSUME TypeOK, LeasesActive, RefsCountLeases, [Next]_vars
             PROVE  RefsCountLeases'
  OBVIOUS
<1>1. ASSUME UNCHANGED <<refs, shut, client>> PROVE RefsCountLeases'
  BY <1>1, SameHolders DEF Emptied, Holders, Leasing
<1>2. ASSUME NEW c \in Clients, NEW k \in Keys, ResolveMiss(c, k)
      PROVE RefsCountLeases'
  <2>1. \A j \in Keys : Holders(j)' = Holders(j)
    BY <1>2 DEF ResolveMiss, TypeOK, Holders, Leasing
  <2> QED
    BY <1>2, <2>1, SameHolders DEF ResolveMiss, Emptied, cacheVars
<1>3. ASSUME NEW c \in Clients, ResolveSubmit(c) PROVE RefsCountLeases'
  <2>1. \A j \in Keys : Holders(j)' = Holders(j)
    BY <1>3 DEF ResolveSubmit, TypeOK, Holders, Leasing, Idle
  <2> QED
    BY <1>3, <2>1, SameHolders DEF ResolveSubmit, Emptied, cacheVars
<1>4. ASSUME NEW c \in Clients, NEW k \in Keys, Acquire(c, k)
      PROVE RefsCountLeases'
  <2>1. Holders(k)' = Holders(k) \cup {c} /\ c \notin Holders(k)
    BY <1>4 DEF Acquire, TypeOK, Holders, Leasing
  <2>2. \A j \in Keys : j # k => Holders(j)' = Holders(j)
    BY <1>4 DEF Acquire, TypeOK, Holders, Leasing
  <2>3. Cardinality(Holders(k)') = Cardinality(Holders(k)) + 1
    BY <2>1, HoldersFinite, FS_AddElement
  <2> QED
    BY <1>4, <2>2, <2>3 DEF Acquire, Emptied, RefsCountLeases, TypeOK
<1>5. ASSUME NEW c \in Clients, Release(c) PROVE RefsCountLeases'
  <2>1. Emptied' = Emptied
    BY <1>5 DEF Release, Emptied
  <2>2. SUFFICES ASSUME ~Emptied PROVE RefsCountLeases'
    BY <2>1 DEF RefsCountLeases
  <2>3. c \in Leasing
    BY <1>5 DEF Release, Leasing
  <2>4. PICK k \in Keys : k = client[c].key /\ refs[k] > 0
    BY <2>2, <2>3, LeasedIsReferenced
  <2>5. client' = [client EXCEPT ![c] = Idle] /\ refs' = [refs EXCEPT ![k] = @ - 1]
    BY <1>5, <2>4 DEF Release, TypeOK
  <2>6. Holders(k)' = Holders(k) \ {c} /\ c \in Holders(k)
    BY <2>3, <2>4, <2>5 DEF TypeOK, Holders, Leasing, Idle
  <2>7. \A j \in Keys : j # k => Holders(j)' = Holders(j)
    BY <2>4, <2>5 DEF TypeOK, Holders, Leasing, Idle
  <2>8. Cardinality(Holders(k)') = Cardinality(Holders(k)) - 1
    BY <2>6, HoldersFinite, FS_RemoveElement
  <2> QED
    BY <2>1, <2>2, <2>4, <2>5, <2>7, <2>8 DEF RefsCountLeases, TypeOK
<1>6. CASE CloseMoves
  <2>1. UNCHANGED <<refs, client>> /\ Emptied' = Emptied
    BY <1>6 DEF CloseMoves, ShutMoves, Emptied
  <2> QED
    BY <2>1, SameHolders DEF Holders, Leasing
<1>7. CASE CloseClear
  BY <1>7 DEF CloseClear, RefsCountLeases, Emptied
<1>8. ASSUME NEW v \in closing, NEW raises \in BOOLEAN, CloseValue(v, raises)
      PROVE RefsCountLeases'
  BY <1>8 DEF CloseValue, RefsCountLeases, Emptied
<1>9. ASSUME NEW k \in Keys,
             \/ CompletedFailure(k)
             \/ \E size \in Sizes : CompletedValue(k, size)
             \/ RecordNegative(k) \/ RecordFailure(k) \/ PublishRefused(k) \/ Publish(k)
             \/ Discard(k) \/ ClearNegative(k) \/ ResetBreaker(k) \/ CallbackReturns(k)
      PROVE UNCHANGED <<refs, shut, client>>
  BY <1>9 DEF CompletedFailure, CompletedValue, RecordNegative, RecordFailure,
              PublishRefused, Publish, Discard, ClearNegative, ResetBreaker,
              CallbackReturns, cacheVars
<1> QED
  BY <1>1, <1>2, <1>3, <1>4, <1>5, <1>6, <1>7, <1>8, <1>9, CoreSteps
     DEF CoreStep, core

LEMMA LeasesStep ==
  TypeOK /\ CallbacksInFlight /\ LeasesActive /\ RefsCountLeases /\ [Next]_vars
    => LeasesActive'
<1> SUFFICES ASSUME TypeOK, CallbacksInFlight, LeasesActive, RefsCountLeases, [Next]_vars
             PROVE  LeasesActive'
  OBVIOUS
<1>1. ASSUME UNCHANGED <<variants, shut, client, closing>> PROVE LeasesActive'
  BY <1>1 DEF LeasesActive, Leasing, Emptied, Active
<1>2. ASSUME NEW c \in Clients, NEW k \in Keys, ResolveMiss(c, k) PROVE LeasesActive'
  BY <1>2 DEF ResolveMiss, TypeOK, LeasesActive, Leasing, Emptied, Active, cacheVars
<1>3. ASSUME NEW c \in Clients, ResolveSubmit(c) PROVE LeasesActive'
  BY <1>3 DEF ResolveSubmit, TypeOK, LeasesActive, Leasing, Emptied, Active, cacheVars, Idle
<1>4. ASSUME NEW c \in Clients, NEW k \in Keys, Acquire(c, k) PROVE LeasesActive'
  BY <1>4 DEF Acquire, TypeOK, LeasesActive, Leasing, Emptied, Active, None
<1>5. ASSUME NEW c \in Clients, Release(c) PROVE LeasesActive'
  <2>1. UNCHANGED <<variants, shut, closing>>
    BY <1>5 DEF Release
  <2>2. /\ client'[c].at \notin {"submit", "lease"}
        /\ \A d \in Clients : d # c => client'[d] = client[d]
    BY <1>5 DEF Release, TypeOK, ClientStates, Idle
  <2> QED
    BY <2>1, <2>2 DEF LeasesActive, Leasing, Emptied, Active
<1>6. ASSUME NEW k \in Keys, Publish(k) PROVE LeasesActive'
  <2>1. ~Emptied /\ UNCHANGED <<shut, closing, client>>
    BY <1>6 DEF Publish, Emptied
  <2>2. ASSUME NEW c \in Leasing PROVE variants'[client[c].key] = client[c].value
    <3> DEFINE j == client[c].key
    <3>1. j \in Keys /\ refs[j] > 0 /\ variants[j] = client[c].value /\ j \in Active
      BY <2>1, <2>2, LeasedIsReferenced DEF LeasesActive, Active, None, Values
    <3>2. j # k
      BY <1>6, <3>1 DEF Publish
    <3>3. PICK V \in LRUVictims(k) :
            variants' = [i \in Keys |-> CASE i = k -> compile[k]
                                          [] i \in V -> None
                                          [] OTHER -> variants[i]]
      BY <1>6 DEF Publish
    <3>4. j \notin V
      BY <3>1 DEF LRUVictims, Evictable
    <3> QED
      BY <3>1, <3>2, <3>3, <3>4
  <2> QED
    BY <2>1, <2>2 DEF LeasesActive, Leasing, Emptied
<1>7. CASE CloseMoves
  <2>1. UNCHANGED <<variants, client, closing>> /\ Emptied' = Emptied
    BY <1>7 DEF CloseMoves, ShutMoves, Emptied
  <2> QED
    BY <2>1 DEF LeasesActive, Leasing, Active
<1>8. CASE CloseClear
  BY <1>8 DEF CloseClear, LeasesActive, Leasing, Emptied, Active, None
<1>9. ASSUME NEW v \in closing, NEW raises \in BOOLEAN, CloseValue(v, raises)
      PROVE LeasesActive'
  BY <1>9 DEF CloseValue, LeasesActive, Leasing, Emptied, Active, cacheVars
<1>10. ASSUME NEW k \in Keys,
             \/ CompletedFailure(k)
             \/ \E size \in Sizes : CompletedValue(k, size)
             \/ RecordNegative(k) \/ RecordFailure(k) \/ PublishRefused(k)
             \/ Discard(k) \/ ClearNegative(k) \/ ResetBreaker(k) \/ CallbackReturns(k)
      PROVE UNCHANGED <<variants, shut, client, closing>>
  BY <1>10 DEF CompletedFailure, CompletedValue, RecordNegative, RecordFailure,
              PublishRefused, Discard, ClearNegative, ResetBreaker,
              CallbackReturns, cacheVars
<1> QED
  BY <1>1, <1>2, <1>3, <1>4, <1>5, <1>6, <1>7, <1>8, <1>9, <1>10, CoreSteps
     DEF CoreStep, core

-----------------------------------------------------------------------------
(* Ownership of values. *)
Owned == OneOwner /\ OnlyStarted /\ OwnedAreOpen

(* Steps that only drop claims on values. *)
LEMMA OwnedShrinks ==
  ASSUME TypeOK, TypeOK', Owned,
         UNCHANGED <<variants, started, discards, closing>>,
         \A k \in Keys : /\ callback'[k].doomed \subseteq callback[k].doomed
                         /\ compile'[k] \in {compile[k], None}
                         /\ Undecided(k)' => Undecided(k)
  PROVE  Owned'
<1>1. OneOwner'
  <2>1. \A i, j \in Keys : i # j =>
          /\ compile'[i] = compile'[j] => compile'[j] = None
          /\ variants'[i] = variants'[j] => variants'[j] = None
          /\ callback'[i].doomed \cap callback'[j].doomed = {}
    <3>1. \A i, j \in Keys : i # j => (compile'[i] = compile'[j] => compile'[j] = None)
      BY DEF Owned, OneOwner
    <3>2. \A i, j \in Keys : i # j => callback'[i].doomed \cap callback'[j].doomed = {}
      BY DEF Owned, OneOwner
    <3> QED
      BY <3>1, <3>2 DEF Owned, OneOwner
  <2>2. \A i, j \in Keys : Undecided(j)' =>
          /\ variants'[i] # compile'[j]
          /\ compile'[j] \notin callback'[i].doomed
    BY DEF Owned, OneOwner, Undecided
  <2>3. \A i, j \in Keys : variants'[j] # None => variants'[j] \notin callback'[i].doomed
    BY DEF Owned, OneOwner
  <2>4. /\ \A j \in Keys : Undecided(j)' => compile'[j] \notin closing'
        /\ \A j \in Keys : \A v \in closing' : v \notin callback'[j].doomed
    BY DEF Owned, OneOwner, Undecided
  <2> QED
    BY <2>1, <2>2, <2>3, <2>4 DEF OneOwner
<1>2. OnlyStarted'
  BY DEF Owned, OnlyStarted, TypeOK, None
<1>3. OwnedAreOpen'
  BY DEF Owned, OwnedAreOpen, Undecided
<1> QED
  BY <1>1, <1>2, <1>3 DEF Owned

(* A callback that gives up its value hands it to its discard list. *)
LEMMA OwnedRejects ==
  ASSUME TypeOK, TypeOK', Owned, NEW k \in Keys, Undecided(k), ~Undecided(k)',
         UNCHANGED <<variants, compile, started, discards, closing>>,
         callback'[k].doomed = {compile[k]},
         \A j \in Keys : j # k => callback'[j] = callback[j]
  PROVE  Owned'
<1>1. \A j \in Keys : Undecided(j)' => j # k /\ Undecided(j)
  BY DEF Undecided
<1>2. OneOwner'
  BY <1>1 DEF Owned, OneOwner, Undecided
<1>3. OnlyStarted'
  BY DEF Owned, OnlyStarted
<1>4. OwnedAreOpen'
  BY <1>1 DEF Owned, OwnedAreOpen, Undecided
<1> QED
  BY <1>2, <1>3, <1>4 DEF Owned

(* A larger count of started compilations keeps the bound. *)
LEMMA StartedGrows ==
  ASSUME TypeOK, TypeOK', OnlyStarted, started' >= started,
         UNCHANGED <<variants, callback, discards, closing>>,
         \A k \in Keys : compile'[k] = compile[k] \/ compile'[k] <= started'
  PROVE  OnlyStarted'
<1>1. \A n \in Values \cup {None} : n <= started => n <= started'
  BY DEF TypeOK, Values, None
<1>2. \A k \in Keys : /\ compile[k] \in Values \cup {None}
                      /\ variants[k] \in Values \cup {None}
                      /\ callback[k].doomed \subseteq Values
  BY DEF TypeOK, CallbackStates
<1>3. closing \subseteq Values
  BY DEF TypeOK
<1> QED
  BY <1>1, <1>2, <1>3 DEF OnlyStarted

LEMMA OwnedSubmit ==
  ASSUME TypeOK, TypeOK', CallbacksInFlight, Owned, NEW c \in Clients, ResolveSubmit(c)
  PROVE  Owned'
<1>0. PICK k : k = client[c].key
  OBVIOUS
<1>1. UNCHANGED <<variants, callback, discards, closing>>
  BY DEF ResolveSubmit, cacheVars
<1>2. CASE Decision(k) # "submitted" \/ k \notin Keys
  <2>1. started' >= started /\ \A j \in Keys : compile'[j] = compile[j]
    BY <1>0, <1>2 DEF ResolveSubmit, TypeOK
  <2>2. OneOwner'
    BY <1>1, <2>1 DEF Owned, OneOwner, Undecided
  <2>3. OnlyStarted'
    BY <1>1, <2>1, StartedGrows DEF Owned
  <2>4. OwnedAreOpen'
    BY <1>1, <2>1 DEF Owned, OwnedAreOpen, Undecided
  <2> QED
    BY <2>2, <2>3, <2>4 DEF Owned
<1>3. CASE Decision(k) = "submitted" /\ k \in Keys
  <2> DEFINE v == started + 1
  <2>1. compile' = [compile EXCEPT ![k] = v] /\ started' = v /\ Submit(k) /\ v \in Values
    BY <1>0, <1>3, ManagerAssumption DEF ResolveSubmit, TypeOK, Values
  <2>2. compile[k] = None
    BY <1>3, <2>1 DEF Submit, Decision, InFlight, CallbacksInFlight
  <2>3. /\ discards[v] = 0
        /\ v \notin closing
        /\ \A j \in Keys : v # variants[j] /\ v # compile[j] /\ v \notin callback[j].doomed
    BY <2>1, ManagerAssumption DEF Owned, OnlyStarted, TypeOK, Values
  <2>4. compile'[k] = v /\ \A j \in Keys : j # k => compile'[j] = compile[j]
    BY <1>3, <2>1 DEF TypeOK
  <2> HIDE DEF v
  <2>5. OneOwner'
    <3>1. \A i, j \in Keys : i # j =>
            /\ compile'[i] = compile'[j] => compile'[j] = None
            /\ variants'[i] = variants'[j] => variants'[j] = None
            /\ callback'[i].doomed \cap callback'[j].doomed = {}
      BY <1>1, <2>3, <2>4 DEF Owned, OneOwner
    <3>2. \A j \in Keys : j # k => (Undecided(j)' <=> Undecided(j))
      BY <1>1, <2>4 DEF Undecided
    <3>3. \A i, j \in Keys : Undecided(j)' =>
            /\ variants'[i] # compile'[j]
            /\ compile'[j] \notin callback'[i].doomed
            /\ compile'[j] \notin closing'
      BY <1>1, <2>3, <2>4, <3>2 DEF Owned, OneOwner
    <3>4. \A i, j \in Keys : variants'[j] # None => variants'[j] \notin callback'[i].doomed
      BY <1>1 DEF Owned, OneOwner
    <3>5. \A j \in Keys : \A w \in closing' : w \notin callback'[j].doomed
      BY <1>1 DEF Owned, OneOwner
    <3> QED
      BY <3>1, <3>3, <3>4, <3>5 DEF OneOwner
  <2>6. OnlyStarted'
    <3>1. started' >= started /\ \A j \in Keys : compile'[j] = compile[j] \/ compile'[j] <= started'
      BY <2>1, <2>4 DEF Owned, OnlyStarted, TypeOK, v
    <3> QED
      BY <1>1, <3>1, StartedGrows DEF Owned
  <2>7. OwnedAreOpen'
    BY <1>1, <2>3, <2>4 DEF Owned, OwnedAreOpen, Undecided
  <2> QED
    BY <2>5, <2>6, <2>7 DEF Owned
<1> QED
  BY <1>2, <1>3

LEMMA OwnedPublish ==
  ASSUME TypeOK, TypeOK', CallbacksInFlight, Owned, LeasesActive,
         NEW k \in Keys, Publish(k)
  PROVE  Owned'
<1>1. PICK V \in LRUVictims(k) :
        /\ variants' = [j \in Keys |-> CASE j = k -> compile[k]
                                         [] j \in V -> None
                                         [] OTHER -> variants[j]]
        /\ callback' = [callback EXCEPT ![k] =
                [at |-> "discard_evicted",
                 doomed |-> {variants[j] : j \in Leaving(k, V)}]]
  BY DEF Publish
<1>2. UNCHANGED <<compile, started, discards, closing>> /\ closing = {}
  BY DEF Publish, valueVars, LeasesActive, Emptied
<1>3. Undecided(k) /\ compile[k] # None
  BY DEF Publish, At, Undecided, CallbacksInFlight
<1>4. V \subseteq Active /\ k \notin V
  BY DEF LRUVictims, Evictable
<1>5. /\ variants'[k] = compile[k]
      /\ \A j \in Keys : j # k => variants'[j] = IF j \in V THEN None ELSE variants[j]
  <2>1. variants' = [j \in Keys |-> CASE j = k -> compile[k]
                                      [] j \in V -> None
                                      [] OTHER -> variants[j]]
    BY <1>1
  <2>2. \A j \in Keys : j # k /\ j \in V => variants'[j] = None
    BY <2>1
  <2>3. \A j \in Keys : j # k /\ j \notin V => variants'[j] = variants[j]
    BY <2>1
  <2>4. variants'[k] = compile[k]
    BY <1>4, <2>1
  <2> QED
    BY <2>2, <2>3, <2>4
<1>6. /\ \A j \in Keys : j # k => callback'[j] = callback[j]
      /\ callback'[k].at = "discard_evicted"
      /\ \A v : v \in callback'[k].doomed
               <=> \E j \in Keys : j \in V \cup {k} /\ variants[j] # None /\ variants[j] = v
  BY <1>1, <1>4 DEF TypeOK, Leaving, Active
<1>7. \A j \in Keys : Undecided(j)' <=> j # k /\ Undecided(j)
  BY <1>2, <1>6 DEF Undecided
<1>8. OneOwner'
  <2>1. \A i, j \in Keys : i # j =>
          /\ compile'[i] = compile'[j] => compile'[j] = None
          /\ variants'[i] = variants'[j] => variants'[j] = None
    BY <1>2, <1>3, <1>5 DEF Owned, OneOwner
  <2>2. \A i, j \in Keys : i # j => callback'[i].doomed \cap callback'[j].doomed = {}
    BY <1>6 DEF Owned, OneOwner
  <2>3. \A i, j \in Keys : Undecided(j)' =>
          /\ variants'[i] # compile'[j]
          /\ compile'[j] \notin callback'[i].doomed
    BY <1>2, <1>3, <1>5, <1>6, <1>7 DEF Owned, OneOwner, Undecided
  <2>4. \A i, j \in Keys : variants'[j] # None => variants'[j] \notin callback'[i].doomed
    BY <1>3, <1>5, <1>6 DEF Owned, OneOwner
  <2> QED
    BY <1>2, <2>1, <2>2, <2>3, <2>4 DEF OneOwner
<1>9. OnlyStarted'
  <2>1. \A j \in Keys : compile'[j] <= started' /\ variants'[j] <= started'
    BY <1>2, <1>5 DEF Owned, OnlyStarted, TypeOK, None
  <2>2. \A j \in Keys : \A v \in callback'[j].doomed : v <= started'
    BY <1>2, <1>6 DEF Owned, OnlyStarted
  <2> QED
    BY <1>2, <2>1, <2>2 DEF Owned, OnlyStarted
<1>10. OwnedAreOpen'
  BY <1>2, <1>3, <1>5, <1>6, <1>7 DEF Owned, OwnedAreOpen
<1> QED
  BY <1>8, <1>9, <1>10 DEF Owned

LEMMA OwnedDiscard ==
  ASSUME TypeOK, TypeOK', CallbacksInFlight, Owned, NEW k \in Keys, Discard(k)
  PROVE  Owned'
<1>1. UNCHANGED <<variants, compile, started, closing>>
  BY DEF Discard, cacheVars
<1>2. /\ \A j \in Keys : j # k => callback'[j] = callback[j]
      /\ callback'[k].doomed = {}
      /\ callback[k].at \notin {"none", "publish", "reject_size"}
      /\ callback'[k].at \notin {"none", "publish", "reject_size"}
  BY DEF Discard, At, TypeOK
<1>3. \A v \in Values : discards'[v] = IF v \in callback[k].doomed
                                       THEN discards[v] + 1 ELSE discards[v]
  BY DEF Discard, TypeOK
<1>4. \A j \in Keys : Undecided(j)' <=> Undecided(j)
  BY <1>1, <1>2 DEF Undecided
<1>5. OneOwner'
  BY <1>1, <1>2, <1>4 DEF Owned, OneOwner
<1>6. OnlyStarted'
  BY <1>1, <1>2, <1>3 DEF Owned, OnlyStarted, TypeOK
<1>7. OwnedAreOpen'
  <2>1. \A v \in Values : discards'[v] <= 1
    BY <1>3 DEF Owned, OwnedAreOpen, TypeOK
  <2>2. \A j \in Keys :
          /\ Undecided(j)' => discards'[compile'[j]] = 0
          /\ variants'[j] # None => discards'[variants'[j]] = 0
    BY <1>1, <1>3, <1>4 DEF Owned, OwnedAreOpen, OneOwner, Undecided, TypeOK
  <2>3. \A j \in Keys : \A v \in callback'[j].doomed : discards'[v] = 0
    <3> SUFFICES ASSUME NEW j \in Keys, j # k, NEW v \in callback[j].doomed
                 PROVE  discards'[v] = 0
      BY <1>2
    <3>1. v \in Values
      BY DEF TypeOK, CallbackStates
    <3>2. v \notin callback[k].doomed
      BY DEF Owned, OneOwner
    <3>3. discards[v] = 0
      BY DEF Owned, OwnedAreOpen
    <3> QED
      BY <1>3, <3>1, <3>2, <3>3
  <2>4. \A v \in closing' : discards'[v] = 0
    <3>1. closing \subseteq Values /\ closing' = closing
      BY <1>1 DEF TypeOK
    <3>2. \A v \in closing : v \notin callback[k].doomed /\ discards[v] = 0
      BY DEF Owned, OwnedAreOpen, OneOwner
    <3> QED
      BY <1>3, <3>1, <3>2
  <2> QED
    BY <2>1, <2>2, <2>3, <2>4 DEF OwnedAreOpen
<1> QED
  BY <1>5, <1>6, <1>7 DEF Owned

LEMMA OwnedClose ==
  ASSUME TypeOK, TypeOK', Owned, LeasesActive,
         CloseClear \/ \E v \in closing, raises \in BOOLEAN : CloseValue(v, raises)
  PROVE  Owned'
<1>1. CASE CloseClear
  <2>1. /\ \A k \in Keys : variants'[k] = None
        /\ closing' = ActiveValues
        /\ UNCHANGED <<compile, started, discards, callback>>
    BY <1>1 DEF CloseClear, valueVars
  <2>2. \A v \in closing' : \E k \in Keys : variants[k] # None /\ v = variants[k]
    BY <2>1 DEF ActiveValues, Active
  <2>3. OneOwner'
    BY <2>1, <2>2 DEF Owned, OneOwner, Undecided
  <2>4. OnlyStarted'
    BY <2>1, <2>2 DEF Owned, OnlyStarted, TypeOK, None
  <2>5. OwnedAreOpen'
    BY <2>1, <2>2 DEF Owned, OwnedAreOpen, Undecided
  <2> QED
    BY <2>3, <2>4, <2>5 DEF Owned
<1>2. ASSUME NEW v \in closing, NEW raises \in BOOLEAN, CloseValue(v, raises)
      PROVE Owned'
  <2>1. UNCHANGED <<variants, compile, started, callback>> /\ closing' = closing \ {v}
    BY <1>2 DEF CloseValue, cacheVars
  <2>2. \A w \in Values : discards'[w] = IF w = v THEN discards[w] + 1 ELSE discards[w]
    BY <1>2 DEF CloseValue, TypeOK
  <2>3. Active = {} /\ discards[v] = 0 /\ v \in Values
    BY <1>2 DEF CloseValue, LeasesActive, Emptied, Owned, OwnedAreOpen, TypeOK
  <2>4. OneOwner'
    BY <2>1 DEF Owned, OneOwner, Undecided
  <2>5. OnlyStarted'
    BY <2>1, <2>2 DEF Owned, OnlyStarted, TypeOK
  <2>6. OwnedAreOpen'
    <3>1. \A w \in Values : discards'[w] <= 1
      BY <2>2, <2>3 DEF Owned, OwnedAreOpen, TypeOK
    <3>2. \A k \in Keys : Undecided(k)' => discards'[compile'[k]] = 0
      BY <1>2, <2>1, <2>2 DEF Owned, OwnedAreOpen, OneOwner, Undecided, TypeOK
    <3>3. \A k \in Keys : variants'[k] = None
      BY <2>1, <2>3 DEF Active
    <3>4. \A k \in Keys : \A w \in callback'[k].doomed : discards'[w] = 0
      BY <1>2, <2>1, <2>2 DEF Owned, OwnedAreOpen, OneOwner, TypeOK, CallbackStates
    <3>5. \A w \in closing' : discards'[w] = 0
      BY <2>1, <2>2 DEF Owned, OwnedAreOpen, TypeOK
    <3> QED
      BY <3>1, <3>2, <3>3, <3>4, <3>5 DEF OwnedAreOpen
  <2> QED
    BY <2>4, <2>5, <2>6 DEF Owned
<1> QED
  BY <1>1, <1>2

LEMMA OwnedStep ==
  TypeOK /\ TypeOK' /\ CallbacksInFlight /\ LeasesActive /\ Owned /\ [Next]_vars
    => Owned'
<1> SUFFICES ASSUME TypeOK, TypeOK', CallbacksInFlight, LeasesActive, Owned, [Next]_vars
             PROVE  Owned'
  OBVIOUS
<1>1. ASSUME UNCHANGED <<variants, started, discards, closing, callback, compile>>
      PROVE Owned'
  BY <1>1, OwnedShrinks DEF Undecided
<1>2. ASSUME NEW c \in Clients, NEW k \in Keys, ResolveMiss(c, k) \/ Acquire(c, k)
      PROVE Owned'
  BY <1>1, <1>2 DEF ResolveMiss, Acquire, cacheVars, valueVars
<1>3. ASSUME NEW c \in Clients, Release(c) PROVE Owned'
  BY <1>1, <1>3 DEF Release, valueVars
<1>4. ASSUME CloseMoves PROVE Owned'
  BY <1>1, <1>4 DEF CloseMoves, ShutMoves
<1>5. ASSUME NEW k \in Keys, CompletedFailure(k) PROVE Owned'
  <2>1. UNCHANGED <<variants, started, discards, closing, compile>>
    BY <1>5 DEF CompletedFailure, cacheVars, valueVars
  <2>2. \A j \in Keys : /\ callback'[j].doomed = callback[j].doomed
                        /\ j # k => callback'[j] = callback[j]
                        /\ callback'[k].at = "record_failure"
    BY <1>5 DEF CompletedFailure, Step, TypeOK, CallbackStates
  <2> QED
    BY <2>1, <2>2, OwnedShrinks DEF Undecided
<1>6. ASSUME NEW k \in Keys, NEW size \in Sizes, CompletedValue(k, size) PROVE Owned'
  <2>1. UNCHANGED <<variants, started, discards, closing, compile>>
    BY <1>6 DEF CompletedValue, cacheVars
  <2>2. PICK step \in {"reject_size", "publish"} : Step(k, step)
    BY <1>6 DEF CompletedValue
  <2>3. \A j \in Keys : /\ callback'[j].doomed = callback[j].doomed
                        /\ j # k => callback'[j] = callback[j]
    BY <2>2 DEF Step, TypeOK, CallbackStates
  <2>4. flight[k] = "compiling"
    BY <1>6 DEF CompletedValue, Deliver
  <2>5. Undecided(k)
    BY <2>4 DEF CallbacksInFlight, Undecided
  <2> QED
    BY <2>1, <2>3, <2>5, OwnedShrinks DEF Undecided
<1>7. ASSUME NEW k \in Keys, RecordNegative(k) PROVE Owned'
  <2>1. UNCHANGED <<variants, started, discards, closing, compile>>
    BY <1>7 DEF RecordNegative, cacheVars, valueVars
  <2>2. \A j \in Keys : j # k => callback'[j] = callback[j]
    BY <1>7 DEF RecordNegative
  <2>3. CASE callback[k].at = "reject_size"
    <3>1. callback'[k] = [at |-> "discard_rejected", doomed |-> {compile[k]}]
      BY <1>7, <2>3 DEF RecordNegative, At, TypeOK
    <3>2. Undecided(k) /\ ~Undecided(k)'
      BY <2>3, <3>1 DEF CallbacksInFlight, Undecided
    <3> QED
      BY <2>1, <2>2, <3>1, <3>2, OwnedRejects
  <2>4. CASE callback[k].at # "reject_size"
    <3>1. callback'[k].doomed = {} /\ callback'[k].at \in {"break", "done"}
      BY <1>7, <2>4 DEF RecordNegative, At, TypeOK
    <3> QED
      BY <2>1, <2>2, <3>1, OwnedShrinks DEF Undecided
  <2> QED
    BY <2>3, <2>4
<1>8. ASSUME NEW k \in Keys, RecordFailure(k) \/ ClearNegative(k) \/ ResetBreaker(k)
      PROVE Owned'
  <2>1. UNCHANGED <<variants, started, discards, closing, compile>>
    BY <1>8 DEF RecordFailure, ClearNegative, ResetBreaker, cacheVars, valueVars
  <2>2. PICK step \in {"done", "reset_breaker"} : Step(k, step)
    BY <1>8 DEF RecordFailure, ClearNegative, ResetBreaker
  <2>3. \A j \in Keys : /\ callback'[j].doomed = callback[j].doomed
                        /\ j # k => callback'[j] = callback[j]
                        /\ callback'[k].at = step
    BY <2>2 DEF Step, TypeOK, CallbackStates
  <2> QED
    BY <2>1, <2>3, OwnedShrinks DEF Undecided
<1>9. ASSUME NEW k \in Keys, PublishRefused(k) PROVE Owned'
  <2>1. UNCHANGED <<variants, started, discards, closing, compile>>
    BY <1>9 DEF PublishRefused, cacheVars, valueVars
  <2>2. /\ \A j \in Keys : j # k => callback'[j] = callback[j]
        /\ callback'[k] = [at |-> "discard_refused", doomed |-> {compile[k]}]
    BY <1>9 DEF PublishRefused, TypeOK
  <2>3. Undecided(k) /\ ~Undecided(k)'
    BY <1>9, <2>2 DEF PublishRefused, At, CallbacksInFlight, Undecided
  <2> QED
    BY <2>1, <2>2, <2>3, OwnedRejects
<1>10. ASSUME NEW k \in Keys, CallbackReturns(k) PROVE Owned'
  <2>1. UNCHANGED <<variants, started, discards, closing>>
    BY <1>10 DEF CallbackReturns, cacheVars
  <2>2. /\ \A j \in Keys : j # k => callback'[j] = callback[j] /\ compile'[j] = compile[j]
        /\ callback'[k].doomed = {} /\ compile'[k] = None
    BY <1>10 DEF CallbackReturns, Quiet, TypeOK
  <2> QED
    BY <2>1, <2>2, OwnedShrinks DEF Undecided
<1> QED
  BY <1>1, <1>2, <1>3, <1>4, <1>5, <1>6, <1>7, <1>8, <1>9, <1>10, CoreSteps,
     OwnedSubmit, OwnedPublish, OwnedDiscard, OwnedClose
     DEF CoreStep, core

-----------------------------------------------------------------------------
(* The invariant, and what it was built for. *)

LEMMA InductiveInit == Init => Inductive
<1> SUFFICES ASSUME Init PROVE Inductive
  OBVIOUS
<1>1. TypeOK
  BY TypeInit
<1>2. CallbacksInFlight
  BY DEF Init, ServiceInit, CallbacksInFlight, Quiet
<1>3. OneOwner /\ OnlyStarted /\ OwnedAreOpen
  BY DEF Init, OneOwner, OnlyStarted, OwnedAreOpen, Undecided, Quiet, None
<1>4. LeasesActive
  BY DEF Init, LeasesActive, Leasing, Idle, Emptied
<1>5. RefsCountLeases
  <2>1. \A k \in Keys : Holders(k) = {}
    BY DEF Init, Holders, Leasing, Idle
  <2> QED
    BY <2>1, FS_EmptySet DEF Init, RefsCountLeases
<1> QED
  BY <1>1, <1>2, <1>3, <1>4, <1>5 DEF Inductive

LEMMA InductiveStep == Inductive /\ [Next]_vars => Inductive'
BY TypeStep, InFlightStep, RefsStep, LeasesStep, OwnedStep DEF Inductive, Owned

THEOREM InductiveInvariant == Spec => []Inductive
<1>1. Init => Inductive
  BY InductiveInit
<1>2. Inductive /\ [Next]_vars => Inductive'
  BY InductiveStep
<1> QED
  BY <1>1, <1>2, PTL DEF Spec

(* Every reachable state has the declared shape (runtime state of          *)
(* variant_manager.py and of the pool behind it).                          *)
THEOREM TypeCorrect == Spec => []TypeOK
<1>1. Inductive => TypeOK
  BY DEF Inductive
<1> QED
  BY <1>1, InductiveInvariant, PTL

(* A variant in use is not reclaimed: as long as close() has not emptied   *)
(* the table, a leased value is the active value of its key and has not    *)
(* been closed (acquire and _publish of variant_manager.py).               *)
THEOREM LeaseSafety == Spec => []LeasedStaysActive
<1>1. Inductive => LeasedStaysActive
  <2> SUFFICES ASSUME Inductive, ~Emptied, NEW c \in Leasing
               PROVE  /\ variants[client[c].key] = client[c].value
                      /\ discards[client[c].value] = 0
    BY DEF LeasedStaysActive
  <2>1. /\ client[c].key \in Keys /\ client[c].value \in Values
        /\ variants[client[c].key] = client[c].value
    BY DEF Inductive, LeasesActive, Leasing
  <2>2. variants[client[c].key] # None
    BY <2>1 DEF Values, None
  <2> QED
    BY <2>1, <2>2 DEF Inductive, OwnedAreOpen
<1> QED
  BY <1>1, InductiveInvariant, PTL

(* The reference counts that acquire keeps are the leases that exist. *)
THEOREM CountsAreLeases == Spec => []RefsCountLeases
<1>1. Inductive => RefsCountLeases
  BY DEF Inductive
<1> QED
  BY <1>1, InductiveInvariant, PTL

(* No value is closed twice, whichever of eviction, replacement, rejection *)
(* and close() disposes of it, and no active value is closed.              *)
THEOREM CloseOnce == Spec => []ClosedAtMostOnce
<1>1. Inductive => ClosedAtMostOnce
  BY DEF Inductive, OwnedAreOpen, ClosedAtMostOnce, ActiveValues, Active
<1> QED
  BY <1>1, InductiveInvariant, PTL

(* The hard budgets of the cache hold at every instant. *)
THEOREM BudgetSafety == Spec => []BudgetRespected
<1>1. Init => BudgetRespected
  <2> SUFFICES ASSUME Init PROVE BudgetRespected
    OBVIOUS
  <2>1. Active = {} /\ codeBytes = 0
    BY DEF Init, Active
  <2> QED
    BY <2>1, FS_EmptySet, ManagerAssumption DEF BudgetRespected
<1>2. BudgetRespected /\ Inductive /\ [Next]_vars => BudgetRespected'
  <2> SUFFICES ASSUME BudgetRespected, Inductive, [Next]_vars PROVE BudgetRespected'
    OBVIOUS
  <2>1. CASE UNCHANGED <<variants, codeBytes>>
    BY <2>1 DEF BudgetRespected, Active
  <2>2. ASSUME NEW k \in Keys, Publish(k) PROVE BudgetRespected'
    <3>1. PICK V \in LRUVictims(k) :
            /\ codeBytes' = Projected(k, V)
            /\ variants' = [j \in Keys |-> CASE j = k -> compile[k]
                                             [] j \in V -> None
                                             [] OTHER -> variants[j]]
      BY <2>2 DEF Publish
    <3>2. Fits(k, V) /\ k \notin V
      BY <3>1 DEF LRUVictims, Evictable
    <3>3. compile[k] # None
      BY <2>2 DEF Publish, At, Inductive, CallbacksInFlight
    <3>4. Active' = (Active \ V) \cup {k}
      BY <3>1, <3>2, <3>3 DEF Active
    <3> QED
      BY <3>1, <3>2, <3>4 DEF Fits, BudgetRespected
  <2>3. CASE CloseClear
    <3>1. Active' = {} /\ codeBytes' = 0
      BY <2>3 DEF CloseClear, Active
    <3> QED
      BY <3>1, FS_EmptySet, ManagerAssumption DEF BudgetRespected
  <2>4. CoreStep => \/ UNCHANGED <<variants, codeBytes>>
                    \/ \E k \in Keys : Publish(k)
                    \/ CloseClear
    BY DEF CoreStep, ResolveMiss, Acquire, ResolveSubmit, Release, CompletedFailure,
           CompletedValue, RecordNegative, RecordFailure, PublishRefused, Discard,
           ClearNegative, ResetBreaker, CallbackReturns, CloseMoves, ShutMoves,
           CloseValue, cacheVars
  <2> QED
    BY <2>1, <2>2, <2>3, <2>4, CoreSteps DEF core
<1> QED
  BY <1>1, <1>2, InductiveInvariant, PTL DEF Spec

-----------------------------------------------------------------------------
(* Refinement: the manager implements CodeCache.  The abstract lease of a  *)
(* client and the abstract set of closed values are the ones of the        *)
(* refinement mapping.                                                     *)
heldBar == [c \in Clients |-> IF client[c].at = "lease" THEN client[c].value ELSE None]
deadBar == {v \in Values : discards[v] > 0}

LEMMA CacheLease ==
  ASSUME Inductive, NEW c \in Clients, NEW k \in Keys, Acquire(c, k)
  PROVE  Cache!Lease(c, k)
<1>1. heldBar[c] = None /\ k \in Cache!Cached
  BY DEF Acquire, heldBar, Active, Cache!Cached
<1>2. client' = [client EXCEPT ![c] = [at |-> "lease", key |-> k, value |-> variants[k]]]
  BY DEF Acquire
<1>3. heldBar' = [heldBar EXCEPT ![c] = variants[k]]
  BY <1>2 DEF heldBar, Inductive, TypeOK
<1>4. UNCHANGED <<variants, discards, shut>>
  BY DEF Acquire, valueVars
<1> QED
  BY <1>1, <1>3, <1>4 DEF Cache!Lease, heldBar, Emptied

LEMMA CacheReturn ==
  ASSUME Inductive, NEW c \in Clients, Release(c)
  PROVE  Cache!Return(c)
<1>1. heldBar[c] # None
  BY DEF Release, heldBar, Inductive, LeasesActive, Leasing, Values, None
<1>2. heldBar' = [heldBar EXCEPT ![c] = None]
  <2>1. client'[c].at # "lease" /\ \A d \in Clients : d # c => client'[d] = client[d]
    BY DEF Release, Inductive, TypeOK, ClientStates, Idle
  <2> QED
    BY <2>1 DEF heldBar
<1>3. UNCHANGED <<variants, discards, shut>>
  BY DEF Release, valueVars
<1> QED
  BY <1>1, <1>2, <1>3 DEF Cache!Return, heldBar, Emptied

(* Nobody holds a value that is waiting to be closed. *)
LEMMA HeldIsActive ==
  ASSUME Inductive, ~Emptied, NEW v \in Cache!Held
  PROVE  \E c \in Leasing : /\ client[c].key \in Keys
                            /\ variants[client[c].key] = v
                            /\ v \in Values
<1>1. PICK c \in Clients : v = heldBar[c] /\ v # None
  BY DEF Cache!Held, heldBar
<1>2. c \in Leasing /\ v = client[c].value
  BY <1>1 DEF heldBar, Leasing
<1> QED
  BY <1>2 DEF Inductive, LeasesActive, Leasing

LEMMA CacheInstall ==
  ASSUME Inductive, NEW k \in Keys, Publish(k)
  PROVE  \E V \in SUBSET Keys : Cache!Install(k, compile[k], V)
<1>1. PICK V \in LRUVictims(k) :
        variants' = [j \in Keys |-> CASE j = k -> compile[k]
                                      [] j \in V -> None
                                      [] OTHER -> variants[j]]
  BY DEF Publish
<1>2. Fits(k, V) /\ k \notin V /\ V \in SUBSET Keys /\ \A j \in V : refs[j] = 0
  BY <1>1 DEF LRUVictims, Evictable, Active
<1>3. compile[k] # None /\ Undecided(k) /\ compile[k] \in Values
  BY DEF Publish, At, Inductive, CallbacksInFlight, Undecided, TypeOK
<1>4. ~Emptied /\ UNCHANGED <<client, discards, shut>>
  BY DEF Publish, Emptied, valueVars
<1>5. compile[k] \notin deadBar \cup {variants[j] : j \in Keys}
  BY <1>3 DEF Inductive, OwnedAreOpen, OneOwner, deadBar
<1>6. \A j \in (V \cup {k}) \cap Cache!Cached : variants[j] \notin Cache!Held
  <2> SUFFICES ASSUME NEW j \in (V \cup {k}) \cap Cache!Cached, variants[j] \in Cache!Held
               PROVE  FALSE
    OBVIOUS
  <2>1. PICK c \in Leasing : /\ client[c].key \in Keys
                             /\ variants[client[c].key] = variants[j]
    BY <1>4, HeldIsActive
  <2>2. j \in Keys /\ variants[j] # None
    BY DEF Cache!Cached
  <2>3. client[c].key = j
    BY <2>1, <2>2 DEF Inductive, OneOwner
  <2>4. refs[j] > 0
    BY <1>4, <2>3, LeasedIsReferenced DEF Inductive
  <2>5. j = k /\ k \in Active
    BY <1>2, <2>2, <2>4 DEF Active
  <2> QED
    BY <2>4, <2>5 DEF Publish
<1>7. \A j \in Keys : variants'[j] = IF j = k THEN compile[k]
                                     ELSE IF j \in V THEN None ELSE variants[j]
  BY <1>1, <1>2
<1>8. variants' = [j \in Keys |-> IF j = k THEN compile[k]
                                  ELSE IF j \in V THEN None ELSE variants[j]]
  BY <1>1, <1>7
<1>9. {j \in Keys : variants'[j] # None} = (Active \ V) \cup {k}
  BY <1>3, <1>7 DEF Active
<1>10. Cardinality({j \in Keys : variants'[j] # None}) <= MaxVariants
  BY <1>2, <1>9 DEF Fits
<1>11. Cache!Install(k, compile[k], V)
  <2>1. compile[k] \notin {v \in Values : discards[v] > 0} \cup {variants[j] : j \in Keys}
    BY <1>5 DEF deadBar
  <2>2. UNCHANGED heldBar /\ UNCHANGED deadBar /\ UNCHANGED Emptied
    BY <1>4 DEF heldBar, deadBar, Emptied
  <2>3. \A j \in (V \cup {k}) \cap Cache!Cached : variants[j] \notin Cache!Held
    BY <1>6
  <2>4. Cache!Cardinality({j \in Keys : variants'[j] # None}) <= MaxVariants
    BY <1>10 DEF Cardinality, Cache!Cardinality
  <2> QED
    BY <1>4, <1>8, <2>1, <2>2, <2>3, <2>4 DEF Cache!Install, heldBar, deadBar
<1> QED
  BY <1>2, <1>11

LEMMA CacheDiscard ==
  ASSUME Inductive, NEW k \in Keys, Discard(k)
  PROVE  Cache!Bury(callback[k].doomed)
<1> DEFINE V == callback[k].doomed
<1>1. V \subseteq Values
  BY DEF Inductive, TypeOK, CallbackStates
<1>2. \A v \in V : v \notin deadBar /\ \A j \in Keys : v # variants[j]
  <2>1. \A v \in V : discards[v] = 0
    BY DEF Inductive, OwnedAreOpen
  <2>2. \A v \in V, j \in Keys : v # variants[j]
    <3>1. \A j \in Keys : variants[j] # None => variants[j] \notin V
      BY DEF Inductive, OneOwner
    <3>2. None \notin V
      BY <1>1 DEF Values, None
    <3> QED
      BY <3>1, <3>2
  <2> QED
    BY <2>1, <2>2 DEF deadBar
<1>3. ~Emptied => V \cap Cache!Held = {}
  BY <1>2, HeldIsActive
<1>4. UNCHANGED <<variants, client, shut>>
  BY DEF Discard, cacheVars
<1>5. deadBar' = deadBar \cup V
  <2>1. \A v \in Values : discards'[v] = discards[v] + IF v \in V THEN 1 ELSE 0
    BY DEF Discard
  <2>2. \A v \in Values : discards'[v] > 0 <=> discards[v] > 0 \/ v \in V
    BY <2>1 DEF Inductive, TypeOK
  <2> QED
    BY <1>1, <2>2 DEF deadBar
<1> QED
  BY <1>2, <1>3, <1>4, <1>5 DEF Cache!Bury, deadBar, Emptied

LEMMA CacheCloseValue ==
  ASSUME Inductive, NEW v \in closing, NEW raises \in BOOLEAN, CloseValue(v, raises)
  PROVE  Cache!Bury({v})
<1>1. /\ Emptied /\ Emptied' /\ UNCHANGED <<variants, client>>
      /\ v \in Values /\ discards[v] = 0
  BY DEF CloseValue, Emptied, cacheVars, Inductive, TypeOK, OwnedAreOpen
<1>2. \A j \in Keys : v # variants[j]
  BY <1>1 DEF Inductive, LeasesActive, Active, Values, None
<1>3. deadBar' = deadBar \cup {v}
  <2>1. \A w \in Values : discards'[w] > 0 <=> discards[w] > 0 \/ w = v
    BY <1>1 DEF CloseValue, Inductive, TypeOK
  <2> QED
    BY <1>1, <2>1 DEF deadBar
<1> QED
  BY <1>1, <1>2, <1>3 DEF Cache!Bury, deadBar

LEMMA CacheEmpty ==
  ASSUME Inductive, CloseClear
  PROVE  Cache!Empty
BY DEF CloseClear, Cache!Empty, Emptied, valueVars

LEMMA CacheStep == Inductive /\ [Next]_vars => [Cache!Next]_(Cache!cacheVars)
<1> SUFFICES ASSUME Inductive, [Next]_vars
             PROVE  Cache!Next \/ UNCHANGED Cache!cacheVars
  OBVIOUS
<1>1. ASSUME UNCHANGED <<variants, discards>>, heldBar' = heldBar, Emptied' = Emptied
      PROVE  UNCHANGED Cache!cacheVars
  BY <1>1 DEF Cache!cacheVars, heldBar
<1>2. ASSUME UNCHANGED <<variants, discards, client, shut>>
      PROVE  UNCHANGED Cache!cacheVars
  BY <1>1, <1>2 DEF heldBar, Emptied
<1>3. ASSUME NEW c \in Clients,
             ResolveSubmit(c) \/ \E k \in Keys : ResolveMiss(c, k)
      PROVE  UNCHANGED Cache!cacheVars
  <2>1. UNCHANGED <<variants, discards, shut>>
    BY <1>3 DEF ResolveSubmit, ResolveMiss, cacheVars, valueVars
  <2>2. /\ client[c].at # "lease" /\ client'[c].at # "lease"
        /\ \A d \in Clients : d # c => client'[d] = client[d]
    BY <1>3 DEF ResolveSubmit, ResolveMiss, Inductive, TypeOK, Idle
  <2>3. heldBar' = heldBar
    BY <2>2 DEF heldBar
  <2> QED
    BY <1>1, <2>1, <2>3 DEF Emptied
<1>4. CASE CloseMoves
  <2>1. UNCHANGED <<variants, discards, client>> /\ Emptied' = Emptied
    BY <1>4 DEF CloseMoves, ShutMoves, Emptied
  <2> QED
    BY <1>1, <2>1 DEF heldBar
<1>5. ASSUME NEW k \in Keys,
             \/ CompletedFailure(k)
             \/ \E size \in Sizes : CompletedValue(k, size)
             \/ RecordNegative(k) \/ RecordFailure(k) \/ PublishRefused(k)
             \/ ClearNegative(k) \/ ResetBreaker(k) \/ CallbackReturns(k)
      PROVE  UNCHANGED Cache!cacheVars
  <2>1. UNCHANGED <<variants, discards, client, shut>>
    BY <1>5 DEF CompletedFailure, CompletedValue, RecordNegative, RecordFailure,
                PublishRefused, ClearNegative, ResetBreaker, CallbackReturns,
                cacheVars, valueVars
  <2> QED
    BY <1>2, <2>1
<1>6. ASSUME NEW c \in Clients, Release(c) \/ \E k \in Keys : Acquire(c, k)
      PROVE  Cache!Next
  BY <1>6, CacheReturn, CacheLease DEF Cache!Next
<1>7. ASSUME NEW k \in Keys, Publish(k) PROVE Cache!Next
  <2>1. compile[k] \in Values
    BY <1>7 DEF Publish, At, Inductive, CallbacksInFlight, TypeOK
  <2> QED
    BY <1>7, <2>1, CacheInstall DEF Cache!Next
<1>8. ASSUME NEW k \in Keys, Discard(k) PROVE Cache!Next
  <2>1. callback[k].doomed \in SUBSET Values
    BY DEF Inductive, TypeOK, CallbackStates
  <2>2. PICK V \in SUBSET Values : V = callback[k].doomed
    BY <2>1
  <2>3. Cache!Bury(V)
    BY <1>8, <2>2, CacheDiscard DEF Cache!Bury
  <2> QED
    BY <2>3 DEF Cache!Next
<1>9. ASSUME NEW v \in closing, NEW raises \in BOOLEAN, CloseValue(v, raises)
      PROVE Cache!Next
  <2>1. {v} \in SUBSET Values
    BY DEF Inductive, TypeOK
  <2> QED
    BY <1>9, <2>1, CacheCloseValue DEF Cache!Next
<1>10. CASE CloseClear
  BY <1>10, CacheEmpty DEF Cache!Next
<1> QED
  BY <1>2, <1>3, <1>4, <1>5, <1>6, <1>7, <1>8, <1>9, <1>10, CoreSteps
     DEF CoreStep, core

(* What a user may rely on (CodeCache) is what the manager does, for every *)
(* interleaving of resolves, leases, compilations, evictions and close().  *)
THEOREM Refinement == Spec => ImplementsCodeCache
<1>1. Init => Cache!Init
  BY DEF Init, Cache!Init, Idle, Emptied
<1>2. Inductive /\ [Next]_vars => [Cache!Next]_(Cache!cacheVars)
  BY CacheStep
<1> QED
  BY <1>1, <1>2, InductiveInvariant, PTL DEF Spec, ImplementsCodeCache, Cache!Spec

-----------------------------------------------------------------------------
(* No value is forgotten.  The size of a value is written only by its own  *)
(* completion.                                                             *)
LEMMA SizeWrites ==
  [Next]_vars => \/ sizeOf' = sizeOf
                 \/ \E k \in Keys, size \in Sizes : CompletedValue(k, size)
<1> SUFFICES ASSUME [Next]_vars PROVE \/ sizeOf' = sizeOf
                                      \/ \E k \in Keys, size \in Sizes : CompletedValue(k, size)
  OBVIOUS
<1> QED
  BY DEF Next, vars, valueVars, CallbackStep, CloseStep, Completed, ResolveHit, ResolveMiss, Acquire,
         ResolveSubmit, Release, CompletedFailure, RecordNegative, RecordFailure,
         PublishRefused, Publish, Discard, ClearNegative, ResetBreaker, CallbackReturns,
         CloseBegin, CloseShutdown, CloseJoined, CloseClear, CloseRelease, CloseReturns,
         CloseValue, PoolStep, ClockStep, Neighbour

(* Every callback other than k's goes on with what it had, and k's doomed  *)
(* list only loses values that were closed: fates survive.                 *)
LEMMA FatesSurvive ==
  ASSUME Inductive, Inductive', Fates, sizeOf' = sizeOf, started' = started,
         shut = "aborted" => shut' = "aborted",
         \A k \in Keys : /\ compile'[k] \in {compile[k], None}
                         /\ callback'[k].at = "none" =>
                              compile'[k] = None \/ callback[k].at = "none"
                         /\ callback'[k].at \notin {"discard_rejected", "discard_refused",
                                                    "discard_evicted"}
                              => callback'[k].doomed = {},
         \A k \in Keys, v \in 1..started : Undecided(k) /\ compile[k] = v =>
            (Undecided(k)' /\ compile'[k] = v) \/ Kept(v)',
         \A v \in 1..started : Kept(v) => Kept(v)'
  PROVE  Fates'
<1>1. Unsized'
  BY DEF Fates, Unsized
<1>2. ASSUME NEW v \in 1..started', ~Kept(v)'
      PROVE  \E k \in Keys : Undecided(k)' /\ compile'[k] = v
  <2>1. v \in 1..started
    BY <1>2
  <2>2. PICK k \in Keys : Undecided(k) /\ compile[k] = v
    BY <1>2, <2>1 DEF Fates
  <2> QED
    BY <1>2, <2>2
<1>3. \A k \in Keys : callback'[k].at \notin {"discard_rejected", "discard_refused",
                                              "discard_evicted"}
                        => callback'[k].doomed = {}
  OBVIOUS
<1>4. \A v \in 1..started' :
        Kept(v)' \/ \E k \in Keys : Undecided(k)' /\ compile'[k] = v
  BY <1>2
<1> QED
  BY <1>1, <1>3, <1>4 DEF Fates

LEMMA FatesSubmit ==
  ASSUME Inductive, Inductive', Fates, NEW c \in Clients, ResolveSubmit(c)
  PROVE  Fates'
<1> DEFINE k == client[c].key
<1>1. UNCHANGED <<sizeOf, discards, variants, closing, callback, shut>>
  BY DEF ResolveSubmit, cacheVars
<1>2. CASE Decision(k) = "submitted"
  <2>1. /\ started < MaxCompiles /\ started' = started + 1
        /\ compile' = [compile EXCEPT ![k] = started + 1]
        /\ Submit(k)
    BY <1>2 DEF ResolveSubmit
  <2>2. k \notin InFlight
    BY <2>1 DEF Submit, Decision
  <2> HIDE DEF k
  <2>3. k \in Keys => compile[k] = None
    BY <2>2 DEF Inductive, CallbacksInFlight, InFlight
  <2>4. started \in Nat /\ started + 1 \in Values
    BY <2>1, ManagerAssumption DEF Inductive, TypeOK, Values
  <2>5. \A j \in Keys : compile'[j] = IF j = k THEN started + 1 ELSE compile[j]
    BY <2>1 DEF Inductive, TypeOK
  <2>6. sizeOf[started + 1] = 0 /\ \A v \in Values : v > started' => sizeOf[v] = 0
    BY <2>1, <2>4 DEF Fates, Unsized, Values
  <2>7. Unsized'
    BY <1>1, <2>1, <2>5, <2>6 DEF Fates, Unsized
  <2>8. \A j \in Keys : Undecided(j) => Undecided(j)' /\ compile'[j] = compile[j]
    BY <1>1, <2>3, <2>5 DEF Undecided
  <2>9. ASSUME NEW v \in 1..started'
        PROVE  Kept(v)' \/ \E j \in Keys : Undecided(j)' /\ compile'[j] = v
    <3>1. CASE v = started + 1
      BY <1>1, <2>6, <3>1 DEF Kept
    <3>2. CASE v \in 1..started
      <4>1. Kept(v) => Kept(v)'
        BY <1>1 DEF Kept, ActiveValues, Active
      <4> QED
        BY <2>8, <3>2, <4>1 DEF Fates
    <3> QED
      BY <2>1, <2>4, <2>9, <3>1, <3>2
  <2> QED
    BY <1>1, <2>7, <2>9 DEF Fates
<1>3. CASE Decision(k) # "submitted"
  <2>1. UNCHANGED <<started, compile>>
    BY <1>3 DEF ResolveSubmit
  <2> QED
    BY <1>1, <2>1 DEF Fates, Unsized, Undecided, Kept, ActiveValues, Active
<1> QED
  BY <1>2, <1>3

LEMMA FatesCompleted ==
  ASSUME Inductive, Inductive', Fates, NEW k \in Keys,
         CompletedFailure(k) \/ \E size \in Sizes : CompletedValue(k, size)
  PROVE  Fates'
<1>1. UNCHANGED <<discards, variants, closing, shut, started, compile>>
  BY DEF CompletedFailure, CompletedValue, cacheVars, valueVars
<1>2. flight[k] = "compiling"
  BY DEF CompletedFailure, CompletedValue, Deliver
<1>3. compile[k] # None /\ callback[k].at = "none" /\ callback[k].doomed = {}
  BY <1>2 DEF Inductive, CallbacksInFlight, Fates
<1>4. \A j \in Keys : /\ callback'[j].doomed = callback[j].doomed
                      /\ j # k => callback'[j] = callback[j]
  BY DEF CompletedFailure, CompletedValue, Step, Inductive, TypeOK, CallbackStates
<1>5. CASE CompletedFailure(k)
  <2>1. sizeOf' = sizeOf /\ callback'[k].at = "record_failure"
    BY <1>5 DEF CompletedFailure, valueVars, Step, Inductive, TypeOK, CallbackStates
  <2>2. sizeOf[compile[k]] = 0
    BY <1>3 DEF Fates, Unsized
  <2>3. \A v \in 1..started : (Kept(v) \/ v = compile[k]) => Kept(v)'
    BY <1>1, <1>4, <2>1, <2>2 DEF Kept, ActiveValues, Active
  <2> QED
    BY <1>1, <1>3, <1>4, <2>1, <2>3, FatesSurvive DEF Undecided, Fates
<1>6. CASE \E size \in Sizes : CompletedValue(k, size)
  <2>1. PICK size \in Sizes : CompletedValue(k, size)
    BY <1>6
  <2>2. /\ sizeOf' = [sizeOf EXCEPT ![compile[k]] = size]
        /\ callback'[k].at \in {"reject_size", "publish"}
    BY <2>1 DEF CompletedValue, Step, Inductive, TypeOK, CallbackStates
  <2>3. Undecided(k)' /\ \A j \in Keys : Undecided(j) => Undecided(j)'
    BY <1>1, <1>3, <1>4, <2>2 DEF Undecided
  <2>4. compile[k] \in Values /\ compile[k] <= started
    BY <1>3 DEF Inductive, TypeOK, OnlyStarted, None
  <2>5. \A v \in Values : v # compile[k] => sizeOf'[v] = sizeOf[v]
    BY <2>2, <2>4 DEF Inductive, TypeOK
  <2>6. Unsized'
    <3>1. ASSUME NEW j \in Keys, compile[j] # None, callback'[j].at = "none"
          PROVE  sizeOf'[compile[j]] = 0
      <4>1. j # k /\ compile[j] # compile[k] /\ compile[j] \in Values
        BY <2>2, <3>1, <1>3 DEF Inductive, OneOwner, TypeOK
      <4> QED
        BY <1>4, <2>5, <3>1, <4>1 DEF Fates, Unsized
    <3>2. ASSUME NEW v \in Values, v > started PROVE sizeOf'[v] = 0
      <4>1. v # compile[k]
        BY <2>4, <3>2 DEF Inductive, TypeOK, Values
      <4> QED
        BY <2>5, <3>2, <4>1 DEF Fates, Unsized
    <3> QED
      BY <1>1, <3>1, <3>2 DEF Unsized
  <2>7. ASSUME NEW v \in 1..started
        PROVE  Kept(v)' \/ \E j \in Keys : Undecided(j)' /\ compile'[j] = v
    <3>1. CASE v = compile[k]
      BY <1>1, <2>3, <3>1
    <3>2. CASE v # compile[k]
      <4>1. v \in Values
        <5>1. started \in 0..MaxCompiles
          BY DEF Inductive, TypeOK
        <5> QED
          BY <5>1, ManagerAssumption DEF Values
      <4>2. Kept(v) => Kept(v)'
        BY <1>1, <1>4, <2>5, <3>2, <4>1 DEF Kept, ActiveValues, Active
      <4> QED
        BY <1>1, <2>3, <4>2 DEF Fates
    <3> QED
      BY <3>1, <3>2
  <2>8. \A j \in Keys : callback'[j].at \notin {"discard_rejected", "discard_refused",
                                                "discard_evicted"}
                        => callback'[j].doomed = {}
    BY <1>3, <1>4 DEF Fates
  <2> QED
    BY <1>1, <2>6, <2>7, <2>8 DEF Fates
<1> QED
  BY <1>5, <1>6

(* A callback that moves on by one step, with the fate of its value in it. *)
LEMMA FatesCallback ==
  ASSUME Inductive, Inductive', Fates, NEW k \in Keys,
         UNCHANGED <<sizeOf, discards, variants, closing, shut, started>>,
         \A j \in Keys : j # k => callback'[j] = callback[j] /\ compile'[j] = compile[j],
         compile'[k] \in {compile[k], None},
         callback'[k].at = "none" => compile'[k] = None,
         callback'[k].at \notin {"discard_rejected", "discard_refused", "discard_evicted"}
            => callback'[k].doomed = {},
         callback[k].doomed \subseteq callback'[k].doomed,
         Undecided(k) => compile[k] \in callback'[k].doomed
  PROVE  Fates'
<1>1. ASSUME NEW v \in 1..started, Kept(v) PROVE Kept(v)'
  BY <1>1 DEF Kept, ActiveValues, Active
<1>2. ASSUME NEW v \in 1..started, Undecided(k), v = compile[k] PROVE Kept(v)'
  BY <1>2 DEF Kept
<1>3. ASSUME NEW j \in Keys, j # k, Undecided(j)
      PROVE  Undecided(j)' /\ compile'[j] = compile[j]
  BY <1>3 DEF Undecided
<1>4. \A j \in Keys : /\ compile'[j] \in {compile[j], None}
                      /\ callback'[j].at = "none" =>
                           compile'[j] = None \/ callback[j].at = "none"
                      /\ callback'[j].at \notin {"discard_rejected", "discard_refused",
                                                 "discard_evicted"}
                           => callback'[j].doomed = {}
  BY DEF Fates
<1> QED
  BY <1>1, <1>2, <1>3, <1>4, FatesSurvive

LEMMA FatesPublish ==
  ASSUME Inductive, Inductive', Fates, NEW k \in Keys, Publish(k)
  PROVE  Fates'
<1>1. PICK V \in LRUVictims(k) :
        /\ variants' = [j \in Keys |-> CASE j = k -> compile[k]
                                         [] j \in V -> None
                                         [] OTHER -> variants[j]]
        /\ callback' = [callback EXCEPT ![k] =
                [at |-> "discard_evicted",
                 doomed |-> {variants[j] : j \in Leaving(k, V)}]]
  BY DEF Publish
<1>2. UNCHANGED <<sizeOf, discards, closing, shut, started, compile>>
  BY DEF Publish, valueVars
<1>3. callback[k].at = "publish" /\ compile[k] # None /\ callback[k].doomed = {}
  BY DEF Publish, At, Inductive, CallbacksInFlight, Fates
<1>4. /\ callback'[k].at = "discard_evicted"
      /\ callback'[k].doomed = {variants[j] : j \in Leaving(k, V)}
      /\ \A j \in Keys : j # k => callback'[j] = callback[j]
  BY <1>1 DEF Inductive, TypeOK
<1>5. ASSUME NEW v \in 1..started, Kept(v) PROVE Kept(v)'
  <2>1. CASE v \in ActiveValues
    <3>1. PICK j \in Keys : variants[j] = v /\ v # None
      BY <2>1 DEF ActiveValues, Active
    <3>2. CASE j \in Leaving(k, V)
      BY <1>4, <3>1, <3>2 DEF Kept
    <3>3. CASE j \notin Leaving(k, V)
      <4>1. j # k /\ j \notin V
        BY <3>1, <3>3 DEF Leaving, Active
      <4>2. variants'[j] = v
        BY <1>1, <3>1, <4>1
      <4>3. v \in ActiveValues'
        BY <3>1, <4>2 DEF ActiveValues, Active
      <4> QED
        BY <4>3 DEF Kept
    <3> QED
      BY <3>2, <3>3
  <2>2. CASE v \notin ActiveValues
    BY <1>2, <1>3, <1>4, <1>5, <2>2 DEF Kept
  <2> QED
    BY <2>1, <2>2
<1>6. ASSUME NEW v \in 1..started, v = compile[k] PROVE Kept(v)'
  <2>1. variants'[k] = compile[k]
    BY <1>1 DEF LRUVictims, Evictable
  <2>2. v \in ActiveValues'
    BY <1>3, <1>6, <2>1 DEF ActiveValues, Active
  <2> QED
    BY <2>2 DEF Kept
<1>7. \A j \in Keys : Undecided(j) => j = k \/ (Undecided(j)' /\ compile'[j] = compile[j])
  BY <1>2, <1>4 DEF Undecided
<1> QED
  BY <1>2, <1>4, <1>5, <1>6, <1>7, FatesSurvive DEF Fates

LEMMA FatesDiscard ==
  ASSUME Inductive, Inductive', Fates, NEW k \in Keys, Discard(k)
  PROVE  Fates'
<1>1. UNCHANGED <<sizeOf, variants, closing, shut, started, compile>>
  BY DEF Discard, cacheVars
<1>2. /\ callback'[k].at \in {"done", "reject_publish", "clear_negative"}
      /\ callback'[k].doomed = {}
      /\ \A j \in Keys : j # k => callback'[j] = callback[j]
  BY DEF Discard, At, Inductive, TypeOK
<1>3. \A v \in Values : discards'[v] = discards[v] + IF v \in callback[k].doomed THEN 1 ELSE 0
  BY DEF Discard
<1>4. callback[k].at \in {"discard_rejected", "discard_refused", "discard_evicted"}
  BY DEF Discard, At
<1>5. ASSUME NEW v \in 1..started, Kept(v) PROVE Kept(v)'
  <2>1. v \in Values
    <3>1. started \in 0..MaxCompiles
      BY DEF Inductive, TypeOK
    <3> QED
      BY <3>1, ManagerAssumption DEF Values
  <2>2. discards[v] \in Nat
    BY <2>1 DEF Inductive, TypeOK
  <2>3. CASE v \in callback[k].doomed \/ discards[v] > 0
    <3>1. discards'[v] > 0
      BY <1>3, <2>1, <2>2, <2>3
    <3> QED
      BY <3>1 DEF Kept
  <2>4. CASE ~(v \in callback[k].doomed \/ discards[v] > 0)
    BY <1>1, <1>2, <1>5, <2>4 DEF Kept, ActiveValues, Active
  <2> QED
    BY <2>3, <2>4
<1>6. \A j \in Keys : Undecided(j) => Undecided(j)' /\ compile'[j] = compile[j]
  BY <1>1, <1>2, <1>4 DEF Undecided
<1> QED
  BY <1>1, <1>2, <1>5, <1>6, FatesSurvive DEF Fates

LEMMA FatesClose ==
  ASSUME Inductive, Inductive', Fates,
         \/ CloseClear
         \/ \E v \in closing, raises \in BOOLEAN : CloseValue(v, raises)
  PROVE  Fates'
<1>1. UNCHANGED <<sizeOf, started, compile, callback>> /\ shut # "aborted"
  BY DEF CloseClear, CloseValue, valueVars
<1>2. ASSUME NEW v \in 1..started, Kept(v) PROVE Kept(v)'
  <2>1. CASE CloseClear
    <3>1. closing' = ActiveValues /\ discards' = discards /\ closing = {}
      BY <2>1 DEF CloseClear, valueVars, Inductive, LeasesActive, Emptied
    <3> QED
      BY <1>1, <1>2, <3>1 DEF Kept
  <2>2. ASSUME NEW w \in closing, NEW raises \in BOOLEAN, CloseValue(w, raises)
        PROVE  Kept(v)'
    <3>1. w \in Values /\ discards[w] \in Nat /\ variants' = variants
      BY <2>2 DEF Inductive, TypeOK, CloseValue, cacheVars
    <3>2. discards' = [discards EXCEPT ![w] = @ + 1] /\ closing' = closing \ {w}
      BY <2>2 DEF CloseValue
    <3>3. CASE v = w
      <4>1. discards'[v] > 0
        BY <3>1, <3>2, <3>3 DEF Inductive, TypeOK
      <4> QED
        BY <4>1 DEF Kept
    <3>4. CASE v # w
      <4>1. discards'[v] = discards[v]
        BY <3>1, <3>2, <3>4 DEF Inductive, TypeOK
      <4> QED
        BY <1>1, <1>2, <3>1, <3>2, <3>4, <4>1 DEF Kept, ActiveValues, Active
    <3> QED
      BY <3>3, <3>4
  <2> QED
    BY <2>1, <2>2
<1> QED
  BY <1>1, <1>2, FatesSurvive DEF Fates, Undecided

LEMMA FatesStep ==
  Inductive /\ Inductive' /\ Fates /\ [Next]_vars => Fates'
<1> SUFFICES ASSUME Inductive, Inductive', Fates, [Next]_vars PROVE Fates'
  OBVIOUS
<1>1. ASSUME UNCHANGED <<sizeOf, variants, started, discards, closing, callback, compile>>,
             shut = "aborted" => shut' = "aborted"
      PROVE  Fates'
  BY <1>1 DEF Fates, Unsized, Undecided, Kept, ActiveValues, Active
<1>2. CASE \E k \in Keys, size \in Sizes : CompletedValue(k, size)
  BY <1>2, FatesCompleted
<1>3. ASSUME sizeOf' = sizeOf, UNCHANGED core PROVE Fates'
  BY <1>1, <1>3 DEF core
<1>4. ASSUME NEW c \in Clients, NEW k \in Keys, ResolveMiss(c, k) \/ Acquire(c, k)
      PROVE  Fates'
  BY <1>1, <1>4 DEF ResolveMiss, Acquire, cacheVars, valueVars
<1>5. ASSUME NEW c \in Clients, Release(c) PROVE Fates'
  BY <1>1, <1>5 DEF Release, valueVars
<1>6. ASSUME CloseMoves, sizeOf' = sizeOf PROVE Fates'
  BY <1>1, <1>6 DEF CloseMoves, ShutMoves
<1>7. ASSUME NEW k \in Keys, RecordNegative(k) PROVE Fates'
  <2>1. UNCHANGED <<sizeOf, variants, started, discards, closing, compile, shut>>
    BY <1>7 DEF RecordNegative, cacheVars, valueVars
  <2>2. \A j \in Keys : j # k => callback'[j] = callback[j]
    BY <1>7 DEF RecordNegative
  <2>3. callback[k].doomed = {}
    BY <1>7 DEF RecordNegative, At, Fates
  <2>4. CASE callback[k].at = "reject_size"
    <3>1. callback'[k] = [at |-> "discard_rejected", doomed |-> {compile[k]}]
      BY <1>7, <2>4 DEF RecordNegative, At, Inductive, TypeOK
    <3> QED
      BY <2>1, <2>2, <2>3, <3>1, FatesCallback
  <2>5. CASE callback[k].at # "reject_size"
    <3>1. callback'[k].doomed = {} /\ callback'[k].at \in {"break", "done"} /\ ~Undecided(k)
      BY <1>7, <2>5 DEF RecordNegative, At, Inductive, TypeOK, Undecided
    <3> QED
      BY <2>1, <2>2, <2>3, <3>1, FatesCallback
  <2> QED
    BY <2>4, <2>5
<1>8. ASSUME NEW k \in Keys, RecordFailure(k) \/ ClearNegative(k) \/ ResetBreaker(k)
      PROVE  Fates'
  <2>1. UNCHANGED <<sizeOf, variants, started, discards, closing, compile, shut>>
    BY <1>8 DEF RecordFailure, ClearNegative, ResetBreaker, cacheVars, valueVars
  <2>2. PICK step \in {"done", "reset_breaker"} : Step(k, step)
    BY <1>8 DEF RecordFailure, ClearNegative, ResetBreaker
  <2>3. /\ \A j \in Keys : j # k => callback'[j] = callback[j]
        /\ callback'[k].doomed = callback[k].doomed
        /\ callback'[k].at = step
    BY <2>2 DEF Step, Inductive, TypeOK, CallbackStates
  <2>4. callback[k].doomed = {} /\ ~Undecided(k)
    BY <1>8 DEF RecordFailure, ClearNegative, ResetBreaker, At, Fates, Undecided
  <2> QED
    BY <2>1, <2>3, <2>4, FatesCallback
<1>9. ASSUME NEW k \in Keys, PublishRefused(k) PROVE Fates'
  <2>1. UNCHANGED <<sizeOf, variants, started, discards, closing, compile, shut>>
    BY <1>9 DEF PublishRefused, cacheVars, valueVars
  <2>2. /\ \A j \in Keys : j # k => callback'[j] = callback[j]
        /\ callback'[k] = [at |-> "discard_refused", doomed |-> {compile[k]}]
    BY <1>9 DEF PublishRefused, Inductive, TypeOK
  <2>3. callback[k].doomed = {}
    BY <1>9 DEF PublishRefused, At, Fates
  <2> QED
    BY <2>1, <2>2, <2>3, FatesCallback
<1>10. ASSUME NEW k \in Keys, CallbackReturns(k) PROVE Fates'
  <2>1. UNCHANGED <<sizeOf, variants, started, discards, closing, shut>>
    BY <1>10 DEF CallbackReturns, cacheVars
  <2>2. /\ \A j \in Keys : j # k => callback'[j] = callback[j] /\ compile'[j] = compile[j]
        /\ callback'[k].doomed = {} /\ compile'[k] = None
    BY <1>10 DEF CallbackReturns, Quiet, Inductive, TypeOK
  <2>3. callback[k].doomed = {} /\ ~Undecided(k)
    BY <1>10 DEF CallbackReturns, At, Fates, Undecided
  <2> QED
    BY <2>1, <2>2, <2>3, FatesCallback
<1> QED
  BY <1>2, <1>3, <1>4, <1>5, <1>6, <1>7, <1>8, <1>9, <1>10, CoreSteps, SizeWrites,
     FatesSubmit, FatesCompleted, FatesPublish, FatesDiscard, FatesClose
     DEF CoreStep

(* No compiled value leaks: at every instant it is in the hands of its     *)
(* callback, active, waiting for the closer, or closed; only an exception  *)
(* of the closer inside close() breaks the chain (_publish, _discard and   *)
(* close of variant_manager.py).                                           *)
THEOREM ValuesAccounted == Spec => []NoValueForgotten
<1>1. Init => Fates
  BY ManagerAssumption DEF Init, Fates, Unsized, Quiet, Values, None
<1>2. Inductive /\ Inductive' /\ Fates /\ [Next]_vars => Fates'
  BY FatesStep
<1>3. Fates => NoValueForgotten
  BY DEF Fates, Kept, NoValueForgotten, Undecided
<1> QED
  BY <1>1, <1>2, <1>3, InductiveInvariant, PTL DEF Spec

-----------------------------------------------------------------------------
(* The books.  Their tables, and the steps that write them.                *)
ActiveSizes == [k \in Active |-> sizeOf[variants[k]]]
Mine == IF Self \in DOMAIN reservations THEN reservations[Self] ELSE NoEntries

Table(res) ==
    /\ DOMAIN res \subseteq Owners
    /\ \A o \in DOMAIN res :
        /\ DOMAIN res[o] \subseteq Keys
        /\ \A d \in DOMAIN res[o] : res[o][d] \in Nat \ {0}

LEMMA BookWrites ==
  [Next]_vars =>
    \/ \E c \in Clients, k \in Keys : ResolveHit(c, k)
    \/ \E k \in Keys : Publish(k)
    \/ CloseClear \/ CloseRelease
    \/ \E o \in Owners \ {Self} : Neighbour(o)
    \/ /\ UNCHANGED <<reservations, variants, lru, codeBytes>>
       /\ shut = "cleared" <=> shut' = "cleared"
<1> SUFFICES ASSUME [Next]_vars
             PROVE  \/ \E c \in Clients, k \in Keys : ResolveHit(c, k)
                    \/ \E k \in Keys : Publish(k)
                    \/ CloseClear \/ CloseRelease
                    \/ \E o \in Owners \ {Self} : Neighbour(o)
                    \/ /\ UNCHANGED <<reservations, variants, lru, codeBytes>>
                       /\ shut = "cleared" <=> shut' = "cleared"
  OBVIOUS
<1> USE DEF cacheVars
<1>1. ASSUME NEW c \in Clients, NEW k \in Keys,
             ResolveMiss(c, k) \/ Acquire(c, k) \/ ResolveSubmit(c) \/ Release(c)
      PROVE  UNCHANGED <<reservations, variants, lru, codeBytes, shut>>
  BY <1>1 DEF ResolveMiss, Acquire, ResolveSubmit, Release
<1>2. ASSUME NEW c \in Clients, ResolveSubmit(c) \/ Release(c)
      PROVE  UNCHANGED <<reservations, variants, lru, codeBytes, shut>>
  BY <1>2 DEF ResolveSubmit, Release
<1>3. ASSUME NEW k \in Keys,
             \/ Completed(k) \/ RecordNegative(k) \/ RecordFailure(k) \/ PublishRefused(k)
             \/ Discard(k) \/ ClearNegative(k) \/ ResetBreaker(k) \/ CallbackReturns(k)
      PROVE  UNCHANGED <<reservations, variants, lru, codeBytes, shut>>
  BY <1>3 DEF Completed, CompletedFailure, CompletedValue, RecordNegative, RecordFailure,
              PublishRefused, Discard, ClearNegative, ResetBreaker, CallbackReturns
<1>4. CASE \/ CloseBegin \/ CloseShutdown \/ CloseJoined \/ CloseReturns
           \/ \E v \in closing, raises \in BOOLEAN : CloseValue(v, raises)
  <2>1. UNCHANGED <<reservations, variants, lru, codeBytes>>
    BY <1>4 DEF CloseBegin, CloseShutdown, CloseJoined, CloseReturns, CloseValue
  <2>2. shut # "cleared" /\ shut' # "cleared"
    BY <1>4 DEF CloseBegin, CloseShutdown, CloseJoined, CloseReturns, CloseValue
  <2> QED
    BY <2>1, <2>2
<1>5. CASE PoolStep \/ ClockStep \/ UNCHANGED vars
  BY <1>5 DEF PoolStep, ClockStep, vars
<1> QED
  BY <1>1, <1>2, <1>3, <1>4, <1>5 DEF Next, CallbackStep, CloseStep

(* Only values with a legal size wait to be published or are active. *)
LEMMA SizesStep ==
  Inductive /\ Inductive' /\ SizesLegal /\ [Next]_vars => SizesLegal'
<1> SUFFICES ASSUME Inductive, Inductive', SizesLegal, [Next]_vars PROVE SizesLegal'
  OBVIOUS
<1>1. ASSUME sizeOf' = sizeOf, variants' = variants,
             \A k \in Keys : callback'[k].at = "publish" =>
                               callback[k].at = "publish" /\ compile'[k] = compile[k]
      PROVE  SizesLegal'
  BY <1>1 DEF SizesLegal, Active
<1>2. ASSUME NEW k \in Keys, NEW size \in Sizes, CompletedValue(k, size) PROVE SizesLegal'
  <2>1. UNCHANGED <<variants, compile>> /\ flight[k] = "compiling"
    BY <1>2 DEF CompletedValue, Deliver, cacheVars
  <2>2. /\ \A j \in Keys : j # k => callback'[j] = callback[j]
        /\ callback'[k].at = IF size <= 0 \/ size > MaxCodeBytes THEN "reject_size"
                                                                 ELSE "publish"
    BY <1>2 DEF CompletedValue, Step, Inductive, TypeOK, CallbackStates
  <2>3. compile[k] # None /\ Undecided(k) /\ compile[k] \in Values
    BY <2>1 DEF Inductive, CallbacksInFlight, Undecided, TypeOK
  <2>4. /\ sizeOf'[compile[k]] = size
        /\ \A v \in Values : v # compile[k] => sizeOf'[v] = sizeOf[v]
    BY <1>2, <2>3 DEF CompletedValue, Inductive, TypeOK
  <2>5. ASSUME NEW j \in Keys, callback'[j].at = "publish"
        PROVE  sizeOf'[compile[j]] \in 1..MaxCodeBytes
    <3>1. CASE j = k
      <4>1. size \in Int /\ MaxCodeBytes \in Nat
        BY ManagerAssumption
      <4> QED
        BY <2>2, <2>4, <2>5, <3>1, <4>1
    <3>2. CASE j # k
      <4>1. callback[j].at = "publish" /\ compile[j] # None /\ compile[j] \in Values
        BY <2>2, <2>5, <3>2 DEF Inductive, CallbacksInFlight, TypeOK
      <4>2. compile[j] # compile[k]
        BY <3>2, <4>1 DEF Inductive, OneOwner
      <4> QED
        BY <2>4, <4>1, <4>2 DEF SizesLegal
    <3> QED
      BY <3>1, <3>2
  <2>6. ASSUME NEW j \in Active PROVE sizeOf'[variants[j]] \in 1..MaxCodeBytes
    <3>1. variants[j] # compile[k] /\ variants[j] \in Values
      BY <2>3 DEF Inductive, OneOwner, TypeOK, Active
    <3> QED
      BY <2>4, <3>1 DEF SizesLegal
  <2> QED
    BY <2>1, <2>5, <2>6 DEF SizesLegal, Active
<1>3. ASSUME NEW k \in Keys, Publish(k) PROVE SizesLegal'
  <2>1. PICK V \in LRUVictims(k) :
          /\ variants' = [j \in Keys |-> CASE j = k -> compile[k]
                                           [] j \in V -> None
                                           [] OTHER -> variants[j]]
          /\ callback' = [callback EXCEPT ![k] =
                  [at |-> "discard_evicted",
                   doomed |-> {variants[j] : j \in Leaving(k, V)}]]
    BY <1>3 DEF Publish
  <2>2. UNCHANGED <<sizeOf, compile>> /\ callback[k].at = "publish"
    BY <1>3 DEF Publish, valueVars, At
  <2>3. \A j \in Keys : callback'[j].at = "publish" => callback[j].at = "publish"
    BY <2>1 DEF Inductive, TypeOK
  <2>4. \A j \in Keys : variants'[j] \in {variants[j], None} \/ (j = k /\ variants'[j] = compile[k])
    BY <2>1 DEF LRUVictims, Evictable
  <2> QED
    BY <2>2, <2>3, <2>4 DEF SizesLegal, Active
<1>4. ASSUME NEW k \in Keys,
             \/ CompletedFailure(k) \/ RecordNegative(k) \/ RecordFailure(k)
             \/ PublishRefused(k) \/ Discard(k) \/ ClearNegative(k) \/ ResetBreaker(k)
             \/ CallbackReturns(k)
      PROVE  SizesLegal'
  <2>1. UNCHANGED <<sizeOf, variants>>
    BY <1>4 DEF CompletedFailure, RecordNegative, RecordFailure, PublishRefused,
                Discard, ClearNegative, ResetBreaker, CallbackReturns, cacheVars, valueVars
  <2>2. callback'[k].at # "publish"
    BY <1>4 DEF CompletedFailure, RecordNegative, RecordFailure, PublishRefused,
                Discard, ClearNegative, ResetBreaker, CallbackReturns, Step, At,
                Quiet, Inductive, TypeOK, CallbackStates
  <2>3. \A j \in Keys : j # k => callback'[j] = callback[j] /\ compile'[j] = compile[j]
    BY <1>4 DEF CompletedFailure, RecordNegative, RecordFailure, PublishRefused,
                Discard, ClearNegative, ResetBreaker, CallbackReturns, Step, valueVars,
                Inductive, TypeOK
  <2> QED
    BY <1>1, <2>1, <2>2, <2>3
<1>5. ASSUME NEW c \in Clients, ResolveSubmit(c) PROVE SizesLegal'
  <2>1. UNCHANGED <<sizeOf, variants, callback>>
    BY <1>5 DEF ResolveSubmit, cacheVars
  <2>2. ASSUME NEW k \in Keys, callback[k].at = "publish" PROVE compile'[k] = compile[k]
    <3>1. k \in InFlight
      BY <2>2 DEF Inductive, CallbacksInFlight, InFlight
    <3>2. Decision(client[c].key) = "submitted" => client[c].key \notin InFlight
      BY DEF Decision
    <3> QED
      BY <1>5, <3>1, <3>2 DEF ResolveSubmit, Inductive, TypeOK
  <2> QED
    BY <1>1, <2>1, <2>2
<1>6. ASSUME NEW c \in Clients, NEW k \in Keys, ResolveMiss(c, k) \/ Acquire(c, k)
      PROVE  SizesLegal'
  BY <1>1, <1>6 DEF ResolveMiss, Acquire, cacheVars, valueVars
<1>7. ASSUME NEW c \in Clients, Release(c) PROVE SizesLegal'
  BY <1>1, <1>7 DEF Release, valueVars
<1>8. CASE CloseClear
  <2>1. sizeOf' = sizeOf /\ callback' = callback /\ compile' = compile /\ Active' = {}
    BY <1>8 DEF CloseClear, valueVars, Active
  <2> QED
    BY <2>1 DEF SizesLegal
<1>9. ASSUME NEW v \in closing, NEW raises \in BOOLEAN, CloseValue(v, raises)
      PROVE  SizesLegal'
  BY <1>1, <1>9 DEF CloseValue, cacheVars
<1>10. ASSUME sizeOf' = sizeOf, CloseMoves \/ UNCHANGED core PROVE SizesLegal'
  BY <1>1, <1>10 DEF CloseMoves, ShutMoves, core
<1> QED
  BY <1>2, <1>3, <1>4, <1>5, <1>6, <1>7, <1>8, <1>9, <1>10, CoreSteps, SizeWrites
     DEF CoreStep

(* A dict of reservations, and the process-wide sums over it.              *)
LEMMA TableSums ==
  ASSUME NEW res, Table(res)
  PROVE  /\ IsFiniteSet(DOMAIN res)
         /\ \A o \in DOMAIN res : /\ IsFiniteSet(DOMAIN res[o])
                                  /\ NatValued(res[o])
                                  /\ Cardinality(DOMAIN res[o]) \in Nat
                                  /\ Total(res[o]) \in Nat
<1>1. IsFiniteSet(DOMAIN res)
  BY GovernorAssumption, FS_Subset DEF Table
<1>2. ASSUME NEW o \in DOMAIN res
      PROVE  /\ IsFiniteSet(DOMAIN res[o])
             /\ NatValued(res[o])
             /\ Cardinality(DOMAIN res[o]) \in Nat
             /\ Total(res[o]) \in Nat
  <2>1. IsFiniteSet(DOMAIN res[o])
    BY ServiceAssumption, FS_Subset DEF Table
  <2>2. NatValued(res[o])
    BY DEF NatValued, Table
  <2>3. Cardinality(DOMAIN res[o]) \in Nat
    BY <2>1, FS_CardinalityType
  <2>4. Total(res[o]) \in Nat
    BY <2>1, <2>2, TotalType
  <2> QED
    BY <2>1, <2>2, <2>3, <2>4
<1> QED
  BY <1>1, <1>2

(* Releasing an owner cannot break a budget.                               *)
LEMMA ReleaseKeepsBudget ==
  ASSUME NEW res, Table(res), WithinProcessBudget(res), NEW S \in SUBSET DOMAIN res
  PROVE  Table(Restrict(res, S)) /\ WithinProcessBudget(Restrict(res, S))
<1> DEFINE less == Restrict(res, S)
           count(r) == [o \in DOMAIN r |-> Cardinality(DOMAIN r[o])]
           bytes(r) == [o \in DOMAIN r |-> Total(r[o])]
<1>1. DOMAIN less = S /\ \A o \in S : less[o] = res[o]
  BY DEF Restrict
<1> HIDE DEF less
<1>2. Table(less)
  BY <1>1 DEF Table
<1>3. Cardinality(S) <= Cardinality(DOMAIN res) /\ IsFiniteSet(DOMAIN res)
  BY TableSums, FS_Subset
<1>4. Cardinality(S) \in Nat /\ Cardinality(DOMAIN res) \in Nat
  BY <1>3, FS_Subset, FS_CardinalityType
<1>5. Total(count(less)) <= Total(count(res)) /\ Total(count(res)) \in Nat
                                              /\ Total(count(less)) \in Nat
  <2>1. /\ NatValued(count(res)) /\ NatValued(count(less))
        /\ DOMAIN count(less) \subseteq DOMAIN count(res)
        /\ IsFiniteSet(DOMAIN count(res))
        /\ \A o \in DOMAIN count(less) : count(less)[o] <= count(res)[o]
    BY <1>1, <1>2, TableSums DEF NatValued
  <2>2. IsFiniteSet(DOMAIN count(less))
    BY <1>1, <1>3, FS_Subset
  <2> HIDE DEF count
  <2> QED
    BY <2>1, <2>2, TotalLess, TotalType
<1>6. Total(bytes(less)) <= Total(bytes(res)) /\ Total(bytes(res)) \in Nat
                                              /\ Total(bytes(less)) \in Nat
  <2>1. /\ NatValued(bytes(res)) /\ NatValued(bytes(less))
        /\ DOMAIN bytes(less) \subseteq DOMAIN bytes(res)
        /\ IsFiniteSet(DOMAIN bytes(res))
        /\ \A o \in DOMAIN bytes(less) : bytes(less)[o] <= bytes(res)[o]
    BY <1>1, <1>2, TableSums DEF NatValued
  <2>2. IsFiniteSet(DOMAIN bytes(less))
    BY <1>1, <1>3, FS_Subset
  <2> HIDE DEF bytes
  <2> QED
    BY <2>1, <2>2, TotalLess, TotalType
<1>7. /\ Cardinality(DOMAIN res) <= ProcessNamespaces
      /\ Total(count(res)) <= ProcessVariants
      /\ Total(bytes(res)) <= ProcessCodeBytes
  BY DEF WithinProcessBudget, VariantsReserved, BytesReserved
<1>8. /\ Cardinality(DOMAIN less) <= ProcessNamespaces
      /\ Total(count(less)) <= ProcessVariants
      /\ Total(bytes(less)) <= ProcessCodeBytes
  <2>1. {ProcessNamespaces, ProcessVariants, ProcessCodeBytes} \subseteq Nat
    BY GovernorAssumption
  <2> HIDE DEF count, bytes
  <2> QED
    BY <1>1, <1>3, <1>4, <1>5, <1>6, <1>7, <2>1
<1>9. WithinProcessBudget(less)
  BY <1>8 DEF WithinProcessBudget, VariantsReserved, BytesReserved
<1> QED
  BY <1>2, <1>9 DEF less

(* A reservation that is admitted keeps them, by the governor's own test.  *)
LEMMA ReplaceKeepsBudget ==
  ASSUME Table(reservations), NEW o \in Owners, NEW d \in Keys, NEW bytes \in Nat \ {0},
         NEW removals, Replace(o, d, bytes, removals)
  PROVE  /\ Table(reservations')
         /\ WithinProcessBudget(reservations')
         /\ DOMAIN reservations' = DOMAIN reservations \cup {o}
         /\ \A p \in DOMAIN reservations : p # o => reservations'[p] = reservations[p]
         /\ reservations'[o] = Candidate(o, d, bytes, removals)
<1>1. reservations' = WithReservation(o, Candidate(o, d, bytes, removals))
  BY DEF Replace
<1>2. /\ DOMAIN reservations' = DOMAIN reservations \cup {o}
      /\ \A p \in DOMAIN reservations : p # o => reservations'[p] = reservations[p]
      /\ reservations'[o] = Candidate(o, d, bytes, removals)
  BY <1>1 DEF WithReservation
<1>3. /\ DOMAIN Candidate(o, d, bytes, removals) \subseteq Keys
      /\ \A e \in DOMAIN Candidate(o, d, bytes, removals) :
            Candidate(o, d, bytes, removals)[e] \in Nat \ {0}
  BY DEF Candidate, Table, NoEntries
<1>4. Table(reservations')
  BY <1>2, <1>3 DEF Table
<1>5. WithinProcessBudget(reservations')
  BY <1>1 DEF Replace, Admits
<1> QED
  BY <1>2, <1>4, <1>5

(* The sizes of the active values change with the table only.              *)
LEMMA ActiveSizesFacts ==
  ASSUME Inductive, SizesLegal
  PROVE  /\ IsFiniteSet(Active)
         /\ \A S \in SUBSET Active : /\ IsFiniteSet(S)
                                     /\ NatValued([j \in S |-> sizeOf[variants[j]]])
                                     /\ SizeSum(S) \in Nat
<1>1. IsFiniteSet(Active)
  BY ServiceAssumption, FS_Subset DEF Active
<1>2. ASSUME NEW S \in SUBSET Active
      PROVE  /\ IsFiniteSet(S)
             /\ NatValued([j \in S |-> sizeOf[variants[j]]])
             /\ SizeSum(S) \in Nat
  <2> DEFINE f == [j \in S |-> sizeOf[variants[j]]]
  <2>1. IsFiniteSet(S)
    BY <1>1, FS_Subset
  <2>2. NatValued(f)
    BY DEF NatValued, SizesLegal
  <2>3. DOMAIN f = S
    OBVIOUS
  <2>4. Total(f) \in Nat
    <3> HIDE DEF f
    <3> QED
      BY <2>1, <2>2, <2>3, TotalType
  <2> QED
    BY <2>1, <2>2, <2>4 DEF SizeSum
<1> QED
  BY <1>1, <1>2

LEMMA SizesStable ==
  ASSUME Inductive, [Next]_vars, variants' = variants
  PROVE  ActiveSizes' = ActiveSizes
<1>1. Active' = Active
  BY DEF Active
<1>2. \A k \in Active : sizeOf'[variants[k]] = sizeOf[variants[k]]
  <2>1. CASE sizeOf' = sizeOf
    BY <2>1
  <2>2. ASSUME NEW k \in Keys, NEW size \in Sizes, CompletedValue(k, size)
        PROVE  \A j \in Active : sizeOf'[variants[j]] = sizeOf[variants[j]]
    <3>1. compile[k] # None /\ Undecided(k)
      BY <2>2 DEF CompletedValue, Deliver, Inductive, CallbacksInFlight, Undecided
    <3>2. \A j \in Active : variants[j] # compile[k] /\ variants[j] \in Values
      BY <3>1 DEF Inductive, OneOwner, TypeOK, Active
    <3>3. sizeOf' = [sizeOf EXCEPT ![compile[k]] = size]
      BY <2>2 DEF CompletedValue
    <3> QED
      BY <3>2, <3>3 DEF Inductive, TypeOK
  <2> QED
    BY <2>1, <2>2, SizeWrites
<1> QED
  BY <1>1, <1>2 DEF ActiveSizes

(* A publication: the leaving values' sizes go, the new one comes.         *)
LEMMA PublishSums ==
  ASSUME Inductive, SizesLegal, NEW k \in Keys, NEW V \in LRUVictims(k),
         sizeOf[compile[k]] \in Nat, codeBytes = SizeSum(Active),
         codeBytes' = Projected(k, V),
         Active' = (Active \ Leaving(k, V)) \cup {k}, k \notin Active \ Leaving(k, V),
         ActiveSizes' = [j \in Active' |-> IF j = k THEN sizeOf[compile[k]]
                                           ELSE ActiveSizes[j]]
  PROVE  codeBytes' = Total(ActiveSizes')
<1> DEFINE L == Leaving(k, V)
           Rest == Active \ L
           old == [j \in Active |-> sizeOf[variants[j]]]
           gone == [j \in L |-> sizeOf[variants[j]]]
           stay == [j \in Rest |-> sizeOf[variants[j]]]
           new == [j \in {k} |-> sizeOf[compile[k]]]
           after == [j \in Rest \cup {k} |-> IF j = k THEN sizeOf[compile[k]]
                                             ELSE sizeOf[variants[j]]]
<1>1. L \in SUBSET Active /\ Rest \in SUBSET Active
  BY DEF Leaving, LRUVictims, Evictable
<1>2. /\ IsFiniteSet(Active) /\ IsFiniteSet(Rest)
      /\ NatValued(old) /\ NatValued(gone) /\ NatValued(stay)
  BY <1>1, ActiveSizesFacts
<1>3. IsFiniteSet(Rest \cup {k}) /\ NatValued(new) /\ NatValued(after)
  <2>1. IsFiniteSet(Rest \cup {k})
    <3> HIDE DEF Rest
    <3> QED
      BY <1>2, FS_AddElement
  <2>2. NatValued(new)
    BY DEF NatValued
  <2>3. NatValued(after)
    BY <1>2 DEF NatValued
  <2> QED
    BY <2>1, <2>2, <2>3
<1>4. Total(old) = Total(gone) + Total(stay)
  <2>1. /\ DOMAIN old = Active /\ DOMAIN gone = L /\ DOMAIN stay = Rest
        /\ L \cup Rest = Active /\ L \cap Rest = {}
        /\ \A j \in L : gone[j] = old[j]
        /\ \A j \in Rest : stay[j] = old[j]
    BY <1>1
  <2> HIDE DEF old, gone, stay, L, Rest
  <2> QED
    BY <1>2, <2>1, TotalSplit
<1>5. Total(after) = Total(stay) + Total(new)
  <2>1. /\ DOMAIN after = Rest \cup {k} /\ DOMAIN new = {k} /\ DOMAIN stay = Rest
        /\ Rest \cap {k} = {}
        /\ \A j \in Rest : stay[j] = after[j]
        /\ \A j \in {k} : new[j] = after[j]
    OBVIOUS
  <2> HIDE DEF after, new, stay, Rest
  <2> QED
    BY <1>2, <1>3, <2>1, TotalSplit
<1>6. Total(new) = sizeOf[compile[k]]
  BY TotalOne
<1>7. ActiveSizes' = after
  BY DEF ActiveSizes
<1>8. SizeSum(Active) = Total(old) /\ SizeSum(Leaving(k, V)) = Total(gone)
  BY DEF SizeSum
<1>9. Total(stay) \in Nat /\ Total(gone) \in Nat
  <2>1. SizeSum(L) \in Nat /\ SizeSum(Rest) \in Nat
    BY <1>1, ActiveSizesFacts
  <2> QED
    BY <2>1 DEF SizeSum
<1> HIDE DEF old, gone, stay, new, after, L, Rest
<1> QED
  BY <1>4, <1>5, <1>6, <1>7, <1>8, <1>9 DEF Projected

LEMMA BooksPublish ==
  ASSUME Inductive, Inductive', Books, SizesLegal', NEW k \in Keys, Publish(k)
  PROVE  Books'
<1>1. PICK V \in LRUVictims(k) :
        /\ Replace(Self, k, sizeOf[compile[k]], Leaving(k, V))
        /\ codeBytes' = Projected(k, V)
        /\ variants' = [j \in Keys |-> CASE j = k -> compile[k]
                                         [] j \in V -> None
                                         [] OTHER -> variants[j]]
        /\ lru' = Append(Without(lru, Leaving(k, V)), k)
  BY DEF Publish
<1>2. shut = "no" /\ shut' = "no" /\ sizeOf' = sizeOf /\ callback[k].at = "publish"
  BY DEF Publish, valueVars, At
<1>3. k \notin V /\ V \subseteq Active /\ compile[k] # None
  BY <1>2 DEF LRUVictims, Evictable, Inductive, CallbacksInFlight
<1>4. sizeOf[compile[k]] \in Nat \ {0}
  <2>1. MaxCodeBytes \in Nat
    BY ManagerAssumption
  <2> QED
    BY <1>2, <2>1 DEF Books, SizesLegal
<1>5. \A j \in Keys : variants'[j] = IF j = k THEN compile[k]
                                     ELSE IF j \in V THEN None ELSE variants[j]
  BY <1>1, <1>3
<1>6. Leaving(k, V) \subseteq Active /\ k \notin Active \ Leaving(k, V)
  BY <1>3 DEF Leaving
<1>7. Active' = (Active \ Leaving(k, V)) \cup {k}
  BY <1>3, <1>5 DEF Active, Leaving
<1>8. ActiveSizes' = [j \in Active' |-> IF j = k THEN sizeOf[compile[k]]
                                        ELSE ActiveSizes[j]]
  <2>1. \A j \in Active' : sizeOf'[variants'[j]] = IF j = k THEN sizeOf[compile[k]]
                                                   ELSE ActiveSizes[j]
    BY <1>2, <1>3, <1>5, <1>7 DEF ActiveSizes, Leaving, Active
  <2> QED
    BY <2>1 DEF ActiveSizes
<1>9. codeBytes' = Total(ActiveSizes')
  BY <1>1, <1>4, <1>6, <1>7, <1>8, PublishSums DEF Books
<1>10. OrderKept'
  <2> DEFINE rest == Without(lru, Leaving(k, V))
  <2>1. /\ rest \in Seq(Keys)
        /\ Range(rest) = Active \ Leaving(k, V)
        /\ Distinct(rest)
    BY WithoutFacts DEF Books, OrderKept
  <2> HIDE DEF rest
  <2>2. lru' = Append(rest, k)
    BY <1>1 DEF rest
  <2>3. lru' \in Seq(Keys) /\ Range(lru') = Range(rest) \cup {k}
    BY <2>1, <2>2, AppendRange
  <2>4. Distinct(lru')
    BY <1>6, <2>1, <2>2, AppendDistinct
  <2> QED
    BY <1>7, <2>1, <2>3, <2>4 DEF OrderKept
<1>11. Mine = ActiveSizes
  BY <1>2 DEF Books, GovernorAgrees, Mine, ActiveSizes
<1>12. /\ Table(reservations')
       /\ WithinProcessBudget(reservations')
       /\ Self \in DOMAIN reservations'
       /\ reservations'[Self] = Candidate(Self, k, sizeOf[compile[k]], Leaving(k, V))
  <2>1. Table(reservations) /\ Self \in Owners
    BY ManagerAssumption DEF Books, ReservationsOK, Table
  <2> DEFINE n == sizeOf[compile[k]]
             L == Leaving(k, V)
  <2>2. n \in Nat \ {0} /\ Replace(Self, k, n, L)
    BY <1>1, <1>4
  <2> HIDE DEF n, L
  <2>3. /\ Table(reservations') /\ WithinProcessBudget(reservations')
        /\ DOMAIN reservations' = DOMAIN reservations \cup {Self}
        /\ reservations'[Self] = Candidate(Self, k, n, L)
    BY <2>1, <2>2, ReplaceKeepsBudget
  <2> QED
    BY <2>3 DEF n, L
<1>13. Candidate(Self, k, sizeOf[compile[k]], Leaving(k, V)) = ActiveSizes'
  <2>1. Candidate(Self, k, sizeOf[compile[k]], Leaving(k, V)) =
          [d \in (DOMAIN Mine \ Leaving(k, V)) \cup {k} |->
              IF d = k THEN sizeOf[compile[k]] ELSE Mine[d]]
    BY DEF Candidate, Mine
  <2>2. DOMAIN ActiveSizes = Active
    BY DEF ActiveSizes
  <2> QED
    BY <1>7, <1>8, <1>11, <2>1, <2>2
<1>14. GovernorAgrees'
  BY <1>12, <1>13 DEF GovernorAgrees, ActiveSizes
<1> QED
  BY <1>9, <1>10, <1>12, <1>14
     DEF Books, SizeSum, ActiveSizes, ReservationsOK, Table, ProcessBudgetRespected

LEMMA BooksStep ==
  Inductive /\ Inductive' /\ Books /\ [Next]_vars => Books'
<1> SUFFICES ASSUME Inductive, Inductive', Books, [Next]_vars PROVE Books'
  OBVIOUS
<1>1. SizesLegal'
  BY SizesStep DEF Books
<1>2. Table(reservations) /\ WithinProcessBudget(reservations)
  BY DEF Books, ReservationsOK, Table, ProcessBudgetRespected
<1>3. ASSUME variants' = variants, codeBytes' = codeBytes, Table(reservations'),
             WithinProcessBudget(reservations'), OrderKept',
             shut' # "cleared" => Mine' = ActiveSizes
      PROVE  Books'
  <2>1. ActiveSizes' = ActiveSizes
    BY <1>3, SizesStable
  <2>2. codeBytes' = SizeSum(Active)' /\ GovernorAgrees'
    BY <1>3, <2>1 DEF Books, SizeSum, ActiveSizes, GovernorAgrees, Mine
  <2> QED
    BY <1>1, <1>3, <2>2 DEF Books, ReservationsOK, Table, ProcessBudgetRespected
<1>4. shut # "cleared" => Mine = ActiveSizes
  BY DEF Books, GovernorAgrees, Mine, ActiveSizes
<1>5. ASSUME variants' = variants, lru' = lru PROVE OrderKept'
  BY <1>5 DEF Books, OrderKept, Active
<1>6. ASSUME UNCHANGED <<reservations, variants, lru, codeBytes>>,
             shut = "cleared" <=> shut' = "cleared"
      PROVE  Books'
  BY <1>2, <1>3, <1>4, <1>5, <1>6 DEF Mine
<1>7. ASSUME NEW c \in Clients, NEW k \in Keys, ResolveHit(c, k) PROVE Books'
  <2>1. UNCHANGED <<reservations, variants, codeBytes, shut>>
    BY <1>7 DEF ResolveHit
  <2>2. lru' = Append(Without(lru, {k}), k) /\ k \in Active
    BY <1>7 DEF ResolveHit, Moved
  <2>3. OrderKept'
    <3> DEFINE rest == Without(lru, {k})
    <3>1. rest \in Seq(Keys) /\ Range(rest) = Active \ {k} /\ Distinct(rest)
      BY WithoutFacts DEF Books, OrderKept
    <3> HIDE DEF rest
    <3>2. lru' = Append(rest, k)
      BY <2>2 DEF rest
    <3>3. lru' \in Seq(Keys) /\ Range(lru') = Range(rest) \cup {k}
      BY <3>1, <3>2, AppendRange
    <3>4. Distinct(lru')
      BY <3>1, <3>2, AppendDistinct
    <3>5. Active' = Active
      BY <2>1 DEF Active
    <3> QED
      BY <2>2, <3>1, <3>3, <3>4, <3>5 DEF OrderKept
  <2> QED
    BY <1>2, <1>3, <1>4, <2>1, <2>3 DEF Mine
<1>8. CASE CloseClear
  <2>1. lru' = <<>> /\ codeBytes' = 0 /\ reservations' = reservations /\ shut' = "cleared"
    BY <1>8 DEF CloseClear
  <2>2. Active' = {}
    BY <1>8 DEF CloseClear, Active
  <2>3. OrderKept'
    BY <2>1, <2>2 DEF OrderKept, Range, Distinct
  <2>4. SizeSum(Active)' = 0
    BY <2>2, TotalEmpty DEF SizeSum
  <2>5. GovernorAgrees'
    BY <2>1 DEF GovernorAgrees
  <2> QED
    BY <1>1, <1>2, <2>1, <2>3, <2>4, <2>5 DEF Books, ReservationsOK, Table, ProcessBudgetRespected
<1>9. CASE CloseRelease
  <2>1. /\ UNCHANGED <<variants, lru, codeBytes>> /\ shut = "cleared"
        /\ reservations' = Restrict(reservations, DOMAIN reservations \ {Self})
    BY <1>9 DEF CloseRelease, ReleaseOwner, cacheVars
  <2>2. Table(reservations') /\ WithinProcessBudget(reservations')
    BY <1>2, <2>1, ReleaseKeepsBudget
  <2>3. Mine' = NoEntries
    BY <2>1 DEF Mine, Restrict
  <2>4. Active = {}
    BY <2>1 DEF Inductive, LeasesActive, Emptied
  <2>5. ActiveSizes = NoEntries
    BY <2>4 DEF ActiveSizes, NoEntries
  <2> QED
    BY <1>3, <1>5, <2>1, <2>2, <2>3, <2>5
<1>10. ASSUME NEW o \in Owners \ {Self}, Neighbour(o) PROVE Books'
  <2>1. UNCHANGED <<variants, lru, codeBytes, shut>>
    BY <1>10 DEF Neighbour, cacheVars
  <2>2. CASE \E d \in Keys, bytes \in {b \in Sizes : b > 0} : Replace(o, d, bytes, {})
    <3>1. PICK d \in Keys, bytes \in {b \in Sizes : b > 0} : Replace(o, d, bytes, {})
      BY <2>2
    <3>2. bytes \in Nat \ {0}
      BY ManagerAssumption
    <3>3. /\ Table(reservations') /\ WithinProcessBudget(reservations')
          /\ DOMAIN reservations' = DOMAIN reservations \cup {o}
          /\ \A p \in DOMAIN reservations : p # o => reservations'[p] = reservations[p]
      BY <1>2, <3>1, <3>2, ReplaceKeepsBudget
    <3>4. Mine' = Mine
      BY <3>3 DEF Mine
    <3> QED
      BY <1>3, <1>4, <1>5, <2>1, <3>3, <3>4
  <2>3. CASE o \in DOMAIN reservations /\ ReleaseOwner(o)
    <3>1. reservations' = Restrict(reservations, DOMAIN reservations \ {o})
      BY <2>3 DEF ReleaseOwner
    <3>2. Table(reservations') /\ WithinProcessBudget(reservations')
      BY <1>2, <3>1, ReleaseKeepsBudget
    <3>3. Mine' = Mine
      BY <3>1 DEF Mine, Restrict
    <3> QED
      BY <1>3, <1>4, <1>5, <2>1, <3>2, <3>3
  <2> QED
    BY <1>10, <2>2, <2>3 DEF Neighbour
<1>11. ASSUME NEW k \in Keys, Publish(k) PROVE Books'
  BY <1>1, <1>11, BooksPublish
<1> QED
  BY <1>6, <1>7, <1>8, <1>9, <1>10, <1>11, BookWrites

LEMMA BooksInit == Init => Books
<1> SUFFICES ASSUME Init PROVE Books
  OBVIOUS
<1>1. Active = {} /\ lru = <<>> /\ codeBytes = 0 /\ reservations = [o \in {} |-> NoEntries]
  BY DEF Init, GovernorInit, Active
<1>2. DOMAIN reservations = {} /\ \A k \in Keys : callback[k].at = "none"
  BY <1>1 DEF Init, Quiet
<1>3. SizesLegal /\ ReservationsOK
  BY <1>1, <1>2 DEF SizesLegal, ReservationsOK
<1>4. OrderKept
  BY <1>1 DEF OrderKept, Range, Distinct
<1>5. SizeSum(Active) = 0
  BY <1>1, TotalEmpty DEF SizeSum
<1>6. GovernorAgrees
  BY <1>1, <1>2 DEF GovernorAgrees, NoEntries
<1>7. VariantsReserved(reservations) = 0 /\ BytesReserved(reservations) = 0
  BY <1>2, TotalEmpty DEF VariantsReserved, BytesReserved
<1>8. Cardinality(DOMAIN reservations) = 0
  BY <1>2, FS_EmptySet
<1>9. ProcessBudgetRespected
  BY <1>7, <1>8, GovernorAssumption DEF ProcessBudgetRespected, WithinProcessBudget
<1> QED
  BY <1>1, <1>3, <1>4, <1>5, <1>6, <1>9 DEF Books

(* The incremental byte counter and the LRU order never drift from the     *)
(* table, the governor's view of this manager is the table, and all        *)
(* managers together stay within the process budgets, whatever publishes,  *)
(* replaces, leases and closes in between (variant_manager.py _publish,    *)
(* resolve and close; process_governor.py replace and release).            *)
THEOREM BooksBalance == Spec => []BooksAgree
<1>1. Books => BooksAgree
  <2> SUFFICES ASSUME Books PROVE BooksAgree
    OBVIOUS
  <2>1. Len(lru) = Cardinality(Range(lru))
    BY DistinctLength DEF Books, OrderKept
  <2> QED
    BY <2>1 DEF Books, OrderKept, BooksAgree, TablesAgree
<1>2. Inductive /\ Inductive' /\ Books /\ [Next]_vars => Books'
  BY BooksStep
<1> QED
  BY <1>1, <1>2, BooksInit, InductiveInvariant, PTL DEF Spec
=============================================================================

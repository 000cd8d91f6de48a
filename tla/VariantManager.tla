---------------------------- MODULE VariantManager ----------------------------
(***************************************************************************)
(* runtime/variant_manager.py: the bounded cache of compiled variants of   *)
(* one namespace, the compilations that fill it (CompileService, what      *)
(* runtime/compile_pool.py implements), the exact-key negative cache and   *)
(* the per-key circuit breakers that keep failing keys out of the pool,    *)
(* and the process governor shared with other managers.                    *)
(*                                                                         *)
(* One action is one critical section of the manager's lock, or one call   *)
(* made outside of it, in the order the code makes them.  A value is named *)
(* by the compilation that produced it.  Time appears only as the expiry   *)
(* of a negative entry and the end of a breaker's reset window; RetryGate  *)
(* states it without a clock, FailureMemory with it.                       *)
(***************************************************************************)
EXTENDS CompileService, ProcessGovernor, Sequences, SequencesExt

CONSTANTS
    Threshold,      \* circuit_failure_threshold
    Clients,        \* threads that resolve, acquire and release
    Self,           \* this manager's governor owner
    MaxVariants,    \* max_variants
    MaxCodeBytes,   \* max_code_bytes
    Sizes,          \* the code sizes a compiled value may report
    MaxCompiles     \* bound of the model: compilations submitted

ASSUME ManagerAssumption ==
    /\ IsFiniteSet(Clients)
    /\ Self \in Owners
    /\ {MaxVariants, MaxCodeBytes} \subseteq Nat \ {0}
    /\ Sizes \subseteq Int
    /\ MaxCompiles \in Nat

ASSUME ThresholdAssumption == Threshold \in Nat \ {0}

VARIABLES
    negative, failures, cooling,   \* the variables of RetryGate
    variants,   \* _variants: key -> the active value, None where absent
    lru,        \* the order of _variants, oldest first
    refs,       \* _references: key -> count, 0 where absent
    codeBytes,  \* _code_bytes
    shut,       \* how far close() has come
    closing,    \* values close() still has to pass to the closer
    client,     \* client -> what it is doing: idle, submitting or leasing
    callback,   \* key -> the next step of its completion callback
    compile,    \* key -> the compilation in flight for it, None if there is none
    started,    \* how many compilations were submitted
    sizeOf,     \* value -> the size code_size reported
    discards    \* value -> how many times it was passed to the closer

INSTANCE RetryGate

gateVars == <<negative, failures, cooling>>
cacheVars == <<variants, lru, refs, codeBytes>>
valueVars == <<compile, started, sizeOf, discards>>
vars == <<serviceVars, reservations, cacheVars, gateVars, valueVars, shut,
          closing, client, callback>>

None == 0
Values == 1..MaxCompiles

Active == {k \in Keys : variants[k] # None}
ActiveValues == {variants[k] : k \in Active}

Idle == [at |-> "idle", key |-> None, value |-> None]
Quiet == [at |-> "none", doomed |-> {}]

Moved(k) == Append(Without(lru, {k}), k)
SizeSum(K) == Total([k \in K |-> sizeOf[variants[k]]])

Init ==
    /\ ServiceInit
    /\ GovernorInit
    /\ variants = [k \in Keys |-> None]
    /\ lru = <<>>
    /\ refs = [k \in Keys |-> 0]
    /\ codeBytes = 0
    /\ FailuresInit
    /\ shut = "no"
    /\ closing = {}
    /\ client = [c \in Clients |-> Idle]
    /\ callback = [k \in Keys |-> Quiet]
    /\ compile = [k \in Keys |-> None]
    /\ started = 0
    /\ sizeOf = [v \in Values |-> 0]
    /\ discards = [v \in Values |-> 0]

-----------------------------------------------------------------------------
(* resolve: the lookup under the lock. *)
ResolveHit(c, k) ==
    /\ client[c].at = "idle"
    /\ k \in Active
    /\ lru' = Moved(k)
    /\ UNCHANGED <<serviceVars, reservations, variants, refs, codeBytes,
                   gateVars, valueVars, shut, closing, client, callback>>

(* Neither cached, rejected nor broken: the lock is released and the       *)
(* client is about to call the pool.  A negative entry or an open breaker  *)
(* answers the client without changing any state.                          *)
ResolveMiss(c, k) ==
    /\ client[c].at = "idle"
    /\ k \notin Active
    /\ ~Blocked(k)
    /\ client' = [client EXCEPT ![c] = [at |-> "submit", key |-> k, value |-> None]]
    /\ UNCHANGED <<serviceVars, reservations, cacheVars, gateVars, valueVars,
                   shut, closing, callback>>

(* resolve: pool.submit, outside the manager's lock. *)
ResolveSubmit(c) ==
    LET k == client[c].key
    IN  /\ client[c].at = "submit"
        /\ client' = [client EXCEPT ![c] = Idle]
        /\ IF Decision(k) = "submitted"
           THEN /\ started < MaxCompiles
                /\ Submit(k)
                /\ compile' = [compile EXCEPT ![k] = started + 1]
                /\ started' = started + 1
           ELSE UNCHANGED <<serviceVars, compile, started>>
        /\ UNCHANGED <<reservations, cacheVars, gateVars, sizeOf, discards,
                       shut, closing, callback>>

-----------------------------------------------------------------------------
(* acquire: the lease, and its release in the finally clause. *)
Acquire(c, k) ==
    /\ client[c].at = "idle"
    /\ k \in Active
    /\ refs' = [refs EXCEPT ![k] = @ + 1]
    /\ client' = [client EXCEPT ![c] =
                    [at |-> "lease", key |-> k, value |-> variants[k]]]
    /\ UNCHANGED <<serviceVars, reservations, variants, lru, codeBytes,
                   gateVars, valueVars, shut, closing, callback>>

(* Faulty: the count is not checked, or one release drops all of it.       *)
ReleaseUnchecked(c) ==
    /\ client[c].at = "lease"
    /\ client' = [client EXCEPT ![c] = Idle]
    /\ refs' = [refs EXCEPT ![client[c].key] = @ - 1]
    /\ UNCHANGED <<serviceVars, reservations, variants, lru, codeBytes,
                   gateVars, valueVars, shut, closing, callback>>

ReleaseAll(c) ==
    /\ client[c].at = "lease"
    /\ client' = [client EXCEPT ![c] = Idle]
    /\ refs' = [refs EXCEPT ![client[c].key] = 0]
    /\ UNCHANGED <<serviceVars, reservations, variants, lru, codeBytes,
                   gateVars, valueVars, shut, closing, callback>>

(* A release whose count close() has cleared raises KeyError instead. *)
Release(c) ==
    LET k == client[c].key
    IN  /\ client[c].at = "lease"
        /\ IF refs[k] = 0
           THEN client' = [client EXCEPT ![c].at = "key_error"] /\ UNCHANGED refs
           ELSE /\ client' = [client EXCEPT ![c] = Idle]
                /\ refs' = [refs EXCEPT ![k] = @ - 1]
        /\ UNCHANGED <<serviceVars, reservations, variants, lru, codeBytes,
                       gateVars, valueVars, shut, closing, callback>>

-----------------------------------------------------------------------------
(* The completion callback of key k's compilation. *)
At(k, step) == callback[k].at = step
Step(k, step) == callback' = [callback EXCEPT ![k].at = step]

(* An error, a timeout or a None value. *)
CompletedFailure(k) ==
    /\ Deliver(k)
    /\ Step(k, "record_failure")
    /\ UNCHANGED <<reservations, cacheVars, gateVars, valueVars, shut, closing, client>>

(* A value; code_size may also report nothing usable, as size 0. *)
CompletedValue(k, size) ==
    /\ Deliver(k)
    /\ sizeOf' = [sizeOf EXCEPT ![compile[k]] = size]
    /\ Step(k, IF size <= 0 \/ size > MaxCodeBytes THEN "reject_size" ELSE "publish")
    /\ UNCHANGED <<reservations, cacheVars, gateVars, compile, started,
                   discards, shut, closing, client>>

(* NegativeCache.record, under its own lock. *)
RecordNegative(k) ==
    /\ \E step \in {"record_failure", "reject_size", "reject_publish"} :
        /\ At(k, step)
        /\ callback' = [callback EXCEPT ![k] =
                CASE step = "record_failure" -> [at |-> "break", doomed |-> {}]
                  [] step = "reject_size"    -> [at |-> "discard_rejected",
                                                 doomed |-> {compile[k]}]
                  [] step = "reject_publish" -> [at |-> "done", doomed |-> {}]]
    /\ Reject(k)
    /\ UNCHANGED <<serviceVars, reservations, cacheVars, valueVars, shut, closing,
                   client>>

(* CircuitBreaker.record_internal_failure, under the manager's lock. *)
RecordFailure(k) ==
    /\ At(k, "break")
    /\ Fail(k)
    /\ Step(k, "done")
    /\ UNCHANGED <<serviceVars, reservations, cacheVars, valueVars, shut, closing,
                   client>>

-----------------------------------------------------------------------------
(* Faulty: leased variants may be evicted; the new variant is not counted; *)
(* the variant that is replaced is forgotten.                              *)
EvictableLeased(k) == Active \ {k}
FitsWithoutNew(k, victims) == Cardinality(Active \ victims) <= MaxVariants
LeavingVictims(k, victims) == victims

(* _publish, under the manager's lock. *)
Evictable(k) == {j \in Active : j # k /\ refs[j] = 0}
Older(i, j) == IndexFirstSubSeq(<<i>>, lru) < IndexFirstSubSeq(<<j>>, lru)

Leaving(k, victims) == victims \cup ({k} \cap Active)
Projected(k, victims) == codeBytes - SizeSum(Leaving(k, victims)) + sizeOf[compile[k]]
Fits(k, victims) ==
    /\ Cardinality((Active \ victims) \cup {k}) <= MaxVariants
    /\ Projected(k, victims) <= MaxCodeBytes

(* The oldest evictable variants, as few of them as make the new one fit. *)
LRUVictims(k) ==
    {V \in SUBSET Evictable(k) :
        /\ \A i \in V, j \in Evictable(k) \ V : Older(i, j)
        /\ Fits(k, V)
        /\ \A W \in SUBSET V \ {V} :
            (\A i \in W, j \in V \ W : Older(i, j)) => ~Fits(k, W)}

Refused(k) ==
    \/ shut # "no"
    \/ k \in Active /\ refs[k] > 0
    \/ LRUVictims(k) = {}
    \/ \A V \in LRUVictims(k) :
        ~Admits(Self, k, sizeOf[compile[k]], Leaving(k, V))

(* Faulty: a refused publication closes the value it would have replaced;  *)
(* or it is tried again until it fits.                                     *)
PublishRefusedCloses(k) ==
    /\ At(k, "publish")
    /\ Refused(k)
    /\ callback' = [callback EXCEPT ![k] = [at |-> "discard_refused",
                        doomed |-> {compile[k], variants[k]} \ {None}]]
    /\ UNCHANGED <<serviceVars, reservations, cacheVars, gateVars, valueVars,
                   shut, closing, client>>

PublishRetried(k) == At(k, "publish") /\ Refused(k) /\ UNCHANGED vars

PublishRefused(k) ==
    /\ At(k, "publish")
    /\ Refused(k)
    /\ callback' = [callback EXCEPT ![k] = [at |-> "discard_refused",
                                            doomed |-> {compile[k]}]]
    /\ UNCHANGED <<serviceVars, reservations, cacheVars, gateVars, valueVars,
                   shut, closing, client>>

Publish(k) ==
    /\ At(k, "publish")
    /\ shut = "no"
    /\ ~(k \in Active /\ refs[k] > 0)
    /\ \E V \in LRUVictims(k) :
        /\ Replace(Self, k, sizeOf[compile[k]], Leaving(k, V))
        /\ codeBytes' = Projected(k, V)
        /\ variants' = [j \in Keys |-> CASE j = k -> compile[k]
                                         [] j \in V -> None
                                         [] OTHER -> variants[j]]
        /\ lru' = Append(Without(lru, Leaving(k, V)), k)
        /\ callback' = [callback EXCEPT ![k] =
                [at |-> "discard_evicted",
                 doomed |-> {variants[j] : j \in Leaving(k, V)}]]
    /\ UNCHANGED <<serviceVars, refs, gateVars, valueVars, shut, closing, client>>

(* _discard, after the lock was released: every doomed value meets the     *)
(* closer, whose exceptions are swallowed.                                 *)
Discard(k) ==
    /\ \E step \in {"discard_rejected", "discard_refused", "discard_evicted"} :
        /\ At(k, step)
        /\ callback' = [callback EXCEPT ![k] =
                [at |-> CASE step = "discard_rejected" -> "done"
                          [] step = "discard_refused"  -> "reject_publish"
                          [] step = "discard_evicted"  -> "clear_negative",
                 doomed |-> {}]]
    /\ discards' = [v \in Values |->
                        discards[v] + IF v \in callback[k].doomed THEN 1 ELSE 0]
    /\ UNCHANGED <<serviceVars, reservations, cacheVars, gateVars, compile,
                   started, sizeOf, shut, closing, client>>

ClearNegative(k) ==
    /\ At(k, "clear_negative")
    /\ Readmit(k)
    /\ Step(k, "reset_breaker")
    /\ UNCHANGED <<serviceVars, reservations, cacheVars, valueVars, shut, closing,
                   client>>

ResetBreaker(k) ==
    /\ At(k, "reset_breaker")
    /\ Succeed(k)
    /\ Step(k, "done")
    /\ UNCHANGED <<serviceVars, reservations, cacheVars, valueVars, shut, closing,
                   client>>

(* The pool's own finally clause: the key leaves _inflight. *)
CallbackReturns(k) ==
    /\ At(k, "done")
    /\ Forget(k)
    /\ callback' = [callback EXCEPT ![k] = Quiet]
    /\ compile' = [compile EXCEPT ![k] = None]
    /\ UNCHANGED <<reservations, cacheVars, gateVars, started, sizeOf,
                   discards, shut, closing, client>>

-----------------------------------------------------------------------------
(* close: refuse publications, shut the pool down and wait for its         *)
(* threads, empty the tables, release the governor's reservations, then    *)
(* pass every value that was active to the closer.                         *)
CloseBegin ==
    /\ shut = "no"
    /\ shut' = "marked"
    /\ UNCHANGED <<serviceVars, reservations, cacheVars, gateVars, valueVars,
                   closing, client, callback>>

CloseShutdown ==
    /\ shut = "marked"
    /\ Close
    /\ shut' = "joining"
    /\ UNCHANGED <<reservations, cacheVars, gateVars, valueVars, closing,
                   client, callback>>

(* Faulty: close() waits for the leases.                                   *)
CloseJoinedUnleased ==
    /\ shut = "joining"
    /\ \A k \in Keys : refs[k] = 0
    /\ ShutdownReturns
    /\ shut' = "joined"
    /\ UNCHANGED <<reservations, cacheVars, gateVars, valueVars, closing,
                   client, callback>>

CloseJoined ==
    /\ shut = "joining"
    /\ ShutdownReturns
    /\ shut' = "joined"
    /\ UNCHANGED <<reservations, cacheVars, gateVars, valueVars, closing,
                   client, callback>>

CloseClear ==
    /\ shut = "joined"
    /\ closing' = ActiveValues
    /\ variants' = [k \in Keys |-> None]
    /\ lru' = <<>>
    /\ refs' = [k \in Keys |-> 0]
    /\ codeBytes' = 0
    /\ DropBreakers
    /\ shut' = "cleared"
    /\ UNCHANGED <<serviceVars, reservations, valueVars, client, callback>>

(* Faulty: the governor's reservation is kept.                             *)
CloseReleaseNothing ==
    /\ shut = "cleared"
    /\ shut' = "closing"
    /\ UNCHANGED <<serviceVars, reservations, cacheVars, gateVars, valueVars,
                   closing, client, callback>>

CloseRelease ==
    /\ shut = "cleared"
    /\ ReleaseOwner(Self)
    /\ shut' = "closing"
    /\ UNCHANGED <<serviceVars, cacheVars, gateVars, valueVars, closing, client,
                   callback>>

(* An exception of the closer leaves the remaining values unclosed. *)
CloseValue(v, raises) ==
    /\ shut = "closing"
    /\ v \in closing
    /\ discards' = [discards EXCEPT ![v] = @ + 1]
    /\ closing' = closing \ {v}
    /\ shut' = IF raises THEN "aborted" ELSE shut
    /\ UNCHANGED <<serviceVars, reservations, cacheVars, gateVars, compile,
                   started, sizeOf, client, callback>>

CloseReturns ==
    /\ shut = "closing"
    /\ closing = {}
    /\ shut' = "closed"
    /\ UNCHANGED <<serviceVars, reservations, cacheVars, gateVars, valueVars,
                   closing, client, callback>>

-----------------------------------------------------------------------------
(* The rest of the process: permits returned by the pool, callbacks left   *)
(* to the submitting thread, clocks, and the other managers' reservations. *)
PoolStep ==
    /\ ReturnPermit \/ \E k \in Keys : Detach(k)
    /\ UNCHANGED <<reservations, cacheVars, gateVars, valueVars, shut, closing,
                   client, callback>>

ClockStep ==
    /\ TimePasses
    /\ UNCHANGED <<serviceVars, reservations, cacheVars, valueVars, shut, closing,
                   client, callback>>

Neighbour(o) ==
    /\ \/ \E d \in Keys, bytes \in {b \in Sizes : b > 0} : Replace(o, d, bytes, {})
       \/ o \in DOMAIN reservations /\ ReleaseOwner(o)
    /\ UNCHANGED <<serviceVars, cacheVars, gateVars, valueVars, shut, closing,
                   client, callback>>

CallbackStep(k) ==
    \/ RecordNegative(k) \/ RecordFailure(k)
    \/ PublishRefused(k) \/ Publish(k) \/ Discard(k)
    \/ ClearNegative(k) \/ ResetBreaker(k) \/ CallbackReturns(k)

Completed(k) == CompletedFailure(k) \/ \E size \in Sizes : CompletedValue(k, size)

CloseStep ==
    \/ CloseShutdown \/ CloseJoined \/ CloseClear \/ CloseRelease
    \/ \E v \in closing, raises \in BOOLEAN : CloseValue(v, raises)
    \/ CloseReturns

Next ==
    \/ \E c \in Clients :
        \/ \E k \in Keys : ResolveHit(c, k) \/ ResolveMiss(c, k) \/ Acquire(c, k)
        \/ ResolveSubmit(c)
        \/ Release(c)
    \/ \E k \in Keys :
        Completed(k) \/ CallbackStep(k)
    \/ CloseBegin \/ CloseStep
    \/ PoolStep
    \/ ClockStep
    \/ \E o \in Owners \ {Self} : Neighbour(o)

(* The pool resolves every compilation (its watchdog does, when the        *)
(* compiler hangs), and a thread inside a callback or inside close() runs. *)
Fairness ==
    /\ \A k \in Keys : WF_vars(Completed(k)) /\ WF_vars(CallbackStep(k))
    /\ WF_vars(CloseStep)

Spec == Init /\ [][Next]_vars
FairSpec == Spec /\ Fairness

-----------------------------------------------------------------------------
(* States of a client that holds a lease, and the values leased. *)
Leasing == {c \in Clients : client[c].at = "lease"}
Holders(k) == {c \in Leasing : client[c].key = k}
Emptied == shut \in {"cleared", "closing", "aborted", "closed"}

ClientStates ==
    [at : {"idle", "submit", "lease", "key_error"},
     key : Keys \cup {None}, value : Values \cup {None}]

CallbackStates ==
    [at : {"none", "record_failure", "break", "reject_size", "discard_rejected",
           "publish", "discard_refused", "reject_publish", "discard_evicted",
           "clear_negative", "reset_breaker", "done"},
     doomed : SUBSET Values]

TypeOK ==
    /\ flight \in [Keys -> {"free", "compiling", "delivering"}]
    /\ detached \in SUBSET Keys
    /\ permits \in 0..Capacity
    /\ gate \in {"open", "closed", "down"}
    /\ variants \in [Keys -> Values \cup {None}]
    /\ refs \in [Keys -> Nat]
    /\ negative \in SUBSET Keys
    /\ failures \in [Keys -> Nat]
    /\ cooling \in SUBSET Keys
    /\ shut \in {"no", "marked", "joining", "joined", "cleared", "closing",
                 "aborted", "closed"}
    /\ closing \in SUBSET Values
    /\ client \in [Clients -> ClientStates]
    /\ callback \in [Keys -> CallbackStates]
    /\ compile \in [Keys -> Values \cup {None}]
    /\ started \in 0..MaxCompiles
    /\ sizeOf \in [Values -> Int]
    /\ discards \in [Values -> Nat]

(* The hard budgets hold at every instant, active leases included: a       *)
(* publication that would break one evicts first or is refused.            *)
BudgetRespected ==
    /\ Cardinality(Active) <= MaxVariants
    /\ codeBytes <= MaxCodeBytes

(* The incremental byte counter and the LRU order never drift from the     *)
(* table they describe, through publishes, replacements and close.         *)
TablesAgree ==
    /\ codeBytes = SizeSum(Active)
    /\ lru \in Seq(Keys) /\ Range(lru) = Active /\ Len(lru) = Cardinality(Active)

(* Reference counts are the leases, until close() clears them. *)
RefsCountLeases ==
    ~Emptied => \A k \in Keys : refs[k] = Cardinality(Holders(k))

(* A variant in use is not reclaimed: until close() empties the table, a   *)
(* leased value is still the active value of its key and has not met the   *)
(* closer, whatever was published or evicted meanwhile.                    *)
LeasedStaysActive ==
    ~Emptied => \A c \in Leasing :
        /\ variants[client[c].key] = client[c].value
        /\ discards[client[c].value] = 0

(* Every value meets the closer at most once, and never while active or    *)
(* before the callback has decided its fate.                               *)
ClosedAtMostOnce ==
    \A v \in Values :
        /\ discards[v] <= 1
        /\ v \in ActiveValues => discards[v] = 0

(* The governor's view of this manager is its table, except between the    *)
(* two steps of close() that empty the table and release the reservation;  *)
(* a callback that outlives shutdown cannot reserve again.                 *)
GovernorAgrees ==
    LET mine == IF Self \in DOMAIN reservations THEN reservations[Self] ELSE NoEntries
    IN  shut # "cleared" => mine = [k \in Active |-> sizeOf[variants[k]]]

(* All managers together stay within the process budgets. *)
ProcessBudgetRespected == WithinProcessBudget(reservations)

(* The books kept apart from the table, its own counter and LRU order and   *)
(* the process-wide reservations, agree with it and with the budgets        *)
(* (variant_manager.py:246-372, process_governor.py:75-120).                *)
BooksAgree == TablesAgree /\ GovernorAgrees /\ ProcessBudgetRespected

(* No compiled value leaks out of the tables: at every instant it is in    *)
(* the hands of its callback, active, waiting for close()'s closer, or     *)
(* closed; only an exception of the closer inside close() breaks the chain.*)
NoValueForgotten ==
    \A v \in 1..started :
        \/ v \in {compile[k] : k \in Keys}
        \/ v \in ActiveValues
        \/ discards[v] > 0
        \/ sizeOf[v] = 0
        \/ v \in closing
        \/ v \in UNION {callback[k].doomed : k \in Keys}
        \/ shut = "aborted"

(* Every accepted compilation leaves the pool, close() or not. *)
CompilationsSettle == \A k \in Keys : flight[k] # "free" ~> flight[k] = "free"

(* close() always comes to an end, even while values are leased. *)
CloseTerminates == shut # "no" ~> shut \in {"closed", "aborted"}

-----------------------------------------------------------------------------
(* The inductive strengthening the proofs rest on.  Every step of a        *)
(* callback belongs to a compilation that still counts as in flight ...    *)
CallbacksInFlight ==
    \A k \in Keys :
        /\ compile[k] = None <=> flight[k] = "free"
        /\ callback[k].at # "none" => flight[k] = "delivering"

(* ... a value is owned by one place at a time: by the compilation that    *)
(* has not decided about it yet, by the table, by one callback's discard   *)
(* list, or by close(); and nobody owns a value that was closed.           *)
Undecided(k) ==
    compile[k] # None /\ callback[k].at \in {"none", "publish", "reject_size"}

OneOwner ==
    /\ \A j, k \in Keys : j # k =>
        /\ compile[j] = compile[k] => compile[k] = None
        /\ variants[j] = variants[k] => variants[k] = None
        /\ callback[j].doomed \cap callback[k].doomed = {}
    /\ \A j, k \in Keys : Undecided(k) =>
        /\ variants[j] # compile[k]
        /\ compile[k] \notin callback[j].doomed
    /\ \A j, k \in Keys : variants[k] # None => variants[k] \notin callback[j].doomed
    /\ \A k \in Keys : Undecided(k) => compile[k] \notin closing
    /\ \A k \in Keys : \A v \in closing : v \notin callback[k].doomed

OnlyStarted ==
    /\ \A k \in Keys : compile[k] <= started /\ variants[k] <= started
    /\ \A k \in Keys : \A v \in callback[k].doomed : v <= started
    /\ \A v \in closing : v <= started
    /\ \A v \in Values : discards[v] # 0 => v <= started

OwnedAreOpen ==
    /\ \A v \in Values : discards[v] <= 1
    /\ \A k \in Keys :
        /\ Undecided(k) => discards[compile[k]] = 0
        /\ variants[k] # None => discards[variants[k]] = 0
        /\ \A v \in callback[k].doomed : discards[v] = 0
    /\ \A v \in closing : discards[v] = 0

(* ... and the leases point at active values until the table is emptied.   *)
LeasesActive ==
    /\ \A c \in Clients : client[c].at \in {"submit", "lease"} => client[c].key \in Keys
    /\ \A c \in Leasing : client[c].value \in Values
    /\ ~Emptied => \A c \in Leasing : variants[client[c].key] = client[c].value
    /\ Emptied => Active = {}
    /\ ~Emptied => closing = {}

Inductive ==
    /\ TypeOK
    /\ CallbacksInFlight
    /\ OneOwner
    /\ OnlyStarted
    /\ OwnedAreOpen
    /\ LeasesActive
    /\ RefsCountLeases

(* No value is forgotten because a callback that decides about one hands   *)
(* it on in the same step; a value without a decision has no size yet, and *)
(* a discard list is only carried between the decision and the discard.    *)
Kept(v) ==
    \/ v \in ActiveValues
    \/ discards[v] > 0
    \/ sizeOf[v] = 0
    \/ v \in closing
    \/ \E k \in Keys : v \in callback[k].doomed
    \/ shut = "aborted"

Unsized ==
    /\ \A k \in Keys : compile[k] # None /\ callback[k].at = "none"
                        => sizeOf[compile[k]] = 0
    /\ \A v \in Values : v > started => sizeOf[v] = 0

Fates ==
    /\ Unsized
    /\ \A k \in Keys : callback[k].at \notin {"discard_rejected", "discard_refused",
                                              "discard_evicted"}
                        => callback[k].doomed = {}
    /\ \A v \in 1..started :
        Kept(v) \/ \E k \in Keys : Undecided(k) /\ compile[k] = v

(* The books agree because only values with a legal size are published,    *)
(* and because every reservation of the process is a dict of naturals.     *)
SizesLegal ==
    /\ \A k \in Keys : callback[k].at = "publish" => sizeOf[compile[k]] \in 1..MaxCodeBytes
    /\ \A k \in Active : sizeOf[variants[k]] \in 1..MaxCodeBytes

ReservationsOK ==
    /\ DOMAIN reservations \subseteq Owners
    /\ \A o \in DOMAIN reservations :
        /\ DOMAIN reservations[o] \subseteq Keys
        /\ \A d \in DOMAIN reservations[o] : reservations[o][d] \in Nat \ {0}

OrderKept == lru \in Seq(Keys) /\ Range(lru) = Active /\ Distinct(lru)

Books ==
    /\ SizesLegal
    /\ ReservationsOK
    /\ OrderKept
    /\ codeBytes = SizeSum(Active)
    /\ GovernorAgrees
    /\ ProcessBudgetRespected

-----------------------------------------------------------------------------
(* The manager implements the code cache. *)
Cache == INSTANCE CodeCache WITH
    table <- variants,
    held <- [c \in Clients |-> IF client[c].at = "lease"
                               THEN client[c].value ELSE None],
    dead <- {v \in Values : discards[v] > 0},
    open <- ~Emptied

ImplementsCodeCache == Cache!Spec

(* The keys are interchangeable, and so are the clients. *)
ManagerSymmetry == Permutations(Keys) \cup Permutations(Clients)
=============================================================================

---------------------------- MODULE FailureMemory ----------------------------
(***************************************************************************)
(* runtime/negative_cache.py and runtime/circuit_breaker.py with their     *)
(* clock, as the variant manager drives them: resolve asks the negative    *)
(* cache and then the key's breaker, a completion records into both.       *)
(*                                                                         *)
(* The negative cache reads the clock BEFORE it takes its lock, so a call  *)
(* works with the time at which it began; the breaker reads it while it    *)
(* holds its lock.  An entry is [key, expires] (its reason and its count   *)
(* are only reported); the table is ordered, least recently used first.    *)
(***************************************************************************)
EXTENDS Integers, Sequences, FiniteSets, SequencesExt, Collections

CONSTANTS
    Keys,
    Callers,        \* threads inside resolve or a completion callback
    TTL,            \* ttl_ns
    MaxEntries,     \* max_entries
    Threshold,      \* failure_threshold
    Reset,          \* reset_timeout_ns
    MaxClock,       \* bound of the model: the last instant
    MaxFailures     \* bound of the model: failures counted at a time

ASSUME MemoryAssumption ==
    /\ IsFiniteSet(Keys) /\ IsFiniteSet(Callers)
    /\ {TTL, MaxEntries, Threshold, Reset} \subseteq Nat \ {0}
    /\ {MaxClock, MaxFailures} \subseteq Nat

VARIABLES
    now,            \* time.monotonic_ns
    entries,        \* NegativeCache._entries
    failures,       \* key -> CircuitBreaker._failures
    opened,         \* key -> CircuitBreaker._opened_ns, Never for None
    caller,         \* caller -> the step it is about to take, for which key,
                    \* and the clock it read
    lastFailure     \* history: key -> when its breaker last heard of a failure

vars == <<now, entries, failures, opened, caller, lastFailure>>

Never == -1
Idle == [at |-> "idle", key |-> Never, clock |-> Never]
EntryOf(k, s) == {e \in Range(s) : e.key = k}
Rejected == {e.key : e \in Range(entries)}

Init ==
    /\ now = 0
    /\ entries = <<>>
    /\ failures = [k \in Keys |-> 0]
    /\ opened = [k \in Keys |-> Never]
    /\ caller = [c \in Callers |-> Idle]
    /\ lastFailure = [k \in Keys |-> Never]

Tick ==
    /\ now < MaxClock
    /\ now' = now + 1
    /\ UNCHANGED <<entries, failures, opened, caller, lastFailure>>

-----------------------------------------------------------------------------
(* NegativeCache, under its lock, with the clock the caller read before.   *)
Purged(clock) == Without(entries, {e \in Range(entries) : e.expires <= clock})
WithoutKey(s, k) == Without(s, EntryOf(k, s))
Newest(s, n) == IF Len(s) <= n THEN s ELSE SubSeq(s, Len(s) - n + 1, Len(s))

(* Faulty: a hit consumes the entry. *)
GotOnce(k, clock) == WithoutKey(Purged(clock), k)

Got(k, clock) ==
    LET live == Purged(clock)
        found == EntryOf(k, live)
    IN  IF found = {} THEN live
        ELSE Append(WithoutKey(live, k), CHOOSE e \in found : TRUE)

Recorded(k, clock) ==
    LET live == Purged(clock)
    IN  Newest(Append(WithoutKey(live, k), [key |-> k, expires |-> clock + TTL]),
               MaxEntries)

(* CircuitBreaker._state *)
ThresholdReached(k) == failures[k] >= Threshold
(* Faulty: the window ends for one instant. *)
ResetElapsedOnce(k) ==
    ThresholdReached(k) /\ opened[k] # Never /\ now - opened[k] = Reset

ResetElapsed(k) ==
    ThresholdReached(k) /\ opened[k] # Never /\ now - opened[k] >= Reset
Open(k) == ThresholdReached(k) /\ ~ResetElapsed(k)

-----------------------------------------------------------------------------
(* The callers.  One completion per key at a time: the compile pool's      *)
(* singleflight, see CompileService.                                       *)
Enter(c, step, k) ==
    /\ caller[c].at = "idle"
    /\ caller' = [caller EXCEPT ![c] = [at |-> step, key |-> k, clock |-> now]]
    /\ UNCHANGED <<now, entries, failures, opened, lastFailure>>

Leave(c) == caller' = [caller EXCEPT ![c] = Idle]
Move(c, step) ==
    caller' = [caller EXCEPT ![c] = [at |-> step, key |-> @.key, clock |-> Never]]

Completing == {"reject", "reject_only", "fail", "clear", "reset"}
Undelivered(k) ==
    \A d \in Callers : ~(caller[d].key = k /\ caller[d].at \in Completing)

(* resolve: get(key), then the breaker's state.  A hit ends the resolve;   *)
(* so does an open breaker, any other state lets the key be compiled.      *)
Resolve(c, k) == Enter(c, "get", k)

Get(c) ==
    LET k == caller[c].key
    IN  /\ caller[c].at = "get"
        /\ entries' = Got(k, caller[c].clock)
        /\ IF EntryOf(k, entries') # {} THEN Leave(c) ELSE Move(c, "state")
        /\ UNCHANGED <<now, failures, opened, lastFailure>>

State(c) ==
    /\ caller[c].at = "state"
    /\ IF Open(caller[c].key) THEN Leave(c) ELSE Move(c, "admitted")
    /\ UNCHANGED <<now, entries, failures, opened, lastFailure>>

Admitted(c) ==
    /\ caller[c].at = "admitted"
    /\ Leave(c)
    /\ UNCHANGED <<now, entries, failures, opened, lastFailure>>

(* A completion: an internal failure is recorded in the negative cache and *)
(* in the breaker, a value that is not publishable in the cache only, a    *)
(* published value clears both.                                            *)
Complete(c, k, outcome) ==
    /\ Undelivered(k)
    /\ outcome \in {"reject", "reject_only", "clear"}
    /\ Enter(c, outcome, k)

Record(c) ==
    LET k == caller[c].key
    IN  /\ caller[c].at \in {"reject", "reject_only"}
        /\ entries' = Recorded(k, caller[c].clock)
        /\ IF caller[c].at = "reject" THEN Move(c, "fail") ELSE Leave(c)
        /\ UNCHANGED <<now, failures, opened, lastFailure>>

(* Faulty: the window starts at the failure that reached the threshold. *)
RecordFirstFailures(c) ==
    LET k == caller[c].key
    IN  /\ caller[c].at = "fail"
        /\ Total(failures) < MaxFailures
        /\ failures' = [failures EXCEPT ![k] = @ + 1]
        /\ opened' = IF failures'[k] = Threshold
                     THEN [opened EXCEPT ![k] = now] ELSE opened
        /\ lastFailure' = [lastFailure EXCEPT ![k] = now]
        /\ Leave(c)
        /\ UNCHANGED <<now, entries>>

RecordInternalFailure(c) ==
    LET k == caller[c].key
    IN  /\ caller[c].at = "fail"
        /\ Total(failures) < MaxFailures
        /\ failures' = [failures EXCEPT ![k] = @ + 1]
        /\ opened' = IF failures'[k] >= Threshold
                     THEN [opened EXCEPT ![k] = now] ELSE opened
        /\ lastFailure' = [lastFailure EXCEPT ![k] = now]
        /\ Leave(c)
        /\ UNCHANGED <<now, entries>>

Clear(c) ==
    LET k == caller[c].key
    IN  /\ caller[c].at = "clear"
        /\ entries' = WithoutKey(entries, k)
        /\ Move(c, "reset")
        /\ UNCHANGED <<now, failures, opened, lastFailure>>

RecordSuccess(c) ==
    LET k == caller[c].key
    IN  /\ caller[c].at = "reset"
        /\ failures' = [failures EXCEPT ![k] = 0]
        /\ opened' = [opened EXCEPT ![k] = Never]
        /\ Leave(c)
        /\ UNCHANGED <<now, entries, lastFailure>>

(* entry_count(), for a snapshot. *)
EntryCount(c) ==
    /\ caller[c].at = "count"
    /\ entries' = Purged(caller[c].clock)
    /\ Leave(c)
    /\ UNCHANGED <<now, failures, opened, lastFailure>>

Next ==
    \/ Tick
    \/ \E c \in Callers :
        \/ \E k \in Keys :
            \/ Resolve(c, k)
            \/ \E outcome \in Completing : Complete(c, k, outcome)
        \/ Enter(c, "count", Never)
        \/ Get(c) \/ State(c) \/ Admitted(c)
        \/ Record(c) \/ RecordInternalFailure(c)
        \/ Clear(c) \/ RecordSuccess(c)
        \/ EntryCount(c)

Spec == Init /\ [][Next]_vars

-----------------------------------------------------------------------------
Clock == 0..MaxClock

TypeOK ==
    /\ now \in Clock
    /\ entries \in BoundedSeq([key : Keys, expires : 0..(MaxClock + TTL)],
                              MaxEntries)
    /\ Cardinality(Rejected) = Len(entries)
    /\ failures \in [Keys -> 0..MaxFailures]
    /\ opened \in [Keys -> Clock \cup {Never}]
    /\ lastFailure \in [Keys -> Clock \cup {Never}]
    /\ caller \in [Callers ->
            [at : {"idle", "get", "state", "admitted", "count"} \cup Completing,
             key : Keys \cup {Never}, clock : Clock \cup {Never}]]

(* A rejection is forgotten only because its time is over, because a       *)
(* published value cleared it, or because the table was full and it was    *)
(* the least recently used; callers with a stale clock forget no more.     *)
ForgottenForAReason ==
    [][\A i \in DOMAIN entries :
        LET k == entries[i].key
        IN  \/ k \in Rejected'
            \/ entries[i].expires <= now
            \/ \E c \in Callers : caller[c].at = "clear" /\ caller[c].key = k
            \/ /\ Len(entries') = MaxEntries
               /\ entries'[MaxEntries].key \notin Rejected
               /\ \A j \in 1..i : entries[j].key \notin Rejected']_vars

(* Once a key has failed Threshold times without a success, its breaker    *)
(* stays open for Reset after the LAST failure it heard of: a failing      *)
(* probe of a half-open breaker opens it again for a whole window.         *)
OpenThroughoutWindow ==
    \A k \in Keys :
        ThresholdReached(k) => (Open(k) <=> now - lastFailure[k] < Reset)

(* ... while the table of rejections keeps its size and its LRU order.     *)
MemorySafe == TypeOK /\ OpenThroughoutWindow

(* The inductive strengthening: no key has two entries, and a caller that  *)
(* is about to use the clock it read did not read it in the future.        *)
KeysDistinct ==
    /\ Distinct(entries)
    /\ \A d, e \in Range(entries) : d.key = e.key => d = e

CallersReady ==
    \A c \in Callers :
        /\ caller[c].at \notin {"idle", "count"} => caller[c].key \in Keys
        /\ caller[c].at \in {"get", "count", "reject", "reject_only"}
             => caller[c].clock \in 0..now

Remembers == KeysDistinct /\ CallersReady

-----------------------------------------------------------------------------
(* The clock-free gate the variant manager is written against. *)
Gate == INSTANCE RetryGate WITH
    negative <- {e.key : e \in {d \in Range(entries) : d.expires > now}},
    cooling <- {k \in Keys : Open(k)}

ImplementsRetryGate == Gate!GateSpec

(* The keys are interchangeable, and so are the callers. *)
MemorySymmetry == Permutations(Keys) \cup Permutations(Callers)
=============================================================================

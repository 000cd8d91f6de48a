------------------------------ MODULE RetryGate ------------------------------
(***************************************************************************)
(* What the variant manager relies on to keep failing keys out of the      *)
(* compile pool, with no clock in it: the keys the negative cache rejects, *)
(* and per key a breaker that counts failures and, at the threshold, is    *)
(* open until its reset window has passed.  FailureMemory implements it.   *)
(***************************************************************************)
EXTENDS Naturals

CONSTANTS
    Keys,           \* the exact keys, as CompileService has them
    Threshold       \* circuit_failure_threshold

VARIABLES
    negative,   \* keys with an unexpired entry in the negative cache
    failures,   \* key -> failures of its breaker, 0 where there is none
    cooling     \* keys whose breaker's reset window has not elapsed

failureVars == <<negative, failures, cooling>>

FailuresInit ==
    /\ negative = {}
    /\ failures = [k \in Keys |-> 0]
    /\ cooling = {}

BreakerOpen(k) == failures[k] >= Threshold /\ k \in cooling
Blocked(k) == k \in negative \/ BreakerOpen(k)

(* NegativeCache.record: it makes room by forgetting other keys, and a     *)
(* caller delayed for a whole TTL records an entry that has expired.       *)
Reject(k) ==
    /\ \E forgotten \in SUBSET (negative \cup {k}) :
        negative' = (negative \cup {k}) \ forgotten
    /\ UNCHANGED <<failures, cooling>>

(* NegativeCache.clear *)
Readmit(k) ==
    /\ negative' = negative \ {k}
    /\ UNCHANGED <<failures, cooling>>

(* CircuitBreaker.record_internal_failure and record_success *)
Fail(k) ==
    /\ failures' = [failures EXCEPT ![k] = @ + 1]
    /\ cooling' = IF failures'[k] >= Threshold THEN cooling \cup {k} ELSE cooling
    /\ UNCHANGED negative

Succeed(k) ==
    /\ failures' = [failures EXCEPT ![k] = 0]
    /\ cooling' = cooling \ {k}
    /\ UNCHANGED negative

(* The manager drops all its breakers when it is closed. *)
DropBreakers ==
    /\ failures' = [k \in Keys |-> 0]
    /\ cooling' = {}
    /\ UNCHANGED negative

(* Time passes: entries expire and reset windows elapse. *)
TimePasses ==
    /\ \E expired \in SUBSET negative : negative' = negative \ expired
    /\ \E elapsed \in SUBSET cooling : cooling' = cooling \ elapsed
    /\ UNCHANGED failures

GateNext ==
    \/ \E k \in Keys : Reject(k) \/ Readmit(k) \/ Fail(k) \/ Succeed(k)
    \/ DropBreakers
    \/ TimePasses

GateSpec == FailuresInit /\ [][GateNext]_failureVars
=============================================================================

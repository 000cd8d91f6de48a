--------------------------- MODULE CompileService ---------------------------
(***************************************************************************)
(* What runtime/compile_pool.py promises to the variant manager: an exact- *)
(* key singleflight with a bounded number of outstanding compilations.     *)
(* A key is free, compiling, or delivering: its completion callback has    *)
(* been entered and the key still counts as in flight.  A compilation that *)
(* ends before the submitter has attached its callback is "detached": the  *)
(* submitter's own thread runs the callback, and a shutdown that waits     *)
(* does not wait for it.                                                   *)
(***************************************************************************)
EXTENDS Naturals, FiniteSets

CONSTANTS
    Keys,        \* the exact keys (VariantKey.sha256) the runtime shares
    Capacity     \* max_workers + max_pending

ASSUME ServiceAssumption == IsFiniteSet(Keys) /\ Capacity \in Nat \ {0}

VARIABLES
    flight,     \* per key: "free", "compiling" or "delivering"
    detached,   \* keys whose completion callback no pool thread will run
    permits,    \* permits of the capacity semaphore that are taken
    gate        \* "open", "closed", or "down" once shutdown(wait=True) returned

serviceVars == <<flight, detached, permits, gate>>

ServiceInit ==
    /\ flight = [k \in Keys |-> "free"]
    /\ detached = {}
    /\ permits = 0
    /\ gate = "open"

InFlight == {k \in Keys : flight[k] # "free"}

(* The answer to a request, in the order the pool decides it. *)
Decision(k) ==
    CASE gate # "open"      -> "closed"
      [] gate = "open" /\ k \in InFlight -> "inflight"
      [] gate = "open" /\ k \notin InFlight /\ permits = Capacity
                            -> "capacity_exhausted"
      [] OTHER              -> "submitted"

Submit(k) ==
    /\ Decision(k) = "submitted"
    /\ flight' = [flight EXCEPT ![k] = "compiling"]
    /\ permits' = permits + 1
    /\ UNCHANGED <<detached, gate>>

(* The future resolved while the submitter had not attached its callback. *)
Detach(k) ==
    /\ flight[k] = "compiling"
    /\ k \notin detached
    /\ detached' = detached \cup {k}
    /\ UNCHANGED <<flight, permits, gate>>

Deliver(k) ==
    /\ flight[k] = "compiling"
    /\ flight' = [flight EXCEPT ![k] = "delivering"]
    /\ UNCHANGED <<detached, permits, gate>>

Forget(k) ==
    /\ flight[k] = "delivering"
    /\ flight' = [flight EXCEPT ![k] = "free"]
    /\ detached' = detached \ {k}
    /\ UNCHANGED <<permits, gate>>

(* The permit comes back in a step of its own, after the key is forgotten. *)
ReturnPermit ==
    /\ permits > Cardinality(InFlight)
    /\ permits' = permits - 1
    /\ UNCHANGED <<flight, detached, gate>>

Close ==
    /\ gate = "open"
    /\ gate' = "closed"
    /\ UNCHANGED <<flight, detached, permits>>

ShutdownReturns ==
    /\ gate = "closed"
    /\ InFlight \subseteq detached
    /\ gate' = "down"
    /\ UNCHANGED <<flight, detached, permits>>

ServiceNext ==
    \/ \E k \in Keys : Submit(k) \/ Detach(k) \/ Deliver(k) \/ Forget(k)
    \/ ReturnPermit
    \/ Close
    \/ ShutdownReturns

(* Every request that was accepted is answered, whatever the compiler does. *)
ServiceFairness ==
    /\ \A k \in Keys : WF_serviceVars(Deliver(k)) /\ WF_serviceVars(Forget(k))
    /\ WF_serviceVars(ReturnPermit)

ServiceSpec == ServiceInit /\ [][ServiceNext]_serviceVars /\ ServiceFairness
=============================================================================

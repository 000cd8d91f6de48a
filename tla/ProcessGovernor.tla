--------------------------- MODULE ProcessGovernor ---------------------------
(***************************************************************************)
(* runtime/process_governor.py: admission of compiled variants across all  *)
(* the namespace-local variant managers of one worker process.  A manager  *)
(* (an owner) reserves a size per digest; every call is one critical       *)
(* section of the governor's lock.                                         *)
(***************************************************************************)
EXTENDS Integers, FiniteSets, Functions, Collections

CONSTANTS
    Owners,             \* governor owners, one per manager
    ProcessNamespaces,  \* max_namespaces
    ProcessVariants,    \* max_variants
    ProcessCodeBytes    \* max_code_bytes

ASSUME GovernorAssumption ==
    /\ IsFiniteSet(Owners)
    /\ {ProcessNamespaces, ProcessVariants, ProcessCodeBytes} \subseteq Nat \ {0}

VARIABLE reservations   \* _reservations: owner -> (digest -> code bytes)

(* A dict without entries. *)
NoEntries == [d \in {} |-> 0]

GovernorInit == reservations = [o \in {} |-> NoEntries]

(* What owner o would hold after dropping the removals and adding digest. *)
Candidate(o, digest, bytes, removals) ==
    LET held == IF o \in DOMAIN reservations THEN reservations[o] ELSE NoEntries
        kept == DOMAIN held \ removals
    IN  [d \in kept \cup {digest} |-> IF d = digest THEN bytes ELSE held[d]]

WithReservation(o, entries) ==
    [p \in DOMAIN reservations \cup {o} |->
        IF p = o THEN entries ELSE reservations[p]]

VariantsReserved(res) == Total([o \in DOMAIN res |-> Cardinality(DOMAIN res[o])])
BytesReserved(res) == Total([o \in DOMAIN res |-> Total(res[o])])

(* The three process budgets, over a whole reservation table. *)
WithinProcessBudget(res) ==
    /\ Cardinality(DOMAIN res) <= ProcessNamespaces
    /\ VariantsReserved(res) <= ProcessVariants
    /\ BytesReserved(res) <= ProcessCodeBytes

(* replace() answers TRUE and installs the candidate, or changes nothing. *)
Admits(o, digest, bytes, removals) ==
    WithinProcessBudget(WithReservation(o, Candidate(o, digest, bytes, removals)))

Replace(o, digest, bytes, removals) ==
    /\ Admits(o, digest, bytes, removals)
    /\ reservations' = WithReservation(o, Candidate(o, digest, bytes, removals))

(* release(owner): every digest of the owner goes. *)
ReleaseOwner(o) == reservations' = Restrict(reservations, DOMAIN reservations \ {o})
=============================================================================

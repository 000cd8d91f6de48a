------------------------------ MODULE CodeCache ------------------------------
(***************************************************************************)
(* What a user of the variant manager may rely on, with no compilation,    *)
(* locking or accounting in sight: a bounded table of compiled values from *)
(* which values are leased.  While the cache is open a leased value stays  *)
(* in the table and is not closed; a value is closed at most once, after   *)
(* it left the table; emptying the cache is the one step that may take     *)
(* leased values away.                                                     *)
(***************************************************************************)
EXTENDS Naturals, FiniteSets

CONSTANTS Keys, Values, Clients, None, MaxVariants

VARIABLES
    table,  \* key -> value, None where the key is not cached
    held,   \* client -> the value it leases, None if it leases nothing
    dead,   \* values that were closed
    open    \* TRUE until the cache is emptied for good

cacheVars == <<table, held, dead, open>>

Init ==
    /\ table = [k \in Keys |-> None]
    /\ held = [c \in Clients |-> None]
    /\ dead = {}
    /\ open = TRUE

Cached == {k \in Keys : table[k] # None}
Held == {held[c] : c \in Clients} \ {None}

(* Installing v for k replaces k's value and evicts other keys; nothing    *)
(* that leaves the table is leased.                                        *)
Install(k, v, evicted) ==
    /\ open
    /\ v \notin dead \cup {table[j] : j \in Keys}
    /\ \A j \in (evicted \cup {k}) \cap Cached : table[j] \notin Held
    /\ table' = [j \in Keys |-> IF j = k THEN v
                                ELSE IF j \in evicted THEN None ELSE table[j]]
    /\ Cardinality({j \in Keys : table'[j] # None}) <= MaxVariants
    /\ UNCHANGED <<held, dead, open>>

Lease(c, k) ==
    /\ held[c] = None
    /\ k \in Cached
    /\ held' = [held EXCEPT ![c] = table[k]]
    /\ UNCHANGED <<table, dead, open>>

Return(c) ==
    /\ held[c] # None
    /\ held' = [held EXCEPT ![c] = None]
    /\ UNCHANGED <<table, dead, open>>

Bury(V) ==
    /\ V \cap (dead \cup {table[k] : k \in Keys}) = {}
    /\ open => V \cap Held = {}
    /\ dead' = dead \cup V
    /\ UNCHANGED <<table, held, open>>

Empty ==
    /\ open
    /\ open' = FALSE
    /\ table' = [k \in Keys |-> None]
    /\ UNCHANGED <<held, dead>>

Next ==
    \/ \E k \in Keys, v \in Values, evicted \in SUBSET Keys : Install(k, v, evicted)
    \/ \E c \in Clients : Return(c) \/ \E k \in Keys : Lease(c, k)
    \/ \E V \in SUBSET Values : Bury(V)
    \/ Empty

Spec == Init /\ [][Next]_cacheVars
=============================================================================

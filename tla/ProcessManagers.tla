--------------------------- MODULE ProcessManagers ---------------------------
(***************************************************************************)
(* integration/daft_ray/worker.py: the variant managers of one worker      *)
(* process, one per (namespace, policy), shared by the adapters of that    *)
(* identity, retired when idle or displaced, and the governor the managers *)
(* of one policy share.  Everything happens under one non-reentrant lock,  *)
(* except the calls of the adapters, which go on all the time.             *)
(***************************************************************************)
EXTENDS Integers, Sequences, FiniteSets, Collections

CONSTANTS
    Adapters,       \* WorkerScalarAdapters with a CinderX provider
    Namespaces,     \* (run id, tenant)
    Policies,       \* policy hashes
    NamespaceLimit, \* process_namespace_limit
    CyclicAdapters, \* BOOLEAN: the cycle collector may find an adapter
    MaxManagers     \* bound of the model: managers created

ProcessAssumption ==
    /\ NamespaceLimit \in Nat \ {0}
    /\ MaxManagers \in Nat
    /\ CyclicAdapters \in BOOLEAN
    /\ IsFiniteSet(Adapters) /\ IsFiniteSet(Namespaces) /\ IsFiniteSet(Policies)
    /\ "nobody" \notin Adapters

VARIABLES
    entries,    \* _PROCESS_VARIANT_MANAGERS: identity -> manager and clients
    used,       \* the identities of entries, longest unused first
    governors,  \* _PROCESS_VARIANT_GOVERNORS: policy -> governor, None if absent
    managers,   \* the managers created, by number
    lock,       \* who holds _PROCESS_VARIANT_MANAGERS_LOCK
    opening,    \* what the holder is doing
    adapter     \* adapter -> its life and its manager

vars == <<entries, used, governors, managers, lock, opening, adapter>>

None == 0
Nobody == "nobody"
Identities == [namespace : Namespaces, policy : Policies]
Absent == [manager |-> None, clients |-> 0]
NotOpening == [step |-> "none", identity |-> None, doomed |-> <<>>]

Init ==
    /\ entries = [i \in Identities |-> Absent]
    /\ used = <<>>
    /\ governors = [p \in Policies |-> None]
    /\ managers = <<>>
    /\ lock = Nobody
    /\ opening = NotOpening
    /\ adapter = [a \in Adapters |-> [life |-> "none", manager |-> None, calling |-> FALSE]]

Present == {i \in Identities : entries[i].manager # None}
OfPolicy(p) == {i \in Present : i.policy = p}
Touched(i) == Append(Without(used, {i}), i)

(* can_retire: no lease on the manager and nothing in its pool.            *)
CanRetire(i) ==
    LET m == managers[entries[i].manager]
    IN  m.leases = {} /\ ~m.compiling
(* Faulty: clients that are between two calls are not counted. *)
RetirableUnused(i) == CanRetire(i)

Retirable(i) == entries[i].clients = 0 /\ CanRetire(i)
RetirableOf(p) == {i \in OfPolicy(p) : Retirable(i)}

At(a, step) == lock = a /\ opening.step = step
Next_(step) == opening' = [opening EXCEPT !.step = step]
Doom(ids, step) == opening' = [opening EXCEPT !.doomed = ids, !.step = step]

(* The exception leaves the with block: no adapter comes into being.       *)
Refuse(a) ==
    /\ lock' = Nobody
    /\ opening' = NotOpening
    /\ adapter' = [adapter EXCEPT ![a].life = "refused"]

Join(a, m) ==
    /\ lock' = Nobody
    /\ opening' = NotOpening
    /\ adapter' = [adapter EXCEPT ![a].life = "open", ![a].manager = m]

-----------------------------------------------------------------------------
(* _process_variant_manager.                                               *)
Open(a, identity) ==
    /\ adapter[a].life = "none"
    /\ lock = Nobody
    /\ lock' = a
    /\ opening' = [NotOpening EXCEPT !.step = "expire", !.identity = identity]
    /\ UNCHANGED <<entries, used, governors, managers, adapter>>

(* The managers of the same policy that have been idle for too long: the   *)
(* longer unused, the sooner expired.                                      *)
Expire(a) ==
    /\ At(a, "expire")
    /\ \E n \in 0..Len(used) :
        Doom(Without(SubSeq(used, 1, n), Identities \ RetirableOf(opening.identity.policy)),
             "find")
    /\ UNCHANGED <<entries, used, governors, managers, lock, adapter>>

(* One retired manager leaves the table and closes: it takes no more work, *)
(* waits for its pool, then closes its values.  A closer that raises ends  *)
(* the whole opening.                                                      *)
Retire(a) ==
    LET i == Head(opening.doomed)
        m == entries[i].manager
    IN  /\ lock = a
        /\ opening.doomed # <<>>
        /\ entries[i].manager # None
        /\ entries' = [entries EXCEPT ![i] = Absent]
        /\ used' = Without(used, {i})
        /\ managers' = [managers EXCEPT ![m].state = "closing"]
        /\ UNCHANGED <<governors, lock, opening, adapter>>

Retired(a, raises) ==
    LET closing == {m \in DOMAIN managers : managers[m].state = "closing"}
    IN  /\ lock = a
        /\ \E m \in closing :
            /\ ~managers[m].compiling
            /\ managers' = [managers EXCEPT ![m].state = "closed"]
        /\ IF raises
           THEN Refuse(a)
           ELSE /\ opening' = [opening EXCEPT !.doomed = Tail(@)]
                /\ UNCHANGED <<lock, adapter>>
        /\ UNCHANGED <<entries, used, governors>>

AllRetired == opening.doomed = <<>>

Find(a) ==
    LET i == opening.identity
    IN  /\ At(a, "find") /\ AllRetired
        /\ IF i \in Present
           THEN /\ entries' = [entries EXCEPT ![i].clients = @ + 1]
                /\ used' = Touched(i)
                /\ Join(a, entries[i].manager)
           ELSE Next_("conflict") /\ UNCHANGED <<entries, used, lock, adapter>>
        /\ UNCHANGED <<governors, managers>>

(* Another policy in the namespace: its manager goes, or the opening fails.*)
Conflict(a) ==
    LET i == opening.identity
        conflicting == {j \in Present : j.namespace = i.namespace /\ j.policy # i.policy}
    IN  /\ At(a, "conflict") /\ AllRetired
        /\ IF conflicting = {}
           THEN Next_("limit") /\ UNCHANGED <<lock, adapter>>
           ELSE \E j \in conflicting :
                IF Retirable(j)
                THEN Doom(<<j>>, "conflict") /\ UNCHANGED <<lock, adapter>>
                ELSE Refuse(a)
        /\ UNCHANGED <<entries, used, governors, managers>>

(* At the namespace limit the longest unused idle manager makes room.      *)
Limit(a) ==
    LET peers == OfPolicy(opening.identity.policy)
        idle == Without(used, Identities \ RetirableOf(opening.identity.policy))
    IN  /\ At(a, "limit") /\ AllRetired
        /\ IF Cardinality(peers) < NamespaceLimit
           THEN Next_("create") /\ UNCHANGED <<lock, adapter>>
           ELSE IF idle = <<>>
                THEN Refuse(a)
                ELSE Doom(<<Head(idle)>>, "create") /\ UNCHANGED <<lock, adapter>>
        /\ UNCHANGED <<entries, used, governors, managers>>

(* Governors without managers are dropped; the policy's one is reused or   *)
(* created (and named by the manager it was created for).                  *)
Create(a) ==
    LET i == opening.identity
        m == Len(managers) + 1
        kept == [p \in Policies |-> IF OfPolicy(p) = {} THEN None ELSE governors[p]]
        g == IF kept[i.policy] = None THEN m ELSE kept[i.policy]
    IN  /\ At(a, "create") /\ AllRetired
        /\ m <= MaxManagers
        /\ governors' = [kept EXCEPT ![i.policy] = g]
        /\ managers' = Append(managers, [identity |-> i, governor |-> g, state |-> "open",
                                         leases |-> {}, compiling |-> FALSE])
        /\ entries' = [entries EXCEPT ![i] = [manager |-> m, clients |-> 1]]
        /\ used' = Touched(i)
        /\ Join(a, m)

Opening(a) ==
    \/ Expire(a) \/ Retire(a) \/ \E raises \in BOOLEAN : Retired(a, raises)
    \/ Find(a) \/ Conflict(a) \/ Limit(a) \/ Create(a)

-----------------------------------------------------------------------------
(* _release_process_variant_manager, run once per adapter by the finalizer *)
(* of an unreachable one (close() calls the same finalizer; nothing under  *)
(* src/ calls close() on an adapter that is still used).                   *)
ReleaseClient(a) ==
    LET i == managers[adapter[a].manager].identity
    IN  /\ adapter[a].life = "open" /\ ~adapter[a].calling
        /\ adapter' = [adapter EXCEPT ![a].life = "released"]
        /\ IF entries[i].clients > 0
           THEN /\ entries' = [entries EXCEPT ![i].clients = @ - 1]
                /\ used' = Touched(i)
           ELSE UNCHANGED <<entries, used>>
        /\ UNCHANGED <<governors, managers, lock, opening>>

Release(a) == lock = Nobody /\ ReleaseClient(a)

(* An adapter that is part of a cycle dies in the cycle collector, which   *)
(* runs on any thread that allocates: also on the one that holds the lock, *)
(* whose finalizer call then waits for itself.                             *)
Collect(a) ==
    /\ CyclicAdapters
    /\ adapter[a].life = "open" /\ ~adapter[a].calling
    /\ lock # Nobody
    /\ opening.step # "stuck"
    /\ Next_("stuck")
    /\ UNCHANGED <<entries, used, governors, managers, lock, adapter>>

-----------------------------------------------------------------------------
(* invoke leases a variant of the manager for as long as it runs; none of  *)
(* it is under the process's lock.                                         *)
Call(a) ==
    LET m == adapter[a].manager
    IN  /\ adapter[a].life = "open"
        /\ ~adapter[a].calling
        /\ managers[m].state # "closed"
        /\ adapter' = [adapter EXCEPT ![a].calling = TRUE]
        /\ managers' = [managers EXCEPT ![m].leases = @ \cup {a}]
        /\ UNCHANGED <<entries, used, governors, lock, opening>>

Return(a) ==
    LET m == adapter[a].manager
    IN  /\ adapter[a].calling
        /\ adapter' = [adapter EXCEPT ![a].calling = FALSE]
        /\ managers' = [managers EXCEPT ![m].leases = @ \ {a}]
        /\ UNCHANGED <<entries, used, governors, lock, opening>>

(* A missing variant is submitted to the manager's pool; it settles.       *)
Compile(a) ==
    LET m == adapter[a].manager
    IN  /\ adapter[a].life = "open"
        /\ managers[m].state = "open"
        /\ ~managers[m].compiling
        /\ managers' = [managers EXCEPT ![m].compiling = TRUE]
        /\ UNCHANGED <<entries, used, governors, lock, opening, adapter>>

Compiled(m) ==
    /\ managers[m].compiling
    /\ managers' = [managers EXCEPT ![m].compiling = FALSE]
    /\ UNCHANGED <<entries, used, governors, lock, opening, adapter>>

Next ==
    \/ \E a \in Adapters :
        \/ \E i \in Identities : Open(a, i)
        \/ Opening(a) /\ opening.step # "stuck"
        \/ Release(a) \/ Collect(a)
        \/ Call(a) \/ Return(a) \/ Compile(a)
    \/ \E m \in DOMAIN managers : Compiled(m)

Fairness ==
    /\ \A a \in Adapters : WF_vars(Opening(a) /\ opening.step # "stuck")
    /\ \A m \in 1..MaxManagers : WF_vars(m \in DOMAIN managers /\ Compiled(m))

Spec == Init /\ [][Next]_vars
FairSpec == Spec /\ Fairness

-----------------------------------------------------------------------------
TypeOK ==
    /\ entries \in [Identities -> [manager : 0..MaxManagers, clients : 0..Cardinality(Adapters)]]
    /\ governors \in [Policies -> 0..MaxManagers]
    /\ \A m \in DOMAIN managers :
        managers[m] \in [identity : Identities, governor : 1..MaxManagers,
                         state : {"open", "closing", "closed"},
                         leases : SUBSET Adapters, compiling : BOOLEAN]
    /\ Range(used) = Present /\ Len(used) = Cardinality(Present)
    /\ lock \in Adapters \cup {Nobody}
    /\ opening.step \in {"none", "expire", "find", "conflict", "limit", "create", "stuck"}
    /\ adapter \in [Adapters -> [life : {"none", "open", "refused", "released"},
                                 manager : 0..MaxManagers, calling : BOOLEAN]]

OpenAdapters == {a \in Adapters : adapter[a].life = "open"}
IdentityOf(a) == managers[adapter[a].manager].identity

(* An adapter keeps the manager it was given until it is released: the     *)
(* manager is neither retired nor replaced, and its clients are exactly    *)
(* the open adapters.                                                      *)
ClientsKeepTheirManager ==
    /\ \A a \in OpenAdapters :
        /\ entries[IdentityOf(a)].manager = adapter[a].manager
        /\ managers[adapter[a].manager].state = "open"
    /\ \A i \in Identities :
        entries[i].clients = Cardinality({a \in OpenAdapters : IdentityOf(a) = i})

(* Two policies never serve one namespace at the same time.                *)
NoPolicyDrift ==
    \A i, j \in Present : i.namespace = j.namespace => i = j

(* The managers of one policy share one governor, no other open manager    *)
(* uses it under the same owner, and they are no more than the limit.      *)
OneGovernor ==
    /\ \A i \in Present :
        /\ managers[entries[i].manager].governor = governors[i.policy]
        /\ Cardinality(OfPolicy(i.policy)) <= NamespaceLimit
    /\ \A m, n \in DOMAIN managers :
        /\ m # n
        /\ managers[m].state = "open" /\ managers[n].state = "open"
        => managers[m].identity # managers[n].identity

(* RFC-007: a variant that executes is not reclaimed: no manager closes    *)
(* its values under a lease, nor while its pool still compiles.            *)
NotReclaimedInUse ==
    \A m \in DOMAIN managers :
        managers[m].state = "closed" => managers[m].leases = {} /\ ~managers[m].compiling

(* Asking for a manager gets an answer.                                    *)
OpeningsConclude == \A a \in Adapters : lock = a ~> lock # a
=============================================================================

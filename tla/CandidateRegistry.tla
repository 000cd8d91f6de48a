-------------------------- MODULE CandidateRegistry -------------------------
(* The driver's registry of candidate calls.  A record is found by the         *)
(* identity of an expression, by its hash, or nested in a serialised one; the  *)
(* four tables are kept in step while records expire, are evicted, and while   *)
(* expressions die on any thread.  An operation looks its records up under the *)
(* lock and finalizes each under the lock again, so both may interleave.       *)
EXTENDS Naturals, Sequences, FiniteSets, Collections

CONSTANTS Exprs,        \* identities of expressions; a dead one's is reused
          Hashes, HashOf,
          MaxCandidates, TTL,
          MaxRecords, MaxTime, MaxCallers   \* bounds of the model

VARIABLES
  order,     \* keys of the live records, oldest first
  listed,    \* key -> expressions the record lists
  hashed,    \* key -> hashes the record lists
  expires, finalized, schema, carrier,     \* key -> state of record and wrapper
  byExpr, byHash, hashOf, refs,            \* the four tables
  alive,     \* expressions the program holds
  unbound,   \* keys registered by calls that have not bound an expression yet
  pending,   \* keys the running operation has yet to finalize
  last, now, closed

tables == <<byExpr, byHash, hashOf, refs>>
recordVars == <<listed, hashed, expires, finalized, schema, carrier>>
vars == <<order, listed, hashed, expires, finalized, schema, carrier, byExpr, byHash,
          hashOf, refs, alive, unbound, pending, last, now, closed>>

Keys == 1..MaxRecords
None == 0
NoHash == "none"
RegistryAssumption ==
  /\ HashOf \in [Exprs -> Hashes] /\ NoHash \notin Hashes
  /\ MaxCandidates \in Nat /\ TTL \in Nat /\ MaxRecords \in Nat /\ MaxTime \in Nat

Carriers == {"placeholder", "artifact"}

Init ==
  /\ order = <<>> /\ listed = [k \in Keys |-> {}] /\ hashed = [k \in Keys |-> {}]
  /\ expires = [k \in Keys |-> 0] /\ finalized = [k \in Keys |-> FALSE]
  /\ schema = [k \in Keys |-> FALSE] /\ carrier = [k \in Keys |-> "placeholder"]
  /\ byExpr = [e \in Exprs |-> None] /\ byHash = [h \in Hashes |-> None]
  /\ hashOf = [e \in Exprs |-> NoHash] /\ refs = {}
  /\ alive = {} /\ unbound = {} /\ pending = {} /\ last = 0 /\ now = 0 /\ closed = FALSE

Live == {order[i] : i \in 1..Len(order)}

DropIdentities(D) ==    (* Faulty: the hash table keeps its entries. *)
  /\ byExpr' = [e \in Exprs |-> IF byExpr[e] \in D THEN None ELSE byExpr[e]]
  /\ byHash' = byHash
  /\ refs' = refs \ UNION {listed[k] : k \in D}
  /\ hashOf' = [e \in Exprs |-> IF \E k \in D : e \in listed[k] THEN NoHash ELSE hashOf[e]]
  /\ listed' = [k \in Keys |-> IF k \in D THEN {} ELSE listed[k]]
  /\ hashed' = [k \in Keys |-> IF k \in D THEN {} ELSE hashed[k]]
(* _drop_record_locked of every key of D: its expressions and hashes leave the *)
(* tables, unless an entry belongs to another record by now.                   *)
Drop(D) ==
  /\ byExpr' = [e \in Exprs |-> IF byExpr[e] \in D THEN None ELSE byExpr[e]]
  /\ byHash' = [h \in Hashes |-> IF byHash[h] \in D THEN None ELSE byHash[h]]
  /\ refs' = refs \ UNION {listed[k] : k \in D}
  /\ hashOf' = [e \in Exprs |-> IF \E k \in D : e \in listed[k] THEN NoHash ELSE hashOf[e]]
  /\ listed' = [k \in Keys |-> IF k \in D THEN {} ELSE listed[k]]
  /\ hashed' = [k \in Keys |-> IF k \in D THEN {} ELSE hashed[k]]

Expired == {k \in Live : expires[k] <= now}

(* register: the expired go, the new record enters, the oldest beyond the      *)
(* limit go.                                                                    *)
Register ==
  /\ ~closed /\ last < MaxRecords /\ Cardinality(unbound) < MaxCallers
  /\ last' = last + 1
  /\ LET kept == Append(Without(order, Expired), last + 1)
         over == IF Len(kept) > MaxCandidates THEN Len(kept) - MaxCandidates ELSE 0
         evicted == {kept[i] : i \in 1..over}
     IN /\ order' = SubSeq(kept, over + 1, Len(kept))
        /\ Drop(Expired \cup evicted)
  /\ expires' = [expires EXCEPT ![last + 1] = now + TTL]
  /\ unbound' = unbound \cup {last + 1}
  /\ UNCHANGED <<finalized, schema, carrier, alive, pending, now, closed>>

(* bind_expression: nothing when the record has gone meanwhile, an error that  *)
(* the hook swallows when the registry is closed.                              *)
Bind(e, k) ==
  /\ k \in unbound /\ e \notin alive
  /\ unbound' = unbound \ {k} /\ alive' = alive \cup {e}
  /\ IF closed \/ k \notin Live
     THEN UNCHANGED <<listed, hashed, expires, tables>>
     ELSE /\ expires' = [expires EXCEPT ![k] = now + TTL]
          /\ listed' = [listed EXCEPT ![k] = @ \cup {e}]
          /\ hashed' = [hashed EXCEPT ![k] = @ \cup {HashOf[e]}]
          /\ byExpr' = [byExpr EXCEPT ![e] = k]
          /\ byHash' = [byHash EXCEPT ![HashOf[e]] = k]
          /\ hashOf' = [hashOf EXCEPT ![e] = HashOf[e]]
          /\ refs' = refs \cup {e}
  /\ UNCHANGED <<order, finalized, schema, carrier, pending, last, now, closed>>

(* The library may also build an expression that was never bound.              *)
Copy(e) ==
  /\ e \notin alive /\ alive' = alive \cup {e}
  /\ UNCHANGED <<order, recordVars, tables, unbound, pending, last, now, closed>>

(* An expression dies; _drop_expression is the callback of its weak reference. *)
(* The last one takes an unfinalized record with it.                           *)
Die(e) ==
  /\ e \in alive /\ alive' = alive \ {e}
  /\ LET k == byExpr[e]
         h == hashOf[e]
         gone == k # None /\ listed[k] = {e} /\ ~finalized[k]
     IN IF e \notin refs
        THEN UNCHANGED <<order, listed, hashed, tables>>
        ELSE /\ byExpr' = [byExpr EXCEPT ![e] = None]
             /\ refs' = refs \ {e} /\ hashOf' = [hashOf EXCEPT ![e] = NoHash]
             /\ byHash' = IF k # None /\ h # NoHash
                          THEN [x \in Hashes |-> IF byHash[x] = k /\ (x = h \/ gone)
                                                 THEN None ELSE byHash[x]]
                          ELSE byHash
             /\ listed' = IF k = None THEN listed ELSE [listed EXCEPT ![k] = @ \ {e}]
             /\ hashed' = IF k = None THEN hashed
                          ELSE [hashed EXCEPT ![k] = IF gone THEN {} ELSE @ \ {h}]
             /\ order' = IF gone THEN Without(order, {k}) ELSE order
  /\ UNCHANGED <<expires, finalized, schema, carrier, unbound, pending, last, now, closed>>

(* _records_for_expressions: by identity, else by hash; an expression found by *)
(* neither is serialised, and every live record named in it counts.            *)
Found(e) == IF byExpr[e] # None THEN byExpr[e] ELSE byHash[HashOf[e]]

(* finalize_operation up to its loop: purge, then look the arguments up.       *)
Operation(args, nested) ==
  /\ ~closed /\ pending = {} /\ Expired = {}
  /\ nested = {} \/ \E e \in args : Found(e) = None
  /\ pending' = ({Found(e) : e \in args} \ {None}) \cup nested
  /\ pending' # {}
  /\ UNCHANGED <<order, recordVars, tables, alive, unbound, last, now, closed>>

FinalizeTwice(k, artifact) ==     (* Faulty: a record is finalized again. *)
  /\ k \in pending
  /\ schema' = [schema EXCEPT ![k] = TRUE]
  /\ IF artifact = "unpublished"
     THEN UNCHANGED <<carrier, finalized>> /\ pending' = {}
     ELSE /\ carrier' = [carrier EXCEPT ![k] = artifact]
          /\ finalized' = [finalized EXCEPT ![k] = TRUE] /\ pending' = pending \ {k}
  /\ UNCHANGED <<order, listed, hashed, expires, tables, alive, unbound, last, now, closed>>
(* One turn of the loop, under the lock.  The wrapper takes its schema once,   *)
(* before its carrier: when the publication of a large artifact raises, the    *)
(* operation is abandoned with the schema set and the record not finalized.    *)
Finalize(k, artifact) ==
  /\ k \in pending
  /\ IF finalized[k] \/ schema[k]
     THEN pending' = pending \ {k} /\ UNCHANGED <<schema, carrier, finalized>>
     ELSE /\ schema' = [schema EXCEPT ![k] = TRUE]
          /\ IF artifact = "unpublished"
             THEN UNCHANGED <<carrier, finalized>> /\ pending' = {}
             ELSE /\ carrier' = [carrier EXCEPT ![k] = artifact]
                  /\ finalized' = [finalized EXCEPT ![k] = TRUE]
                  /\ pending' = pending \ {k}
  /\ UNCHANGED <<order, listed, hashed, expires, tables, alive, unbound, last, now, closed>>

Purge ==
  /\ ~closed /\ Expired # {}
  /\ order' = Without(order, Expired) /\ Drop(Expired)
  /\ UNCHANGED <<expires, finalized, schema, carrier, alive, unbound, pending, last, now, closed>>

Close ==
  /\ ~closed /\ closed' = TRUE /\ order' = <<>>
  /\ byExpr' = [e \in Exprs |-> None] /\ byHash' = [h \in Hashes |-> None]
  /\ hashOf' = [e \in Exprs |-> NoHash] /\ refs' = {}
  /\ UNCHANGED <<recordVars, alive, unbound, pending, last, now>>

Tick == now < MaxTime /\ now' = now + 1
        /\ UNCHANGED <<order, recordVars, tables, alive, unbound, pending, last, closed>>

Next ==
  \/ Register \/ Purge \/ Close \/ Tick
  \/ \E e \in Exprs : Copy(e) \/ Die(e) \/ \E k \in unbound : Bind(e, k)
  \/ \E args \in (SUBSET alive) \ {{}}, nested \in SUBSET Live : Operation(args, nested)
  \/ \E k \in pending, a \in Carriers \cup {"unpublished"} : Finalize(k, a)

Spec == Init /\ [][Next]_vars

TypeOK ==
  /\ Live \subseteq Keys /\ Len(order) = Cardinality(Live) /\ Len(order) <= MaxCandidates
  /\ listed \in [Keys -> SUBSET Exprs] /\ hashed \in [Keys -> SUBSET Hashes]
  /\ expires \in [Keys -> 0..(MaxTime + TTL)] /\ finalized \in [Keys -> BOOLEAN]
  /\ schema \in [Keys -> BOOLEAN] /\ carrier \in [Keys -> Carriers]
  /\ byExpr \in [Exprs -> Keys \cup {None}] /\ byHash \in [Hashes -> Keys \cup {None}]
  /\ hashOf \in [Exprs -> Hashes \cup {NoHash}] /\ refs \subseteq Exprs
  /\ alive \subseteq Exprs /\ unbound \subseteq Keys /\ pending \subseteq Keys
  /\ last \in 0..MaxRecords /\ now \in 0..MaxTime /\ closed \in BOOLEAN

(* Every entry of the tables names a live record that lists it, and a live     *)
(* record lists living expressions only and is found through each of them:     *)
(* neither a dead expression's identity nor a dropped record's hash leads an   *)
(* operation to the wrong candidate (registry.py:201-230, 289-315).            *)
IndexesAgree ==
  /\ \A e \in Exprs : byExpr[e] # None => byExpr[e] \in Live /\ e \in listed[byExpr[e]]
  /\ \A h \in Hashes : byHash[h] # None =>
       byHash[h] \in Live /\ \E e \in listed[byHash[h]] : HashOf[e] = h
  /\ ~closed => \A k \in Live : \A e \in listed[k] : e \in alive \cap refs /\ byExpr[e] = k
  /\ \A e \in refs : hashOf[e] = HashOf[e]

(* A carrier is settled once: neither a second operation nor one that failed   *)
(* to publish changes what a wrapper has been finalized with, and a record     *)
(* counts as finalized only with its schema set (registry.py:423-425, 650-658, *)
(* wrapper.py:64-67).                                                           *)
SettledStays ==
  \A k \in Keys : /\ finalized[k] => finalized'[k] /\ carrier'[k] = carrier[k]
                  /\ schema[k] => schema'[k] /\ carrier'[k] = carrier[k]
CarrierSettledOnce == [][SettledStays]_vars

(* A record leaves only because it expired, was the oldest of a full registry, *)
(* lost its last expression before it was finalized, or the registry closed    *)
(* (registry.py:217-230, 275-277, 701-710).                                    *)
DropsForAReason ==
  \A k \in Live : k \notin {order'[i] : i \in 1..Len(order')} =>
    \/ closed' \/ k \in Expired
    \/ /\ Cardinality(Live \ Expired) = MaxCandidates /\ last' = last + 1
       /\ \A j \in Live \ Expired : k <= j
    \/ ~finalized[k] /\ listed[k] # {} /\ \A e \in listed[k] : e \notin alive'
DroppedForAReason == [][DropsForAReason]_vars
=============================================================================

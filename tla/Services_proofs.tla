--------------------------- MODULE Services_proofs ---------------------------
(* The tables, caches, hooks and files of driver, scheduler and worker, proved *)
(* for every number of adapters, plans, expressions and artifacts: each part's *)
(* inductive invariant, and the properties of MCServices that follow.          *)
EXTENDS MCServices, Collections_proofs

-----------------------------------------------------------------------------
(* The process table.  Its types: *)
Ids == Managers!Identities
ManagerRecord ==
  [identity : Ids, governor : 1..MaxManagers, state : {"open", "closing", "closed"},
   leases : SUBSET Adapters, compiling : BOOLEAN]
AdapterRecord ==
  [life : {"none", "open", "refused", "released"}, manager : 0..MaxManagers, calling : BOOLEAN]
Openings ==
  [step : {"none", "expire", "find", "conflict", "limit", "create", "stuck"},
   identity : Ids \cup {0}, doomed : Seq(Ids)]

ManagerTypes ==
  /\ managerEntries \in [Ids -> [manager : 0..MaxManagers, clients : Nat]]
  /\ governors \in [Policies -> 0..MaxManagers]
  /\ managers \in Seq(ManagerRecord) /\ Len(managers) <= MaxManagers
  /\ managerLock \in Adapters \cup {"nobody"}
  /\ opening \in Openings
  /\ adapter \in [Adapters -> AdapterRecord]

Listed(i) == managerEntries[i].manager # 0

(* The order of use lists the identities of the table once each.               *)
UseOrder ==
  /\ used \in Seq(Ids) /\ Distinct(used)
  /\ \A i \in Ids : i \in Range(used) <=> Listed(i)

(* The table leads to the open managers, one identity to each, and a manager   *)
(* shares its policy's governor.                                               *)
TableLeads ==
  /\ \A i \in Ids : Listed(i) =>
       LET m == managerEntries[i].manager
       IN  /\ m \in DOMAIN managers /\ managers[m].identity = i /\ managers[m].state = "open"
           /\ managers[m].governor = governors[i.policy]
  /\ \A m \in DOMAIN managers :
       managers[m].state = "open" => managerEntries[managers[m].identity].manager = m

(* The clients of an entry are the open adapters of its identity; they hold    *)
(* its manager, whose leases are their calls.                                  *)
ClientsOf(i) ==
  {a \in Adapters : adapter[a].life = "open" /\ managers[adapter[a].manager].identity = i}
ClientsHold ==
  /\ \A a \in Adapters : adapter[a].life = "open" =>
       /\ adapter[a].manager \in DOMAIN managers
       /\ managerEntries[managers[adapter[a].manager].identity].manager = adapter[a].manager
  /\ \A a \in Adapters : adapter[a].calling => adapter[a].life = "open"
  /\ \A i \in Ids : managerEntries[i].clients = Cardinality(ClientsOf(i))
  /\ \A m \in DOMAIN managers :
       /\ managers[m].leases = {a \in Adapters : adapter[a].calling /\ adapter[a].manager = m}
       /\ managers[m].state = "closed" => ~managers[m].compiling

(* What the adapter that holds the lock has found out so far stays true until  *)
(* it lets go: whom it retires has no clients, and one manager at a time.      *)
Peers(p) == {i \in Ids : Listed(i) /\ i.policy = p}
Opener ==
  LET i == opening.identity
  IN  /\ managerLock = "nobody" => opening.step = "none" /\ opening.doomed = <<>>
      /\ managerLock # "nobody" => adapter[managerLock].life = "none" /\ i \in Ids
      /\ opening.step = "expire" => opening.doomed = <<>>
      /\ opening.step \in {"conflict", "limit", "create"} => ~Listed(i)
      /\ opening.step \in {"limit", "create"} =>
           \A j \in Ids : Listed(j) => j.namespace # i.namespace
      /\ opening.step = "create" => Len(opening.doomed) <= 1
      /\ opening.step = "create" =>
           IF opening.doomed = <<>> \/ ~Listed(opening.doomed[1])
           THEN Cardinality(Peers(i.policy)) < NamespaceLimit
           ELSE opening.doomed[1].policy = i.policy
      /\ \A n \in DOMAIN opening.doomed : managerEntries[opening.doomed[n]].clients = 0
Retiring ==
  \A m \in DOMAIN managers : managers[m].state = "closing" =>
    /\ opening.doomed # <<>> /\ ~Listed(opening.doomed[1])
    /\ \A n \in DOMAIN managers : managers[n].state = "closing" => n = m

OnePolicy ==
  /\ \A i, j \in Ids : Listed(i) /\ Listed(j) /\ i.namespace = j.namespace => i = j
  /\ \A p \in Policies : Cardinality(Peers(p)) <= NamespaceLimit

ManagersInv ==
  /\ ManagerTypes /\ UseOrder /\ TableLeads /\ ClientsHold /\ Opener /\ Retiring /\ OnePolicy

LEMMA ManagersCount == \A S : Managers!Cardinality(S) = Cardinality(S)
BY DEF Managers!Cardinality, Cardinality

LEMMA ManagersRange == \A f : Managers!Range(f) = Range(f)
BY DEF Managers!Range, Range

LEMMA ManagersWithout == \A s, K : Managers!Without(s, K) = Without(s, K)
BY DEF Managers!Without, Without

(* One manager of the list changed.                                            *)
LEMMA ManagerChanged ==
  ASSUME NEW s \in Seq(ManagerRecord), NEW m \in DOMAIN s, NEW r \in ManagerRecord, NEW t,
         t = [s EXCEPT ![m] = r]
  PROVE  /\ t \in Seq(ManagerRecord) /\ Len(t) = Len(s) /\ DOMAIN t = DOMAIN s
         /\ t[m] = r /\ \A n \in DOMAIN s : n # m => t[n] = s[n]
OBVIOUS

LEMMA ManagersTyped ==
  ASSUME ManagerTypes
  PROVE  \A n \in DOMAIN managers :
           /\ managers[n] \in ManagerRecord /\ managers[n].identity \in Ids
           /\ n \in Nat \ {0}
<1>1. \A n \in DOMAIN managers : managers[n] \in ManagerRecord /\ n \in Nat \ {0}
  BY DEF ManagerTypes
<1> QED
  BY <1>1 DEF ManagerRecord

LEMMA IdsFinite ==
  ASSUME Managers!ProcessAssumption
  PROVE  /\ IsFiniteSet(Ids) /\ IsFiniteSet(Adapters) /\ NamespaceLimit \in Nat \ {0}
         /\ MaxManagers \in Nat /\ "nobody" \notin Adapters
<1>1. Managers!IsFiniteSet(Adapters) /\ Managers!IsFiniteSet(Namespaces) /\ Managers!IsFiniteSet(Policies)
  BY DEF Managers!ProcessAssumption
<1>2. \A S : Managers!IsFiniteSet(S) => IsFiniteSet(S)
  BY DEF Managers!IsFiniteSet, IsFiniteSet
<1>3. IsFiniteSet(Namespaces \X Policies)
  BY <1>1, <1>2, FS_Product
<1> DEFINE f == [x \in Namespaces \X Policies |-> [namespace |-> x[1], policy |-> x[2]]]
<1>4. Ids = {f[x] : x \in Namespaces \X Policies}
  <2>1. ASSUME NEW i \in Ids PROVE \E x \in Namespaces \X Policies : i = f[x]
    <3>1. i.namespace \in Namespaces /\ i.policy \in Policies
          /\ i = [namespace |-> i.namespace, policy |-> i.policy]
      BY DEF Ids, Managers!Identities
    <3>2. <<i.namespace, i.policy>> \in Namespaces \X Policies
          /\ f[<<i.namespace, i.policy>>] = i
      BY <3>1
    <3> QED
      BY <3>2
  <2>2. \A x \in Namespaces \X Policies : f[x] \in Ids
    BY DEF Ids, Managers!Identities
  <2> QED
    BY <2>1, <2>2
<1>5. IsFiniteSet(Ids)
  <2>1. f \in Surjection(Namespaces \X Policies, Ids)
    BY <1>4 DEF Surjection
  <2> HIDE DEF f
  <2> QED
    BY <1>3, <2>1, FS_Surjection
<1> QED
  BY <1>1, <1>2, <1>5 DEF Managers!ProcessAssumption

LEMMA ManagersInit ==
  ASSUME Managers!ProcessAssumption, Managers!Init
  PROVE  ManagersInv
<1>0. /\ managerEntries = [i \in Ids |-> [manager |-> 0, clients |-> 0]] /\ used = <<>>
      /\ governors = [p \in Policies |-> 0] /\ managers = <<>> /\ managerLock = "nobody"
      /\ opening = [step |-> "none", identity |-> 0, doomed |-> <<>>]
      /\ adapter = [a \in Adapters |-> [life |-> "none", manager |-> 0, calling |-> FALSE]]
  BY DEF Managers!Init, Managers!Absent, Managers!None, Managers!Nobody, Managers!NotOpening, Ids
<1>1. MaxManagers \in Nat /\ NamespaceLimit \in Nat \ {0}
  BY IdsFinite
<1>2. ManagerTypes
  <2>1. opening \in Openings
    BY <1>0 DEF Openings
  <2>2. adapter \in [Adapters -> AdapterRecord]
    BY <1>0, <1>1 DEF AdapterRecord
  <2>3. managerEntries \in [Ids -> [manager : 0..MaxManagers, clients : Nat]]
    BY <1>0, <1>1
  <2> QED
    BY <1>0, <1>1, <2>1, <2>2, <2>3 DEF ManagerTypes
<1>3. \A i \in Ids : ~Listed(i)
  BY <1>0 DEF Listed
<1>4. UseOrder
  BY <1>0, <1>3 DEF UseOrder, Distinct, Range
<1>5. TableLeads
  BY <1>0, <1>3 DEF TableLeads
<1>6. \A i \in Ids : ClientsOf(i) = {}
  BY <1>0 DEF ClientsOf
<1>7. ClientsHold
  <2>1. \A a \in Adapters : adapter[a].life # "open" /\ ~adapter[a].calling
    BY <1>0
  <2>2. \A i \in Ids : managerEntries[i].clients = Cardinality(ClientsOf(i))
    BY <1>0, <1>6, FS_EmptySet
  <2>3. DOMAIN managers = {}
    BY <1>0
  <2> QED
    BY <2>1, <2>2, <2>3 DEF ClientsHold
<1>8. Opener /\ Retiring
  BY <1>0 DEF Opener, Retiring
<1>9. \A p \in Policies : Peers(p) = {}
  BY <1>3 DEF Peers
<1>10. OnePolicy
  BY <1>1, <1>3, <1>9, FS_EmptySet DEF OnePolicy
<1> QED
  BY <1>2, <1>4, <1>5, <1>7, <1>8, <1>10 DEF ManagersInv

(* Who opens, expires, meets a conflict or a limit changes no table, nor does  *)
(* the end of a closing.                                                       *)
Closes ==
  \/ managers' = managers
  \/ \E m \in DOMAIN managers : /\ managers[m].state = "closing" /\ ~managers[m].compiling
                                /\ managers' = [managers EXCEPT ![m].state = "closed"]
Answers ==
  \/ adapter' = adapter
  \/ \E a \in Adapters : /\ adapter[a].life = "none"
                         /\ adapter' = [adapter EXCEPT ![a].life = "refused"]

LEMMA TablesKept ==
  ASSUME ManagersInv, UNCHANGED <<managerEntries, used, governors>>, Closes, Answers
  PROVE  /\ UseOrder' /\ TableLeads' /\ ClientsHold' /\ OnePolicy'
         /\ adapter' \in [Adapters -> AdapterRecord]
         /\ managers' \in Seq(ManagerRecord) /\ Len(managers') = Len(managers)
<1>0. ManagerTypes /\ UseOrder /\ TableLeads /\ ClientsHold /\ OnePolicy
  BY DEF ManagersInv
<1>1. adapter \in [Adapters -> AdapterRecord] /\ managers \in Seq(ManagerRecord)
  BY <1>0 DEF ManagerTypes
<1>2. /\ adapter' \in [Adapters -> AdapterRecord]
      /\ \A b \in Adapters : /\ adapter'[b].manager = adapter[b].manager
                             /\ adapter'[b].calling = adapter[b].calling
                             /\ adapter'[b].life = "open" <=> adapter[b].life = "open"
  <2>1. CASE adapter' = adapter
    BY <1>1, <2>1
  <2>2. ASSUME NEW a \in Adapters, adapter[a].life = "none",
               adapter' = [adapter EXCEPT ![a].life = "refused"]
        PROVE  /\ adapter' \in [Adapters -> AdapterRecord]
               /\ \A b \in Adapters : /\ adapter'[b].manager = adapter[b].manager
                                      /\ adapter'[b].calling = adapter[b].calling
                                      /\ adapter'[b].life = "open" <=> adapter[b].life = "open"
    BY <1>1, <2>2 DEF AdapterRecord
  <2> QED
    BY <2>1, <2>2 DEF Answers
<1>6. /\ managers' \in Seq(ManagerRecord) /\ Len(managers') = Len(managers)
      /\ DOMAIN managers' = DOMAIN managers
      /\ \A m \in DOMAIN managers :
           /\ managers'[m].identity = managers[m].identity
           /\ managers'[m].governor = managers[m].governor
           /\ managers'[m].leases = managers[m].leases
           /\ managers'[m].state = "open" <=> managers[m].state = "open"
           /\ managers'[m].state = "closed" /\ managers[m].state # "closed" => ~managers'[m].compiling
           /\ managers'[m].compiling = managers[m].compiling
  <2>1. CASE managers' = managers
    BY <1>1, <2>1
  <2>2. ASSUME NEW m \in DOMAIN managers, managers[m].state = "closing", ~managers[m].compiling,
               managers' = [managers EXCEPT ![m].state = "closed"]
        PROVE  /\ managers' \in Seq(ManagerRecord) /\ Len(managers') = Len(managers)
               /\ DOMAIN managers' = DOMAIN managers
               /\ \A n \in DOMAIN managers :
                    /\ managers'[n].identity = managers[n].identity
                    /\ managers'[n].governor = managers[n].governor
                    /\ managers'[n].leases = managers[n].leases
                    /\ managers'[n].state = "open" <=> managers[n].state = "open"
                    /\ managers'[n].state = "closed" /\ managers[n].state # "closed"
                         => ~managers'[n].compiling
                    /\ managers'[n].compiling = managers[n].compiling
    <3>1. managers[m] \in ManagerRecord
      BY <1>1
    <3> DEFINE r == [managers[m] EXCEPT !.state = "closed"]
    <3>2. /\ r \in ManagerRecord /\ r.identity = managers[m].identity
          /\ r.governor = managers[m].governor /\ r.leases = managers[m].leases
          /\ r.compiling = managers[m].compiling /\ r.state = "closed"
      BY <3>1 DEF ManagerRecord
    <3>3. managers' = [managers EXCEPT ![m] = r]
      BY <2>2
    <3> HIDE DEF r
    <3>4. /\ managers' \in Seq(ManagerRecord) /\ Len(managers') = Len(managers)
          /\ DOMAIN managers' = DOMAIN managers
          /\ managers'[m] = r /\ \A n \in DOMAIN managers : n # m => managers'[n] = managers[n]
      BY <1>1, <3>2, <3>3, ManagerChanged
    <3> QED
      BY <2>2, <3>2, <3>4
  <2> QED
    BY <2>1, <2>2 DEF Closes
<1>3. \A i \in Ids : ClientsOf(i)' = ClientsOf(i)
  <2>1. \A a \in Adapters : adapter[a].life = "open" => adapter[a].manager \in DOMAIN managers
    BY <1>0 DEF ClientsHold
  <2> QED
    BY <1>2, <1>6, <2>1 DEF ClientsOf
<1>4. ClientsHold'
  <2>1. \A a \in Adapters : adapter'[a].calling => adapter'[a].life = "open"
    BY <1>0, <1>2 DEF ClientsHold
  <2>2. \A a \in Adapters : adapter'[a].life = "open" =>
          /\ adapter'[a].manager \in DOMAIN managers'
          /\ managerEntries'[managers'[adapter'[a].manager].identity].manager = adapter'[a].manager
    BY <1>0, <1>2, <1>6 DEF ClientsHold
  <2>3. \A m \in DOMAIN managers' :
       /\ managers'[m].leases = {a \in Adapters : adapter'[a].calling /\ adapter'[a].manager = m}
       /\ managers'[m].state = "closed" => ~managers'[m].compiling
    BY <1>0, <1>2, <1>6 DEF ClientsHold
  <2>4. \A i \in Ids : managerEntries'[i].clients = Cardinality(ClientsOf(i)')
    BY <1>0, <1>3 DEF ClientsHold
  <2> QED
    BY <2>1, <2>2, <2>3, <2>4 DEF ClientsHold
<1>5. UseOrder' /\ OnePolicy'
  BY <1>0 DEF UseOrder, OnePolicy, Listed, Peers
<1>7. TableLeads'
  BY <1>0, <1>6 DEF TableLeads, Listed
<1> QED
  BY <1>2, <1>4, <1>5, <1>6, <1>7

LEMMA ManagersOpen ==
  ASSUME Managers!ProcessAssumption, ManagersInv, NEW a \in Adapters, NEW i \in Ids,
         Managers!Open(a, i)
  PROVE  ManagersInv'
<1>0. ManagerTypes /\ Opener /\ Retiring
  BY DEF ManagersInv
<1>1. /\ adapter[a].life = "none" /\ managerLock = "nobody" /\ managerLock' = a
      /\ opening' = [step |-> "expire", identity |-> i, doomed |-> <<>>]
      /\ UNCHANGED <<managerEntries, used, governors, managers, adapter>>
  BY DEF Managers!Open, Managers!Nobody, Managers!NotOpening, Managers!None
<1>2. UseOrder' /\ TableLeads' /\ ClientsHold' /\ OnePolicy' /\ adapter' \in [Adapters -> AdapterRecord]
  BY <1>1, TablesKept DEF Closes, Answers
<1>3. opening' \in Openings /\ opening'.step = "expire" /\ opening'.doomed = <<>> /\ opening'.identity = i
  BY <1>1 DEF Openings
<1>4. ManagerTypes'
  BY <1>0, <1>1, <1>2, <1>3 DEF ManagerTypes
<1>5. Retiring'
  BY <1>0, <1>1 DEF Opener, Retiring
<1>6. Opener'
  BY <1>0, <1>1, <1>3, IdsFinite DEF Opener
<1> QED
  BY <1>2, <1>4, <1>5, <1>6 DEF ManagersInv

LEMMA ManagersExpire ==
  ASSUME Managers!ProcessAssumption, ManagersInv, NEW a \in Adapters, Managers!Expire(a)
  PROVE  ManagersInv'
<1>0. ManagerTypes /\ Opener /\ Retiring /\ UseOrder
  BY DEF ManagersInv
<1> DEFINE K == Ids \ Managers!RetirableOf(opening.identity.policy)
<1>1. PICK n \in 0..Len(used) :
        opening' = [opening EXCEPT !.doomed = Without(SubSeq(used, 1, n), K), !.step = "find"]
  BY ManagersWithout DEF Managers!Expire, Managers!Doom, Ids
<1>2. /\ managerLock = a /\ opening.step = "expire"
      /\ UNCHANGED <<managerEntries, used, governors, managers, managerLock, adapter>>
  BY DEF Managers!Expire, Managers!At
<1>3. UseOrder' /\ TableLeads' /\ ClientsHold' /\ OnePolicy' /\ adapter' \in [Adapters -> AdapterRecord]
  BY <1>2, TablesKept DEF Closes, Answers
<1> DEFINE d == Without(SubSeq(used, 1, n), K)
<1>4. d \in Seq(Ids) /\ \A x \in Range(d) : x \notin K
  <2>1. SubSeq(used, 1, n) \in Seq(Ids)
    BY <1>0 DEF UseOrder
  <2> HIDE DEF K
  <2>2. d \in Seq(Ids) /\ Range(d) = Range(SubSeq(used, 1, n)) \ K
    BY <2>1, WithoutFacts
  <2> QED
    BY <2>2
<1>5. \A k \in DOMAIN d : d[k] \in Ids /\ managerEntries[d[k]].clients = 0
  <2>1. \A x \in Ids : x \notin K => managerEntries[x].clients = 0
    BY DEF Managers!RetirableOf, Managers!Retirable
  <2> HIDE DEF d, K
  <2> QED
    BY <1>4, <2>1 DEF Range
<1> HIDE DEF d, K
<1>6. opening' \in Openings /\ opening'.step = "find" /\ opening'.doomed = d
      /\ opening'.identity = opening.identity
  BY <1>0, <1>1, <1>4 DEF ManagerTypes, Openings, d
<1>7. ManagerTypes'
  BY <1>0, <1>2, <1>3, <1>6 DEF ManagerTypes
<1>8. Opener'
  BY <1>0, <1>2, <1>5, <1>6, IdsFinite DEF Opener
<1>9. Retiring'
  BY <1>0, <1>2 DEF Opener, Retiring
<1> QED
  BY <1>3, <1>7, <1>8, <1>9 DEF ManagersInv

(* An opening that ends without a manager.                                     *)
LEMMA OpeningRefused ==
  ASSUME Managers!ProcessAssumption, ManagersInv, NEW a \in Adapters, managerLock = a,
         Managers!Refuse(a), UNCHANGED <<managerEntries, used, governors>>, Closes,
         \A m \in DOMAIN managers' : managers'[m].state # "closing"
  PROVE  ManagersInv'
<1>0. ManagerTypes /\ Opener
  BY DEF ManagersInv
<1>1. /\ managerLock' = "nobody"
      /\ opening' = [step |-> "none", identity |-> 0, doomed |-> <<>>]
      /\ adapter' = [adapter EXCEPT ![a].life = "refused"]
  BY DEF Managers!Refuse, Managers!Nobody, Managers!NotOpening, Managers!None
<1>2. adapter[a].life = "none"
  BY <1>0, IdsFinite DEF Opener
<1>3. /\ UseOrder' /\ TableLeads' /\ ClientsHold' /\ OnePolicy'
      /\ adapter' \in [Adapters -> AdapterRecord]
      /\ managers' \in Seq(ManagerRecord) /\ Len(managers') = Len(managers)
  BY <1>1, <1>2, TablesKept DEF Answers
<1>4. opening' \in Openings /\ opening'.step = "none" /\ opening'.doomed = <<>>
  BY <1>1 DEF Openings
<1>5. ManagerTypes'
  BY <1>0, <1>1, <1>3, <1>4 DEF ManagerTypes
<1>6. Opener' /\ Retiring'
  BY <1>1, <1>4 DEF Opener, Retiring
<1> QED
  BY <1>3, <1>5, <1>6 DEF ManagersInv

LEMMA NoneRetiring ==
  ASSUME ManagersInv, opening.doomed = <<>>
  PROVE  \A m \in DOMAIN managers : managers[m].state # "closing"
BY DEF ManagersInv, Retiring

LEMMA ManagersConflict ==
  ASSUME Managers!ProcessAssumption, ManagersInv, NEW a \in Adapters, Managers!Conflict(a)
  PROVE  ManagersInv'
<1>0. ManagerTypes /\ Opener /\ Retiring
  BY DEF ManagersInv
<1> DEFINE i == opening.identity
           conflicting == {j \in Managers!Present : j.namespace = i.namespace /\ j.policy # i.policy}
<1>1. /\ managerLock = a /\ opening.step = "conflict" /\ opening.doomed = <<>>
      /\ UNCHANGED <<managerEntries, used, governors, managers>>
  BY DEF Managers!Conflict, Managers!At, Managers!AllRetired
<1>2. \A m \in DOMAIN managers : managers[m].state # "closing"
  BY <1>1, NoneRetiring
<1>3. i \in Ids /\ ~Listed(i) /\ adapter[a].life = "none"
  BY <1>0, <1>1, IdsFinite DEF Opener
<1>4. CASE conflicting = {} /\ UNCHANGED <<managerLock, adapter>>
           /\ opening' = [opening EXCEPT !.step = "limit"]
  <2>1. UseOrder' /\ TableLeads' /\ ClientsHold' /\ OnePolicy' /\ adapter' \in [Adapters -> AdapterRecord]
    BY <1>1, <1>4, TablesKept DEF Closes, Answers
  <2>2. opening' \in Openings /\ opening'.step = "limit" /\ opening'.doomed = <<>> /\ opening'.identity = i
    BY <1>0, <1>1, <1>4 DEF ManagerTypes, Openings
  <2>3. \A j \in Ids : Listed(j) => j.namespace # i.namespace
    <3>1. \A j \in Ids : Listed(j) => j \in Managers!Present
      BY DEF Listed, Managers!Present, Managers!None, Ids
    <3>2. \A j \in Ids : j.namespace = i.namespace /\ j.policy = i.policy => j = i
      BY <1>3 DEF Ids, Managers!Identities
    <3> QED
      BY <1>3, <1>4, <3>1, <3>2
  <2>4. ManagerTypes'
    BY <1>0, <1>1, <1>4, <2>1, <2>2 DEF ManagerTypes
  <2>5. Opener'
    BY <1>0, <1>1, <1>3, <1>4, <2>2, <2>3, IdsFinite DEF Opener, Listed
  <2>6. Retiring'
    BY <1>1, <1>2 DEF Retiring
  <2> QED
    BY <2>1, <2>4, <2>5, <2>6 DEF ManagersInv
<1>5. ASSUME NEW j \in conflicting, Managers!Retirable(j), UNCHANGED <<managerLock, adapter>>,
             opening' = [opening EXCEPT !.doomed = <<j>>, !.step = "conflict"]
      PROVE  ManagersInv'
  <2>1. UseOrder' /\ TableLeads' /\ ClientsHold' /\ OnePolicy' /\ adapter' \in [Adapters -> AdapterRecord]
    BY <1>1, <1>5, TablesKept DEF Closes, Answers
  <2>2. j \in Ids /\ managerEntries[j].clients = 0
    BY <1>5 DEF Managers!Present, Managers!Retirable, Ids
  <2>3. opening' \in Openings /\ opening'.step = "conflict" /\ opening'.doomed = <<j>> /\ opening'.identity = i
    <3>1. <<j>> \in Seq(Ids) /\ opening \in Openings
      BY <1>0, <2>2 DEF ManagerTypes
    <3> DEFINE d == <<j>>
    <3>2. opening' = [opening EXCEPT !.doomed = d, !.step = "conflict"] /\ d \in Seq(Ids)
      BY <1>5, <3>1
    <3> HIDE DEF d
    <3>3. opening' \in Openings /\ opening'.step = "conflict" /\ opening'.doomed = d /\ opening'.identity = i
      BY <3>1, <3>2 DEF Openings
    <3> QED
      BY <3>3 DEF d
  <2>4. ManagerTypes'
    BY <1>0, <1>1, <1>5, <2>1, <2>3 DEF ManagerTypes
  <2>5. DOMAIN <<j>> = {1} /\ <<j>>[1] = j
    OBVIOUS
  <2>6. Opener'
    BY <1>0, <1>1, <1>3, <1>5, <2>2, <2>3, <2>5, IdsFinite DEF Opener, Listed
  <2>7. Retiring'
    BY <1>1, <1>2 DEF Retiring
  <2> QED
    BY <2>1, <2>4, <2>6, <2>7 DEF ManagersInv
<1>6. CASE Managers!Refuse(a)
  BY <1>1, <1>2, <1>6, OpeningRefused DEF Closes
<1> QED
  BY <1>4, <1>5, <1>6 DEF Managers!Conflict, Managers!Next_, Managers!Doom

LEMMA ManagersLimit ==
  ASSUME Managers!ProcessAssumption, ManagersInv, NEW a \in Adapters, Managers!Limit(a)
  PROVE  ManagersInv'
<1>0. ManagerTypes /\ Opener /\ Retiring /\ UseOrder
  BY DEF ManagersInv
<1> DEFINE i == opening.identity
           K == Ids \ Managers!RetirableOf(i.policy)
           idle == Without(used, K)
<1>1. /\ managerLock = a /\ opening.step = "limit" /\ opening.doomed = <<>>
      /\ UNCHANGED <<managerEntries, used, governors, managers>>
  BY DEF Managers!Limit, Managers!At, Managers!AllRetired
<1>2. \A m \in DOMAIN managers : managers[m].state # "closing"
  BY <1>1, NoneRetiring
<1>3. /\ i \in Ids /\ ~Listed(i) /\ adapter[a].life = "none"
      /\ \A j \in Ids : Listed(j) => j.namespace # i.namespace
  BY <1>0, <1>1, IdsFinite DEF Opener
<1>4. ASSUME NEW d \in Seq(Ids), UNCHANGED <<managerLock, adapter>>, Len(d) <= 1,
             opening' = [opening EXCEPT !.doomed = d, !.step = "create"],
             \A n \in DOMAIN d : d[n].policy = i.policy /\ managerEntries[d[n]].clients = 0,
             d = <<>> => Cardinality(Peers(i.policy)) < NamespaceLimit,
             d # <<>> => Listed(d[1])
      PROVE  ManagersInv'
  <2>1. UseOrder' /\ TableLeads' /\ ClientsHold' /\ OnePolicy' /\ adapter' \in [Adapters -> AdapterRecord]
    BY <1>1, <1>4, TablesKept DEF Closes, Answers
  <2>2. opening' \in Openings /\ opening'.step = "create" /\ opening'.doomed = d /\ opening'.identity = i
    BY <1>0, <1>1, <1>4 DEF ManagerTypes, Openings
  <2>3. ManagerTypes'
    BY <1>0, <1>1, <1>4, <2>1, <2>2 DEF ManagerTypes
  <2>4. d # <<>> => 1 \in DOMAIN d
    BY <1>4
  <2>5. Opener'
    BY <1>0, <1>1, <1>3, <1>4, <2>2, <2>4, IdsFinite DEF Opener, Listed, Peers
  <2>6. Retiring'
    BY <1>1, <1>2 DEF Retiring
  <2> QED
    BY <2>1, <2>3, <2>5, <2>6 DEF ManagersInv
<1>5. Managers!OfPolicy(i.policy) = Peers(i.policy)
  BY DEF Managers!OfPolicy, Managers!Present, Managers!None, Peers, Listed, Ids
<1>6. CASE /\ Cardinality(Peers(i.policy)) < NamespaceLimit
           /\ UNCHANGED <<managerLock, adapter>> /\ opening' = [opening EXCEPT !.step = "create"]
  <2>1. opening' = [opening EXCEPT !.doomed = <<>>, !.step = "create"]
    BY <1>0, <1>1, <1>6 DEF ManagerTypes, Openings
  <2>2. <<>> \in Seq(Ids) /\ Len(<<>>) <= 1 /\ DOMAIN <<>> = {}
    OBVIOUS
  <2> QED
    BY <1>4, <1>6, <2>1, <2>2
<1>7. CASE /\ idle # <<>> /\ UNCHANGED <<managerLock, adapter>>
           /\ opening' = [opening EXCEPT !.doomed = <<Head(idle)>>, !.step = "create"]
  <2>1. idle \in Seq(Ids) /\ \A x \in Range(idle) : x \notin K
    <3> HIDE DEF K
    <3> QED
      BY <1>0, WithoutFacts DEF UseOrder
  <2>2. Head(idle) \in Ids /\ Head(idle) \notin K
    <3> HIDE DEF K, idle
    <3>1. 1 \in DOMAIN idle /\ Head(idle) = idle[1]
      BY <1>7, <2>1
    <3> QED
      BY <2>1, <3>1 DEF Range
  <2>3. /\ Head(idle).policy = i.policy /\ managerEntries[Head(idle)].clients = 0
        /\ Listed(Head(idle))
    <3> HIDE DEF idle
    <3> QED
      BY <2>2 DEF Managers!RetirableOf, Managers!Retirable, Managers!OfPolicy, Managers!Present,
                  Managers!None, Listed
  <2> HIDE DEF idle
  <2> DEFINE h == Head(idle)
  <2>4. <<h>> \in Seq(Ids) /\ Len(<<h>>) = 1 /\ DOMAIN <<h>> = {1} /\ <<h>>[1] = h /\ <<h>> # <<>>
    BY <2>2
  <2> DEFINE d == <<h>>
  <2>5. /\ opening' = [opening EXCEPT !.doomed = d, !.step = "create"]
        /\ d \in Seq(Ids) /\ Len(d) <= 1 /\ d # <<>>
        /\ \A n \in DOMAIN d : d[n].policy = i.policy /\ managerEntries[d[n]].clients = 0
        /\ Listed(d[1])
    <3>1. opening' = [opening EXCEPT !.doomed = d, !.step = "create"]
      BY <1>7
    <3> HIDE DEF h
    <3> QED
      BY <2>3, <2>4, <3>1 DEF h
  <2> HIDE DEF d, h
  <2> QED
    BY <1>4, <1>7, <2>5
<1>8. CASE Managers!Refuse(a)
  BY <1>1, <1>2, <1>8, OpeningRefused DEF Closes
<1> QED
  <2>1. idle = Managers!Without(used, Managers!Identities \ Managers!RetirableOf(opening.identity.policy))
    BY ManagersWithout DEF Ids
  <2> HIDE DEF idle
  <2> QED
    BY <1>5, <1>6, <1>7, <1>8, <2>1, ManagersCount DEF Managers!Limit, Managers!Next_, Managers!Doom

(* The order of use after an identity was touched or taken out.                *)
LEMMA OrderAfter ==
  ASSUME UseOrder, NEW i \in Ids
  PROVE  /\ Without(used, {i}) \in Seq(Ids) /\ Distinct(Without(used, {i}))
         /\ \A j \in Ids : j \in Range(Without(used, {i})) <=> j # i /\ Listed(j)
         /\ Managers!Touched(i) \in Seq(Ids) /\ Distinct(Managers!Touched(i))
         /\ \A j \in Ids : j \in Range(Managers!Touched(i)) <=> j = i \/ Listed(j)
<1>1. /\ Without(used, {i}) \in Seq(Ids) /\ Distinct(Without(used, {i}))
      /\ Range(Without(used, {i})) = Range(used) \ {i}
  BY WithoutFacts DEF UseOrder
<1>2. \A j \in Ids : j \in Range(Without(used, {i})) <=> j # i /\ Listed(j)
  BY <1>1 DEF UseOrder
<1> DEFINE w == Without(used, {i})
<1>3. Managers!Touched(i) = Append(w, i)
  BY ManagersWithout DEF Managers!Touched
<1>4. w \in Seq(Ids) /\ Distinct(w) /\ i \notin Range(w)
  BY <1>1, <1>2
<1> HIDE DEF w
<1>5. /\ Append(w, i) \in Seq(Ids) /\ Range(Append(w, i)) = Range(w) \cup {i}
      /\ Distinct(Append(w, i))
  BY <1>4, AppendRange, AppendDistinct
<1> USE DEF w
<1> QED
  BY <1>1, <1>2, <1>3, <1>5

(* Nobody holds a manager that is in no entry, or whose entry has no clients.  *)
LEMMA NoClients ==
  ASSUME Managers!ProcessAssumption, ManagersInv, NEW i \in Ids,
         ~Listed(i) \/ managerEntries[i].clients = 0
  PROVE  ClientsOf(i) = {} /\ managerEntries[i].clients = 0
<1>0. ManagerTypes /\ ClientsHold
  BY DEF ManagersInv
<1>1. IsFiniteSet(ClientsOf(i))
  BY IdsFinite, FS_Subset DEF ClientsOf
<1>2. CASE ~Listed(i)
  <2>1. \A m \in DOMAIN managers : m # 0
    BY <1>0 DEF ManagerTypes
  <2>2. ClientsOf(i) = {}
    BY <1>0, <1>2, <2>1 DEF ClientsHold, ClientsOf, Listed
  <2> QED
    BY <1>0, <2>2, FS_EmptySet DEF ClientsHold
<1>3. CASE managerEntries[i].clients = 0
  BY <1>0, <1>1, <1>3, FS_EmptySet DEF ClientsHold
<1> QED
  BY <1>2, <1>3

LEMMA ManagersFind ==
  ASSUME Managers!ProcessAssumption, ManagersInv, NEW a \in Adapters, Managers!Find(a)
  PROVE  ManagersInv'
<1>0. /\ ManagerTypes /\ UseOrder /\ TableLeads /\ ClientsHold /\ Opener /\ Retiring /\ OnePolicy
      /\ opening \in Openings
  BY DEF ManagersInv, ManagerTypes
<1>1. /\ managerLock = a /\ opening.step = "find" /\ opening.doomed = <<>>
      /\ UNCHANGED <<governors, managers>>
  BY DEF Managers!Find, Managers!At, Managers!AllRetired
<1>2. \A n \in DOMAIN managers : managers[n].state # "closing"
  BY <1>1, NoneRetiring
<1>i. PICK i \in Ids : i = opening.identity
  BY <1>0, <1>1, IdsFinite DEF Opener
<1>m. PICK m : m = managerEntries[i].manager
  OBVIOUS
<1>3. i \in Ids /\ adapter[a].life = "none" /\ (i \in Managers!Present <=> Listed(i))
  BY <1>0, <1>1, IdsFinite DEF Opener, Managers!Present, Managers!None, Listed, Ids
<1>4. CASE /\ ~Listed(i) /\ opening' = [opening EXCEPT !.step = "conflict"]
           /\ UNCHANGED <<managerEntries, used, managerLock, adapter>>
  <2>1. UseOrder' /\ TableLeads' /\ ClientsHold' /\ OnePolicy' /\ adapter' \in [Adapters -> AdapterRecord]
    BY <1>1, <1>4, TablesKept DEF Closes, Answers
  <2>2. opening' \in Openings /\ opening'.step = "conflict" /\ opening'.doomed = <<>> /\ opening'.identity = i
    BY <1>0, <1>1, <1>i, <1>4 DEF Openings
  <2>3. ManagerTypes'
    BY <1>0, <1>1, <1>4, <2>1, <2>2 DEF ManagerTypes
  <2>4. Opener'
    BY <1>0, <1>1, <1>3, <1>4, <2>2, IdsFinite DEF Opener, Listed
  <2>5. Retiring'
    BY <1>1, <1>2 DEF Retiring
  <2> QED
    BY <2>1, <2>3, <2>4, <2>5 DEF ManagersInv
<1>5. CASE /\ Listed(i) /\ managerEntries' = [managerEntries EXCEPT ![i].clients = @ + 1]
           /\ used' = Managers!Touched(i) /\ Managers!Join(a, m)
  <2>1. /\ managerLock' = "nobody" /\ opening' = [step |-> "none", identity |-> 0, doomed |-> <<>>]
        /\ adapter' = [adapter EXCEPT ![a].life = "open", ![a].manager = m]
    BY <1>5 DEF Managers!Join, Managers!Nobody, Managers!NotOpening, Managers!None
  <2>2. /\ m \in DOMAIN managers /\ managers[m].identity = i /\ managers[m].state = "open"
        /\ m \in 0..MaxManagers
    BY <1>0, <1>m, <1>3, <1>5 DEF TableLeads, ManagerTypes
  <2>3. /\ adapter' \in [Adapters -> AdapterRecord]
        /\ adapter'[a].life = "open" /\ adapter'[a].manager = m /\ adapter'[a].calling = adapter[a].calling
        /\ \A b \in Adapters \ {a} : adapter'[b] = adapter[b]
    BY <1>0, <2>1, <2>2 DEF ManagerTypes, AdapterRecord
  <2>4. /\ managerEntries' \in [Ids -> [manager : 0..MaxManagers, clients : Nat]]
        /\ managerEntries'[i].clients = managerEntries[i].clients + 1
        /\ \A j \in Ids : managerEntries'[j].manager = managerEntries[j].manager
        /\ \A j \in Ids \ {i} : managerEntries'[j] = managerEntries[j]
    <3>1. /\ managerEntries \in [Ids -> [manager : 0..MaxManagers, clients : Nat]] /\ i \in Ids
          /\ managerEntries' = [managerEntries EXCEPT ![i].clients = @ + 1]
      BY <1>0, <1>3, <1>5 DEF ManagerTypes
    <3>2. /\ managerEntries[i] \in [manager : 0..MaxManagers, clients : Nat]
          /\ managerEntries[i].clients + 1 \in Nat
      BY <3>1
    <3> DEFINE r == [managerEntries[i] EXCEPT !.clients = @ + 1]
    <3>3. /\ r \in [manager : 0..MaxManagers, clients : Nat]
          /\ r.clients = managerEntries[i].clients + 1 /\ r.manager = managerEntries[i].manager
      BY <3>2
    <3>4. managerEntries' = [managerEntries EXCEPT ![i] = r]
      BY <3>1
    <3> HIDE DEF r
    <3> QED
      BY <3>1, <3>3, <3>4
  <2>5. opening' \in Openings /\ opening'.step = "none" /\ opening'.doomed = <<>>
    BY <2>1 DEF Openings
  <2>6. ManagerTypes'
    BY <1>0, <1>1, <2>1, <2>3, <2>4, <2>5 DEF ManagerTypes
  <2>7. \A j \in Ids : Listed(j)' <=> Listed(j)
    BY <2>4 DEF Listed
  <2>8. UseOrder'
    BY <1>0, <1>3, <1>5, <2>7, OrderAfter DEF UseOrder
  <2>9. TableLeads'
    BY <1>0, <1>1, <2>4, <2>7, ManagersTyped DEF TableLeads
  <2>10. ~adapter[a].calling
    BY <1>0, <1>3 DEF ClientsHold
  <2>11. ClientsOf(i)' = ClientsOf(i) \cup {a} /\ a \notin ClientsOf(i)
         /\ \A j \in Ids \ {i} : ClientsOf(j)' = ClientsOf(j)
    BY <1>1, <1>3, <2>2, <2>3 DEF ClientsOf
  <2>12. \A j \in Ids : managerEntries'[j].clients = Cardinality(ClientsOf(j)')
    <3>1. IsFiniteSet(ClientsOf(i))
      BY IdsFinite, FS_Subset DEF ClientsOf
    <3>2. Cardinality(ClientsOf(i)') = Cardinality(ClientsOf(i)) + 1
      BY <2>11, <3>1, FS_AddElement
    <3> QED
      BY <1>0, <1>3, <2>4, <2>11, <3>2 DEF ClientsHold
  <2>13. \A b \in Adapters : adapter'[b].life = "open" =>
          /\ adapter'[b].manager \in DOMAIN managers'
          /\ managerEntries'[managers'[adapter'[b].manager].identity].manager = adapter'[b].manager
    BY <1>0, <1>1, <1>3, <1>m, <2>2, <2>3, <2>4, ManagersTyped DEF ClientsHold
  <2>14. ClientsHold'
    <3>1. \A b \in Adapters : adapter'[b].calling => adapter'[b].life = "open"
      BY <1>0, <2>3 DEF ClientsHold
    <3>2. \A n \in DOMAIN managers' :
       /\ managers'[n].leases = {b \in Adapters : adapter'[b].calling /\ adapter'[b].manager = n}
       /\ managers'[n].state = "closed" => ~managers'[n].compiling
      BY <1>0, <1>1, <2>3, <2>10 DEF ClientsHold
    <3> QED
      BY <2>12, <2>13, <3>1, <3>2 DEF ClientsHold
  <2>15. OnePolicy'
    BY <1>0, <2>7 DEF OnePolicy, Peers
  <2>16. Opener' /\ Retiring'
    BY <1>1, <1>2, <2>1, <2>5 DEF Opener, Retiring
  <2> QED
    BY <2>6, <2>8, <2>9, <2>14, <2>15, <2>16 DEF ManagersInv
<1> QED
  BY <1>i, <1>m, <1>3, <1>4, <1>5 DEF Managers!Find, Managers!Next_

LEMMA ManagersRetire ==
  ASSUME Managers!ProcessAssumption, ManagersInv, NEW a \in Adapters, Managers!Retire(a)
  PROVE  ManagersInv'
<1>0. /\ ManagerTypes /\ UseOrder /\ TableLeads /\ ClientsHold /\ Opener /\ Retiring /\ OnePolicy
      /\ opening \in Openings
  BY DEF ManagersInv, ManagerTypes
<1> DEFINE i == Head(opening.doomed)
           m == managerEntries[i].manager
<1>1. /\ managerLock = a /\ opening.doomed # <<>> /\ m # 0
      /\ managerEntries' = [managerEntries EXCEPT ![i] = [manager |-> 0, clients |-> 0]]
      /\ used' = Without(used, {i})
      /\ managers' = [managers EXCEPT ![m].state = "closing"]
      /\ UNCHANGED <<governors, managerLock, opening, adapter>>
  BY ManagersWithout DEF Managers!Retire, Managers!None, Managers!Absent
<1>2. opening.doomed \in Seq(Ids) /\ 1 \in DOMAIN opening.doomed /\ i = opening.doomed[1] /\ i \in Ids
  BY <1>0, <1>1 DEF Openings
<1>3. Listed(i) /\ managerEntries[i].clients = 0 /\ ClientsOf(i) = {}
  BY <1>0, <1>1, <1>2, NoClients DEF Opener, Listed
<1>4. /\ m \in DOMAIN managers /\ managers[m].identity = i /\ managers[m].state = "open"
  BY <1>0, <1>2, <1>3 DEF TableLeads
<1>5. /\ m = managerEntries[i].manager
      /\ \A n \in DOMAIN managers : managers[n].state # "closing"
  BY <1>0, <1>2, <1>3 DEF Retiring
<1> HIDE DEF m, i
<1>6. /\ managers' \in Seq(ManagerRecord) /\ Len(managers') = Len(managers)
      /\ DOMAIN managers' = DOMAIN managers
      /\ \A n \in DOMAIN managers :
           /\ managers'[n].identity = managers[n].identity
           /\ managers'[n].governor = managers[n].governor
           /\ managers'[n].leases = managers[n].leases
           /\ managers'[n].compiling = managers[n].compiling
           /\ managers'[n].state = IF n = m THEN "closing" ELSE managers[n].state
  <2>1. managers[m] \in ManagerRecord /\ managers \in Seq(ManagerRecord)
    BY <1>0, <1>4 DEF ManagerTypes
  <2> DEFINE r == [managers[m] EXCEPT !.state = "closing"]
  <2>2. /\ r \in ManagerRecord /\ r.identity = managers[m].identity
        /\ r.governor = managers[m].governor /\ r.leases = managers[m].leases
        /\ r.compiling = managers[m].compiling /\ r.state = "closing"
    BY <2>1 DEF ManagerRecord
  <2>3. managers' = [managers EXCEPT ![m] = r]
    BY <1>1
  <2> HIDE DEF r
  <2>4. /\ managers' \in Seq(ManagerRecord) /\ Len(managers') = Len(managers)
        /\ DOMAIN managers' = DOMAIN managers
        /\ managers'[m] = r /\ \A n \in DOMAIN managers : n # m => managers'[n] = managers[n]
    BY <1>4, <2>1, <2>2, <2>3, ManagerChanged
  <2> QED
    BY <2>2, <2>4
<1>7. /\ managerEntries' \in [Ids -> [manager : 0..MaxManagers, clients : Nat]]
      /\ managerEntries'[i].clients = 0 /\ managerEntries'[i].manager = 0
      /\ \A j \in Ids \ {i} : managerEntries'[j] = managerEntries[j]
  BY <1>0, <1>1, <1>2, IdsFinite DEF ManagerTypes
<1>8. \A j \in Ids : Listed(j)' <=> Listed(j) /\ j # i
  BY <1>7 DEF Listed
<1>9. ManagerTypes'
  BY <1>0, <1>1, <1>6, <1>7 DEF ManagerTypes
<1>10. UseOrder'
  BY <1>0, <1>1, <1>2, <1>8, OrderAfter DEF UseOrder
<1>11. TableLeads'
  <2>1. ASSUME NEW j \in Ids, Listed(j)'
        PROVE  /\ managerEntries'[j].manager \in DOMAIN managers'
               /\ managers'[managerEntries'[j].manager].identity = j
               /\ managers'[managerEntries'[j].manager].state = "open"
               /\ managers'[managerEntries'[j].manager].governor = governors'[j.policy]
    <3>1. Listed(j) /\ j # i /\ managerEntries'[j] = managerEntries[j]
      BY <1>7, <1>8, <2>1
    <3>2. /\ managerEntries[j].manager \in DOMAIN managers
          /\ managers[managerEntries[j].manager].identity = j
          /\ managers[managerEntries[j].manager].state = "open"
          /\ managers[managerEntries[j].manager].governor = governors[j.policy]
      BY <1>0, <3>1 DEF TableLeads
    <3> QED
      BY <1>1, <1>4, <1>6, <3>1, <3>2
  <2>2. ASSUME NEW n \in DOMAIN managers', managers'[n].state = "open"
        PROVE  managerEntries'[managers'[n].identity].manager = n
    <3>1. n \in DOMAIN managers /\ n # m /\ managers[n].state = "open"
          /\ managers'[n].identity = managers[n].identity
      BY <1>6, <2>2
    <3>2. managerEntries[managers[n].identity].manager = n /\ managers[n].identity \in Ids
      BY <1>0, <3>1, ManagersTyped DEF TableLeads
    <3>3. managers[n].identity # i
      BY <3>1, <3>2, <1>5
    <3> QED
      BY <1>7, <3>1, <3>2, <3>3
  <2> QED
    BY <2>1, <2>2 DEF TableLeads
<1>12. ClientsHold'
  <2>1. ASSUME NEW b \in Adapters, adapter[b].life = "open"
        PROVE  /\ adapter[b].manager \in DOMAIN managers
               /\ managers[adapter[b].manager].identity \in Ids \ {i}
               /\ managerEntries[managers[adapter[b].manager].identity].manager = adapter[b].manager
    BY <1>0, <1>3, <2>1, ManagersTyped DEF ClientsHold, ClientsOf
  <2>2. \A j \in Ids : ClientsOf(j)' = ClientsOf(j)
    BY <1>1, <1>6, <2>1 DEF ClientsOf
  <2>3. \A j \in Ids : managerEntries'[j].clients = Cardinality(ClientsOf(j)')
    BY <1>0, <1>2, <1>3, <1>7, <2>2, FS_EmptySet DEF ClientsHold
  <2>4. \A b \in Adapters : adapter'[b].life = "open" =>
          /\ adapter'[b].manager \in DOMAIN managers'
          /\ managerEntries'[managers'[adapter'[b].manager].identity].manager = adapter'[b].manager
    BY <1>1, <1>6, <1>7, <2>1
  <2>5. \A n \in DOMAIN managers' :
       /\ managers'[n].leases = {b \in Adapters : adapter'[b].calling /\ adapter'[b].manager = n}
       /\ managers'[n].state = "closed" => ~managers'[n].compiling
    BY <1>0, <1>1, <1>6 DEF ClientsHold
  <2> QED
    BY <1>0, <1>1, <2>3, <2>4, <2>5 DEF ClientsHold
<1>13. \A p \in Policies : /\ Cardinality(Peers(p)') <= Cardinality(Peers(p))
                           /\ i.policy = p => Cardinality(Peers(p)') < Cardinality(Peers(p))
  <2> SUFFICES ASSUME NEW p \in Policies
               PROVE  /\ Cardinality(Peers(p)') <= Cardinality(Peers(p))
                      /\ i.policy = p => Cardinality(Peers(p)') < Cardinality(Peers(p))
    OBVIOUS
  <2>1. IsFiniteSet(Peers(p)) /\ Peers(p)' = Peers(p) \ {i} /\ (i.policy = p => i \in Peers(p))
    BY <1>2, <1>3, <1>8, IdsFinite, FS_Subset DEF Peers
  <2>2. Cardinality(Peers(p)) \in Nat
    BY <2>1, FS_CardinalityType
  <2>3. i \in Peers(p) => Cardinality(Peers(p) \ {i}) = Cardinality(Peers(p)) - 1
    BY <2>1, FS_RemoveElement
  <2>4. i \notin Peers(p) => Peers(p) \ {i} = Peers(p)
    OBVIOUS
  <2>5. Cardinality(Peers(p)') = Cardinality(Peers(p) \ {i})
    BY <2>1
  <2> HIDE DEF i
  <2>6. /\ Cardinality(Peers(p) \ {i}) <= Cardinality(Peers(p))
        /\ i \in Peers(p) => Cardinality(Peers(p) \ {i}) < Cardinality(Peers(p))
    <3>1. CASE i \in Peers(p)
      BY <2>2, <2>3, <3>1
    <3>2. CASE i \notin Peers(p)
      <4>1. Cardinality(Peers(p) \ {i}) = Cardinality(Peers(p))
        BY <2>4, <3>2
      <4> QED
        BY <2>2, <3>2, <4>1
    <3> QED
      BY <3>1, <3>2
  <2> QED
    BY <2>1, <2>5, <2>6
<1>14. \A p \in Policies : Cardinality(Peers(p)) \in Nat /\ Cardinality(Peers(p)') \in Nat
  <2>1. \A p \in Policies : IsFiniteSet(Peers(p)) /\ IsFiniteSet(Peers(p)')
    BY IdsFinite, FS_Subset DEF Peers
  <2> QED
    BY <2>1, FS_CardinalityType
<1>15. OnePolicy'
  BY <1>0, <1>8, <1>13, <1>14, IdsFinite DEF OnePolicy
<1>16. Retiring'
  BY <1>1, <1>2, <1>5, <1>6, <1>8 DEF Retiring
<1>17. Opener'
  <2>1. opening.identity \in Ids /\ opening.identity.policy \in Policies
    BY <1>0, <1>1, IdsFinite DEF Opener, Ids, Managers!Identities
  <2>2. opening.step = "create" => Cardinality(Peers(opening.identity.policy)') < NamespaceLimit
    <3> SUFFICES ASSUME opening.step = "create"
                 PROVE  Cardinality(Peers(opening.identity.policy)') < NamespaceLimit
      OBVIOUS
    <3>1. i.policy = opening.identity.policy
      BY <1>0, <1>1, <1>2, <1>3 DEF Opener
    <3>2. PICK p \in Policies : p = opening.identity.policy
      BY <2>1
    <3>3. Cardinality(Peers(p)') < Cardinality(Peers(p)) /\ Cardinality(Peers(p)) <= NamespaceLimit
      BY <1>0, <1>13, <3>1, <3>2 DEF OnePolicy
    <3>4. Cardinality(Peers(p)') < NamespaceLimit
      BY <1>14, <3>3, IdsFinite
    <3>5. Peers(opening.identity.policy)' = Peers(p)'
      BY <1>1, <3>2 DEF Peers
    <3> QED
      BY <3>4, <3>5
  <2>3. ~Listed(opening.doomed[1])'
    BY <1>1, <1>2, <1>8
  <2>4. \A n \in DOMAIN opening.doomed : managerEntries'[opening.doomed[n]].clients = 0
    BY <1>0, <1>2, <1>7 DEF Opener, Openings
  <2> QED
    BY <1>0, <1>1, <1>8, <2>1, <2>2, <2>3, <2>4, IdsFinite DEF Opener
<1> QED
  BY <1>9, <1>10, <1>11, <1>12, <1>15, <1>16, <1>17 DEF ManagersInv

LEMMA ManagersRetired ==
  ASSUME Managers!ProcessAssumption, ManagersInv, NEW a \in Adapters, NEW raises \in BOOLEAN,
         Managers!Retired(a, raises)
  PROVE  ManagersInv'
<1>0. /\ ManagerTypes /\ Opener /\ Retiring /\ opening \in Openings
      /\ managers \in Seq(ManagerRecord)
  BY DEF ManagersInv, ManagerTypes
<1>1. /\ managerLock = a /\ UNCHANGED <<managerEntries, used, governors>>
      /\ IF raises THEN Managers!Refuse(a)
         ELSE /\ opening' = [opening EXCEPT !.doomed = Tail(@)]
              /\ UNCHANGED <<managerLock, adapter>>
  BY DEF Managers!Retired
<1>2. PICK m \in DOMAIN managers :
        /\ managers[m].state = "closing" /\ ~managers[m].compiling
        /\ managers' = [managers EXCEPT ![m].state = "closed"]
  BY DEF Managers!Retired
<1>3. Closes
  BY <1>2 DEF Closes
<1>4. \A n \in DOMAIN managers' : managers'[n].state # "closing"
  <2>1. \A n \in DOMAIN managers : managers[n].state = "closing" => n = m
    BY <1>0, <1>2 DEF Retiring
  <2>2. managers[m] \in ManagerRecord
    BY <1>0
  <2>3. DOMAIN managers' = DOMAIN managers /\ \A n \in DOMAIN managers : n # m => managers'[n] = managers[n]
    BY <1>0, <1>2
  <2>4. managers'[m].state = "closed"
    BY <1>0, <1>2, <2>2 DEF ManagerRecord
  <2> QED
    BY <2>1, <2>3, <2>4
<1>5. CASE raises
  BY <1>1, <1>3, <1>4, <1>5, OpeningRefused
<1>6. CASE ~raises
  <2>1. opening' = [opening EXCEPT !.doomed = Tail(@)] /\ UNCHANGED <<managerLock, adapter>>
    BY <1>1, <1>6
  <2>2. /\ UseOrder' /\ TableLeads' /\ ClientsHold' /\ OnePolicy'
        /\ adapter' \in [Adapters -> AdapterRecord]
        /\ managers' \in Seq(ManagerRecord) /\ Len(managers') = Len(managers)
    BY <1>1, <1>3, <2>1, TablesKept DEF Answers
  <2>3. /\ opening.doomed \in Seq(Ids) /\ opening.doomed # <<>> /\ ~Listed(opening.doomed[1])
    BY <1>0, <1>2 DEF Retiring, Openings
  <2> DEFINE d == Tail(opening.doomed)
  <2>4. d \in Seq(Ids) /\ Len(d) = Len(opening.doomed) - 1
        /\ \A n \in DOMAIN d : n + 1 \in DOMAIN opening.doomed /\ d[n] = opening.doomed[n + 1]
    BY <2>3
  <2>5. opening' = [opening EXCEPT !.doomed = d]
    BY <2>1
  <2> HIDE DEF d
  <2>6. opening' \in Openings /\ opening'.step = opening.step /\ opening'.identity = opening.identity
        /\ opening'.doomed = d
    BY <1>0, <2>4, <2>5 DEF Openings
  <2>7. ManagerTypes'
    BY <1>0, <1>1, <2>1, <2>2, <2>6 DEF ManagerTypes
  <2>8. Retiring'
    BY <1>4 DEF Retiring
  <2>9. opening.step # "expire"
    BY <1>0, <2>3 DEF Opener
  <2>10. opening.step = "create" => d = <<>> /\ Cardinality(Peers(opening.identity.policy)) < NamespaceLimit
    BY <1>0, <2>3, <2>4 DEF Opener
  <2>11. \A n \in DOMAIN d : managerEntries[d[n]].clients = 0
    BY <1>0, <2>4 DEF Opener
  <2>12. Opener'
    BY <1>0, <1>1, <2>1, <2>6, <2>9, <2>10, <2>11, IdsFinite DEF Opener, Listed, Peers
  <2> QED
    BY <2>2, <2>7, <2>8, <2>12 DEF ManagersInv
<1> QED
  BY <1>5, <1>6

LEMMA ManagersCreate ==
  ASSUME Managers!ProcessAssumption, ManagersInv, NEW a \in Adapters, Managers!Create(a)
  PROVE  ManagersInv'
<1>0. /\ ManagerTypes /\ UseOrder /\ TableLeads /\ ClientsHold /\ Opener /\ Retiring /\ OnePolicy
      /\ managers \in Seq(ManagerRecord) /\ governors \in [Policies -> 0..MaxManagers]
      /\ managerEntries \in [Ids -> [manager : 0..MaxManagers, clients : Nat]]
      /\ adapter \in [Adapters -> AdapterRecord] /\ MaxManagers \in Nat
  BY IdsFinite DEF ManagersInv, ManagerTypes
<1>1. managerLock = a /\ opening.step = "create" /\ opening.doomed = <<>>
  BY DEF Managers!Create, Managers!At, Managers!AllRetired
<1>i. PICK i \in Ids : i = opening.identity
  BY <1>0, <1>1, IdsFinite DEF Opener
<1>2. /\ adapter[a].life = "none" /\ ~Listed(i) /\ i.policy \in Policies
      /\ \A j \in Ids : Listed(j) => j.namespace # i.namespace
      /\ Cardinality(Peers(i.policy)) < NamespaceLimit
      /\ \A n \in DOMAIN managers : managers[n].state # "closing"
  BY <1>0, <1>1, <1>i, IdsFinite, NoneRetiring DEF Opener, Ids, Managers!Identities
<1>m. PICK m : m = Len(managers) + 1
  OBVIOUS
<1> DEFINE kept == [p \in Policies |-> IF Managers!OfPolicy(p) = {} THEN 0 ELSE governors[p]]
<1>g. PICK g : g = IF kept[i.policy] = 0 THEN m ELSE kept[i.policy]
  OBVIOUS
<1>3. /\ m <= MaxManagers /\ governors' = [kept EXCEPT ![i.policy] = g]
      /\ managers' = Append(managers, [identity |-> i, governor |-> g, state |-> "open",
                                       leases |-> {}, compiling |-> FALSE])
      /\ managerEntries' = [managerEntries EXCEPT ![i] = [manager |-> m, clients |-> 1]]
      /\ used' = Managers!Touched(i)
      /\ managerLock' = "nobody" /\ opening' = [step |-> "none", identity |-> 0, doomed |-> <<>>]
      /\ adapter' = [adapter EXCEPT ![a].life = "open", ![a].manager = m]
  BY <1>i, <1>m, <1>g DEF Managers!Create, Managers!None, Managers!Join, Managers!Nobody, Managers!NotOpening
<1>4. m \in Nat \ {0} /\ m \in 1..MaxManagers /\ m \notin DOMAIN managers /\ DOMAIN managers = 1..(m - 1)
  BY <1>0, <1>m, <1>3
<1>5. \A p \in Policies : Managers!OfPolicy(p) = Peers(p)
  BY DEF Managers!OfPolicy, Managers!Present, Managers!None, Peers, Listed, Ids
<1>6. /\ g \in 1..MaxManagers /\ governors' \in [Policies -> 0..MaxManagers]
      /\ governors'[i.policy] = g
      /\ \A j \in Ids : Listed(j) => governors'[j.policy] = governors[j.policy]
  <2>1. ASSUME NEW j \in Ids, Listed(j)
        PROVE  /\ governors[j.policy] \in 1..MaxManagers /\ j.policy \in Policies
               /\ Managers!OfPolicy(j.policy) # {}
    <3>1. j.policy \in Policies /\ j \in Peers(j.policy)
      BY <2>1 DEF Ids, Managers!Identities, Peers
    <3>2. governors[j.policy] = managers[managerEntries[j].manager].governor
          /\ managerEntries[j].manager \in DOMAIN managers
      BY <1>0, <2>1 DEF TableLeads
    <3>3. managers[managerEntries[j].manager] \in ManagerRecord
      BY <1>0, <3>2, ManagersTyped
    <3>4. Peers(j.policy) # {}
      BY <3>1
    <3> QED
      BY <1>5, <3>1, <3>2, <3>3, <3>4 DEF ManagerRecord
  <2>2. \A p \in Policies : kept[p] \in 0..MaxManagers
    BY <1>0
  <2>3. \A j \in Ids : Listed(j) => kept[j.policy] = governors[j.policy] /\ kept[j.policy] # 0
    BY <2>1, <1>0
  <2>4. kept \in [Policies -> 0..MaxManagers]
    BY <2>2
  <2> HIDE DEF kept
  <2>5. g \in 1..MaxManagers
    BY <1>2, <1>4, <1>g, <2>2
  <2>6. \A j \in Ids : Listed(j) /\ j.policy = i.policy => g = governors[j.policy]
    BY <1>g, <2>3
  <2> QED
    BY <1>0, <1>2, <1>3, <2>1, <2>3, <2>4, <2>5, <2>6
<1>7. PICK r \in ManagerRecord :
        /\ r.identity = i /\ r.governor = g /\ r.state = "open" /\ r.leases = {} /\ r.compiling = FALSE
        /\ managers' = Append(managers, r)
  BY <1>3, <1>6 DEF ManagerRecord
<1>8. /\ managers' \in Seq(ManagerRecord) /\ Len(managers') = m
      /\ DOMAIN managers' = DOMAIN managers \cup {m} /\ managers'[m] = r
      /\ \A n \in DOMAIN managers : managers'[n] = managers[n]
  BY <1>0, <1>4, <1>7, <1>m
<1>9. /\ managerEntries' \in [Ids -> [manager : 0..MaxManagers, clients : Nat]]
      /\ managerEntries'[i].manager = m /\ managerEntries'[i].clients = 1
      /\ \A j \in Ids \ {i} : managerEntries'[j] = managerEntries[j]
  BY <1>0, <1>3, <1>4
<1>10. /\ adapter' \in [Adapters -> AdapterRecord]
       /\ adapter'[a].life = "open" /\ adapter'[a].manager = m /\ adapter'[a].calling = adapter[a].calling
       /\ \A b \in Adapters \ {a} : adapter'[b] = adapter[b]
  <2> DEFINE q == [adapter[a] EXCEPT !.life = "open", !.manager = m]
  <2>1. adapter[a] \in AdapterRecord /\ m \in 0..MaxManagers
    BY <1>0, <1>4
  <2>2. q \in AdapterRecord /\ q.life = "open" /\ q.manager = m /\ q.calling = adapter[a].calling
    BY <2>1 DEF AdapterRecord
  <2>3. adapter' = [adapter EXCEPT ![a] = q]
    BY <1>0, <1>3 DEF AdapterRecord
  <2> HIDE DEF q
  <2> QED
    BY <1>0, <2>2, <2>3
<1>11. opening' \in Openings /\ opening'.step = "none" /\ opening'.doomed = <<>>
  BY <1>3 DEF Openings
<1>12. ManagerTypes'
  BY <1>0, <1>3, <1>6, <1>8, <1>9, <1>10, <1>11 DEF ManagerTypes
<1>13. \A j \in Ids : Listed(j)' <=> j = i \/ Listed(j)
  BY <1>4, <1>9 DEF Listed
<1>14. UseOrder'
  BY <1>0, <1>3, <1>13, OrderAfter DEF UseOrder
<1>15. TableLeads'
  <2>1. ASSUME NEW j \in Ids, Listed(j)'
        PROVE  /\ managerEntries'[j].manager \in DOMAIN managers'
               /\ managers'[managerEntries'[j].manager].identity = j
               /\ managers'[managerEntries'[j].manager].state = "open"
               /\ managers'[managerEntries'[j].manager].governor = governors'[j.policy]
    <3>1. CASE j = i
      BY <1>6, <1>7, <1>8, <1>9, <3>1
    <3>2. CASE j # i
      <4>1. Listed(j) /\ managerEntries'[j] = managerEntries[j]
        BY <1>9, <1>13, <2>1, <3>2
      <4>2. /\ managerEntries[j].manager \in DOMAIN managers
            /\ managers[managerEntries[j].manager].identity = j
            /\ managers[managerEntries[j].manager].state = "open"
            /\ managers[managerEntries[j].manager].governor = governors[j.policy]
        BY <1>0, <4>1 DEF TableLeads
      <4> QED
        BY <1>6, <1>8, <4>1, <4>2
    <3> QED
      BY <3>1, <3>2
  <2>2. ASSUME NEW n \in DOMAIN managers', managers'[n].state = "open"
        PROVE  managerEntries'[managers'[n].identity].manager = n
    <3>1. CASE n = m
      BY <1>7, <1>8, <1>9, <3>1
    <3>2. CASE n # m
      <4>1. n \in DOMAIN managers /\ managers'[n] = managers[n]
        BY <1>8, <2>2, <3>2
      <4>2. managerEntries[managers[n].identity].manager = n /\ managers[n].identity \in Ids /\ n # 0
        BY <1>0, <2>2, <4>1, ManagersTyped DEF TableLeads
      <4>3. managers[n].identity # i
        BY <1>2, <4>2 DEF Listed
      <4> QED
        BY <1>9, <4>1, <4>2, <4>3
    <3> QED
      BY <3>1, <3>2
  <2> QED
    BY <2>1, <2>2 DEF TableLeads
<1>16. ClientsOf(i) = {}
  BY <1>2, NoClients
<1>17. ASSUME NEW b \in Adapters, adapter[b].life = "open"
       PROVE  /\ b # a /\ adapter[b].manager \in DOMAIN managers /\ adapter[b].manager # m
              /\ managers[adapter[b].manager].identity \in Ids \ {i}
              /\ managerEntries[managers[adapter[b].manager].identity].manager = adapter[b].manager
  BY <1>0, <1>2, <1>4, <1>16, <1>17, ManagersTyped DEF ClientsHold, ClientsOf
<1>18. ClientsOf(i)' = {a} /\ \A j \in Ids \ {i} : ClientsOf(j)' = ClientsOf(j)
  BY <1>2, <1>7, <1>8, <1>10, <1>17 DEF ClientsOf
<1>19. ClientsHold'
  <2>1. ASSUME NEW j \in Ids PROVE managerEntries'[j].clients = Cardinality(ClientsOf(j)')
    <3>1. CASE j = i
      BY <1>9, <1>18, <3>1, FS_Singleton
    <3>2. CASE j # i
      BY <1>0, <1>9, <1>18, <3>2 DEF ClientsHold
    <3> QED
      BY <3>1, <3>2
  <2>2. \A b \in Adapters : adapter'[b].life = "open" =>
          /\ adapter'[b].manager \in DOMAIN managers'
          /\ managerEntries'[managers'[adapter'[b].manager].identity].manager = adapter'[b].manager
    BY <1>7, <1>8, <1>9, <1>10, <1>17
  <2>3. ~adapter[a].calling /\ \A b \in Adapters : adapter[b].calling => adapter[b].life = "open"
    BY <1>0, <1>2 DEF ClientsHold
  <2>4. \A b \in Adapters : adapter'[b].calling => adapter'[b].life = "open"
    BY <1>10, <2>3
  <2>5. {b \in Adapters : adapter'[b].calling /\ adapter'[b].manager = m} = {}
    BY <1>10, <1>17, <2>3
  <2>6. \A n \in DOMAIN managers :
          {b \in Adapters : adapter'[b].calling /\ adapter'[b].manager = n}
            = {b \in Adapters : adapter[b].calling /\ adapter[b].manager = n}
    BY <1>10, <2>3
  <2>7. \A n \in DOMAIN managers' :
       /\ managers'[n].leases = {b \in Adapters : adapter'[b].calling /\ adapter'[b].manager = n}
       /\ managers'[n].state = "closed" => ~managers'[n].compiling
    BY <1>0, <1>7, <1>8, <2>5, <2>6 DEF ClientsHold
  <2> QED
    BY <2>1, <2>2, <2>4, <2>7 DEF ClientsHold
<1>20. OnePolicy'
  <2>1. \A j, k \in Ids : Listed(j)' /\ Listed(k)' /\ j.namespace = k.namespace => j = k
    BY <1>0, <1>2, <1>13 DEF OnePolicy
  <2>2. ASSUME NEW p \in Policies PROVE Cardinality(Peers(p)') <= NamespaceLimit
    <3>1. CASE p = i.policy
      <4>1. IsFiniteSet(Peers(p)) /\ Peers(p)' = Peers(p) \cup {i} /\ i \notin Peers(p)
        BY <1>2, <1>13, <3>1, IdsFinite, FS_Subset DEF Peers
      <4>2. Cardinality(Peers(p)') = Cardinality(Peers(p)) + 1 /\ Cardinality(Peers(p)) \in Nat
        BY <4>1, FS_AddElement, FS_CardinalityType
      <4> QED
        BY <1>2, <3>1, <4>2, IdsFinite
    <3>2. CASE p # i.policy
      <4>1. Peers(p)' = Peers(p)
        BY <1>13, <3>2 DEF Peers
      <4> QED
        BY <1>0, <4>1 DEF OnePolicy
    <3> QED
      BY <3>1, <3>2
  <2> QED
    BY <2>1, <2>2 DEF OnePolicy
<1>21. Opener'
  BY <1>3, <1>11 DEF Opener
<1>22. Retiring'
  BY <1>2, <1>7, <1>8 DEF Retiring
<1> QED
  BY <1>12, <1>14, <1>15, <1>19, <1>20, <1>21, <1>22 DEF ManagersInv

LEMMA ManagersRelease ==
  ASSUME Managers!ProcessAssumption, ManagersInv, NEW a \in Adapters, Managers!Release(a)
  PROVE  ManagersInv'
<1>0. /\ ManagerTypes /\ UseOrder /\ TableLeads /\ ClientsHold /\ Opener /\ Retiring /\ OnePolicy
      /\ managerEntries \in [Ids -> [manager : 0..MaxManagers, clients : Nat]]
      /\ adapter \in [Adapters -> AdapterRecord] /\ MaxManagers \in Nat
  BY IdsFinite DEF ManagersInv, ManagerTypes
<1>1. /\ managerLock = "nobody" /\ adapter[a].life = "open" /\ ~adapter[a].calling
      /\ adapter' = [adapter EXCEPT ![a].life = "released"]
      /\ UNCHANGED <<governors, managers, managerLock, opening>>
  BY DEF Managers!Release, Managers!ReleaseClient, Managers!Nobody
<1>m. PICK m : m = adapter[a].manager
  OBVIOUS
<1>2. m \in DOMAIN managers /\ managerEntries[managers[m].identity].manager = m
  BY <1>0, <1>1, <1>m DEF ClientsHold
<1>i. PICK i \in Ids : i = managers[m].identity
  BY <1>0, <1>2, ManagersTyped
<1>3. m # 0 /\ Listed(i) /\ a \in ClientsOf(i)
  BY <1>0, <1>1, <1>2, <1>i, <1>m, ManagersTyped DEF Listed, ClientsOf
<1>4. /\ IsFiniteSet(ClientsOf(i)) /\ Cardinality(ClientsOf(i)) \in Nat \ {0}
      /\ Cardinality(ClientsOf(i) \ {a}) = Cardinality(ClientsOf(i)) - 1
  <2>1. IsFiniteSet(ClientsOf(i))
    BY IdsFinite, FS_Subset DEF ClientsOf
  <2> QED
    BY <1>3, <2>1, FS_EmptySet, FS_CardinalityType, FS_RemoveElement
<1>5. managerEntries[i].clients = Cardinality(ClientsOf(i))
  BY <1>0 DEF ClientsHold
<1>6. /\ managerEntries' = [managerEntries EXCEPT ![i].clients = @ - 1]
      /\ used' = Managers!Touched(i)
  <2>1. managerEntries[i].clients > 0
    BY <1>4, <1>5
  <2>2. managers[adapter[a].manager].identity = i
    BY <1>i, <1>m
  <2>3. IF managerEntries[i].clients > 0
        THEN managerEntries' = [managerEntries EXCEPT ![i].clients = @ - 1] /\ used' = Managers!Touched(i)
        ELSE UNCHANGED <<managerEntries, used>>
    BY <2>2 DEF Managers!Release, Managers!ReleaseClient
  <2> QED
    BY <2>1, <2>3
<1>7. /\ managerEntries' \in [Ids -> [manager : 0..MaxManagers, clients : Nat]]
      /\ managerEntries'[i].clients = managerEntries[i].clients - 1
      /\ managerEntries'[i].manager = managerEntries[i].manager
      /\ \A j \in Ids \ {i} : managerEntries'[j] = managerEntries[j]
  <2> DEFINE r == [managerEntries[i] EXCEPT !.clients = @ - 1]
  <2>1. managerEntries[i] \in [manager : 0..MaxManagers, clients : Nat]
        /\ managerEntries[i].clients \in Nat \ {0}
    BY <1>0, <1>4, <1>5
  <2>2. /\ r \in [manager : 0..MaxManagers, clients : Nat]
        /\ r.clients = managerEntries[i].clients - 1 /\ r.manager = managerEntries[i].manager
    BY <2>1
  <2>3. managerEntries' = [managerEntries EXCEPT ![i] = r]
    BY <1>6
  <2> HIDE DEF r
  <2> QED
    BY <1>0, <2>2, <2>3
<1>8. /\ adapter' \in [Adapters -> AdapterRecord]
      /\ adapter'[a].life = "released" /\ adapter'[a].manager = m /\ ~adapter'[a].calling
      /\ \A b \in Adapters \ {a} : adapter'[b] = adapter[b]
  <2> DEFINE q == [adapter[a] EXCEPT !.life = "released"]
  <2>1. adapter[a] \in AdapterRecord
    BY <1>0
  <2>2. q \in AdapterRecord /\ q.life = "released" /\ q.manager = adapter[a].manager
        /\ q.calling = adapter[a].calling
    BY <2>1 DEF AdapterRecord
  <2>3. adapter' = [adapter EXCEPT ![a] = q]
    BY <1>1
  <2> HIDE DEF q
  <2> QED
    BY <1>0, <1>1, <1>m, <2>2, <2>3
<1>9. ManagerTypes'
  BY <1>0, <1>1, <1>7, <1>8 DEF ManagerTypes
<1>10. \A j \in Ids : /\ managerEntries'[j].manager = managerEntries[j].manager
                      /\ Listed(j)' <=> Listed(j)
  BY <1>7 DEF Listed
<1>11. UseOrder'
  BY <1>0, <1>3, <1>6, <1>10, OrderAfter DEF UseOrder
<1>12. TableLeads'
  BY <1>0, <1>1, <1>10, ManagersTyped DEF TableLeads
<1>13. ClientsOf(i)' = ClientsOf(i) \ {a} /\ \A j \in Ids \ {i} : ClientsOf(j)' = ClientsOf(j)
  BY <1>1, <1>8, <1>i, <1>m DEF ClientsOf
<1>14. ClientsHold'
  <2>1. ASSUME NEW j \in Ids PROVE managerEntries'[j].clients = Cardinality(ClientsOf(j)')
    <3>1. CASE j = i
      BY <1>4, <1>5, <1>7, <1>13, <3>1
    <3>2. CASE j # i
      BY <1>0, <1>7, <1>13, <3>2 DEF ClientsHold
    <3> QED
      BY <3>1, <3>2
  <2>2. \A b \in Adapters : adapter'[b].life = "open" => b # a /\ adapter[b].life = "open" /\ adapter'[b] = adapter[b]
    BY <1>8
  <2>3. \A b \in Adapters : adapter'[b].life = "open" =>
          /\ adapter'[b].manager \in DOMAIN managers'
          /\ managerEntries'[managers'[adapter'[b].manager].identity].manager = adapter'[b].manager
    BY <1>0, <1>1, <1>10, <2>2, ManagersTyped DEF ClientsHold
  <2>4. \A b \in Adapters : adapter'[b].calling => adapter'[b].life = "open"
    BY <1>0, <1>8 DEF ClientsHold
  <2>5. \A n \in DOMAIN managers :
          {b \in Adapters : adapter'[b].calling /\ adapter'[b].manager = n}
            = {b \in Adapters : adapter[b].calling /\ adapter[b].manager = n}
    BY <1>1, <1>8
  <2>6. \A n \in DOMAIN managers' :
       /\ managers'[n].leases = {b \in Adapters : adapter'[b].calling /\ adapter'[b].manager = n}
       /\ managers'[n].state = "closed" => ~managers'[n].compiling
    BY <1>0, <1>1, <2>5 DEF ClientsHold
  <2> QED
    BY <2>1, <2>3, <2>4, <2>6 DEF ClientsHold
<1>15. OnePolicy'
  BY <1>0, <1>10 DEF OnePolicy, Peers
<1>16. Opener' /\ Retiring'
  <2>1. opening.doomed = <<>>
    BY <1>0, <1>1 DEF Opener
  <2>2. opening'.doomed = <<>> /\ opening' = opening /\ managerLock' = "nobody"
    BY <1>1, <2>1
  <2>3. \A n \in DOMAIN managers : managers[n].state # "closing"
    BY <2>1, NoneRetiring
  <2>4. Retiring'
    BY <1>1, <2>3 DEF Retiring
  <2>5. opening.step = "none"
    BY <1>0, <1>1 DEF Opener
  <2>6. Opener'
    BY <2>2, <2>5 DEF Opener
  <2> QED
    BY <2>4, <2>6
<1> QED
  BY <1>9, <1>11, <1>12, <1>14, <1>15, <1>16 DEF ManagersInv

LEMMA ManagersCollect ==
  ASSUME Managers!ProcessAssumption, ManagersInv, NEW a \in Adapters, Managers!Collect(a)
  PROVE  ManagersInv'
<1>0. ManagerTypes /\ Opener /\ Retiring /\ opening \in Openings
  BY DEF ManagersInv, ManagerTypes
<1>1. /\ opening' = [opening EXCEPT !.step = "stuck"] /\ managerLock # "nobody"
      /\ UNCHANGED <<managerEntries, used, governors, managers, managerLock, adapter>>
  BY DEF Managers!Collect, Managers!Next_, Managers!Nobody
<1>2. UseOrder' /\ TableLeads' /\ ClientsHold' /\ OnePolicy'
  BY <1>1, TablesKept DEF Closes, Answers
<1>3. opening' \in Openings /\ opening'.step = "stuck" /\ opening'.doomed = opening.doomed
      /\ opening'.identity = opening.identity
  BY <1>0, <1>1 DEF Openings
<1>4. ManagerTypes'
  BY <1>0, <1>1, <1>3 DEF ManagerTypes
<1>5. Opener'
  BY <1>0, <1>1, <1>3, IdsFinite DEF Opener
<1>6. Retiring'
  BY <1>0, <1>1, <1>3 DEF Retiring, Listed
<1> QED
  BY <1>2, <1>4, <1>5, <1>6 DEF ManagersInv

(* Calls and compilations go on whoever has the lock: they only change what a  *)
(* manager is busy with.                                                       *)
LEMMA BusyKept ==
  ASSUME Managers!ProcessAssumption, ManagersInv,
         UNCHANGED <<managerEntries, used, governors, managerLock, opening>>,
         NEW m \in DOMAIN managers, NEW r \in ManagerRecord, managers' = [managers EXCEPT ![m] = r],
         r.identity = managers[m].identity, r.governor = managers[m].governor, r.state = managers[m].state,
         r.state = "closed" => ~r.compiling,
         adapter' \in [Adapters -> AdapterRecord],
         \A b \in Adapters : adapter'[b].life = adapter[b].life /\ adapter'[b].manager = adapter[b].manager,
         \A b \in Adapters : adapter'[b].calling => adapter'[b].life = "open",
         \A n \in DOMAIN managers :
           managers'[n].leases = {b \in Adapters : adapter'[b].calling /\ adapter'[b].manager = n}
  PROVE  ManagersInv'
<1>0. /\ ManagerTypes /\ UseOrder /\ TableLeads /\ ClientsHold /\ Opener /\ Retiring /\ OnePolicy
      /\ managers \in Seq(ManagerRecord)
  BY DEF ManagersInv, ManagerTypes
<1>1. /\ managers' \in Seq(ManagerRecord) /\ Len(managers') = Len(managers)
      /\ DOMAIN managers' = DOMAIN managers
      /\ managers'[m] = r /\ \A n \in DOMAIN managers : n # m => managers'[n] = managers[n]
  BY <1>0, ManagerChanged
<1>2. \A n \in DOMAIN managers :
        /\ managers'[n].identity = managers[n].identity /\ managers'[n].governor = managers[n].governor
        /\ managers'[n].state = managers[n].state
        /\ managers'[n].state = "closed" => ~managers'[n].compiling
  BY <1>0, <1>1 DEF ClientsHold
<1>3. ManagerTypes'
  BY <1>0, <1>1 DEF ManagerTypes
<1>4. UseOrder' /\ OnePolicy'
  BY <1>0 DEF UseOrder, OnePolicy, Listed, Peers
<1>5. TableLeads'
  BY <1>0, <1>1, <1>2 DEF TableLeads, Listed
<1>6. ClientsHold'
  <2>1. \A b \in Adapters : adapter[b].life = "open" => adapter[b].manager \in DOMAIN managers
    BY <1>0 DEF ClientsHold
  <2>2. \A j \in Ids : ClientsOf(j)' = ClientsOf(j)
    BY <1>1, <1>2, <2>1 DEF ClientsOf
  <2>3. \A j \in Ids : managerEntries'[j].clients = Cardinality(ClientsOf(j)')
    BY <1>0, <2>2 DEF ClientsHold
  <2>4. \A b \in Adapters : adapter'[b].life = "open" =>
          /\ adapter'[b].manager \in DOMAIN managers'
          /\ managerEntries'[managers'[adapter'[b].manager].identity].manager = adapter'[b].manager
    BY <1>0, <1>1, <1>2 DEF ClientsHold
  <2>5. \A n \in DOMAIN managers' :
       /\ managers'[n].leases = {b \in Adapters : adapter'[b].calling /\ adapter'[b].manager = n}
       /\ managers'[n].state = "closed" => ~managers'[n].compiling
    BY <1>1, <1>2
  <2> QED
    BY <2>3, <2>4, <2>5 DEF ClientsHold
<1>7. Opener'
  <2>1. managerLock # "nobody" => managerLock \in Adapters
    BY <1>0 DEF ManagerTypes
  <2>2. \A p : Peers(p)' = Peers(p)
    BY DEF Peers, Listed
  <2> QED
    BY <1>0, <2>1, <2>2 DEF Opener, Listed
<1>8. Retiring'
  BY <1>0, <1>1, <1>2 DEF Retiring, Listed
<1> QED
  BY <1>3, <1>4, <1>5, <1>6, <1>7, <1>8 DEF ManagersInv

LEMMA ManagersBusy ==
  ASSUME Managers!ProcessAssumption, ManagersInv, NEW a \in Adapters,
         Managers!Call(a) \/ Managers!Return(a) \/ Managers!Compile(a)
  PROVE  ManagersInv'
<1>0. /\ ManagerTypes /\ TableLeads /\ ClientsHold
      /\ adapter \in [Adapters -> AdapterRecord] /\ managers \in Seq(ManagerRecord)
  BY DEF ManagersInv, ManagerTypes
<1>m. PICK m : m = adapter[a].manager
  OBVIOUS
<1>1. adapter[a].life = "open"
  BY <1>0 DEF ClientsHold, Managers!Call, Managers!Return, Managers!Compile
<1>2. m \in DOMAIN managers /\ managers[m] \in ManagerRecord /\ managers[m].state = "open"
  <2>1. /\ m \in DOMAIN managers /\ managerEntries[managers[m].identity].manager = m
    BY <1>0, <1>1, <1>m DEF ClientsHold
  <2>2. managers[m] \in ManagerRecord /\ managers[m].identity \in Ids /\ m # 0
    BY <1>0, <2>1, ManagersTyped
  <2> QED
    BY <1>0, <2>1, <2>2 DEF TableLeads, Listed
<1>3. /\ adapter[a] \in AdapterRecord
      /\ \A b \in Adapters : adapter[b].calling => adapter[b].life = "open"
      /\ \A n \in DOMAIN managers :
           managers[n].leases = {b \in Adapters : adapter[b].calling /\ adapter[b].manager = n}
  BY <1>0 DEF ClientsHold
<1>4. ASSUME NEW on \in BOOLEAN, NEW L \in SUBSET Adapters,
             L = IF on THEN managers[m].leases \cup {a} ELSE managers[m].leases \ {a},
             UNCHANGED <<managerEntries, used, governors, managerLock, opening>>,
             adapter' = [adapter EXCEPT ![a].calling = on],
             managers' = [managers EXCEPT ![m].leases = L]
      PROVE  ManagersInv'
  <2> DEFINE q == [adapter[a] EXCEPT !.calling = on]
             r == [managers[m] EXCEPT !.leases = L]
  <2>1. q \in AdapterRecord /\ q.life = adapter[a].life /\ q.manager = m /\ q.calling = on
    BY <1>3, <1>m DEF AdapterRecord
  <2>2. /\ r \in ManagerRecord /\ r.identity = managers[m].identity /\ r.governor = managers[m].governor
        /\ r.state = managers[m].state /\ r.leases = L /\ r.state # "closed"
    BY <1>2, <1>4 DEF ManagerRecord
  <2>3. adapter' = [adapter EXCEPT ![a] = q] /\ managers' = [managers EXCEPT ![m] = r]
    BY <1>4
  <2> HIDE DEF q, r
  <2>4. /\ adapter' \in [Adapters -> AdapterRecord] /\ adapter'[a] = q
        /\ \A b \in Adapters \ {a} : adapter'[b] = adapter[b]
    BY <1>0, <2>1, <2>3
  <2>5. managers'[m] = r /\ \A n \in DOMAIN managers : n # m => managers'[n] = managers[n]
    BY <1>0, <1>2, <2>2, <2>3, ManagerChanged
  <2>6. \A b \in Adapters : adapter'[b].life = adapter[b].life /\ adapter'[b].manager = adapter[b].manager
    BY <1>m, <2>1, <2>4
  <2>7. \A b \in Adapters : adapter'[b].calling => adapter'[b].life = "open"
    BY <1>1, <1>3, <2>4, <2>6
  <2>8. ASSUME NEW n \in DOMAIN managers
        PROVE  managers'[n].leases = {b \in Adapters : adapter'[b].calling /\ adapter'[b].manager = n}
    <3>1. CASE n = m
      <4>1. managers'[n].leases = L /\ managers[n].leases
              = {b \in Adapters : adapter[b].calling /\ adapter[b].manager = n}
        BY <1>2, <1>3, <2>2, <2>5, <3>1
      <4>2. CASE on
        <5>1. L = managers[n].leases \cup {a}
          BY <1>4, <3>1, <4>2
        <5>2. adapter'[a].calling /\ adapter'[a].manager = n
          BY <2>1, <2>4, <3>1, <4>2
        <5> QED
          BY <2>4, <4>1, <5>1, <5>2
      <4>3. CASE ~on
        BY <1>4, <2>1, <2>4, <3>1, <4>1, <4>3
      <4> QED
        BY <4>2, <4>3
    <3>2. CASE n # m
      BY <1>3, <1>m, <2>1, <2>4, <2>5, <3>2
    <3> QED
      BY <3>1, <3>2
  <2> QED
    BY <1>2, <1>4, <2>2, <2>3, <2>4, <2>6, <2>7, <2>8, BusyKept
<1>5. CASE Managers!Call(a)
  <2>1. managers[m].leases \cup {a} \in SUBSET Adapters
    BY <1>3, <1>2
  <2> QED
    BY <1>4, <1>5, <1>m, <2>1 DEF Managers!Call
<1>6. CASE Managers!Return(a)
  <2>1. managers[m].leases \ {a} \in SUBSET Adapters
    BY <1>3, <1>2
  <2> QED
    BY <1>4, <1>6, <1>m, <2>1 DEF Managers!Return
<1>7. CASE Managers!Compile(a)
  <2> DEFINE r == [managers[m] EXCEPT !.compiling = TRUE]
  <2>1. /\ managers' = [managers EXCEPT ![m] = r]
        /\ UNCHANGED <<managerEntries, used, governors, managerLock, opening, adapter>>
    BY <1>7, <1>m DEF Managers!Compile
  <2>2. /\ r \in ManagerRecord /\ r.identity = managers[m].identity /\ r.governor = managers[m].governor
        /\ r.state = managers[m].state /\ r.leases = managers[m].leases /\ r.state # "closed"
    BY <1>2 DEF ManagerRecord
  <2> HIDE DEF r
  <2>3. managers'[m] = r /\ \A n \in DOMAIN managers : n # m => managers'[n] = managers[n]
    BY <1>0, <1>2, <2>1, <2>2, ManagerChanged
  <2>4. \A n \in DOMAIN managers :
          managers'[n].leases = {b \in Adapters : adapter'[b].calling /\ adapter'[b].manager = n}
    BY <1>3, <2>1, <2>2, <2>3
  <2> QED
    BY <1>0, <1>2, <1>3, <2>1, <2>2, <2>4, BusyKept
<1> QED
  BY <1>5, <1>6, <1>7

LEMMA ManagersCompiled ==
  ASSUME Managers!ProcessAssumption, ManagersInv, NEW m \in DOMAIN managers, Managers!Compiled(m)
  PROVE  ManagersInv'
<1>0. /\ ClientsHold /\ adapter \in [Adapters -> AdapterRecord] /\ managers \in Seq(ManagerRecord)
      /\ managers[m] \in ManagerRecord
  BY DEF ManagersInv, ManagerTypes
<1> DEFINE r == [managers[m] EXCEPT !.compiling = FALSE]
<1>1. /\ managers' = [managers EXCEPT ![m] = r]
      /\ UNCHANGED <<managerEntries, used, governors, managerLock, opening, adapter>>
  BY DEF Managers!Compiled
<1>2. /\ r \in ManagerRecord /\ r.identity = managers[m].identity /\ r.governor = managers[m].governor
      /\ r.state = managers[m].state /\ r.leases = managers[m].leases /\ ~r.compiling
  BY <1>0 DEF ManagerRecord
<1> HIDE DEF r
<1>3. managers'[m] = r /\ \A n \in DOMAIN managers : n # m => managers'[n] = managers[n]
  BY <1>0, <1>1, <1>2, ManagerChanged
<1>4. \A n \in DOMAIN managers :
        managers'[n].leases = {b \in Adapters : adapter'[b].calling /\ adapter'[b].manager = n}
  BY <1>0, <1>1, <1>2, <1>3 DEF ClientsHold
<1>5. /\ \A b \in Adapters : adapter'[b].life = adapter[b].life /\ adapter'[b].manager = adapter[b].manager
      /\ \A b \in Adapters : adapter'[b].calling => adapter'[b].life = "open"
  BY <1>0, <1>1 DEF ClientsHold
<1> QED
  BY <1>0, <1>1, <1>2, <1>4, <1>5, BusyKept

LEMMA ManagersNext ==
  ASSUME Managers!ProcessAssumption, ManagersInv, Managers!Next \/ UNCHANGED managersVars
  PROVE  ManagersInv'
<1>1. ASSUME NEW a \in Adapters, Managers!Opening(a) PROVE ManagersInv'
  BY <1>1, ManagersExpire, ManagersRetire, ManagersRetired, ManagersFind, ManagersConflict,
     ManagersLimit, ManagersCreate DEF Managers!Opening
<1>2. CASE Managers!Next
  BY <1>1, <1>2, ManagersOpen, ManagersRelease, ManagersCollect, ManagersBusy, ManagersCompiled
     DEF Managers!Next, Ids
<1>3. CASE UNCHANGED managersVars
  BY <1>3 DEF managersVars, ManagersInv, ManagerTypes, UseOrder, TableLeads, ClientsHold, ClientsOf,
              Opener, Retiring, OnePolicy, Peers, Listed
<1> QED
  BY <1>2, <1>3

(* What MCServices says of the table.                                          *)
LEMMA ManagersFacts ==
  ASSUME Managers!ProcessAssumption, ManagersInv
  PROVE  /\ Managers!TypeOK /\ Managers!ClientsKeepTheirManager /\ Managers!NoPolicyDrift
         /\ Managers!OneGovernor /\ Managers!NotReclaimedInUse
<1>0. /\ ManagerTypes /\ UseOrder /\ TableLeads /\ ClientsHold /\ Opener /\ Retiring /\ OnePolicy
      /\ adapter \in [Adapters -> AdapterRecord] /\ managers \in Seq(ManagerRecord)
  BY DEF ManagersInv, ManagerTypes
<1>1. Managers!Present = {i \in Ids : Listed(i)}
  BY DEF Managers!Present, Managers!None, Listed, Ids
<1>2. Range(used) = Managers!Present /\ Len(used) = Cardinality(Managers!Present)
  <2>1. used \in Seq(Ids) /\ Distinct(used)
    BY <1>0 DEF UseOrder
  <2>2. \A i \in Range(used) : i \in Ids
    BY <2>1 DEF Range
  <2>3. Range(used) = Managers!Present
    BY <1>0, <1>1, <2>2 DEF UseOrder
  <2>4. Len(used) = Cardinality(Range(used))
    BY <2>1, DistinctLength
  <2> QED
    BY <2>3, <2>4
<1>3. \A i \in Ids : managerEntries[i].clients \in 0..Cardinality(Adapters)
  <2> SUFFICES ASSUME NEW i \in Ids PROVE managerEntries[i].clients \in 0..Cardinality(Adapters)
    OBVIOUS
  <2>1. ClientsOf(i) \subseteq Adapters /\ IsFiniteSet(Adapters)
    BY IdsFinite DEF ClientsOf
  <2>2. /\ IsFiniteSet(ClientsOf(i)) /\ Cardinality(ClientsOf(i)) <= Cardinality(Adapters)
    BY <2>1, FS_Subset
  <2>3. Cardinality(ClientsOf(i)) \in Nat /\ Cardinality(Adapters) \in Nat
    BY <2>1, <2>2, FS_CardinalityType
  <2>4. managerEntries[i].clients = Cardinality(ClientsOf(i))
    BY <1>0 DEF ClientsHold
  <2> QED
    BY <2>2, <2>3, <2>4
<1>4. Managers!TypeOK
  <2>1. \A i \in Ids : managerEntries[i] \in [manager : 0..MaxManagers, clients : 0..Cardinality(Adapters)]
    BY <1>0, <1>3 DEF ManagerTypes
  <2>2. managerEntries \in [Ids -> [manager : 0..MaxManagers, clients : 0..Cardinality(Adapters)]]
    BY <1>0, <2>1 DEF ManagerTypes
  <2>3. \A m \in DOMAIN managers : managers[m] \in ManagerRecord
    BY <1>0
  <2>4. Managers!Cardinality(Adapters) = Cardinality(Adapters)
        /\ Managers!Cardinality(Managers!Present) = Cardinality(Managers!Present)
        /\ Managers!Range(used) = Range(used)
    BY ManagersCount, ManagersRange
  <2>5. opening.step \in {"none", "expire", "find", "conflict", "limit", "create", "stuck"}
        /\ governors \in [Policies -> 0..MaxManagers] /\ managerLock \in Adapters \cup {"nobody"}
    BY <1>0 DEF ManagerTypes, Openings
  <2> QED
    BY <1>0, <1>2, <2>2, <2>3, <2>4, <2>5 DEF Managers!TypeOK, Managers!Nobody, Ids, ManagerRecord, AdapterRecord
<1>5. Managers!ClientsKeepTheirManager
  <2>1. \A i \in Ids : {a \in Managers!OpenAdapters : Managers!IdentityOf(a) = i} = ClientsOf(i)
    BY DEF Managers!OpenAdapters, Managers!IdentityOf, ClientsOf
  <2>2. \A a \in Adapters : adapter[a].life = "open" =>
          /\ managerEntries[managers[adapter[a].manager].identity].manager = adapter[a].manager
          /\ managers[adapter[a].manager].state = "open"
    <3> SUFFICES ASSUME NEW a \in Adapters, adapter[a].life = "open"
                 PROVE  /\ managerEntries[managers[adapter[a].manager].identity].manager = adapter[a].manager
                        /\ managers[adapter[a].manager].state = "open"
      OBVIOUS
    <3>1. /\ adapter[a].manager \in DOMAIN managers
          /\ managerEntries[managers[adapter[a].manager].identity].manager = adapter[a].manager
      BY <1>0 DEF ClientsHold
    <3>2. managers[adapter[a].manager].identity \in Ids /\ adapter[a].manager # 0
      BY <1>0, <3>1, ManagersTyped
    <3> QED
      BY <1>0, <3>1, <3>2 DEF TableLeads, Listed
  <2>3. \A i \in Ids : managerEntries[i].clients = Managers!Cardinality(ClientsOf(i))
    BY <1>0, ManagersCount DEF ClientsHold
  <2> QED
    BY <2>1, <2>2, <2>3 DEF Managers!ClientsKeepTheirManager, Managers!OpenAdapters, Managers!IdentityOf, Ids
<1>6. Managers!NoPolicyDrift
  BY <1>0, <1>1 DEF OnePolicy, Managers!NoPolicyDrift
<1>7. Managers!OneGovernor
  <2>1. \A p \in Policies : Managers!OfPolicy(p) = Peers(p)
    BY <1>1 DEF Managers!OfPolicy, Peers
  <2>2. \A i \in Ids : i.policy \in Policies
    BY DEF Ids, Managers!Identities
  <2>3. \A i \in Managers!Present :
        /\ managers[managerEntries[i].manager].governor = governors[i.policy]
        /\ Managers!Cardinality(Managers!OfPolicy(i.policy)) <= NamespaceLimit
    BY <1>0, <1>1, <2>1, <2>2, ManagersCount DEF TableLeads, OnePolicy
  <2>4. \A m, n \in DOMAIN managers :
          m # n /\ managers[m].state = "open" /\ managers[n].state = "open"
            => managers[m].identity # managers[n].identity
    BY <1>0 DEF TableLeads
  <2> QED
    BY <2>3, <2>4 DEF Managers!OneGovernor
<1>8. Managers!NotReclaimedInUse
  <2>1. ASSUME NEW m \in DOMAIN managers, managers[m].state = "closed"
        PROVE  managers[m].leases = {} /\ ~managers[m].compiling
    <3>1. ASSUME NEW a \in Adapters, adapter[a].calling, adapter[a].manager = m PROVE FALSE
      <4>1. adapter[a].life = "open" /\ managerEntries[managers[m].identity].manager = m
        BY <1>0, <3>1 DEF ClientsHold
      <4>2. managers[m].identity \in Ids /\ m # 0
        BY <1>0, ManagersTyped
      <4>3. managers[m].state = "open"
        BY <1>0, <4>1, <4>2 DEF TableLeads, Listed
      <4> QED
        BY <2>1, <4>3
    <3>2. /\ managers[m].leases = {a \in Adapters : adapter[a].calling /\ adapter[a].manager = m}
          /\ ~managers[m].compiling
      BY <1>0, <2>1 DEF ClientsHold
    <3> QED
      BY <3>1, <3>2
  <2> QED
    BY <2>1 DEF Managers!NotReclaimedInUse
<1> QED
  BY <1>4, <1>5, <1>6, <1>7, <1>8

-----------------------------------------------------------------------------
(* The policy in force: a legal snapshot, tightened from the published one.    *)
PolicyRecord ==
  [mode : Governed!Modes, budgets : [Governed!Budgets -> 1..MaxAmount],
   flags : [Governed!Providers -> BOOLEAN], shadow : BOOLEAN, rollout : BOOLEAN]

PoliciesInv ==
  /\ root \in PolicyRecord /\ policy \in PolicyRecord
  /\ Governed!SnapshotOk(policy) /\ Governed!Tightened(root, policy)

LEMMA ModeRanks ==
  /\ Governed!Modes = {"off", "observe", "auto"}
  /\ Governed!ModeRank["off"] = 0 /\ Governed!ModeRank["observe"] = 1 /\ Governed!ModeRank["auto"] = 2
  /\ Governed!Budgets = {"namespace", "process"} /\ Governed!Providers = {"scalar_python", "arrow"}
BY DEF Governed!Modes, Governed!ModeRank, Governed!Budgets, Governed!Providers

(* A legal set of fields makes a legal snapshot with all its budgets.          *)
LEMMA SnapshotLegal ==
  ASSUME Governed!PolicyAssumption, NEW m, NEW b, NEW f \in [Governed!Providers -> BOOLEAN],
         NEW sh \in BOOLEAN, NEW ro \in BOOLEAN, NEW s,
         s = [mode |-> m, budgets |-> b, flags |-> f, shadow |-> sh, rollout |-> ro],
         Governed!SnapshotOk(s)
  PROVE  /\ Governed!Snapshot(s) \in PolicyRecord /\ Governed!SnapshotOk(Governed!Snapshot(s))
         /\ Governed!Snapshot(s) = [s EXCEPT !.budgets = Governed!Frozen(b)]
<1>1. /\ m \in Governed!Modes /\ Governed!BudgetsOk(b) /\ ~f["arrow"]
  BY DEF Governed!SnapshotOk
<1> DEFINE z == Governed!Frozen(b)
<1>2. /\ z \in [Governed!Budgets -> 1..MaxAmount] /\ z["namespace"] <= z["process"]
  BY <1>1 DEF Governed!Frozen, Governed!BudgetsOk, Governed!PolicyAssumption
<1>3. Governed!Snapshot(s) = [mode |-> m, budgets |-> z, flags |-> f, shadow |-> sh, rollout |-> ro]
  BY DEF Governed!Snapshot
<1> HIDE DEF z
<1>4. DOMAIN z = Governed!Budgets /\ Governed!Budgets # {}
  BY <1>2, ModeRanks
<1>5. Governed!Frozen(z) = z
  BY <1>2, <1>4 DEF Governed!Frozen
<1>6. Governed!BudgetsOk(z)
  BY <1>2, <1>4, <1>5 DEF Governed!BudgetsOk
<1>7. Governed!SnapshotOk(Governed!Snapshot(s))
  BY <1>1, <1>3, <1>6 DEF Governed!SnapshotOk
<1>8. Governed!Snapshot(s) \in PolicyRecord
  BY <1>1, <1>2, <1>3 DEF PolicyRecord
<1> QED
  BY <1>3, <1>7, <1>8 DEF z, Governed!Snapshot

LEMMA TightenedTwice ==
  ASSUME Governed!PolicyAssumption, NEW x \in PolicyRecord, NEW y \in PolicyRecord, NEW z \in PolicyRecord,
         Governed!Tightened(x, y), Governed!Tightened(y, z)
  PROVE  Governed!Tightened(x, z)
<1>1. \A p \in {x, y, z} : /\ p.mode \in {"off", "observe", "auto"}
                           /\ \A b \in Governed!Budgets : p.budgets[b] \in 1..MaxAmount
  BY ModeRanks DEF PolicyRecord
<1>2. \A p \in {x, y, z} : Governed!ModeRank[p.mode] \in 0..2
  BY <1>1, ModeRanks
<1>3. /\ Governed!ModeRank[z.mode] <= Governed!ModeRank[y.mode]
      /\ Governed!ModeRank[y.mode] <= Governed!ModeRank[x.mode]
      /\ \A b \in Governed!Budgets : z.budgets[b] <= y.budgets[b] /\ y.budgets[b] <= x.budgets[b]
      /\ \A p \in Governed!Providers : (z.flags[p] => y.flags[p]) /\ (y.flags[p] => x.flags[p])
      /\ z.shadow => y.shadow
      /\ y.shadow => x.shadow
      /\ z.rollout => y.rollout
      /\ y.rollout => x.rollout
  BY DEF Governed!Tightened
<1>4. Governed!ModeRank[z.mode] <= Governed!ModeRank[x.mode]
  BY <1>2, <1>3
<1>5. \A b \in Governed!Budgets : z.budgets[b] <= x.budgets[b]
  BY <1>1, <1>3 DEF Governed!PolicyAssumption
<1> QED
  BY <1>3, <1>4, <1>5 DEF Governed!Tightened

LEMMA TightenedToSelf ==
  ASSUME Governed!PolicyAssumption, NEW x \in PolicyRecord
  PROVE  Governed!Tightened(x, x)
<1>1. x.mode \in {"off", "observe", "auto"} /\ \A b \in Governed!Budgets : x.budgets[b] \in 1..MaxAmount
  BY ModeRanks DEF PolicyRecord
<1>2. Governed!ModeRank[x.mode] \in 0..2
  BY <1>1, ModeRanks
<1> QED
  BY <1>1, <1>2 DEF Governed!Tightened, Governed!PolicyAssumption

LEMMA PoliciesInit ==
  ASSUME Governed!PolicyAssumption, Governed!Init
  PROVE  PoliciesInv
<1>1. PICK s \in Governed!Fields : Governed!SnapshotOk(s) /\ root = Governed!Snapshot(s) /\ policy = root
  BY DEF Governed!Init
<1>2. s = [mode |-> s.mode, budgets |-> s.budgets, flags |-> s.flags, shadow |-> s.shadow, rollout |-> s.rollout]
      /\ s.flags \in [Governed!Providers -> BOOLEAN] /\ s.shadow \in BOOLEAN /\ s.rollout \in BOOLEAN
  BY DEF Governed!Fields
<1>3. root \in PolicyRecord /\ Governed!SnapshotOk(root)
  BY <1>1, <1>2, SnapshotLegal
<1> QED
  BY <1>1, <1>3, TightenedToSelf DEF PoliciesInv

LEMMA PoliciesNext ==
  ASSUME Governed!PolicyAssumption, PoliciesInv, Governed!Next \/ UNCHANGED policiesVars
  PROVE  PoliciesInv'
<1>0. /\ root \in PolicyRecord /\ policy \in PolicyRecord
      /\ Governed!SnapshotOk(policy) /\ Governed!Tightened(root, policy)
  BY DEF PoliciesInv
<1>1. /\ policy = [mode |-> policy.mode, budgets |-> policy.budgets, flags |-> policy.flags,
                   shadow |-> policy.shadow, rollout |-> policy.rollout]
      /\ policy.flags \in [Governed!Providers -> BOOLEAN] /\ policy.shadow \in BOOLEAN /\ policy.rollout \in BOOLEAN
      /\ policy.budgets \in [Governed!Budgets -> 1..MaxAmount]
  BY <1>0 DEF PolicyRecord
<1>2. ASSUME NEW r \in Governed!Requests, Governed!Tighten(r) PROVE PoliciesInv'
  <2> DEFINE c == Governed!Candidate(r)
             f == [p \in Governed!Providers |-> policy.flags[p] /\ p \notin r.disable]
             sh == Governed!Given(r.shadow, policy.shadow)
             ro == Governed!Given(r.rollout, policy.rollout)
             m == IF r.mode = Governed!Unset THEN policy.mode ELSE r.mode
             b == IF r.keeps THEN policy.budgets ELSE r.budgets
  <2>1. /\ Governed!SnapshotOk(c) /\ Governed!Tightened(policy, Governed!Snapshot(c))
        /\ policy' = Governed!Snapshot(c) /\ UNCHANGED root
    BY <1>2 DEF Governed!Tighten
  <2>2. f \in [Governed!Providers -> BOOLEAN]
    <3>1. \A p \in Governed!Providers : (policy.flags[p] /\ p \notin r.disable) \in BOOLEAN
      OBVIOUS
    <3> QED
      BY <3>1
  <2>3. sh \in BOOLEAN /\ ro \in BOOLEAN
    BY <1>1 DEF Governed!Given
  <2>4. c = [mode |-> m, budgets |-> b, flags |-> f, shadow |-> sh, rollout |-> ro]
    BY DEF Governed!Candidate
  <2> HIDE DEF c, f, sh, ro, m, b
  <2>5. Governed!Snapshot(c) \in PolicyRecord /\ Governed!SnapshotOk(Governed!Snapshot(c))
    BY <2>1, <2>2, <2>3, <2>4, SnapshotLegal
  <2>6. policy' \in PolicyRecord /\ Governed!SnapshotOk(policy') /\ Governed!Tightened(policy, policy')
    BY <2>1, <2>5
  <2>7. Governed!Tightened(root, policy')
    BY <1>0, <2>6, TightenedTwice
  <2> QED
    BY <1>0, <2>1, <2>6, <2>7 DEF PoliciesInv
<1>3. CASE Governed!Ship
  <2>1. policy' = Governed!Snapshot(policy) /\ UNCHANGED root
    BY <1>3 DEF Governed!Ship
  <2>2. /\ Governed!Snapshot(policy) \in PolicyRecord /\ Governed!SnapshotOk(Governed!Snapshot(policy))
        /\ Governed!Snapshot(policy) = [policy EXCEPT !.budgets = Governed!Frozen(policy.budgets)]
    BY <1>0, <1>1, SnapshotLegal
  <2>3. Governed!Frozen(policy.budgets) = policy.budgets
    BY <1>1 DEF Governed!Frozen
  <2>4. policy' = policy
    BY <1>1, <2>1, <2>2, <2>3
  <2> QED
    BY <1>0, <2>1, <2>4 DEF PoliciesInv
<1>4. CASE UNCHANGED policiesVars
  BY <1>0, <1>4 DEF policiesVars, PoliciesInv
<1> QED
  BY <1>2, <1>3, <1>4 DEF Governed!Next

(* A decision grows with the mode and with what it may observe, and so does    *)
(* what is resolved with the policy and the situation.                         *)
Allows(d, e) ==
  /\ Governed!ModeRank[d.mode] <= Governed!ModeRank[e.mode]
  /\ d.capture => e.capture
  /\ d.compile => e.compile
  /\ d.optimized => e.optimized

LEMMA DecisionGrows ==
  ASSUME NEW m \in Governed!Modes, NEW n \in Governed!Modes, NEW o \in BOOLEAN, NEW q \in BOOLEAN,
         Governed!ModeRank[m] <= Governed!ModeRank[n], m = n => (o => q)
  PROVE  Allows(Governed!Decision(m, o), Governed!Decision(n, q))
BY ModeRanks DEF Governed!Decision, Governed!Off, Allows

LEMMA OffAllows ==
  ASSUME NEW n \in Governed!Modes, NEW q \in BOOLEAN
  PROVE  Allows(Governed!Off, Governed!Decision(n, q)) /\ Allows(Governed!Off, Governed!Off)
BY ModeRanks DEF Governed!Decision, Governed!Off, Allows

Capped(p, x) ==
  LET capped == IF Governed!ModeRank[p.mode] < Governed!ModeRank[x.mode] THEN p.mode ELSE x.mode
  IN  IF capped = "auto" /\ ~p.rollout THEN "observe" ELSE capped
Shut(p, x) ==
  \/ x.disabled
  \/ ~x.plugin
  \/ x.mode = "off"
  \/ ~x.compatible
  \/ ~p.flags["scalar_python"]
Seen(p, x) == Capped(p, x) = "observe" /\ x.shadow /\ p.shadow

LEMMA ResolveIs ==
  ASSUME NEW p, NEW x
  PROVE  Governed!Resolve(p, x) = IF Shut(p, x) THEN Governed!Off ELSE Governed!Decision(Capped(p, x), Seen(p, x))
BY DEF Governed!Resolve, Shut, Seen, Capped

LEMMA ResolveGrows ==
  ASSUME NEW p \in PolicyRecord, NEW q \in PolicyRecord, Governed!Tightened(q, p),
         NEW x \in Governed!Situations, NEW y \in Governed!Situations, x.mode = y.mode,
         y.disabled => x.disabled, x.plugin => y.plugin, x.compatible => y.compatible,
         x.shadow => y.shadow
  PROVE  Allows(Governed!Resolve(p, x), Governed!Resolve(q, y))
<1>1. /\ p.mode \in Governed!Modes /\ q.mode \in Governed!Modes /\ x.mode \in Governed!Modes
      /\ p.shadow \in BOOLEAN /\ q.shadow \in BOOLEAN /\ x.shadow \in BOOLEAN /\ y.shadow \in BOOLEAN
  BY DEF PolicyRecord, Governed!Situations
<1>2. /\ Governed!ModeRank[p.mode] <= Governed!ModeRank[q.mode]
      /\ p.rollout => q.rollout
      /\ p.shadow => q.shadow
      /\ p.flags["scalar_python"] => q.flags["scalar_python"]
  BY ModeRanks DEF Governed!Tightened
<1>3. /\ Capped(p, x) \in Governed!Modes /\ Capped(q, y) \in Governed!Modes
      /\ Governed!ModeRank[Capped(p, x)] <= Governed!ModeRank[Capped(q, y)]
  BY <1>1, <1>2, ModeRanks DEF Capped
<1>4. Seen(p, x) \in BOOLEAN /\ Seen(q, y) \in BOOLEAN
  BY DEF Seen
<1>5. Capped(p, x) = Capped(q, y) => (Seen(p, x) => Seen(q, y))
  BY <1>2 DEF Seen
<1>6. Shut(q, y) => Shut(p, x)
  BY <1>2 DEF Shut
<1>7. CASE Shut(p, x)
  BY <1>3, <1>4, <1>7, OffAllows, ResolveIs
<1>8. CASE ~Shut(p, x)
  <2>1. Allows(Governed!Decision(Capped(p, x), Seen(p, x)), Governed!Decision(Capped(q, y), Seen(q, y)))
    BY <1>3, <1>4, <1>5, DecisionGrows
  <2> QED
    BY <1>6, <1>8, <2>1, ResolveIs
<1> QED
  BY <1>7, <1>8

LEMMA PoliciesFacts ==
  ASSUME Governed!PolicyAssumption, PoliciesInv
  PROVE  Governed!TypeOK /\ Governed!AuthorityNeverGrows /\ Governed!WithdrawalOnlyTightens
<1>0. /\ root \in PolicyRecord /\ policy \in PolicyRecord
      /\ Governed!SnapshotOk(policy) /\ Governed!Tightened(root, policy)
      /\ policy.budgets \in [Governed!Budgets -> 1..MaxAmount]
  BY DEF PoliciesInv, PolicyRecord
<1>1. Governed!TypeOK
  BY <1>0 DEF Governed!TypeOK
<1>2. Governed!AuthorityNeverGrows
  <2>1. \A x \in Governed!Situations : Allows(Governed!Resolve(policy, x), Governed!Resolve(root, x))
    BY <1>0, ResolveGrows
  <2>2. \A b \in Governed!Budgets : policy.budgets[b] <= root.budgets[b]
    BY <1>0 DEF Governed!Tightened
  <2>3. policy.budgets["namespace"] <= policy.budgets["process"]
    <3>1. Governed!Frozen(policy.budgets) = policy.budgets
      BY <1>0 DEF Governed!Frozen
    <3> QED
      BY <1>0, <3>1 DEF Governed!SnapshotOk, Governed!BudgetsOk
  <2> QED
    BY <2>1, <2>2, <2>3 DEF Governed!AuthorityNeverGrows, Allows
<1>3. Governed!WithdrawalOnlyTightens
  <2>1. Governed!Tightened(policy, policy)
    BY <1>0, TightenedToSelf
  <2>2. ASSUME NEW x \in Governed!Situations
        PROVE  \A y \in {[x EXCEPT !.disabled = TRUE], [x EXCEPT !.plugin = FALSE],
                         [x EXCEPT !.compatible = FALSE], [x EXCEPT !.shadow = FALSE]} :
                 Allows(Governed!Resolve(policy, y), Governed!Resolve(policy, x))
    <3>1. ASSUME NEW y \in {[x EXCEPT !.disabled = TRUE], [x EXCEPT !.plugin = FALSE],
                            [x EXCEPT !.compatible = FALSE], [x EXCEPT !.shadow = FALSE]}
          PROVE  /\ y \in Governed!Situations /\ y.mode = x.mode
                 /\ x.disabled => y.disabled
                 /\ y.plugin => x.plugin
                 /\ y.compatible => x.compatible
                 /\ y.shadow => x.shadow
      BY DEF Governed!Situations
    <3> QED
      BY <1>0, <2>1, <3>1, ResolveGrows
  <2> QED
    BY <2>2 DEF Governed!WithdrawalOnlyTightens, Allows
<1> QED
  BY <1>1, <1>2, <1>3

-----------------------------------------------------------------------------
(* The hooks.  Whoever has the call lock is in the middle of a call that took  *)
(* it, and only a call that swapped the method finds another than the user's;  *)
(* native candidates are bound while the lineage's hooks are all in place.     *)
Holding == {"eligible", "swapped", "proved", "lowering", "again"}

HookedNames == {"call", "where", "select", "with_columns"}
HookPlaces == {"idle", "direct", "waiting", "eligible", "swapped", "binding", "proved", "lowering", "again"}
HookTypes ==
  /\ layers \in [HookedNames -> 0..1] /\ hookReport \in Hooks!Reports
  /\ lineageHooks \in 0..3 /\ lineageActive \in BOOLEAN /\ bound \in BOOLEAN
  /\ method \in {"user", "wrapper", "batch"} /\ batched \in BOOLEAN
  /\ hookLock \in Threads \cup {"no thread"}
  /\ pc \in [Threads -> HookPlaces]
  /\ kind \in [Threads -> Hooks!Kinds]
  /\ original \in [Threads -> {"unread", "user", "wrapper", "batch"}]
  /\ hookEntries \in 0..MaxCalls

HooksInv ==
  /\ HookTypes
  /\ \A t \in Threads : pc[t] \in Holding <=> hookLock = t
  /\ (\A t \in Threads : pc[t] # "swapped") => method = "user" /\ ~batched
  /\ \A t \in Threads : original[t] \in {"unread", "user"}
  /\ \A t \in Threads : pc[t] \in {"eligible", "swapped"} => original[t] = "user"
  /\ lineageActive => lineageHooks = 3
  /\ bound => lineageActive
  /\ \A t \in Threads : pc[t] = "lowering" => lineageActive

LEMMA HookNames == Hooks!Hooked = HookedNames
<1>1. Hooks!Len(Hooks!Order) = 4 /\ 1..4 = {1, 2, 3, 4}
  BY DEF Hooks!Order
<1>2. Hooks!Hooked = {Hooks!Order[i] : i \in {1, 2, 3, 4}}
  BY <1>1 DEF Hooks!Hooked
<1>3. Hooks!Order[1] = "call" /\ Hooks!Order[2] = "where" /\ Hooks!Order[3] = "select"
      /\ Hooks!Order[4] = "with_columns"
  BY DEF Hooks!Order
<1> QED
  BY <1>2, <1>3 DEF HookedNames

LEMMA HooksInit ==
  ASSUME Hooks!HooksAssumption, Hooks!Init
  PROVE  HooksInv
<1>1. /\ layers = [m \in HookedNames |-> 0] /\ hookReport = "none"
      /\ lineageHooks = 0 /\ lineageActive = FALSE /\ bound = FALSE
      /\ method = "user" /\ batched = FALSE /\ hookLock = "no thread"
      /\ pc = [t \in Threads |-> "idle"] /\ kind = [t \in Threads |-> "plain"]
      /\ original = [t \in Threads |-> "unread"] /\ hookEntries = 0
      /\ "no thread" \notin Threads /\ MaxCalls \in Nat
  BY HookNames DEF Hooks!Init, Hooks!NoThread, Hooks!HooksAssumption
<1>2. HookTypes
  <2>1. "none" \in Hooks!Reports /\ "plain" \in Hooks!Kinds /\ "idle" \in HookPlaces
    BY DEF Hooks!Reports, Hooks!Kinds, HookPlaces
  <2>2. lineageActive \in BOOLEAN /\ bound \in BOOLEAN /\ batched \in BOOLEAN
    BY <1>1
  <2>3. hookEntries \in 0..MaxCalls /\ lineageHooks \in 0..3
    <3>1. hookEntries = 0 /\ lineageHooks = 0 /\ MaxCalls \in Nat
      BY <1>1
    <3>2. hookEntries \in 0..MaxCalls
      BY <3>1
    <3>3. lineageHooks \in 0..3
      BY <3>1
    <3> QED
      BY <3>2, <3>3
  <2>4. layers \in [HookedNames -> 0..1]
    <3>1. layers = [m \in HookedNames |-> 0]
      BY <1>1
    <3>2. 0 \in 0..1
      OBVIOUS
    <3> HIDE DEF HookedNames
    <3> QED
      BY <3>1, <3>2
  <2>5. /\ pc \in [Threads -> HookPlaces] /\ kind \in [Threads -> Hooks!Kinds]
        /\ original \in [Threads -> {"unread", "user", "wrapper", "batch"}]
    BY <1>1, <2>1
  <2>6. hookLock \in Threads \cup {"no thread"} /\ method \in {"user", "wrapper", "batch"}
        /\ hookReport \in Hooks!Reports
    BY <1>1, <2>1
  <2> QED
    BY <2>2, <2>3, <2>4, <2>5, <2>6 DEF HookTypes
<1> QED
  BY <1>1, <1>2 DEF HooksInv, Holding

(* One call moved on: the others are where they were.                          *)
LEMMA CallMoves ==
  ASSUME HooksInv, NEW t \in Threads, NEW x \in HookPlaces, pc' = [pc EXCEPT ![t] = x]
  PROVE  /\ pc' \in [Threads -> HookPlaces] /\ pc'[t] = x
         /\ \A u \in Threads \ {t} : pc'[u] = pc[u]
BY DEF HooksInv, HookTypes

LEMMA HooksInstall ==
  ASSUME Hooks!HooksAssumption, HooksInv, NEW compatible \in BOOLEAN, NEW reached \in 0..4,
         Hooks!Install(compatible, reached)
  PROVE  HooksInv'
<1>0. HookTypes /\ layers \in [HookedNames -> 0..1]
  BY DEF HooksInv, HookTypes
<1>1. UNCHANGED <<lineageHooks, lineageActive, bound, method, batched, hookLock, pc, kind, original, hookEntries>>
  BY DEF Hooks!Install, Hooks!funcVars, Hooks!callVars
<1>2. layers' \in [HookedNames -> 0..1]
  <2>1. CASE Hooks!Marked = {} /\ compatible
    <3>1. \A m \in HookedNames : layers[m] = 0
      BY <1>0, <2>1, HookNames DEF Hooks!Marked
    <3> DEFINE set(m) == \E i \in 1..reached : Hooks!Order[i] = m
    <3>2. layers' = [m \in HookedNames |-> IF set(m) THEN layers[m] + 1 ELSE layers[m]]
      BY <2>1, HookNames DEF Hooks!Install
    <3> HIDE DEF set
    <3> QED
      BY <3>1, <3>2
  <2>2. CASE ~(Hooks!Marked = {} /\ compatible)
    BY <1>0, <2>2 DEF Hooks!Install
  <2> QED
    BY <2>1, <2>2
<1>3. hookReport' \in Hooks!Reports
  BY DEF Hooks!Install, Hooks!Reports
<1>4. HookTypes'
  BY <1>0, <1>1, <1>2, <1>3 DEF HookTypes
<1> QED
  BY <1>1, <1>2, <1>4 DEF HooksInv

LEMMA HooksUninstall ==
  ASSUME Hooks!HooksAssumption, HooksInv, Hooks!Uninstall
  PROVE  HooksInv'
<1>0. HookTypes /\ layers \in [HookedNames -> 0..1]
  BY DEF HooksInv, HookTypes
<1>1. /\ \A t \in Threads : pc[t] = "idle"
      /\ layers' = [m \in HookedNames |-> IF layers[m] > 0 THEN layers[m] - 1 ELSE 0]
      /\ hookReport' = "none" /\ lineageHooks' = 0 /\ lineageActive' = FALSE /\ bound' = FALSE
      /\ UNCHANGED <<method, batched, hookLock, pc, kind, original, hookEntries>>
  BY HookNames DEF Hooks!Uninstall, Hooks!funcVars, Hooks!callVars
<1>2. layers' \in [HookedNames -> 0..1]
  BY <1>0, <1>1
<1>3. HookTypes'
  <2>1. "none" \in Hooks!Reports
    BY DEF Hooks!Reports
  <2>2. lineageActive' \in BOOLEAN /\ bound' \in BOOLEAN
    BY <1>1
  <2>3. lineageHooks' \in 0..3
    BY <1>1
  <2> QED
    BY <1>0, <1>1, <1>2, <2>1, <2>2, <2>3 DEF HookTypes
<1> QED
  BY <1>1, <1>2, <1>3 DEF HooksInv

LEMMA HooksCall ==
  ASSUME Hooks!HooksAssumption, HooksInv, NEW t \in Threads,
         \/ \E k \in Hooks!Kinds : Hooks!Enter(t, k)
         \/ Hooks!Acquire(t)
         \/ Hooks!BindExpression(t)
         \/ Hooks!CallAgain(t)
         \/ Hooks!DirectCall(t)
  PROVE  HooksInv'
<1>0. HookTypes /\ "no thread" \notin Threads /\ MaxCalls \in Nat
  BY DEF HooksInv, Hooks!HooksAssumption, Hooks!NoThread
<1>1. ASSUME NEW k \in Hooks!Kinds, Hooks!Enter(t, k) PROVE HooksInv'
  <2> DEFINE x == IF k \in {"plain", "incompatible"} THEN "direct" ELSE "waiting"
  <2>1. /\ pc[t] = "idle" /\ hookEntries < MaxCalls /\ hookEntries' = hookEntries + 1
        /\ kind' = [kind EXCEPT ![t] = k] /\ pc' = [pc EXCEPT ![t] = x] /\ x \in HookPlaces
        /\ x \in {"direct", "waiting"}
        /\ UNCHANGED <<layers, hookReport, lineageHooks, lineageActive, bound, method, batched, hookLock, original>>
    BY <1>1 DEF Hooks!Enter, Hooks!hookVars, Hooks!funcVars, HookPlaces
  <2> HIDE DEF x
  <2>2. /\ pc' \in [Threads -> HookPlaces] /\ pc'[t] = x
        /\ \A u \in Threads \ {t} : pc'[u] = pc[u]
    BY <2>1, CallMoves
  <2>3. HookTypes'
    <3>1. hookEntries' \in 0..MaxCalls
      <4>1. hookEntries \in 0..MaxCalls /\ hookEntries < MaxCalls /\ hookEntries' = hookEntries + 1
            /\ MaxCalls \in Nat
        BY <1>0, <2>1 DEF HookTypes
      <4> QED
        BY <4>1
    <3>2. kind' \in [Threads -> Hooks!Kinds]
      BY <1>0, <2>1 DEF HookTypes
    <3> QED
      BY <1>0, <2>1, <2>2, <3>1, <3>2 DEF HookTypes
  <2> QED
    BY <2>1, <2>2, <2>3 DEF HooksInv, Holding
<1>2. CASE Hooks!Acquire(t)
  <2> DEFINE x == IF kind[t] = "native" THEN "proved" ELSE "eligible"
  <2>1. /\ pc[t] = "waiting" /\ hookLock = "no thread" /\ hookLock' = t
        /\ original' = [original EXCEPT ![t] = method]
        /\ pc' = [pc EXCEPT ![t] = x] /\ x \in HookPlaces /\ x \in {"proved", "eligible"}
        /\ UNCHANGED <<layers, hookReport, lineageHooks, lineageActive, bound, method, batched, kind, hookEntries>>
    BY <1>2 DEF Hooks!Acquire, Hooks!hookVars, HookPlaces, Hooks!NoThread
  <2> HIDE DEF x
  <2>2. /\ pc' \in [Threads -> HookPlaces] /\ pc'[t] = x
        /\ \A u \in Threads \ {t} : pc'[u] = pc[u]
    BY <2>1, CallMoves
  <2>3. \A u \in Threads : pc[u] \notin Holding
    BY <1>0, <2>1 DEF HooksInv
  <2>4. method = "user"
    BY <2>3 DEF HooksInv, Holding
  <2>5. HookTypes'
    BY <1>0, <2>1, <2>2 DEF HookTypes
  <2>6. original' \in [Threads -> {"unread", "user", "wrapper", "batch"}]
        /\ original'[t] = "user" /\ \A u \in Threads \ {t} : original'[u] = original[u]
    BY <1>0, <2>1, <2>4 DEF HookTypes
  <2>7. \A u \in Threads : pc'[u] \in Holding <=> hookLock' = u
    BY <2>1, <2>2, <2>3 DEF Holding
  <2>8. \A u \in Threads : original'[u] \in {"unread", "user"}
    BY <2>6 DEF HooksInv
  <2>9. \A u \in Threads : pc'[u] \in {"eligible", "swapped"} => original'[u] = "user"
    BY <2>1, <2>2, <2>3, <2>6 DEF Holding
  <2>10. method' = "user" /\ ~batched'
    BY <2>1, <2>3 DEF HooksInv, Holding
  <2>11. \A u \in Threads : pc'[u] = "lowering" => lineageActive'
    BY <2>1, <2>2 DEF HooksInv
  <2> QED
    BY <2>1, <2>5, <2>7, <2>8, <2>9, <2>10, <2>11 DEF HooksInv
<1>3. CASE Hooks!BindExpression(t) \/ Hooks!DirectCall(t)
  <2>1. /\ pc[t] \in {"binding", "direct"} /\ pc' = [pc EXCEPT ![t] = "idle"] /\ "idle" \in HookPlaces
        /\ UNCHANGED <<layers, hookReport, lineageHooks, lineageActive, bound, method, batched, hookLock, kind,
                       original, hookEntries>>
    BY <1>3 DEF Hooks!BindExpression, Hooks!DirectCall, Hooks!hookVars, Hooks!funcVars, HookPlaces
  <2>2. /\ pc' \in [Threads -> HookPlaces] /\ pc'[t] = "idle"
        /\ \A u \in Threads \ {t} : pc'[u] = pc[u]
    BY <2>1, CallMoves
  <2>3. HookTypes'
    BY <1>0, <2>1, <2>2 DEF HookTypes
  <2> QED
    BY <2>1, <2>2, <2>3 DEF HooksInv, Holding
<1>4. CASE Hooks!CallAgain(t)
  <2>1. /\ pc[t] = "again" /\ pc' = [pc EXCEPT ![t] = "idle"] /\ "idle" \in HookPlaces
        /\ hookLock' = "no thread"
        /\ UNCHANGED <<layers, hookReport, lineageHooks, lineageActive, bound, method, batched, kind,
                       original, hookEntries>>
    BY <1>4 DEF Hooks!CallAgain, Hooks!hookVars, HookPlaces, Hooks!NoThread
  <2>2. /\ pc' \in [Threads -> HookPlaces] /\ pc'[t] = "idle"
        /\ \A u \in Threads \ {t} : pc'[u] = pc[u]
    BY <2>1, CallMoves
  <2>3. HookTypes'
    BY <1>0, <2>1, <2>2 DEF HookTypes
  <2>4. hookLock = t /\ \A u \in Threads : pc'[u] \notin Holding
    BY <2>1, <2>2 DEF HooksInv, Holding
  <2> QED
    BY <1>0, <2>1, <2>2, <2>3, <2>4 DEF HooksInv, Holding
<1> QED
  BY <1>1, <1>2, <1>3, <1>4

LEMMA HooksSwap ==
  ASSUME Hooks!HooksAssumption, HooksInv, NEW t \in Threads, NEW b \in BOOLEAN,
         Hooks!Register(t, b) \/ Hooks!FrameworkCall(t, b)
  PROVE  HooksInv'
<1>0. HookTypes /\ "no thread" \notin Threads
  BY DEF HooksInv, Hooks!HooksAssumption, Hooks!NoThread
<1>1. CASE Hooks!Register(t, b)
  <2>1. /\ pc[t] = "eligible" /\ hookLock = t /\ original[t] = "user"
        /\ \A u \in Threads : pc[u] # "swapped"
        /\ UNCHANGED <<layers, hookReport, lineageHooks, lineageActive, bound, hookLock, kind, original, hookEntries>>
    BY <1>1 DEF Hooks!Register, Hooks!hookVars, HooksInv, Holding
  <2>2. CASE b
    <3>1. method' = "user" /\ batched' = batched /\ pc' = [pc EXCEPT ![t] = "again"] /\ "again" \in HookPlaces
      BY <1>1, <2>1, <2>2 DEF Hooks!Register, HookPlaces
    <3>2. /\ pc' \in [Threads -> HookPlaces] /\ pc'[t] = "again"
          /\ \A u \in Threads \ {t} : pc'[u] = pc[u]
      BY <3>1, CallMoves
    <3>3. HookTypes'
      BY <1>0, <2>1, <3>1, <3>2 DEF HookTypes
    <3> QED
      BY <2>1, <3>1, <3>2, <3>3 DEF HooksInv, Holding
  <2>3. CASE ~b
    <3>1. /\ method' \in {"batch", "wrapper"} /\ batched' \in BOOLEAN
          /\ pc' = [pc EXCEPT ![t] = "swapped"] /\ "swapped" \in HookPlaces
      BY <1>1, <2>3 DEF Hooks!Register, HookPlaces
    <3>2. /\ pc' \in [Threads -> HookPlaces] /\ pc'[t] = "swapped"
          /\ \A u \in Threads \ {t} : pc'[u] = pc[u]
      BY <3>1, CallMoves
    <3>3. HookTypes'
      BY <1>0, <2>1, <3>1, <3>2 DEF HookTypes
    <3> QED
      BY <2>1, <3>1, <3>2, <3>3 DEF HooksInv, Holding
  <2> QED
    BY <2>2, <2>3
<1>2. CASE Hooks!FrameworkCall(t, b)
  <2> DEFINE x == IF b THEN "idle" ELSE "binding"
  <2>1. /\ pc[t] = "swapped" /\ hookLock = t /\ method' = "user" /\ batched' = FALSE
        /\ hookLock' = "no thread" /\ pc' = [pc EXCEPT ![t] = x] /\ x \in HookPlaces /\ x \in {"idle", "binding"}
        /\ UNCHANGED <<layers, hookReport, lineageHooks, lineageActive, bound, kind, original, hookEntries>>
    BY <1>2 DEF Hooks!FrameworkCall, Hooks!Restored, Hooks!hookVars, Hooks!NoThread, HooksInv, Holding, HookPlaces
  <2> HIDE DEF x
  <2>2. /\ pc' \in [Threads -> HookPlaces] /\ pc'[t] = x
        /\ \A u \in Threads \ {t} : pc'[u] = pc[u]
    BY <2>1, CallMoves
  <2>3. HookTypes'
    BY <1>0, <2>1, <2>2 DEF HookTypes
  <2>4. \A u \in Threads : pc'[u] \notin Holding
    BY <2>1, <2>2 DEF HooksInv, Holding
  <2> QED
    BY <1>0, <2>1, <2>2, <2>3, <2>4 DEF HooksInv, Holding
<1> QED
  BY <1>1, <1>2

LEMMA HooksNative ==
  ASSUME Hooks!HooksAssumption, HooksInv, NEW t \in Threads,
         \/ \E b \in BOOLEAN : Hooks!NativeCall(t, b)
         \/ \E reached \in 0..3 : Hooks!LineageInstall(t, reached)
  PROVE  HooksInv'
<1>0. HookTypes /\ "no thread" \notin Threads
  BY DEF HooksInv, Hooks!HooksAssumption, Hooks!NoThread
<1>1. ASSUME NEW b \in BOOLEAN, Hooks!NativeCall(t, b) PROVE HooksInv'
  <2>1. /\ pc[t] = "lowering" /\ hookLock = t /\ lineageActive
        /\ \A u \in Threads : pc[u] # "swapped"
        /\ UNCHANGED <<layers, hookReport, lineageHooks, lineageActive, method, batched, kind, original, hookEntries>>
    BY <1>1 DEF Hooks!NativeCall, HooksInv, Holding
  <2>2. CASE b
    <3>1. pc' = [pc EXCEPT ![t] = "again"] /\ "again" \in HookPlaces /\ UNCHANGED <<bound, hookLock>>
      BY <1>1, <2>2 DEF Hooks!NativeCall, HookPlaces
    <3>2. /\ pc' \in [Threads -> HookPlaces] /\ pc'[t] = "again"
          /\ \A u \in Threads \ {t} : pc'[u] = pc[u]
      BY <3>1, CallMoves
    <3>3. HookTypes'
      BY <1>0, <2>1, <3>1, <3>2 DEF HookTypes
    <3> QED
      BY <2>1, <3>1, <3>2, <3>3 DEF HooksInv, Holding
  <2>3. CASE ~b
    <3>1. pc' = [pc EXCEPT ![t] = "idle"] /\ "idle" \in HookPlaces /\ bound' = TRUE /\ hookLock' = "no thread"
      BY <1>1, <2>3 DEF Hooks!NativeCall, HookPlaces, Hooks!NoThread
    <3>2. /\ pc' \in [Threads -> HookPlaces] /\ pc'[t] = "idle"
          /\ \A u \in Threads \ {t} : pc'[u] = pc[u]
      BY <3>1, CallMoves
    <3>3. HookTypes'
      BY <1>0, <2>1, <3>1, <3>2 DEF HookTypes
    <3>4. \A u \in Threads : pc'[u] \notin Holding
      BY <2>1, <3>2 DEF HooksInv, Holding
    <3> QED
      BY <1>0, <2>1, <3>1, <3>2, <3>3, <3>4 DEF HooksInv, Holding
  <2> QED
    BY <2>2, <2>3
<1>2. ASSUME NEW reached \in 0..3, Hooks!LineageInstall(t, reached) PROVE HooksInv'
  <2>1. /\ pc[t] = "proved" /\ hookLock = t
        /\ UNCHANGED <<layers, hookReport, bound, method, batched, hookLock, kind, original, hookEntries>>
    BY <1>2 DEF Hooks!LineageInstall, Hooks!funcVars, HooksInv, Holding
  <2>2. PICK x \in {"lowering", "again"} :
          /\ pc' = [pc EXCEPT ![t] = x] /\ lineageHooks' \in 0..3 /\ lineageActive' \in BOOLEAN
          /\ lineageActive => lineageActive'
          /\ lineageActive' => lineageHooks' = 3
          /\ x = "lowering" => lineageActive'
    <3>1. CASE lineageActive
      BY <1>0, <1>2, <3>1 DEF Hooks!LineageInstall, HooksInv, HookTypes
    <3>2. CASE ~lineageActive
      <4>1. /\ lineageHooks' = IF reached > lineageHooks THEN reached ELSE lineageHooks
            /\ lineageActive' = (reached = 3)
            /\ pc' = [pc EXCEPT ![t] = IF reached = 3 THEN "lowering" ELSE "again"]
        BY <1>2, <3>2 DEF Hooks!LineageInstall, Hooks!Groups
      <4>2. lineageHooks \in 0..3
        BY <1>0 DEF HookTypes
      <4>3. lineageHooks' \in 0..3 /\ (reached = 3 => lineageHooks' = 3)
        BY <4>1, <4>2
      <4>4. CASE reached = 3
        BY <3>2, <4>1, <4>3, <4>4
      <4>5. CASE reached # 3
        BY <3>2, <4>1, <4>3, <4>5
      <4> QED
        BY <4>4, <4>5
    <3> QED
      BY <3>1, <3>2
  <2>3. /\ pc' \in [Threads -> HookPlaces] /\ pc'[t] = x
        /\ \A u \in Threads \ {t} : pc'[u] = pc[u]
    BY <2>2, CallMoves DEF HookPlaces
  <2>4. HookTypes'
    BY <1>0, <2>1, <2>2, <2>3 DEF HookTypes
  <2> QED
    BY <2>1, <2>2, <2>3, <2>4 DEF HooksInv, Holding
<1> QED
  BY <1>1, <1>2

LEMMA HooksNext ==
  ASSUME Hooks!HooksAssumption, HooksInv, Hooks!Next \/ UNCHANGED hooksVars
  PROVE  HooksInv'
<1>1. CASE Hooks!Next
  <2>1. Hooks!Len(Hooks!Order) = 4 /\ Hooks!Groups = 3
    BY DEF Hooks!Order, Hooks!Groups
  <2> QED
    BY <1>1, <2>1, HooksInstall, HooksUninstall, HooksCall, HooksSwap, HooksNative DEF Hooks!Next
<1>2. CASE UNCHANGED hooksVars
  BY <1>2 DEF hooksVars, HooksInv, HookTypes
<1> QED
  BY <1>1, <1>2

LEMMA HooksFacts ==
  ASSUME Hooks!HooksAssumption, HooksInv
  PROVE  Hooks!TypeOK /\ Hooks!UserMethodKept /\ Hooks!NativePlansGuarded
<1>1. hookLock = "no thread" => \A t \in Threads : pc[t] # "swapped"
  BY DEF HooksInv, Hooks!HooksAssumption, Hooks!NoThread, Holding
<1>2. layers \in [HookedNames -> 0..2] /\ \A m \in HookedNames : layers[m] <= 1
  <2>1. layers \in [HookedNames -> 0..1]
    BY DEF HooksInv, HookTypes
  <2> QED
    BY <2>1
<1>3. Hooks!TypeOK
  BY <1>2, HookNames DEF HooksInv, HookTypes, Hooks!TypeOK, Hooks!Groups, Hooks!NoThread, HookPlaces
<1> QED
  BY <1>1, <1>2, <1>3, HookNames DEF HooksInv, Hooks!UserMethodKept, Hooks!NativePlansGuarded, Hooks!NoThread, Hooks!Groups

-----------------------------------------------------------------------------
(* The lineage of native plans.  A chain leads over parents, which are older,  *)
(* so what holds of a frame when it holds of the older ones holds of each.     *)
LEMMA StrongInduction ==
  ASSUME NEW n \in Nat, NEW T,
         \A j \in 0..n : (\A i \in 0..n : i < j => i \in T) => j \in T
  PROVE  \A j \in 0..n : j \in T
<1> DEFINE U == {k \in 0..n : \A i \in 0..n : i <= k => i \in T}
<1>1. 0 \in U
  BY DEF U
<1>2. ASSUME NEW k \in 0..n, k < n, k \in U PROVE k + 1 \in U
  <2>1. k + 1 \in 0..n /\ \A i \in 0..n : i < k + 1 => i \in T
    BY <1>2
  <2>2. k + 1 \in T
    BY <2>1
  <2> QED
    BY <2>1, <2>2
<1>3. n \in U
  <2> HIDE DEF U
  <2> QED
    BY <1>1, <1>2, IntervalInduction
<1> QED
  BY <1>3

FrameRecord ==
  [parent : Nat, candidates : SUBSET Funcs, lineage : BOOLEAN, plan : SUBSET Funcs, result : BOOLEAN]
Kept(fr, j) == j # 0 /\ fr[j].lineage
ChainsTo(fr, h, k) ==
  h = [j \in 0..k |-> IF Kept(fr, j) THEN Append(h[fr[j].parent], j) ELSE <<>>]
ChainOf(fr) == CHOOSE h : ChainsTo(fr, h, Len(fr))

LEMMA ChainUnfolds == \A i : Lineage!Chain(i) = ChainOf(frames)[i]
BY DEF Lineage!Chain, Lineage!HasLineage, Lineage!Source, ChainOf, ChainsTo, Kept

OlderParents(fr) == fr \in Seq(FrameRecord) /\ \A j \in DOMAIN fr : fr[j].parent \in 0..(j - 1)

LEMMA ChainExists ==
  ASSUME NEW fr, OlderParents(fr)
  PROVE  ChainsTo(fr, ChainOf(fr), Len(fr))
<1> DEFINE n == Len(fr)
           T == {k \in 0..n : \E h : ChainsTo(fr, h, k)}
<1>1. n \in Nat
  BY DEF OlderParents
<1>2. 0 \in T
  <2> DEFINE h == [j \in 0..0 |-> <<>>]
  <2>1. ChainsTo(fr, h, 0)
    BY DEF ChainsTo, Kept
  <2> QED
    BY <1>1, <2>1
<1>3. ASSUME NEW k \in 0..n, k < n, k \in T PROVE k + 1 \in T
  <2>1. PICK h : ChainsTo(fr, h, k)
    BY <1>3
  <2>2. k \in Nat /\ k + 1 \in DOMAIN fr /\ fr[k + 1].parent \in 0..k /\ k + 1 \in 0..n
    BY <1>1, <1>3 DEF OlderParents
  <2>3. \A j \in 1..k : fr[j].parent \in 0..k
    BY <1>1, <1>3, <2>2 DEF OlderParents
  <2> DEFINE g == [j \in 0..(k + 1) |-> IF j = k + 1
                                        THEN IF Kept(fr, j) THEN Append(h[fr[j].parent], j) ELSE <<>>
                                        ELSE h[j]]
  <2>4. ASSUME NEW j \in 0..k PROVE h[j] = IF Kept(fr, j) THEN Append(h[fr[j].parent], j) ELSE <<>>
    BY <2>1 DEF ChainsTo
  <2>5. \A j \in 0..k : g[j] = h[j]
    BY <2>2
  <2>6. ASSUME NEW j \in 0..(k + 1) PROVE g[j] = IF Kept(fr, j) THEN Append(g[fr[j].parent], j) ELSE <<>>
    <3>1. CASE j = k + 1
      <4>1. g[fr[j].parent] = h[fr[j].parent]
        BY <2>2, <2>5, <3>1
      <4> QED
        BY <3>1, <4>1
    <3>2. CASE j # k + 1
      <4>1. j \in 0..k
        BY <2>2, <3>2
      <4>2. Kept(fr, j) => g[fr[j].parent] = h[fr[j].parent]
        BY <2>3, <2>5, <4>1 DEF Kept
      <4> HIDE DEF g
      <4> QED
        BY <2>4, <2>5, <4>1, <4>2
    <3> QED
      BY <3>1, <3>2
  <2>7. DOMAIN g = 0..(k + 1) /\ g = [j \in 0..(k + 1) |-> g[j]]
    OBVIOUS
  <2>8. ChainsTo(fr, g, k + 1)
    <3> HIDE DEF g
    <3> QED
      BY <2>6, <2>7 DEF ChainsTo
  <2> HIDE DEF g, n
  <2> QED
    BY <2>2, <2>8
<1>4. n \in T
  <2> HIDE DEF T, n
  <2> QED
    BY <1>1, <1>2, <1>3, IntervalInduction
<1> QED
  BY <1>4 DEF ChainOf

LEMMA ChainStep ==
  ASSUME NEW fr, OlderParents(fr), NEW j \in 0..Len(fr)
  PROVE  ChainOf(fr)[j] = IF Kept(fr, j) THEN Append(ChainOf(fr)[fr[j].parent], j) ELSE <<>>
BY ChainExists DEF ChainsTo

(* A chain is the chain of the parent and the frame itself.                    *)
ChainGood(fr, j) ==
  LET c == ChainOf(fr)[j]
  IN  /\ c \in Seq(1..j)
      /\ c = <<>> <=> ~Kept(fr, j)
      /\ c # <<>> => c[Len(c)] = j /\ ~Kept(fr, fr[c[1]].parent)
      /\ \A n \in DOMAIN c : Kept(fr, c[n])
      /\ \A n \in DOMAIN c : n > 1 => fr[c[n]].parent = c[n - 1]

LEMMA ChainsAreGood ==
  ASSUME NEW fr, OlderParents(fr)
  PROVE  \A j \in 0..Len(fr) : ChainGood(fr, j)
<1> DEFINE N == Len(fr)
           T == {j \in 0..N : ChainGood(fr, j)}
<1>1. N \in Nat
  BY DEF OlderParents
<1>2. ASSUME NEW j \in 0..N, \A i \in 0..N : i < j => i \in T PROVE j \in T
  <2>1. ChainOf(fr)[j] = IF Kept(fr, j) THEN Append(ChainOf(fr)[fr[j].parent], j) ELSE <<>>
    BY ChainStep
  <2>2. CASE ~Kept(fr, j)
    <3>1. <<>> \in Seq(1..j) /\ DOMAIN <<>> = {}
      OBVIOUS
    <3> QED
      BY <2>1, <2>2, <3>1 DEF ChainGood
  <2>3. CASE Kept(fr, j)
    <3>1. PICK p : p = fr[j].parent
      OBVIOUS
    <3>2. j \in DOMAIN fr /\ p \in 0..N /\ p < j /\ j \in Nat /\ p \in Nat
      BY <1>1, <2>3, <3>1 DEF OlderParents, Kept
    <3>3. ChainGood(fr, p)
      BY <1>2, <3>2
    <3>4. PICK b : b = ChainOf(fr)[p]
      OBVIOUS
    <3>5. /\ b \in Seq(1..p) /\ (b = <<>> <=> ~Kept(fr, p))
          /\ b # <<>> => b[Len(b)] = p /\ ~Kept(fr, fr[b[1]].parent)
          /\ \A n \in DOMAIN b : Kept(fr, b[n])
          /\ \A n \in DOMAIN b : n > 1 => fr[b[n]].parent = b[n - 1]
      BY <3>3, <3>4 DEF ChainGood
    <3>6. PICK c : c = Append(b, j)
      OBVIOUS
    <3>7. ChainOf(fr)[j] = c
      BY <2>1, <2>3, <3>1, <3>4, <3>6
    <3>8. b \in Seq(1..j)
      <4>1. \A n \in DOMAIN b : b[n] \in 1..j
        BY <3>2, <3>5
      <4> QED
        BY <3>5, <4>1
    <3>9. /\ c \in Seq(1..j) /\ Len(c) = Len(b) + 1 /\ c # <<>> /\ c[Len(b) + 1] = j
          /\ DOMAIN c = DOMAIN b \cup {Len(b) + 1} /\ Len(b) \in Nat
          /\ \A n \in DOMAIN b : c[n] = b[n]
      BY <3>2, <3>6, <3>8
    <3>10. DOMAIN b = 1..Len(b)
      BY <3>8
    <3>11. ~Kept(fr, fr[c[1]].parent)
      <4>1. CASE b = <<>>
        BY <3>1, <3>5, <3>9, <4>1
      <4>2. CASE b # <<>>
        <5>1. 1 \in DOMAIN b
          BY <3>8, <4>2
        <5> QED
          BY <3>5, <3>9, <4>2, <5>1
      <4> QED
        BY <4>1, <4>2
    <3>12. \A n \in DOMAIN c : Kept(fr, c[n])
      BY <2>3, <3>5, <3>9
    <3>13. ASSUME NEW n \in DOMAIN c, n > 1 PROVE fr[c[n]].parent = c[n - 1]
      <4>1. CASE n \in DOMAIN b
        <5>1. n - 1 \in DOMAIN b
          BY <3>10, <3>13, <4>1
        <5> QED
          BY <3>5, <3>9, <3>13, <4>1, <5>1
      <4>2. CASE n = Len(b) + 1
        <5>1. b # <<>> /\ Len(b) \in DOMAIN b /\ n - 1 = Len(b)
          BY <3>8, <3>9, <3>13, <4>2
        <5> QED
          BY <3>1, <3>5, <3>9, <4>2, <5>1
      <4> QED
        BY <3>9, <4>1, <4>2
    <3> QED
      BY <2>3, <3>7, <3>9, <3>11, <3>12, <3>13 DEF ChainGood
  <2> QED
    BY <2>2, <2>3
<1>3. \A j \in 0..N : j \in T
  <2> HIDE DEF T, N
  <2> QED
    BY <1>1, <1>2, StrongInduction
<1> QED
  BY <1>3

(* New frames and kept results leave the chains of the older frames alone.     *)
LEMMA ChainsStay ==
  ASSUME NEW fr, NEW gr, OlderParents(fr), OlderParents(gr), Len(fr) <= Len(gr),
         \A j \in DOMAIN fr : gr[j].parent = fr[j].parent /\ gr[j].lineage = fr[j].lineage
  PROVE  \A j \in 0..Len(fr) : ChainOf(gr)[j] = ChainOf(fr)[j]
<1> DEFINE N == Len(fr)
           T == {j \in 0..N : ChainOf(gr)[j] = ChainOf(fr)[j]}
<1>1. N \in Nat /\ Len(gr) \in Nat /\ DOMAIN fr = 1..N
  BY DEF OlderParents
<1>2. ASSUME NEW j \in 0..N, \A i \in 0..N : i < j => i \in T PROVE j \in T
  <2>1. j \in 0..Len(gr)
    BY <1>1
  <2>2. /\ ChainOf(fr)[j] = IF Kept(fr, j) THEN Append(ChainOf(fr)[fr[j].parent], j) ELSE <<>>
        /\ ChainOf(gr)[j] = IF Kept(gr, j) THEN Append(ChainOf(gr)[gr[j].parent], j) ELSE <<>>
    BY <2>1, ChainStep
  <2>3. CASE j = 0
    BY <2>2, <2>3 DEF Kept
  <2>4. CASE j # 0
    <3>1. j \in DOMAIN fr /\ gr[j].parent = fr[j].parent /\ (Kept(gr, j) <=> Kept(fr, j))
      BY <1>1, <2>4 DEF Kept
    <3>2. fr[j].parent \in 0..N /\ fr[j].parent < j
      BY <1>1, <3>1 DEF OlderParents
    <3>3. ChainOf(gr)[fr[j].parent] = ChainOf(fr)[fr[j].parent]
      BY <1>2, <3>2
    <3> QED
      BY <2>2, <3>1, <3>3
  <2> QED
    BY <2>3, <2>4
<1>3. \A j \in 0..N : j \in T
  <2> HIDE DEF T, N
  <2> QED
    BY <1>1, <1>2, StrongInduction
<1> QED
  BY <1>3

AskedIn(fr, j) == {u \in Range(ChainOf(fr)[j]) \X Funcs : u[2] \in fr[u[1]].candidates}
PlanIn(fr, j) == IF j = 0 THEN {} ELSE fr[j].plan
Names(V) == {u[2] : u \in V}

LEMMA LenZero ==
  ASSUME NEW S, NEW t \in Seq(S), Len(t) = 0
  PROVE  t = <<>>
OBVIOUS

LEMMA ProductGrows ==
  ASSUME NEW A, NEW B, NEW F, A \subseteq B
  PROVE  (A \X F) \subseteq (B \X F)
OBVIOUS

LEMMA NamesAdd ==
  ASSUME NEW V, NEW W, NEW M,
         \A f \in M : \E u \in W : u[2] = f,
         \A u \in W : u[2] \in M
  PROVE  Names(V \cup W) = Names(V) \cup M
BY DEF Names

(* A frame with a lineage is asked about what its parent is asked about, and   *)
(* about its own candidates.                                                   *)
LEMMA AskedStep ==
  ASSUME NEW fr, OlderParents(fr), NEW i \in DOMAIN fr, Kept(fr, i)
  PROVE  LET q == fr[i].parent
         IN  /\ q \in 0..Len(fr) /\ q < i
             /\ AskedIn(fr, i) = AskedIn(fr, q) \cup ({i} \X fr[i].candidates)
             /\ \A u \in AskedIn(fr, q) : u[1] # i
<1>q. PICK q : q = fr[i].parent
  OBVIOUS
<1>1. /\ q \in 0..Len(fr) /\ q < i /\ q \in Nat /\ i \in 0..Len(fr) /\ i \in Nat
      /\ fr[i] \in FrameRecord
  BY <1>q DEF OlderParents
<1>2. fr[i].candidates \subseteq Funcs
  BY <1>1 DEF FrameRecord
<1>3. PICK b : b = ChainOf(fr)[q]
  OBVIOUS
<1>4. b \in Seq(1..q)
  BY <1>1, <1>3, ChainsAreGood DEF ChainGood
<1>5. ChainOf(fr)[i] = Append(b, i)
  BY <1>q, <1>1, <1>3, ChainStep
<1>6. Range(Append(b, i)) = Range(b) \cup {i}
  <2>1. b \in Seq(Nat)
    <3>1. \A n \in DOMAIN b : b[n] \in Nat
      BY <1>1, <1>4
    <3> QED
      BY <1>4, <3>1
  <2> QED
    BY <1>1, <2>1, AppendRange
<1>7. \A a \in Range(b) : a \in 1..q
  <2>1. \A n \in DOMAIN b : b[n] \in 1..q
    BY <1>1, <1>4
  <2> QED
    BY <2>1 DEF Range
<1>8. AskedIn(fr, i) = {u \in (Range(b) \cup {i}) \X Funcs : u[2] \in fr[u[1]].candidates}
  BY <1>5, <1>6 DEF AskedIn
<1>9. AskedIn(fr, q) = {u \in Range(b) \X Funcs : u[2] \in fr[u[1]].candidates}
  BY <1>3 DEF AskedIn
<1>10. \A u \in AskedIn(fr, q) : u[1] # i
  BY <1>1, <1>7, <1>9
<1>11. {i} \X fr[i].candidates = {u \in {i} \X Funcs : u[2] \in fr[u[1]].candidates}
  BY <1>2
<1>12. AskedIn(fr, i) = AskedIn(fr, q) \cup ({i} \X fr[i].candidates)
  BY <1>8, <1>9, <1>11
<1> QED
  BY <1>q, <1>1, <1>10, <1>12

LEMMA AskedStays ==
  ASSUME NEW fr, NEW gr, OlderParents(fr), OlderParents(gr), Len(fr) <= Len(gr),
         \A j \in DOMAIN fr : /\ gr[j].parent = fr[j].parent /\ gr[j].lineage = fr[j].lineage
                              /\ gr[j].candidates = fr[j].candidates
  PROVE  \A j \in 0..Len(fr) : AskedIn(gr, j) = AskedIn(fr, j)
<1> SUFFICES ASSUME NEW j \in 0..Len(fr) PROVE AskedIn(gr, j) = AskedIn(fr, j)
  OBVIOUS
<1>1. PICK c : c = ChainOf(fr)[j]
  OBVIOUS
<1>2. ChainOf(gr)[j] = c
  BY <1>1, ChainsStay
<1>3. c \in Seq(1..j)
  BY <1>1, ChainsAreGood DEF ChainGood
<1>4. \A a \in Range(c) : gr[a].candidates = fr[a].candidates
  <2>1. DOMAIN fr = 1..Len(fr) /\ Len(fr) \in Nat
    BY DEF OlderParents
  <2>2. \A a \in Range(c) : a \in 1..j
    BY <1>3 DEF Range
  <2> QED
    BY <2>1, <2>2
<1>5. /\ AskedIn(gr, j) = {u \in Range(c) \X Funcs : u[2] \in gr[u[1]].candidates}
      /\ AskedIn(fr, j) = {u \in Range(c) \X Funcs : u[2] \in fr[u[1]].candidates}
  BY <1>1, <1>2 DEF AskedIn
<1>6. \A u \in Range(c) \X Funcs : u[1] \in Range(c)
  OBVIOUS
<1> QED
  BY <1>4, <1>5, <1>6

(* What was asked when the resolution has come to a frame: everything above,   *)
(* the frame included; what matched runs natively, and the frame is rebuilt    *)
(* unless all of it matched.                                                   *)
ReachedIn(fr, q) ==
  /\ vouched \subseteq AskedIn(fr, q)
  /\ resolved = Names(vouched)
  /\ ~rebuilt => resolved = PlanIn(fr, q)
  /\ rebuilt <=> ((Kept(fr, q) /\ forced) \/ AskedIn(fr, q) # vouched)
  /\ forced => vouched = {}

LineageTypes ==
  /\ OlderParents(frames) /\ guard \in [Funcs -> BOOLEAN]
  /\ todo \in Seq(Nat) /\ forced \in BOOLEAN /\ rebuilt \in BOOLEAN
  /\ changes \in 0..MaxChanges

PlansAddUp ==
  \A j \in DOMAIN frames :
    /\ frames[j].plan = PlanIn(frames, frames[j].parent) \cup frames[j].candidates
    /\ ~frames[j].lineage => frames[j].plan = {}
    /\ frames[j].lineage <=> (Kept(frames, frames[j].parent) \/ frames[j].candidates # {})

NothingYet == executed = [plan |-> {}, of |-> 0, rebuilt |-> FALSE]

Resolving ==
  todo # <<>> =>
    /\ \A n \in DOMAIN todo : todo[n] \in DOMAIN frames /\ Kept(frames, todo[n])
    /\ \A n \in DOMAIN todo : n > 1 => frames[todo[n]].parent = todo[n - 1]
    /\ NothingYet
    /\ ReachedIn(frames, frames[todo[1]].parent)

Ran ==
  ~NothingYet =>
    LET i == executed.of
    IN  /\ i \in DOMAIN frames /\ Kept(frames, i)
        /\ ReachedIn(frames, i)
        /\ executed.plan = resolved /\ executed.rebuilt = rebuilt

Vouching == vouched \subseteq ((DOMAIN frames) \X Funcs) /\ resolved \subseteq Funcs

LineageInv ==
  /\ LineageTypes /\ PlansAddUp /\ Resolving /\ Ran /\ Vouching

LEMMA LineageInit ==
  ASSUME Lineage!LineageAssumption, Lineage!Init
  PROVE  LineageInv
<1>1. /\ frames = <<>> /\ guard = [f \in Funcs |-> TRUE] /\ todo = <<>> /\ forced = FALSE
      /\ resolved = {} /\ rebuilt = FALSE /\ vouched = {} /\ changes = 0 /\ NothingYet
      /\ MaxChanges \in Nat
  BY DEF Lineage!Init, Lineage!Nothing, NothingYet, Lineage!LineageAssumption
<1>2. OlderParents(frames)
  BY <1>1 DEF OlderParents
<1>3. changes \in 0..MaxChanges
  <2>1. changes = 0 /\ MaxChanges \in Nat
    BY <1>1
  <2> QED
    BY <2>1
<1>4. LineageTypes
  <2>1. guard \in [Funcs -> BOOLEAN]
    BY <1>1
  <2>2. forced \in BOOLEAN /\ rebuilt \in BOOLEAN
    BY <1>1
  <2>3. todo \in Seq(Nat)
    BY <1>1
  <2> QED
    BY <1>2, <1>3, <2>1, <2>2, <2>3 DEF LineageTypes
<1> QED
  BY <1>1, <1>4 DEF LineageInv, PlansAddUp, Resolving, Ran, Vouching

(* Frames that are added, or hold their result, leave the rest as it was.      *)
LEMMA ReachedStays ==
  ASSUME NEW fr, NEW gr, OlderParents(fr), OlderParents(gr), Len(fr) <= Len(gr),
         \A j \in DOMAIN fr : /\ gr[j].parent = fr[j].parent /\ gr[j].lineage = fr[j].lineage
                              /\ gr[j].candidates = fr[j].candidates /\ gr[j].plan = fr[j].plan,
         NEW q \in 0..Len(fr), ReachedIn(fr, q)
  PROVE  ReachedIn(gr, q)
<1>1. AskedIn(gr, q) = AskedIn(fr, q)
  BY AskedStays
<1>2. q # 0 => q \in DOMAIN fr
  BY DEF OlderParents
<1>3. PlanIn(gr, q) = PlanIn(fr, q) /\ (Kept(gr, q) <=> Kept(fr, q))
  BY <1>2 DEF PlanIn, Kept
<1> QED
  BY <1>1, <1>3 DEF ReachedIn

LEMMA LineageOperate ==
  ASSUME Lineage!LineageAssumption, LineageInv, NEW p \in 0..MaxFrames, NEW C \in SUBSET Funcs,
         Lineage!Operate(p, C)
  PROVE  LineageInv'
<1>0. /\ LineageTypes /\ PlansAddUp /\ Resolving /\ Ran /\ Vouching
      /\ OlderParents(frames) /\ frames \in Seq(FrameRecord)
  BY DEF LineageInv, LineageTypes, OlderParents
<1> DEFINE r == [parent |-> p, candidates |-> C, lineage |-> Kept(frames, p) \/ C # {},
                 plan |-> PlanIn(frames, p) \cup C, result |-> FALSE]
<1>1. /\ todo = <<>> /\ p \in 0..Len(frames) /\ frames' = Append(frames, r)
      /\ UNCHANGED <<guard, todo, forced, resolved, rebuilt, vouched, executed, changes>>
  BY <1>0 DEF Lineage!Operate, Lineage!Ids, Lineage!Source, Lineage!Frame, Lineage!HasLineage,
              Lineage!PlanOf, Kept, PlanIn
<1>2. p # 0 => p \in DOMAIN frames /\ frames[p] \in FrameRecord
  BY <1>0, <1>1
<1>3. PlanIn(frames, p) \subseteq Funcs /\ Kept(frames, p) \in BOOLEAN
  BY <1>2 DEF PlanIn, Kept, FrameRecord
<1>l. PICK l \in BOOLEAN : l <=> (Kept(frames, p) \/ C # {})
  OBVIOUS
<1>r. r = [parent |-> p, candidates |-> C, lineage |-> l, plan |-> PlanIn(frames, p) \cup C, result |-> FALSE]
  BY <1>3, <1>l
<1>4. /\ r \in FrameRecord /\ r.parent = p /\ r.candidates = C /\ (r.lineage <=> (Kept(frames, p) \/ C # {}))
      /\ r.plan = PlanIn(frames, p) \cup C
  <2> HIDE DEF r
  <2>1. p \in Nat /\ PlanIn(frames, p) \cup C \in SUBSET Funcs
    BY <1>1, <1>3
  <2> QED
    BY <1>l, <1>r, <2>1 DEF FrameRecord
<1> HIDE DEF r
<1>5. PICK k \in Nat : k = Len(frames)
  BY <1>0
<1>6. /\ frames' \in Seq(FrameRecord) /\ Len(frames') = k + 1 /\ frames'[k + 1] = r
      /\ DOMAIN frames = 1..k /\ DOMAIN frames' = 1..(k + 1)
      /\ \A j \in DOMAIN frames : frames'[j] = frames[j] /\ j \in DOMAIN frames'
  BY <1>0, <1>1, <1>4, <1>5
<1>7. OlderParents(frames')
  <2>1. ASSUME NEW j \in DOMAIN frames' PROVE frames'[j].parent \in 0..(j - 1)
    <3>1. CASE j \in DOMAIN frames
      BY <1>0, <1>6, <3>1 DEF OlderParents
    <3>2. CASE j = k + 1
      BY <1>1, <1>4, <1>5, <1>6, <3>2
    <3> QED
      BY <1>6, <3>1, <3>2
  <2> QED
    BY <1>6, <2>1 DEF OlderParents
<1>8. LineageTypes'
  BY <1>0, <1>1, <1>7 DEF LineageTypes
<1>9. PlansAddUp'
  <2>1. ASSUME NEW j \in 0..k
        PROVE  PlanIn(frames', j) = PlanIn(frames, j) /\ (Kept(frames', j) <=> Kept(frames, j))
    BY <1>6 DEF PlanIn, Kept
  <2>2. ASSUME NEW j \in DOMAIN frames'
        PROVE  /\ frames'[j].plan = PlanIn(frames', frames'[j].parent) \cup frames'[j].candidates
               /\ ~frames'[j].lineage => frames'[j].plan = {}
               /\ frames'[j].lineage <=> (Kept(frames', frames'[j].parent) \/ frames'[j].candidates # {})
    <3>1. CASE j \in DOMAIN frames
      <4>1. frames'[j] = frames[j] /\ frames[j].parent \in 0..k
        BY <1>0, <1>6, <3>1 DEF OlderParents
      <4> QED
        BY <1>0, <2>1, <3>1, <4>1 DEF PlansAddUp
    <3>2. CASE j = k + 1
      <4>1. /\ frames'[j] = r /\ PlanIn(frames', p) = PlanIn(frames, p)
            /\ (Kept(frames', p) <=> Kept(frames, p))
        BY <1>1, <1>5, <1>6, <2>1, <3>2
      <4>2. ~Kept(frames, p) => PlanIn(frames, p) = {}
        BY <1>0, <1>2 DEF PlansAddUp, Kept, PlanIn
      <4> QED
        BY <1>4, <4>1, <4>2
    <3> QED
      BY <1>6, <3>1, <3>2
  <2> QED
    BY <2>2 DEF PlansAddUp
<1>10. Resolving'
  BY <1>1 DEF Resolving
<1>11. Ran'
  <2> SUFFICES ASSUME ~NothingYet' PROVE Ran'
    BY DEF Ran
  <2>1. PICK i : i = executed.of
    OBVIOUS
  <2>2. ~NothingYet /\ i \in DOMAIN frames /\ Kept(frames, i) /\ ReachedIn(frames, i)
        /\ executed.plan = resolved /\ executed.rebuilt = rebuilt
    BY <1>0, <1>1, <2>1 DEF Ran, NothingYet
  <2>3. i \in 0..Len(frames) /\ Len(frames) <= Len(frames')
    BY <1>5, <1>6, <2>2
  <2>4. ReachedIn(frames', i)
    BY <1>0, <1>6, <1>7, <2>2, <2>3, ReachedStays
  <2>5. ReachedIn(frames, i)'
    BY <1>1, <2>4 DEF ReachedIn
  <2>6. i \in DOMAIN frames' /\ Kept(frames', i)
    BY <1>6, <2>2 DEF Kept
  <2> QED
    BY <1>1, <2>1, <2>2, <2>5, <2>6 DEF Ran
<1>12. Vouching'
  <2>1. DOMAIN frames \subseteq DOMAIN frames'
    BY <1>6
  <2>2. vouched' \subseteq ((DOMAIN frames) \X Funcs) /\ resolved' \subseteq Funcs
    BY <1>0, <1>1 DEF Vouching
  <2>3. ((DOMAIN frames) \X Funcs) \subseteq ((DOMAIN frames') \X Funcs)
    BY <2>1, ProductGrows
  <2> QED
    BY <2>2, <2>3 DEF Vouching
<1> QED
  BY <1>8, <1>9, <1>10, <1>11, <1>12 DEF LineageInv

LEMMA LineageChange ==
  ASSUME Lineage!LineageAssumption, LineageInv, NEW f \in Funcs, Lineage!Change(f)
  PROVE  LineageInv'
<1>0. /\ LineageTypes /\ PlansAddUp /\ Resolving /\ Ran /\ Vouching
  BY DEF LineageInv
<1>1. /\ changes < MaxChanges /\ changes' = changes + 1 /\ guard' = [guard EXCEPT ![f] = ~@]
      /\ UNCHANGED <<frames, todo, forced, resolved, rebuilt, vouched, executed>>
  BY DEF Lineage!Change
<1>2. guard' \in [Funcs -> BOOLEAN]
  BY <1>0, <1>1 DEF LineageTypes
<1>3. changes' \in 0..MaxChanges
  <2>1. changes \in 0..MaxChanges /\ MaxChanges \in Nat
    BY <1>0 DEF LineageTypes, Lineage!LineageAssumption
  <2> QED
    BY <1>1, <2>1
<1>4. LineageTypes'
  BY <1>0, <1>1, <1>2, <1>3 DEF LineageTypes
<1> QED
  BY <1>0, <1>1, <1>4 DEF LineageInv, PlansAddUp, Resolving, Ran, Vouching, ReachedIn, NothingYet

LEMMA LineageTerminal ==
  ASSUME Lineage!LineageAssumption, LineageInv, NEW i \in 1..MaxFrames, NEW b \in BOOLEAN,
         Lineage!Terminal(i, b)
  PROVE  LineageInv'
<1>0. LineageTypes /\ PlansAddUp /\ OlderParents(frames) /\ frames \in Seq(FrameRecord)
  BY DEF LineageInv, LineageTypes, OlderParents
<1>1. /\ i \in 1..Len(frames) /\ Kept(frames, i)
      /\ todo' = ChainOf(frames)[i] /\ forced' = b /\ rebuilt' = FALSE /\ vouched' = {} /\ resolved' = {}
      /\ NothingYet' /\ UNCHANGED <<frames, guard, changes>>
  BY ChainUnfolds DEF Lineage!Terminal, Lineage!Ids, Lineage!HasLineage, Lineage!Source, Kept,
                      NothingYet, Lineage!Nothing
<1>2. PICK c : c = ChainOf(frames)[i]
  OBVIOUS
<1>3. DOMAIN frames = 1..Len(frames) /\ Len(frames) \in Nat
  BY <1>0
<1>4. /\ c \in Seq(1..i) /\ c # <<>> /\ ~Kept(frames, frames[c[1]].parent)
      /\ \A n \in DOMAIN c : Kept(frames, c[n])
      /\ \A n \in DOMAIN c : n > 1 => frames[c[n]].parent = c[n - 1]
  <2>1. ChainGood(frames, i)
    BY <1>0, <1>1, <1>3, ChainsAreGood
  <2> QED
    BY <1>1, <1>2, <2>1 DEF ChainGood
<1>5. \A n \in DOMAIN c : c[n] \in DOMAIN frames /\ c[n] \in Nat
  <2>1. \A n \in DOMAIN c : c[n] \in 1..i
    BY <1>4
  <2> QED
    BY <1>1, <1>3, <2>1
<1>6. c \in Seq(Nat)
  BY <1>4, <1>5
<1>7. PICK q : q = frames[c[1]].parent
  OBVIOUS
<1>8. AskedIn(frames, q) = {} /\ PlanIn(frames, q) = {} /\ ~Kept(frames, q)
  <2>1. c[1] \in DOMAIN frames
    BY <1>4, <1>5
  <2>2. q \in 0..Len(frames) /\ (q # 0 => q \in DOMAIN frames)
    BY <1>0, <1>3, <1>7, <2>1 DEF OlderParents
  <2>3. ~Kept(frames, q)
    BY <1>4, <1>7
  <2>4. ChainOf(frames)[q] = <<>>
    BY <1>0, <2>2, <2>3, ChainStep
  <2>5. Range(<<>>) = {}
    BY DEF Range
  <2>6. AskedIn(frames, q) = {}
    BY <2>4, <2>5 DEF AskedIn
  <2>7. PlanIn(frames, q) = {}
    BY <1>0, <2>2, <2>3 DEF PlansAddUp, PlanIn, Kept
  <2> QED
    BY <2>3, <2>6, <2>7
<1>9. Names({}) = {}
  BY DEF Names
<1>10. ReachedIn(frames, q)'
  <2>1. /\ vouched' = {} /\ resolved' = {} /\ rebuilt' = FALSE /\ frames' = frames
    BY <1>1
  <2>2. PICK g : g = frames
    OBVIOUS
  <2>3. AskedIn(g, q) = {} /\ PlanIn(g, q) = {} /\ ~Kept(g, q) /\ g = frames'
    BY <1>8, <2>1, <2>2
  <2>4. ReachedIn(g, q)'
    BY <1>9, <2>1, <2>3 DEF ReachedIn
  <2> QED
    BY <2>3, <2>4
<1>11. Resolving'
  BY <1>1, <1>2, <1>4, <1>5, <1>7, <1>10 DEF Resolving
<1>12. LineageTypes'
  BY <1>0, <1>1, <1>2, <1>6 DEF LineageTypes
<1>13. PlansAddUp' /\ Ran' /\ Vouching'
  <2>1. PlansAddUp'
    BY <1>0, <1>1 DEF PlansAddUp
  <2>2. Ran' /\ Vouching'
    BY <1>1 DEF Ran, Vouching
  <2> QED
    BY <2>1, <2>2
<1> QED
  BY <1>11, <1>12, <1>13 DEF LineageInv

(* One level: its candidates are asked again.                                  *)
LEMMA ReachedNext ==
  ASSUME LineageInv, NEW i \in DOMAIN frames, Kept(frames, i), ReachedIn(frames, frames[i].parent),
         NEW M, M = {f \in frames[i].candidates : ~forced /\ guard[f]},
         NEW keep \in BOOLEAN, keep <=> (~forced /\ ~rebuilt /\ M = frames[i].candidates),
         resolved' = IF keep THEN frames[i].plan ELSE resolved \cup M,
         rebuilt' = ~keep, vouched' = vouched \cup ({i} \X M), forced' = forced
  PROVE  /\ resolved' = resolved \cup M
         /\ vouched' \subseteq AskedIn(frames, i)
         /\ resolved' = Names(vouched')
         /\ ~rebuilt' => resolved' = PlanIn(frames, i)
         /\ rebuilt' <=> ((Kept(frames, i) /\ forced') \/ AskedIn(frames, i) # vouched')
         /\ forced' => vouched' = {}
<1>q. PICK q : q = frames[i].parent
  OBVIOUS
<1>c. PICK C : C = frames[i].candidates
  OBVIOUS
<1>0. OlderParents(frames) /\ frames[i].plan = PlanIn(frames, q) \cup C /\ forced \in BOOLEAN /\ rebuilt \in BOOLEAN
  BY <1>q, <1>c DEF LineageInv, LineageTypes, PlansAddUp
<1>1. /\ AskedIn(frames, i) = AskedIn(frames, q) \cup ({i} \X C)
      /\ \A u \in AskedIn(frames, q) : u[1] # i
  BY <1>q, <1>c, <1>0, AskedStep
<1>2. /\ vouched \subseteq AskedIn(frames, q)
      /\ resolved = Names(vouched)
      /\ ~rebuilt => resolved = PlanIn(frames, q)
      /\ rebuilt <=> ((Kept(frames, q) /\ forced) \/ AskedIn(frames, q) # vouched)
      /\ forced => vouched = {}
  BY <1>q DEF ReachedIn
<1>3. resolved' = resolved \cup M
  BY <1>c, <1>0, <1>2
<1>4. M \subseteq C /\ (forced => M = {})
  BY <1>c
<1>5. ({i} \X M) \subseteq ({i} \X C)
  BY <1>4
<1>6. vouched' \subseteq AskedIn(frames, i)
  BY <1>1, <1>2, <1>5
<1>7. resolved' = Names(vouched')
  <2>1. PICK V : V = vouched
    OBVIOUS
  <2>w. PICK W : W = {i} \X M
    OBVIOUS
  <2>a. \A f \in M : <<i, f>> \in W /\ <<i, f>>[2] = f
    BY <2>w
  <2>b. \A u \in W : u[2] \in M
    BY <2>w
  <2>c. \A f \in M : \E u \in W : u[2] = f
    BY <2>a
  <2>2. Names(V \cup W) = Names(V) \cup M
    BY <2>b, <2>c, NamesAdd
  <2>3. vouched' = V \cup W /\ resolved' = Names(V) \cup M
    BY <1>2, <1>3, <2>1, <2>w
  <2> QED
    BY <2>2, <2>3
<1>8. ~rebuilt' => resolved' = PlanIn(frames, i)
  <2>1. i # 0
    BY DEF Kept
  <2> QED
    BY <2>1 DEF PlanIn
<1>9. forced => vouched' = {}
  <2>1. {i} \X {} = {}
    OBVIOUS
  <2> QED
    BY <1>2, <1>4, <2>1
<1>10. AskedIn(frames, i) = vouched' <=> (AskedIn(frames, q) = vouched /\ M = C)
  <2>1. ASSUME AskedIn(frames, q) = vouched, M = C PROVE AskedIn(frames, i) = vouched'
    BY <1>1, <2>1
  <2>2. ASSUME AskedIn(frames, i) = vouched' PROVE AskedIn(frames, q) = vouched
    <3>1. \A u \in {i} \X M : u[1] = i
      OBVIOUS
    <3>2. \A u \in AskedIn(frames, q) : u \in vouched
      BY <1>1, <2>2, <3>1
    <3> QED
      BY <1>2, <3>2
  <2>3. ASSUME AskedIn(frames, i) = vouched' PROVE M = C
    <3>1. ASSUME NEW f \in C PROVE f \in M
      <4>1. <<i, f>> \in {i} \X C
        BY <3>1
      <4>2. <<i, f>> \in vouched'
        BY <1>1, <2>3, <4>1
      <4>3. <<i, f>> \notin vouched
        <5>1. <<i, f>>[1] = i
          OBVIOUS
        <5> QED
          BY <1>1, <1>2, <5>1
      <4>4. <<i, f>> \in {i} \X M
        BY <4>2, <4>3
      <4> QED
        BY <4>4
    <3> QED
      BY <1>4, <3>1
  <2> QED
    BY <2>1, <2>2, <2>3
<1>11. rebuilt' <=> ((Kept(frames, i) /\ forced') \/ AskedIn(frames, i) # vouched')
  BY <1>c, <1>2, <1>10
<1> QED
  BY <1>3, <1>6, <1>7, <1>8, <1>9, <1>11

LEMMA LineageLevel ==
  ASSUME Lineage!LineageAssumption, LineageInv, NEW cached \in BOOLEAN, Lineage!Level(cached)
  PROVE  LineageInv'
<1>0. /\ LineageTypes /\ PlansAddUp /\ Resolving /\ Ran /\ Vouching
      /\ OlderParents(frames) /\ frames \in Seq(FrameRecord) /\ todo \in Seq(Nat)
      /\ forced \in BOOLEAN /\ rebuilt \in BOOLEAN
  BY DEF LineageInv, LineageTypes, OlderParents
<1>i. PICK i : i = todo[1]
  OBVIOUS
<1>1. todo # <<>> /\ 1 \in DOMAIN todo /\ Head(todo) = i
  BY <1>0, <1>i DEF Lineage!Level
<1>2. /\ i \in DOMAIN frames /\ Kept(frames, i) /\ ReachedIn(frames, frames[i].parent) /\ NothingYet
      /\ \A n \in DOMAIN todo : todo[n] \in DOMAIN frames /\ Kept(frames, todo[n])
      /\ \A n \in DOMAIN todo : n > 1 => frames[todo[n]].parent = todo[n - 1]
  BY <1>0, <1>1, <1>i DEF Resolving
<1>m. PICK M : M = {f \in frames[i].candidates : ~forced /\ guard[f]}
  OBVIOUS
<1>k. PICK keep \in BOOLEAN : keep <=> (~forced /\ ~rebuilt /\ M = frames[i].candidates)
  OBVIOUS
<1>3. /\ resolved' = (IF keep THEN frames[i].plan ELSE resolved \cup M)
      /\ rebuilt' = ~keep
      /\ vouched' = vouched \cup ({i} \X M)
      /\ executed' = IF Tail(todo) # <<>> THEN [plan |-> {}, of |-> 0, rebuilt |-> FALSE]
                     ELSE [plan |-> resolved', of |-> i, rebuilt |-> rebuilt']
      /\ frames' = IF Tail(todo) = <<>> /\ keep /\ cached THEN [frames EXCEPT ![i].result = TRUE] ELSE frames
      /\ todo' = Tail(todo) /\ UNCHANGED <<guard, forced, changes>>
  BY <1>1, <1>m, <1>k DEF Lineage!Level, Lineage!Holds, Lineage!Nothing
<1>4. /\ vouched' \subseteq AskedIn(frames, i)
      /\ resolved' = Names(vouched')
      /\ ~rebuilt' => resolved' = PlanIn(frames, i)
      /\ rebuilt' <=> ((Kept(frames, i) /\ forced') \/ AskedIn(frames, i) # vouched')
      /\ forced' => vouched' = {}
      /\ resolved' = resolved \cup M
  BY <1>2, <1>3, <1>m, <1>k, ReachedNext
<1>5. /\ frames' \in Seq(FrameRecord) /\ Len(frames') = Len(frames) /\ DOMAIN frames' = DOMAIN frames
      /\ \A j \in DOMAIN frames :
           /\ frames'[j].parent = frames[j].parent /\ frames'[j].lineage = frames[j].lineage
           /\ frames'[j].candidates = frames[j].candidates /\ frames'[j].plan = frames[j].plan
  <2>1. CASE frames' = frames
    BY <1>0, <2>1
  <2>2. CASE frames' = [frames EXCEPT ![i].result = TRUE]
    <3> DEFINE r == [frames[i] EXCEPT !.result = TRUE]
    <3>1. frames[i] \in FrameRecord
      BY <1>0, <1>2
    <3>2. /\ r \in FrameRecord /\ r.parent = frames[i].parent /\ r.lineage = frames[i].lineage
          /\ r.candidates = frames[i].candidates /\ r.plan = frames[i].plan
      BY <3>1 DEF FrameRecord
    <3>3. frames' = [frames EXCEPT ![i] = r]
      BY <2>2
    <3> HIDE DEF r
    <3> QED
      BY <1>0, <1>2, <3>2, <3>3
  <2> QED
    BY <1>3, <2>1, <2>2
<1>6. OlderParents(frames')
  BY <1>0, <1>5 DEF OlderParents
<1>7. DOMAIN frames = 1..Len(frames) /\ Len(frames) \in Nat /\ i \in 0..Len(frames)
  BY <1>0, <1>2
<1>8. /\ AskedIn(frames', i) = AskedIn(frames, i) /\ PlanIn(frames', i) = PlanIn(frames, i)
      /\ (Kept(frames', i) <=> Kept(frames, i))
  <2>1. AskedIn(frames', i) = AskedIn(frames, i)
    <3>1. Len(frames) <= Len(frames')
      BY <1>5, <1>7
    <3> QED
      BY <1>0, <1>5, <1>6, <1>7, <3>1, AskedStays
  <2> QED
    BY <1>2, <1>5, <2>1 DEF PlanIn, Kept
<1>9. /\ vouched' \subseteq AskedIn(frames', i)
      /\ resolved' = Names(vouched')
      /\ ~rebuilt' => resolved' = PlanIn(frames', i)
      /\ rebuilt' <=> ((Kept(frames', i) /\ forced') \/ AskedIn(frames', i) # vouched')
      /\ forced' => vouched' = {}
  BY <1>4, <1>8
<1>10. LineageTypes'
  <2>1. todo' \in Seq(Nat) /\ rebuilt' \in BOOLEAN
    BY <1>0, <1>1, <1>3
  <2> QED
    BY <1>0, <1>3, <1>6, <2>1 DEF LineageTypes
<1>11. PlansAddUp'
  <2>1. ASSUME NEW j \in DOMAIN frames'
        PROVE  /\ frames'[j].plan = PlanIn(frames', frames'[j].parent) \cup frames'[j].candidates
               /\ ~frames'[j].lineage => frames'[j].plan = {}
               /\ frames'[j].lineage <=> (Kept(frames', frames'[j].parent) \/ frames'[j].candidates # {})
    <3>1. PICK p : p = frames[j].parent
      OBVIOUS
    <3>2. p # 0 => p \in DOMAIN frames
      BY <1>0, <1>5, <1>7, <2>1, <3>1 DEF OlderParents
    <3>3. PlanIn(frames', p) = PlanIn(frames, p) /\ (Kept(frames', p) <=> Kept(frames, p))
      BY <1>5, <3>2 DEF PlanIn, Kept
    <3> QED
      BY <1>0, <1>5, <2>1, <3>1, <3>3 DEF PlansAddUp
  <2> QED
    BY <2>1 DEF PlansAddUp
<1>12. Resolving'
  <2> SUFFICES ASSUME todo' # <<>> PROVE Resolving'
    BY DEF Resolving
  <2>1. PICK t : t = Tail(todo)
    OBVIOUS
  <2>2. /\ t \in Seq(Nat) /\ t # <<>> /\ 1 \in DOMAIN t
        /\ \A n \in DOMAIN t : n \in Nat \ {0} /\ n + 1 \in DOMAIN todo /\ t[n] = todo[n + 1]
        /\ \A n \in DOMAIN t : n > 1 => n - 1 \in DOMAIN t
    <3>1. /\ t \in Seq(Nat) /\ t # <<>> /\ Len(todo) \in Nat /\ Len(t) = Len(todo) - 1
          /\ DOMAIN t = 1..Len(t) /\ DOMAIN todo = 1..Len(todo)
      BY <1>0, <1>1, <1>3, <2>1
    <3>2. \A n \in DOMAIN t : t[n] = todo[n + 1]
      BY <1>0, <1>1, <2>1, <3>1
    <3>3. Len(t) \in Nat /\ Len(t) # 0
      <4>1. Len(t) \in Nat /\ (Len(t) = 0 => t = <<>>)
        <5>1. t \in Seq(Nat)
          BY <3>1
        <5> QED
          BY <5>1, LenZero
      <4> QED
        BY <3>1, <4>1
    <3>4. /\ 1 \in DOMAIN t
          /\ \A n \in DOMAIN t : n \in Nat \ {0} /\ n + 1 \in DOMAIN todo
          /\ \A n \in DOMAIN t : n > 1 => n - 1 \in DOMAIN t
      BY <3>1, <3>3
    <3> QED
      BY <3>1, <3>2, <3>4
  <2>3. \A n \in DOMAIN t : t[n] \in DOMAIN frames' /\ Kept(frames', t[n])
    BY <1>2, <1>5, <2>2 DEF Kept
  <2>4. ASSUME NEW n \in DOMAIN t, n > 1 PROVE frames'[t[n]].parent = t[n - 1]
    <3>a. n \in Nat /\ n + 1 \in DOMAIN todo /\ n - 1 \in DOMAIN t
      BY <2>2, <2>4
    <3>b. n + 1 > 1 /\ (n - 1) + 1 = n /\ (n + 1) - 1 = n
      BY <2>4, <3>a
    <3>c. t[n] = todo[n + 1] /\ t[n - 1] = todo[(n - 1) + 1]
      BY <2>2, <3>a
    <3>1. /\ n + 1 \in DOMAIN todo /\ n + 1 > 1 /\ (n + 1) - 1 = n
          /\ t[n] = todo[n + 1] /\ t[n - 1] = todo[n]
      BY <3>a, <3>b, <3>c
    <3>2. frames[todo[n + 1]].parent = todo[n]
      BY <1>2, <3>1
    <3>3. frames'[t[n]].parent = frames[t[n]].parent
      BY <1>2, <1>5, <2>2
    <3> QED
      BY <3>1, <3>2, <3>3
  <2>5. NothingYet'
    BY <1>3, <2>1, <2>2 DEF NothingYet
  <2>6. frames'[t[1]].parent = i
    <3>1. 2 \in DOMAIN todo /\ t[1] = todo[2] /\ 2 > 1 /\ 2 - 1 = 1
      BY <2>2
    <3>2. frames[todo[2]].parent = todo[1]
      BY <1>2, <3>1
    <3> QED
      BY <1>2, <1>5, <1>i, <3>1, <3>2
  <2>8. ReachedIn(frames, frames[todo[1]].parent)'
    <3>1. frames'[todo'[1]].parent = i
      BY <1>3, <2>1, <2>6
    <3> QED
      BY <1>9, <3>1 DEF ReachedIn
  <2> QED
    BY <1>3, <2>1, <2>3, <2>4, <2>5, <2>8 DEF Resolving
<1>13. Ran'
  <2> SUFFICES ASSUME ~NothingYet' PROVE Ran'
    BY DEF Ran
  <2>1. executed' = [plan |-> resolved', of |-> i, rebuilt |-> rebuilt']
    BY <1>3 DEF NothingYet
  <2>2. executed'.plan = resolved' /\ executed'.of = i /\ executed'.rebuilt = rebuilt'
    BY <2>1
  <2>3. i \in DOMAIN frames' /\ Kept(frames', i)
    BY <1>2, <1>5, <1>8
  <2> QED
    BY <1>9, <2>2, <2>3 DEF Ran, ReachedIn
<1>14. Vouching'
  <2>1. M \subseteq Funcs
    <3>1. frames[i] \in FrameRecord
      BY <1>0, <1>2
    <3> QED
      BY <1>m, <3>1 DEF FrameRecord
  <2>2. ({i} \X M) \subseteq ((DOMAIN frames) \X Funcs)
    BY <1>2, <2>1
  <2>3. vouched \subseteq ((DOMAIN frames) \X Funcs) /\ resolved \subseteq Funcs
    BY <1>0 DEF Vouching
  <2>4. vouched' \subseteq ((DOMAIN frames') \X Funcs)
    BY <1>3, <1>5, <2>2, <2>3
  <2>5. resolved' \subseteq Funcs
    BY <1>4, <2>1, <2>3
  <2> QED
    BY <2>4, <2>5 DEF Vouching
<1> QED
  BY <1>10, <1>11, <1>12, <1>13, <1>14 DEF LineageInv

LEMMA LineageNext ==
  ASSUME Lineage!LineageAssumption, LineageInv, Lineage!Next \/ UNCHANGED lineageVars
  PROVE  LineageInv'
<1>1. CASE Lineage!Next
  BY <1>1, LineageOperate, LineageChange, LineageTerminal, LineageLevel DEF Lineage!Next
<1>2. CASE UNCHANGED lineageVars
  BY <1>2 DEF lineageVars, LineageInv, LineageTypes, PlansAddUp, Resolving, Ran, Vouching, ReachedIn, NothingYet
<1> QED
  BY <1>1, <1>2

LEMMA LineageFacts ==
  ASSUME Lineage!LineageAssumption, LineageInv
  PROVE  Lineage!TypeOK /\ Lineage!ExecutedPlansWereChecked
<1>0. /\ LineageTypes /\ PlansAddUp /\ Resolving /\ Ran /\ Vouching
      /\ OlderParents(frames) /\ frames \in Seq(FrameRecord) /\ todo \in Seq(Nat)
      /\ DOMAIN frames = 1..Len(frames) /\ DOMAIN todo = 1..Len(todo)
  BY DEF LineageInv, LineageTypes, OlderParents
<1>1. Lineage!TypeOK
  <2>1. \A i \in 1..Len(frames) :
          /\ frames[i].parent \in 0..(i - 1)
          /\ frames[i].candidates \subseteq Funcs /\ frames[i].plan \subseteq Funcs
    <3>1. \A i \in DOMAIN frames : frames[i] \in FrameRecord
      BY <1>0
    <3> QED
      BY <1>0, <3>1 DEF OlderParents, FrameRecord
  <2>2. \A i \in 1..Len(todo) : todo[i] \in 1..Len(frames)
    BY <1>0 DEF Resolving
  <2>3. vouched \subseteq ((1..Len(frames)) \X Funcs) /\ resolved \subseteq Funcs
    <3>1. vouched \subseteq ((DOMAIN frames) \X Funcs) /\ resolved \subseteq Funcs
      BY <1>0 DEF Vouching
    <3>2. DOMAIN frames = 1..Len(frames)
      BY <1>0
    <3> QED
      BY <3>1, <3>2
  <2> QED
    BY <1>0, <2>1, <2>2, <2>3 DEF Lineage!TypeOK, Lineage!Ids, LineageTypes
<1>2. Lineage!ExecutedPlansWereChecked
  <2> SUFFICES ASSUME executed # Lineage!Nothing PROVE Lineage!ExecutedPlansWereChecked
    BY DEF Lineage!ExecutedPlansWereChecked
  <2>i. PICK i : i = executed.of
    OBVIOUS
  <2>1. /\ i \in DOMAIN frames /\ Kept(frames, i) /\ ReachedIn(frames, i)
        /\ executed.plan = resolved /\ executed.rebuilt = rebuilt
    BY <1>0, <2>i DEF Ran, NothingYet, Lineage!Nothing
  <2>2. PICK c : c = ChainOf(frames)[i]
    OBVIOUS
  <2>3. c \in Seq(1..i) /\ DOMAIN c = 1..Len(c)
    <3>1. ChainGood(frames, i)
      BY <1>0, <2>1, ChainsAreGood
    <3> QED
      BY <2>2, <3>1 DEF ChainGood
  <2>4. Lineage!Chain(i) = c
    BY <2>2, ChainUnfolds
  <2>5. Lineage!Ancestors(i) = Range(c)
    BY <2>3, <2>4 DEF Lineage!Ancestors, Range
  <2>6. {u \in Lineage!Ancestors(i) \X Funcs : u[2] \in frames[u[1]].candidates} = AskedIn(frames, i)
    BY <2>2, <2>5 DEF AskedIn
  <2>7. AskedIn(frames, i) \cap vouched = vouched
    BY <2>1 DEF ReachedIn
  <2>8. executed.plan = {u[2] : u \in AskedIn(frames, i) \cap vouched}
    BY <2>1, <2>7 DEF ReachedIn, Names
  <2>9. executed.rebuilt <=> (forced \/ AskedIn(frames, i) # vouched)
    BY <2>1 DEF ReachedIn
  <2>10. forced => executed.plan = {}
    BY <2>1 DEF ReachedIn, Names
  <2> QED
    BY <2>i, <2>6, <2>8, <2>9, <2>10 DEF Lineage!ExecutedPlansWereChecked
<1> QED
  BY <1>1, <1>2

-----------------------------------------------------------------------------
(* References, tasks and payloads.                                             *)
DeliveryTypes ==
  /\ driver \in Seq(Published) /\ Len(driver) <= MaxArtifacts
  /\ DOMAIN scheduler \subseteq Plans /\ IsFiniteSet(DOMAIN scheduler)
  /\ Cardinality(DOMAIN scheduler) <= MaxPlans
  /\ \A p \in DOMAIN scheduler : scheduler[p] \subseteq Published
  /\ plan \in [Plans -> Delivery!PlanRecord]
  /\ payloads \subseteq Published /\ positive \subseteq ArtifactIds
  /\ negative \subseteq ArtifactIds /\ missed \subseteq Plans
PayloadsHeld == \A a \in payloads : \E p \in Plans : plan[p].stage = "running" /\ a \in plan[p].prefetched
ContextKept == \A p \in Plans : plan[p].stage = "running" => plan[p].seen = plan[p].context
Decided == \A a \in positive : a \notin negative
DeliveryInv == DeliveryTypes /\ PayloadsHeld /\ ContextKept /\ Decided

LEMMA DeliveryCardinality == \A S : Delivery!Cardinality(S) = Cardinality(S)
BY DEF Delivery!Cardinality, Cardinality

LEMMA DeliveryFacts ==
  ASSUME DeliveryInv
  PROVE  /\ Delivery!TypeOK /\ Delivery!PayloadsOfRunningTasks /\ Delivery!ContextRestored
         /\ Delivery!OneVerdict
<1>1. Delivery!TypeOK
  <2>1. \A p \in DOMAIN scheduler : scheduler[p] \in SUBSET Published
    BY DEF DeliveryInv, DeliveryTypes
  <2> QED
    BY <2>1, DeliveryCardinality DEF DeliveryInv, DeliveryTypes, Delivery!TypeOK
<1>2. Delivery!PayloadsOfRunningTasks
  BY DEF DeliveryInv, PayloadsHeld, Delivery!PayloadsOfRunningTasks
<1>3. Delivery!ContextRestored /\ Delivery!OneVerdict
  BY DEF DeliveryInv, ContextKept, Decided, Delivery!ContextRestored, Delivery!OneVerdict
<1> QED
  BY <1>1, <1>2, <1>3

LEMMA DeliveryInit ==
  ASSUME Delivery!DeliveryAssumption, Delivery!Init
  PROVE  DeliveryInv
<1>1. /\ driver = <<>> /\ DOMAIN scheduler = {} /\ payloads = {} /\ positive = {}
      /\ negative = {} /\ missed = {}
  BY DEF Delivery!Init
<1>2. /\ MaxArtifacts \in Nat /\ MaxPlans \in Nat
  BY DEF Delivery!DeliveryAssumption
<1>3. IsFiniteSet({}) /\ Cardinality({}) = 0
  BY FS_EmptySet
<1>4. <<>> \in Seq(Published) /\ Len(<<>>) = 0
  OBVIOUS
<1>5. plan \in [Plans -> Delivery!PlanRecord] /\ \A p \in Plans : plan[p].stage = "new"
  BY DEF Delivery!Init, Delivery!PlanRecord, Delivery!Stages, Delivery!Contexts
<1>6. DeliveryTypes
  BY <1>1, <1>2, <1>3, <1>4, <1>5 DEF DeliveryTypes
<1> QED
  BY <1>1, <1>5, <1>6 DEF DeliveryInv, PayloadsHeld, ContextKept, Decided

(* What a step leaves alone that touches neither tasks nor payloads.           *)
LEMMA PlanStep ==
  ASSUME DeliveryInv, NEW p \in Plans, NEW r, r \in Delivery!PlanRecord,
         plan' = [plan EXCEPT ![p] = r], payloads' = payloads,
         plan[p].stage # "running", r.stage # "running"
  PROVE  plan' \in [Plans -> Delivery!PlanRecord] /\ PayloadsHeld' /\ ContextKept'
<1>0. plan \in [Plans -> Delivery!PlanRecord] /\ PayloadsHeld /\ ContextKept
  BY DEF DeliveryInv, DeliveryTypes
<1>1. /\ plan' \in [Plans -> Delivery!PlanRecord] /\ plan'[p] = r
      /\ \A q \in Plans : q # p => plan'[q] = plan[q]
  BY <1>0
<1>2. PayloadsHeld'
  <2> SUFFICES ASSUME NEW a \in payloads'
               PROVE  \E q \in Plans : plan'[q].stage = "running" /\ a \in plan'[q].prefetched
    BY DEF PayloadsHeld
  <2>1. PICK q \in Plans : plan[q].stage = "running" /\ a \in plan[q].prefetched
    BY <1>0 DEF PayloadsHeld
  <2> QED
    BY <1>1, <2>1
<1>3. ContextKept'
  BY <1>0, <1>1 DEF ContextKept
<1> QED
  BY <1>1, <1>2, <1>3

LEMMA DeliveryRegister ==
  ASSUME Delivery!DeliveryAssumption, DeliveryInv, NEW a \in ArtifactIds, Delivery!Register(a)
  PROVE  DeliveryInv'
<1>0. DeliveryTypes /\ PayloadsHeld /\ ContextKept /\ Decided /\ MaxArtifacts \in Nat
  BY DEF DeliveryInv, Delivery!DeliveryAssumption
<1>1. /\ a \in Published /\ driver' = Delivery!Registered(a)
      /\ UNCHANGED <<scheduler, plan, payloads, positive, negative, missed>>
  BY DEF Delivery!Register
<1>2. PICK k : k = IF a \in Delivery!Range(driver) THEN driver ELSE Append(driver, a)
  OBVIOUS
<1>3. k \in Seq(Published) /\ Len(k) \in Nat
  BY <1>0, <1>1, <1>2 DEF DeliveryTypes
<1>4. PICK m : m = IF Len(k) > MaxArtifacts THEN Len(k) - MaxArtifacts ELSE 0
  OBVIOUS
<1>5. m \in Nat /\ m <= Len(k) /\ Len(k) - m <= MaxArtifacts
  BY <1>0, <1>3, <1>4
<1>6. driver' = SubSeq(k, 1 + m, Len(k))
  BY <1>1, <1>2, <1>4 DEF Delivery!Registered
<1>7. driver' \in Seq(Published) /\ Len(driver') = Len(k) - m
  BY <1>3, <1>5, <1>6
<1>8. DeliveryTypes'
  <2>1. Len(driver') <= MaxArtifacts
    BY <1>5, <1>7
  <2> QED
    BY <1>0, <1>1, <1>7, <2>1 DEF DeliveryTypes
<1> QED
  BY <1>0, <1>1, <1>8 DEF DeliveryInv, PayloadsHeld, ContextKept, Decided

LEMMA DeliveryStreamPlan ==
  ASSUME DeliveryInv, NEW p \in Plans, Delivery!StreamPlan(p)
  PROVE  DeliveryInv'
<1>0. DeliveryTypes /\ Decided /\ plan \in [Plans -> Delivery!PlanRecord] /\ driver \in Seq(Published)
  BY DEF DeliveryInv, DeliveryTypes
<1>1. /\ plan[p].stage = "new" /\ UNCHANGED <<driver, scheduler, payloads, positive, negative, missed>>
      /\ \E identified \in BOOLEAN :
           plan' = [plan EXCEPT ![p].stage = "streamed",
                                ![p].references = IF identified THEN Delivery!Range(driver) ELSE {}]
  BY DEF Delivery!StreamPlan
<1>2. PICK R : /\ R \subseteq Published
               /\ plan' = [plan EXCEPT ![p].stage = "streamed", ![p].references = R]
  <2>1. Delivery!Range(driver) \subseteq Published
    BY <1>0 DEF Delivery!Range
  <2>2. {} \subseteq Published
    OBVIOUS
  <2> QED
    BY <1>1, <2>1, <2>2
<1>3. PICK r : r = [plan[p] EXCEPT !.stage = "streamed", !.references = R]
  OBVIOUS
<1>4. r \in Delivery!PlanRecord /\ r.stage = "streamed"
  BY <1>0, <1>2, <1>3 DEF Delivery!PlanRecord, Delivery!Stages
<1>5. plan' = [plan EXCEPT ![p] = r]
  BY <1>0, <1>2, <1>3
<1>6. plan' \in [Plans -> Delivery!PlanRecord] /\ PayloadsHeld' /\ ContextKept'
  BY <1>1, <1>4, <1>5, PlanStep
<1>7. DeliveryTypes'
  BY <1>0, <1>1, <1>6 DEF DeliveryTypes
<1> QED
  BY <1>0, <1>1, <1>6, <1>7 DEF DeliveryInv, Decided

(* A stage that is not running, and another that is not.                       *)
LEMMA StageStep ==
  ASSUME DeliveryInv, NEW p \in Plans, NEW s \in Delivery!Stages, s # "running",
         plan[p].stage # "running", plan' = [plan EXCEPT ![p].stage = s], payloads' = payloads
  PROVE  plan' \in [Plans -> Delivery!PlanRecord] /\ PayloadsHeld' /\ ContextKept'
<1>0. plan \in [Plans -> Delivery!PlanRecord]
  BY DEF DeliveryInv, DeliveryTypes
<1>1. PICK r : r = [plan[p] EXCEPT !.stage = s]
  OBVIOUS
<1>2. r \in Delivery!PlanRecord /\ r.stage = s
  BY <1>0, <1>1 DEF Delivery!PlanRecord
<1>3. plan' = [plan EXCEPT ![p] = r]
  BY <1>0, <1>1
<1> QED
  BY <1>2, <1>3, PlanStep

LEMMA WithPlanBounded ==
  ASSUME Delivery!DeliveryAssumption, DeliveryTypes, NEW p \in Plans, Delivery!Capacity(p),
         NEW R, R \subseteq Published, scheduler' = Delivery!WithPlan(p, R)
  PROVE  /\ DOMAIN scheduler' \subseteq Plans /\ IsFiniteSet(DOMAIN scheduler')
         /\ Cardinality(DOMAIN scheduler') <= MaxPlans
         /\ \A q \in DOMAIN scheduler' : scheduler'[q] \subseteq Published
<1>0. /\ DOMAIN scheduler \subseteq Plans /\ IsFiniteSet(DOMAIN scheduler)
      /\ Cardinality(DOMAIN scheduler) <= MaxPlans /\ Cardinality(DOMAIN scheduler) \in Nat
      /\ \A q \in DOMAIN scheduler : scheduler[q] \subseteq Published
      /\ MaxPlans \in Nat
  BY FS_CardinalityType DEF DeliveryTypes, Delivery!DeliveryAssumption
<1>1. PICK D : D = DOMAIN scheduler
  OBVIOUS
<1>2. scheduler' = [q \in D \cup {p} |-> IF q = p THEN R ELSE scheduler[q]]
  BY <1>1 DEF Delivery!WithPlan
<1>3. DOMAIN scheduler' = D \cup {p} /\ \A q \in D \cup {p} : scheduler'[q] \subseteq Published
  BY <1>0, <1>1, <1>2
<1>4. /\ IsFiniteSet(D \cup {p})
      /\ Cardinality(D \cup {p}) = IF p \in D THEN Cardinality(D) ELSE Cardinality(D) + 1
  BY <1>0, <1>1, FS_AddElement
<1>5. p \in D \/ Cardinality(D) < MaxPlans
  <2>1. p \in DOMAIN scheduler \/ Cardinality(DOMAIN scheduler) < MaxPlans
    BY DeliveryCardinality DEF Delivery!Capacity
  <2> QED
    BY <1>1, <2>1
<1>6. Cardinality(D \cup {p}) <= MaxPlans
  BY <1>0, <1>1, <1>4, <1>5
<1> QED
  BY <1>0, <1>1, <1>3, <1>4, <1>6

LEMMA DeliveryScheduleRun ==
  ASSUME Delivery!DeliveryAssumption, DeliveryInv, NEW p \in Plans, Delivery!ScheduleRun(p)
  PROVE  DeliveryInv'
<1>0. DeliveryTypes /\ Decided /\ plan \in [Plans -> Delivery!PlanRecord]
  BY DEF DeliveryInv, DeliveryTypes
<1>1. plan[p].stage = "streamed" /\ UNCHANGED <<driver, payloads, positive, negative, missed>>
  BY DEF Delivery!ScheduleRun
<1>2. PICK s \in {"active", "ended"} : plan' = [plan EXCEPT ![p].stage = s]
  BY DEF Delivery!ScheduleRun
<1>3. \/ UNCHANGED scheduler
      \/ Delivery!Capacity(p) /\ scheduler' = Delivery!WithPlan(p, plan[p].references)
  BY DEF Delivery!ScheduleRun
<1>4. plan' \in [Plans -> Delivery!PlanRecord] /\ PayloadsHeld' /\ ContextKept'
  BY <1>1, <1>2, StageStep DEF Delivery!Stages
<1>5. plan[p].references \subseteq Published
  BY <1>0 DEF Delivery!PlanRecord
<1>6. DeliveryTypes'
  <2>1. CASE UNCHANGED scheduler
    BY <1>0, <1>1, <1>4, <2>1 DEF DeliveryTypes
  <2>2. CASE Delivery!Capacity(p) /\ scheduler' = Delivery!WithPlan(p, plan[p].references)
    <3>1. PICK R : R = plan[p].references
      OBVIOUS
    <3>2. /\ DOMAIN scheduler' \subseteq Plans /\ IsFiniteSet(DOMAIN scheduler')
          /\ Cardinality(DOMAIN scheduler') <= MaxPlans
          /\ \A q \in DOMAIN scheduler' : scheduler'[q] \subseteq Published
      BY <1>0, <1>5, <2>2, <3>1, WithPlanBounded
    <3> QED
      BY <1>0, <1>1, <1>4, <3>2 DEF DeliveryTypes
  <2> QED
    BY <1>3, <2>1, <2>2
<1> QED
  BY <1>0, <1>1, <1>4, <1>6 DEF DeliveryInv, Decided

LEMMA DeliverySubmitTask ==
  ASSUME DeliveryInv, NEW p \in Plans, Delivery!SubmitTask(p)
  PROVE  DeliveryInv'
<1>0. DeliveryTypes /\ Decided /\ plan \in [Plans -> Delivery!PlanRecord]
  BY DEF DeliveryInv, DeliveryTypes
<1>1. plan[p].stage = "active" /\ UNCHANGED <<driver, scheduler, payloads, positive, negative, missed>>
  BY DEF Delivery!SubmitTask
<1>2. PICK R : R = UNION {scheduler[q] : q \in DOMAIN scheduler}
  OBVIOUS
<1>3. R \subseteq Published
  BY <1>0, <1>2 DEF DeliveryTypes
<1>4. PICK c \in Delivery!Contexts :
        plan' = [plan EXCEPT ![p] =
                   [plan[p] EXCEPT !.stage = "submitted", !.context = c,
                                   !.references = R, !.bridged = R # {}]]
  BY <1>0, <1>2 DEF Delivery!SubmitTask
<1>5. PICK r : r = [plan[p] EXCEPT !.stage = "submitted", !.context = c,
                                   !.references = R, !.bridged = R # {}]
  OBVIOUS
<1>6. r \in Delivery!PlanRecord /\ r.stage = "submitted"
  <2>1. PICK b \in BOOLEAN : b <=> R # {}
    OBVIOUS
  <2>2. r = [plan[p] EXCEPT !.stage = "submitted", !.context = c, !.references = R, !.bridged = b]
    BY <1>5, <2>1
  <2> QED
    BY <1>0, <1>3, <2>2 DEF Delivery!PlanRecord, Delivery!Stages
<1>7. plan' \in [Plans -> Delivery!PlanRecord] /\ PayloadsHeld' /\ ContextKept'
  BY <1>1, <1>4, <1>5, <1>6, PlanStep
<1>8. DeliveryTypes'
  BY <1>0, <1>1, <1>7 DEF DeliveryTypes
<1> QED
  BY <1>0, <1>1, <1>7, <1>8 DEF DeliveryInv, Decided

LEMMA DeliveryGetNextEnds ==
  ASSUME Delivery!DeliveryAssumption, DeliveryInv, NEW p \in Plans,
         Delivery!GetNextEnds(p) \/ Delivery!Abandon(p)
  PROVE  DeliveryInv'
<1>0. DeliveryTypes /\ Decided /\ plan \in [Plans -> Delivery!PlanRecord]
  BY DEF DeliveryInv, DeliveryTypes
<1>1. /\ plan[p].stage = "active" /\ UNCHANGED <<driver, payloads, positive, negative, missed>>
      /\ plan' = [plan EXCEPT ![p].stage = "ended"]
      /\ scheduler' = Delivery!WithoutPlan(p) \/ UNCHANGED scheduler
  BY DEF Delivery!GetNextEnds, Delivery!Abandon
<1>2. plan' \in [Plans -> Delivery!PlanRecord] /\ PayloadsHeld' /\ ContextKept'
  BY <1>1, StageStep DEF Delivery!Stages
<1>3. DeliveryTypes'
  <2>1. CASE UNCHANGED scheduler
    BY <1>0, <1>1, <1>2, <2>1 DEF DeliveryTypes
  <2>2. CASE scheduler' = Delivery!WithoutPlan(p)
    <3>0. /\ DOMAIN scheduler \subseteq Plans /\ IsFiniteSet(DOMAIN scheduler)
          /\ Cardinality(DOMAIN scheduler) <= MaxPlans /\ Cardinality(DOMAIN scheduler) \in Nat
          /\ \A q \in DOMAIN scheduler : scheduler[q] \subseteq Published
          /\ MaxPlans \in Nat
      BY <1>0, FS_CardinalityType DEF DeliveryTypes, Delivery!DeliveryAssumption
    <3>1. PICK D : D = DOMAIN scheduler
      OBVIOUS
    <3>2. PICK E : E = D \ {p}
      OBVIOUS
    <3>3. DOMAIN scheduler' = E /\ \A q \in E : scheduler'[q] = scheduler[q] /\ q \in D
      BY <2>2, <3>1, <3>2 DEF Delivery!WithoutPlan
    <3>4. IsFiniteSet(E) /\ Cardinality(E) <= Cardinality(D) /\ Cardinality(E) \in Nat
      BY <3>0, <3>1, <3>2, FS_Subset, FS_CardinalityType
    <3>5. Cardinality(E) <= MaxPlans
      BY <3>0, <3>1, <3>4
    <3> QED
      BY <1>0, <1>1, <1>2, <3>0, <3>1, <3>3, <3>4, <3>5 DEF DeliveryTypes
  <2> QED
    BY <1>1, <2>1, <2>2
<1> QED
  BY <1>0, <1>1, <1>2, <1>3 DEF DeliveryInv, Decided

LEMMA DeliveryRunPlan ==
  ASSUME DeliveryInv, NEW p \in Plans, Delivery!RunPlan(p)
  PROVE  DeliveryInv'
<1>0. /\ DeliveryTypes /\ PayloadsHeld /\ ContextKept /\ Decided
      /\ plan \in [Plans -> Delivery!PlanRecord] /\ plan[p] \in Delivery!PlanRecord
  BY DEF DeliveryInv, DeliveryTypes
<1>1. plan[p].stage = "submitted" /\ UNCHANGED <<driver, scheduler, positive, negative, missed>>
  BY DEF Delivery!RunPlan
<1>2. PICK lost \in SUBSET plan[p].references :
        /\ payloads' = payloads \cup (plan[p].references \ lost)
        /\ plan' = [plan EXCEPT ![p] =
                      [plan[p] EXCEPT !.stage = "running", !.prefetched = plan[p].references \ lost,
                                      !.seen = Delivery!ExecutionContext(plan[p])]]
  BY <1>0 DEF Delivery!RunPlan
<1>3. PICK F : F = plan[p].references \ lost
  OBVIOUS
<1>4. Delivery!ExecutionContext(plan[p]) = plan[p].context
  BY DEF Delivery!ExecutionContext
<1>5. PICK r : r = [plan[p] EXCEPT !.stage = "running", !.prefetched = F, !.seen = plan[p].context]
  OBVIOUS
<1>6. /\ r \in Delivery!PlanRecord /\ r.stage = "running" /\ r.prefetched = F
      /\ r.seen = r.context /\ F \subseteq Published
  BY <1>0, <1>3, <1>5 DEF Delivery!PlanRecord, Delivery!Stages
<1>7. payloads' = payloads \cup F /\ plan' = [plan EXCEPT ![p] = r]
  BY <1>2, <1>3, <1>4, <1>5
<1>8. /\ plan' \in [Plans -> Delivery!PlanRecord] /\ plan'[p] = r
      /\ \A q \in Plans : q # p => plan'[q] = plan[q]
  BY <1>0, <1>6, <1>7
<1>9. PayloadsHeld'
  <2> SUFFICES ASSUME NEW a \in payloads'
               PROVE  \E q \in Plans : plan'[q].stage = "running" /\ a \in plan'[q].prefetched
    BY DEF PayloadsHeld
  <2>1. CASE a \in F
    BY <1>6, <1>8, <2>1
  <2>2. CASE a \in payloads
    <3>1. PICK q \in Plans : plan[q].stage = "running" /\ a \in plan[q].prefetched
      BY <1>0, <2>2 DEF PayloadsHeld
    <3> QED
      BY <1>1, <1>8, <3>1
  <2> QED
    BY <1>7, <2>1, <2>2
<1>10. ContextKept'
  BY <1>0, <1>6, <1>8 DEF ContextKept
<1>11. DeliveryTypes'
  BY <1>0, <1>1, <1>6, <1>7, <1>8 DEF DeliveryTypes
<1> QED
  BY <1>0, <1>1, <1>9, <1>10, <1>11 DEF DeliveryInv, Decided

LEMMA DeliveryLoad ==
  ASSUME Delivery!DeliveryAssumption, DeliveryInv, NEW p \in Plans, NEW reach, Delivery!Load(p, reach)
  PROVE  DeliveryInv'
<1>0. DeliveryTypes /\ PayloadsHeld /\ ContextKept /\ Decided
  BY DEF DeliveryInv
<1>1. PICK a : a = Uses[p]
  OBVIOUS
<1>2. a \in ArtifactIds
  BY <1>1 DEF Delivery!DeliveryAssumption
<1>3. /\ a \notin positive \cup negative
      /\ \/ positive' = positive \cup {a} /\ negative' = negative
         \/ positive' = positive /\ negative' = negative \cup {a}
      /\ missed' = missed \cup {p} \/ missed' = missed
      /\ UNCHANGED <<driver, scheduler, plan, payloads>>
  BY <1>1 DEF Delivery!Load
<1>4. DeliveryTypes'
  BY <1>0, <1>2, <1>3 DEF DeliveryTypes
<1> QED
  BY <1>0, <1>3, <1>4 DEF DeliveryInv, PayloadsHeld, ContextKept, Decided

LEMMA DeliveryEndTask ==
  ASSUME DeliveryInv, NEW p \in Plans, Delivery!EndTask(p)
  PROVE  DeliveryInv'
<1>0. /\ DeliveryTypes /\ PayloadsHeld /\ ContextKept /\ Decided
      /\ plan \in [Plans -> Delivery!PlanRecord] /\ plan[p] \in Delivery!PlanRecord
  BY DEF DeliveryInv, DeliveryTypes
<1>1. /\ plan[p].stage = "running" /\ UNCHANGED <<driver, scheduler, positive, negative, missed>>
      /\ payloads' = payloads \ plan[p].prefetched
      /\ plan' = [plan EXCEPT ![p].stage = "active", ![p].prefetched = {}]
  BY DEF Delivery!EndTask
<1>2. PICK r : r = [plan[p] EXCEPT !.stage = "active", !.prefetched = {}]
  OBVIOUS
<1>3. r \in Delivery!PlanRecord /\ r.stage = "active"
  BY <1>0, <1>2 DEF Delivery!PlanRecord, Delivery!Stages
<1>4. plan' = [plan EXCEPT ![p] = r]
  BY <1>0, <1>1, <1>2
<1>5. /\ plan' \in [Plans -> Delivery!PlanRecord] /\ plan'[p] = r
      /\ \A q \in Plans : q # p => plan'[q] = plan[q]
  BY <1>0, <1>3, <1>4
<1>6. PayloadsHeld'
  <2> SUFFICES ASSUME NEW a \in payloads'
               PROVE  \E q \in Plans : plan'[q].stage = "running" /\ a \in plan'[q].prefetched
    BY DEF PayloadsHeld
  <2>1. a \in payloads /\ a \notin plan[p].prefetched
    BY <1>1
  <2>2. PICK q \in Plans : plan[q].stage = "running" /\ a \in plan[q].prefetched
    BY <1>0, <2>1 DEF PayloadsHeld
  <2> QED
    BY <1>5, <2>1, <2>2
<1>7. ContextKept'
  BY <1>0, <1>3, <1>5 DEF ContextKept
<1>8. DeliveryTypes'
  BY <1>0, <1>1, <1>5 DEF DeliveryTypes
<1> QED
  BY <1>0, <1>1, <1>6, <1>7, <1>8 DEF DeliveryInv, Decided

LEMMA DeliveryRestart ==
  ASSUME DeliveryInv, Delivery!Restart
  PROVE  DeliveryInv'
<1>0. DeliveryTypes /\ plan \in [Plans -> Delivery!PlanRecord]
  BY DEF DeliveryInv, DeliveryTypes
<1>1. /\ payloads' = {} /\ positive' = {} /\ negative' = {} /\ missed' = {}
      /\ plan' = [p \in Plans |-> IF plan[p].stage = "running"
                                  THEN [plan[p] EXCEPT !.stage = "submitted", !.prefetched = {}]
                                  ELSE plan[p]]
      /\ UNCHANGED <<driver, scheduler>>
  BY DEF Delivery!Restart
<1>2. ASSUME NEW p \in Plans PROVE plan'[p] \in Delivery!PlanRecord /\ plan'[p].stage # "running"
  <2>0. plan[p] \in Delivery!PlanRecord
    BY <1>0
  <2>1. CASE plan[p].stage = "running"
    <3>1. plan'[p] = [plan[p] EXCEPT !.stage = "submitted", !.prefetched = {}]
      BY <1>1, <2>1
    <3> QED
      BY <2>0, <3>1 DEF Delivery!PlanRecord, Delivery!Stages
  <2>2. CASE plan[p].stage # "running"
    BY <1>1, <2>0, <2>2
  <2> QED
    BY <2>1, <2>2
<1>3. plan' \in [Plans -> Delivery!PlanRecord]
  BY <1>1, <1>2
<1>4. DeliveryTypes'
  BY <1>0, <1>1, <1>3 DEF DeliveryTypes
<1> QED
  BY <1>1, <1>2, <1>4 DEF DeliveryInv, PayloadsHeld, ContextKept, Decided

LEMMA DeliveryNext ==
  ASSUME Delivery!DeliveryAssumption, DeliveryInv, Delivery!Next \/ UNCHANGED deliveryVars
  PROVE  DeliveryInv'
<1>1. CASE Delivery!Next
  BY <1>1, DeliveryRegister, DeliveryStreamPlan, DeliveryScheduleRun, DeliverySubmitTask,
     DeliveryGetNextEnds, DeliveryRunPlan, DeliveryLoad, DeliveryEndTask, DeliveryRestart
     DEF Delivery!Next
<1>2. CASE UNCHANGED deliveryVars
  BY <1>2 DEF deliveryVars, DeliveryInv, DeliveryTypes, PayloadsHeld, ContextKept, Decided
<1> QED
  BY <1>1, <1>2

-----------------------------------------------------------------------------
(* The driver's registry of candidates.                                        *)
RegistryOrder ==
  /\ order \in Seq(Nat) /\ Increasing(order) /\ Len(order) <= MaxCandidates
  /\ last \in 0..MaxRecords /\ unbound \subseteq 1..last
  /\ \A k \in Range(order) : k \in 1..last

RecordTypes ==
  /\ registryListed \in [Registry!Keys -> SUBSET Exprs]
  /\ hashed \in [Registry!Keys -> SUBSET Hashes]
  /\ expires \in [Registry!Keys -> 0..(MaxTime + TTL)]
  /\ finalized \in [Registry!Keys -> BOOLEAN] /\ schema \in [Registry!Keys -> BOOLEAN]
  /\ carrier \in [Registry!Keys -> Registry!Carriers]

TableTypes ==
  /\ byExpr \in [Exprs -> Registry!Keys \cup {Registry!None}]
  /\ byHash \in [Hashes -> Registry!Keys \cup {Registry!None}]
  /\ hashOf \in [Exprs -> Hashes \cup {Registry!NoHash}]
  /\ refs \subseteq Exprs /\ alive \subseteq Exprs /\ pending \subseteq Registry!Keys
  /\ now \in 0..MaxTime /\ closed \in BOOLEAN

(* The tables lead to live records that list what led there; while the registry *)
(* is open, only live records list anything, and what they list is alive and    *)
(* leads back.                                                                  *)
TablesAgree ==
  /\ \A e \in Exprs : byExpr[e] # Registry!None =>
       byExpr[e] \in Range(order) /\ e \in registryListed[byExpr[e]]
  /\ \A h \in Hashes : byHash[h] # Registry!None =>
       byHash[h] \in Range(order) /\ \E e \in registryListed[byHash[h]] : HashOf[e] = h
  /\ ~closed => \A k \in Range(order) : \A e \in registryListed[k] :
       e \in alive /\ e \in refs /\ byExpr[e] = k
  /\ ~closed => \A k \in Registry!Keys : k \notin Range(order) => registryListed[k] = {}
  /\ \A e \in refs : e \in alive /\ hashOf[e] = HashOf[e]
  /\ closed => order = <<>> /\ refs = {}

RegistryInv == RegistryOrder /\ RecordTypes /\ TableTypes /\ TablesAgree

LEMMA RegistryWithout == \A s, K : Registry!Without(s, K) = Without(s, K)
BY DEF Registry!Without, Without

LEMMA RegistryCount == \A S : Registry!Cardinality(S) = Cardinality(S)
BY DEF Registry!Cardinality, Cardinality

LEMMA IncreasingDistinct ==
  ASSUME NEW s \in Seq(Nat), Increasing(s)
  PROVE  Distinct(s)
<1>1. SUFFICES ASSUME NEW i \in DOMAIN s, NEW j \in DOMAIN s, s[i] = s[j], i # j PROVE FALSE
  BY DEF Distinct
<1>2. i \in Nat /\ j \in Nat /\ s[i] \in Nat
  OBVIOUS
<1>3. i < j \/ j < i
  BY <1>1, <1>2
<1>4. s[i] < s[j] \/ s[j] < s[i]
  BY <1>3 DEF Increasing
<1> QED
  BY <1>1, <1>2, <1>4

LEMMA RegistryLive ==
  ASSUME Registry!RegistryAssumption, RegistryInv
  PROVE  /\ Registry!Live = Range(order) /\ Distinct(order)
         /\ Len(order) = Cardinality(Range(order)) /\ IsFiniteSet(Range(order))
         /\ \A k \in Range(order) : k \in Registry!Keys /\ k \in Nat /\ k # last + 1
<1>1. order \in Seq(Nat) /\ Distinct(order)
  BY IncreasingDistinct DEF RegistryInv, RegistryOrder
<1>2. Registry!Live = Range(order)
  BY <1>1 DEF Registry!Live, Range
<1>3. \A k \in Range(order) : k \in Registry!Keys /\ k \in Nat /\ k # last + 1
  BY DEF RegistryInv, RegistryOrder, Registry!Keys, Registry!RegistryAssumption
<1> QED
  BY <1>1, <1>2, <1>3, DistinctLength

LEMMA RegistryInit ==
  ASSUME Registry!RegistryAssumption, Registry!Init
  PROVE  RegistryInv
<1>0. /\ order = <<>> /\ registryListed = [k \in Registry!Keys |-> {}]
      /\ hashed = [k \in Registry!Keys |-> {}] /\ expires = [k \in Registry!Keys |-> 0]
      /\ finalized = [k \in Registry!Keys |-> FALSE] /\ schema = [k \in Registry!Keys |-> FALSE]
      /\ carrier = [k \in Registry!Keys |-> "placeholder"]
      /\ byExpr = [e \in Exprs |-> Registry!None] /\ byHash = [h \in Hashes |-> Registry!None]
      /\ hashOf = [e \in Exprs |-> Registry!NoHash] /\ refs = {} /\ alive = {} /\ unbound = {}
      /\ pending = {} /\ last = 0 /\ now = 0 /\ closed = FALSE
  BY DEF Registry!Init
<1>1. MaxCandidates \in Nat /\ TTL \in Nat /\ MaxRecords \in Nat /\ MaxTime \in Nat
  BY DEF Registry!RegistryAssumption
<1>2. Range(order) = {}
  BY <1>0 DEF Range
<1>3. RegistryOrder
  BY <1>0, <1>1, <1>2 DEF RegistryOrder, Increasing
<1>4. RecordTypes
  BY <1>0, <1>1 DEF RecordTypes, Registry!Carriers
<1>5. TableTypes
  <2>1. byExpr \in [Exprs -> Registry!Keys \cup {Registry!None}]
    BY <1>0
  <2>2. byHash \in [Hashes -> Registry!Keys \cup {Registry!None}]
    BY <1>0
  <2>3. hashOf \in [Exprs -> Hashes \cup {Registry!NoHash}]
    BY <1>0
  <2>4. now \in 0..MaxTime /\ closed \in BOOLEAN
    <3>1. now = 0 /\ closed = FALSE
      BY <1>0
    <3>2. closed \in BOOLEAN
      BY <3>1
    <3> QED
      BY <1>1, <3>1, <3>2
  <2>5. refs \subseteq Exprs /\ alive \subseteq Exprs /\ pending \subseteq Registry!Keys
    BY <1>0
  <2> QED
    BY <2>1, <2>2, <2>3, <2>4, <2>5 DEF TableTypes
<1>6. TablesAgree
  BY <1>0, <1>2 DEF TablesAgree
<1> QED
  BY <1>3, <1>4, <1>5, <1>6 DEF RegistryInv

(* Records that leave take their entries in all four tables with them.         *)
LEMMA Dropped ==
  ASSUME Registry!RegistryAssumption, RegistryInv, ~closed, closed' = closed, alive' = alive,
         NEW D, D \subseteq Registry!Keys, NEW N, N \cap Range(order) = {}, N \subseteq Registry!Keys,
         Range(order') = (Range(order) \cup N) \ D, Registry!Drop(D),
         pending' \subseteq Registry!Keys, now' = now
  PROVE  /\ TablesAgree' /\ TableTypes'
         /\ registryListed' \in [Registry!Keys -> SUBSET Exprs]
         /\ hashed' \in [Registry!Keys -> SUBSET Hashes]
<1>0. RecordTypes /\ TableTypes /\ TablesAgree
  BY DEF RegistryInv
<1>1. /\ byExpr' = [e \in Exprs |-> IF byExpr[e] \in D THEN Registry!None ELSE byExpr[e]]
      /\ byHash' = [h \in Hashes |-> IF byHash[h] \in D THEN Registry!None ELSE byHash[h]]
      /\ refs' = refs \ UNION {registryListed[k] : k \in D}
      /\ hashOf' = [e \in Exprs |-> IF \E k \in D : e \in registryListed[k]
                                    THEN Registry!NoHash ELSE hashOf[e]]
      /\ registryListed' = [k \in Registry!Keys |-> IF k \in D THEN {} ELSE registryListed[k]]
      /\ hashed' = [k \in Registry!Keys |-> IF k \in D THEN {} ELSE hashed[k]]
  BY DEF Registry!Drop
<1>2. TableTypes'
  <2>1. byExpr' \in [Exprs -> Registry!Keys \cup {Registry!None}]
    BY <1>0, <1>1 DEF TableTypes
  <2>2. byHash' \in [Hashes -> Registry!Keys \cup {Registry!None}]
    BY <1>0, <1>1 DEF TableTypes
  <2>3. hashOf' \in [Exprs -> Hashes \cup {Registry!NoHash}] /\ refs' \subseteq Exprs
    BY <1>0, <1>1 DEF TableTypes
  <2> QED
    BY <1>0, <2>1, <2>2, <2>3 DEF TableTypes
<1>3. /\ registryListed' \in [Registry!Keys -> SUBSET Exprs]
      /\ hashed' \in [Registry!Keys -> SUBSET Hashes]
  BY <1>0, <1>1 DEF RecordTypes
<1>4. \A e \in Exprs : byExpr'[e] # Registry!None =>
        byExpr'[e] \in Range(order') /\ e \in registryListed'[byExpr'[e]]
  <2>1. SUFFICES ASSUME NEW e \in Exprs, byExpr'[e] # Registry!None
                 PROVE  byExpr'[e] \in Range(order') /\ e \in registryListed'[byExpr'[e]]
    OBVIOUS
  <2>2. byExpr'[e] = byExpr[e] /\ byExpr[e] \notin D /\ byExpr[e] # Registry!None
    BY <1>1, <2>1
  <2>3. byExpr[e] \in Range(order) /\ e \in registryListed[byExpr[e]]
    BY <1>0, <2>2 DEF TablesAgree
  <2> QED
    BY <1>1, <2>2, <2>3, RegistryLive
<1>5. \A h \in Hashes : byHash'[h] # Registry!None =>
        byHash'[h] \in Range(order') /\ \E e \in registryListed'[byHash'[h]] : HashOf[e] = h
  <2>1. SUFFICES ASSUME NEW h \in Hashes, byHash'[h] # Registry!None
                 PROVE  byHash'[h] \in Range(order') /\ \E e \in registryListed'[byHash'[h]] : HashOf[e] = h
    OBVIOUS
  <2>2. byHash'[h] = byHash[h] /\ byHash[h] \notin D /\ byHash[h] # Registry!None
    BY <1>1, <2>1
  <2>3. byHash[h] \in Range(order) /\ \E e \in registryListed[byHash[h]] : HashOf[e] = h
    BY <1>0, <2>2 DEF TablesAgree
  <2> QED
    BY <1>1, <2>2, <2>3, RegistryLive
<1>6. \A k \in Registry!Keys : \A e \in registryListed[k] :
        k \in Range(order) /\ e \in alive /\ e \in refs /\ byExpr[e] = k /\ e \in Exprs
  BY <1>0 DEF TablesAgree, RecordTypes
<1>7. \A k \in Registry!Keys : \A e \in registryListed'[k] :
        e \in alive' /\ e \in refs' /\ byExpr'[e] = k
  <2>1. SUFFICES ASSUME NEW k \in Registry!Keys, NEW e \in registryListed'[k]
                 PROVE  e \in alive' /\ e \in refs' /\ byExpr'[e] = k
    OBVIOUS
  <2>2. k \notin D /\ e \in registryListed[k]
    BY <1>1, <2>1
  <2>3. e \in alive /\ e \in refs /\ byExpr[e] = k /\ e \in Exprs
    BY <1>6, <2>2
  <2>4. \A d \in D : e \notin registryListed[d]
    BY <1>6, <2>2, <2>3
  <2> QED
    BY <1>1, <2>2, <2>3, <2>4
<1>8. \A k \in Registry!Keys : k \notin Range(order') => registryListed'[k] = {}
  BY <1>0, <1>1 DEF TablesAgree
<1>9. \A e \in refs' : e \in alive' /\ hashOf'[e] = HashOf[e]
  <2>1. SUFFICES ASSUME NEW e \in refs' PROVE e \in alive' /\ hashOf'[e] = HashOf[e]
    OBVIOUS
  <2>2. e \in refs /\ e \in Exprs /\ \A k \in D : e \notin registryListed[k]
    BY <1>0, <1>1 DEF TableTypes
  <2>3. hashOf'[e] = hashOf[e]
    BY <1>1, <2>2
  <2> QED
    BY <1>0, <2>2, <2>3 DEF TablesAgree
<1>10. \A k \in Range(order') : k \in Registry!Keys
  BY RegistryLive
<1>11. TablesAgree'
  BY <1>4, <1>5, <1>7, <1>8, <1>9, <1>10 DEF TablesAgree
<1> QED
  BY <1>2, <1>3, <1>11

(* Records leave from the order, which stays increasing.                       *)
LEMMA OrderShrinks ==
  ASSUME Registry!RegistryAssumption, RegistryInv, NEW K, NEW w, w = Without(order, K)
  PROVE  /\ w \in Seq(Nat) /\ Increasing(w) /\ Len(w) <= MaxCandidates /\ Len(w) \in Nat
         /\ Range(w) = Range(order) \ K /\ Len(w) = Cardinality(Range(order) \ K)
         /\ \A k \in Range(w) : k \in 1..last
<1>1. order \in Seq(Nat) /\ Increasing(order) /\ Len(order) \in Nat /\ Len(order) <= MaxCandidates
  BY DEF RegistryInv, RegistryOrder
<1>2. w \in Seq(Nat) /\ Range(w) = Range(order) \ K
  BY <1>1, WithoutFacts
<1>3. Increasing(w)
  BY <1>1, WithoutIncreasing
<1>4. Len(w) = Cardinality(Range(order) \ K) /\ Len(w) \in Nat /\ Len(w) <= Len(order)
  BY <1>1, RegistryLive, WithoutShorter
<1>5. \A k \in Range(w) : k \in 1..last
  BY <1>2 DEF RegistryInv, RegistryOrder
<1> QED
  BY <1>1, <1>2, <1>3, <1>4, <1>5 DEF Registry!RegistryAssumption

(* What a step may do to the records and to the wrappers they finalize.        *)
RegistryStepsRight ==
  /\ RegistryInv'
  /\ \A k \in Registry!Keys : /\ finalized[k] => finalized'[k] /\ carrier'[k] = carrier[k]
                              /\ schema[k] => schema'[k] /\ carrier'[k] = carrier[k]
  /\ \A k \in Range(order) : k \notin Range(order') =>
       \/ closed' \/ k \in Registry!Expired
       \/ /\ Cardinality(Range(order) \ Registry!Expired) = MaxCandidates /\ last' = last + 1
          /\ \A j \in Range(order) \ Registry!Expired : k <= j
       \/ /\ ~finalized[k] /\ registryListed[k] # {}
          /\ \A e \in registryListed[k] : e \notin alive'

LEMMA RegistryRegister ==
  ASSUME Registry!RegistryAssumption, RegistryInv, Registry!Register
  PROVE  RegistryStepsRight
<1>0. RegistryOrder /\ RecordTypes /\ TableTypes /\ TablesAgree
  BY DEF RegistryInv
<1>1. PICK E, w, s : E = Registry!Expired /\ w = Without(order, E) /\ s = Append(w, last + 1)
  OBVIOUS
<1>2. PICK over : over = IF Len(s) > MaxCandidates THEN Len(s) - MaxCandidates ELSE 0
  OBVIOUS
<1>3. PICK V : V = {s[i] : i \in 1..over}
  OBVIOUS
<1>4. /\ ~closed /\ last < MaxRecords /\ last' = last + 1
      /\ order' = SubSeq(s, over + 1, Len(s)) /\ Registry!Drop(E \cup V)
      /\ expires' = [expires EXCEPT ![last + 1] = now + TTL]
      /\ unbound' = unbound \cup {last + 1}
      /\ UNCHANGED <<finalized, schema, carrier, alive, pending, now, closed>>
  BY <1>1, <1>2, <1>3, RegistryWithout DEF Registry!Register
<1>5. /\ w \in Seq(Nat) /\ Increasing(w) /\ Len(w) <= MaxCandidates /\ Len(w) \in Nat
      /\ Range(w) = Range(order) \ E /\ Len(w) = Cardinality(Range(order) \ E)
      /\ \A k \in Range(w) : k \in 1..last
  BY <1>1, OrderShrinks
<1>6. /\ last \in Nat /\ MaxRecords \in Nat /\ MaxCandidates \in Nat /\ TTL \in Nat /\ MaxTime \in Nat
      /\ now \in 0..MaxTime /\ last + 1 \in Registry!Keys
  BY <1>0, <1>4 DEF RegistryOrder, TableTypes, Registry!RegistryAssumption, Registry!Keys
<1>7. /\ s \in Seq(Nat) /\ Len(s) = Len(w) + 1 /\ DOMAIN s = 1..(Len(w) + 1)
      /\ s[Len(w) + 1] = last + 1
      /\ \A i \in 1..Len(w) : s[i] = w[i] /\ s[i] \in 1..last /\ s[i] \in Range(w)
      /\ Range(s) = Range(w) \cup {last + 1}
  <2>1. s \in Seq(Nat) /\ Range(s) = Range(w) \cup {last + 1}
    BY <1>1, <1>5, <1>6, AppendRange
  <2>2. DOMAIN w = 1..Len(w) /\ \A i \in DOMAIN w : w[i] \in Nat
    BY <1>5
  <2>3. \A i \in 1..Len(w) : w[i] \in Range(w)
    BY <2>2 DEF Range
  <2>4. /\ Len(s) = Len(w) + 1 /\ DOMAIN s = 1..(Len(w) + 1) /\ s[Len(w) + 1] = last + 1
        /\ \A i \in 1..Len(w) : s[i] = w[i]
    <3>1. w \in Seq(Nat) /\ last + 1 \in Nat /\ s = Append(w, last + 1)
      BY <1>1, <1>5, <1>6
    <3> QED
      BY <3>1, AppendItems
  <2> QED
    BY <1>5, <2>1, <2>3, <2>4
<1>8. Increasing(s)
  <2>1. SUFFICES ASSUME NEW i \in DOMAIN s, NEW j \in DOMAIN s, i < j PROVE s[i] < s[j]
    BY DEF Increasing
  <2>2. i \in 1..Len(w)
    BY <1>5, <1>7, <2>1
  <2>3. CASE j \in 1..Len(w)
    <3>1. i \in DOMAIN w /\ j \in DOMAIN w
      BY <1>5, <2>2, <2>3
    <3> QED
      BY <1>5, <1>7, <2>1, <2>2, <2>3, <3>1 DEF Increasing
  <2>4. CASE j = Len(w) + 1
    BY <1>6, <1>7, <2>2, <2>4
  <2> QED
    BY <1>5, <1>7, <2>3, <2>4
<1>9. over \in 0..1 /\ over <= Len(s) /\ (over = 1 => Len(w) = MaxCandidates)
  BY <1>2, <1>5, <1>6, <1>7
<1>10. /\ order' \in Seq(Nat) /\ Len(order') = Len(s) - over /\ Len(order') <= MaxCandidates
       /\ DOMAIN order' = 1..(Len(s) - over)
       /\ \A i \in 1..(Len(s) - over) : order'[i] = s[i + over] /\ i + over \in DOMAIN s
  <2>1. Len(s) \in Nat /\ over \in Nat /\ over + 1 \in 1..(Len(s) + 1)
    BY <1>5, <1>7, <1>9
  <2>2. \A i \in 1..(Len(s) - over) : i + over \in DOMAIN s /\ (over + 1) + i - 1 = i + over
    BY <1>5, <1>7, <1>9
  <2>3. PICK m : m = Len(s)
    OBVIOUS
  <2>4. order' = SubSeq(s, over + 1, m)
    BY <1>4, <2>3
  <2>5. /\ order' \in Seq(Nat) /\ Len(order') = m - over
        /\ \A i \in 1..(m - over) : order'[i] = s[i + over]
    <3>2. m \in Nat /\ over \in Nat /\ over <= m
      BY <1>9, <2>1, <2>3
    <3> QED
      BY <1>7, <2>3, <2>4, <3>2, LastItems
  <2>6. Len(s) - over <= MaxCandidates
    BY <1>2, <1>5, <1>6, <1>7
  <2>7. DOMAIN order' = 1..(m - over)
    BY <2>5
  <2> QED
    BY <2>2, <2>3, <2>5, <2>6, <2>7
<1>11. Increasing(order')
  <2>1. SUFFICES ASSUME NEW i \in DOMAIN order', NEW j \in DOMAIN order', i < j
                 PROVE  order'[i] < order'[j]
    BY DEF Increasing
  <2>2. i + over \in DOMAIN s /\ j + over \in DOMAIN s /\ i + over < j + over
    <3>1. i \in 1..(Len(s) - over) /\ j \in 1..(Len(s) - over)
      BY <1>10, <2>1
    <3>2. i \in Int /\ j \in Int /\ over \in Int
      BY <1>9, <3>1
    <3> QED
      BY <1>10, <2>1, <3>1, <3>2
  <2> QED
    BY <1>8, <1>10, <2>1, <2>2 DEF Increasing
<1>12. Range(order') = (Range(order) \cup {last + 1}) \ (E \cup V)
  <2>1. last + 1 \notin E
    <3>1. E \subseteq Range(order)
      BY <1>1, RegistryLive DEF Registry!Expired
    <3> QED
      BY <3>1, RegistryLive
  <2>2. Distinct(s)
    BY <1>7, <1>8, IncreasingDistinct
  <2>3. \A x : x \in Range(order') <=> x \in Range(s) /\ x \notin V
    <3>1. ASSUME NEW x \in Range(order') PROVE x \in Range(s) /\ x \notin V
      <4>1. PICK i \in 1..(Len(s) - over) : x = s[i + over] /\ i + over \in DOMAIN s
        BY <1>10 DEF Range
      <4>2. \A j \in 1..over : s[j] # x
        <5>1. SUFFICES ASSUME NEW j \in 1..over, s[j] = x PROVE FALSE
          OBVIOUS
        <5>2. j \in DOMAIN s /\ j # i + over
          BY <1>5, <1>7, <1>9, <4>1
        <5> QED
          BY <2>2, <4>1, <5>1, <5>2 DEF Distinct
      <4> QED
        BY <1>3, <4>1, <4>2 DEF Range
    <3>2. ASSUME NEW x \in Range(s), x \notin V PROVE x \in Range(order')
      <4>1. PICK i \in DOMAIN s : x = s[i]
        BY DEF Range
      <4>2. i \notin 1..over
        BY <1>3, <3>2, <4>1
      <4>3. i - over \in 1..(Len(s) - over) /\ (i - over) + over = i
        BY <1>5, <1>7, <1>9, <4>1, <4>2
      <4>4. order'[i - over] = x
        BY <1>10, <4>1, <4>3
      <4> QED
        BY <1>10, <4>3, <4>4 DEF Range
    <3> QED
      BY <3>1, <3>2
  <2> QED
    BY <1>5, <1>7, <2>1, <2>3
<1>13. RegistryOrder'
  <2>1. \A k \in Range(order') : k \in 1..last'
    <3>1. \A k \in Range(order') : k \in Range(w) \/ k = last + 1
      BY <1>5, <1>12
    <3> QED
      BY <1>4, <1>5, <1>6, <3>1
  <2>2. unbound' \subseteq 1..last' /\ last' \in 0..MaxRecords
    BY <1>0, <1>4, <1>6 DEF RegistryOrder
  <2> QED
    BY <1>10, <1>11, <2>1, <2>2 DEF RegistryOrder
<1>14. /\ TablesAgree' /\ TableTypes'
       /\ registryListed' \in [Registry!Keys -> SUBSET Exprs]
       /\ hashed' \in [Registry!Keys -> SUBSET Hashes]
  <2>1. PICK D, N : D = E \cup V /\ N = {last + 1}
    OBVIOUS
  <2>2. D \subseteq Registry!Keys
    <3>1. \A x \in E : x \in Registry!Keys
      BY <1>1, RegistryLive DEF Registry!Expired
    <3>2. \A x \in V : x \in Range(s)
      <4>1. \A i \in 1..over : i \in DOMAIN s
        BY <1>5, <1>7, <1>9
      <4> QED
        BY <1>3, <4>1 DEF Range
    <3>3. \A x \in Range(s) : x \in Registry!Keys
      BY <1>5, <1>6, <1>7, RegistryLive
    <3> QED
      BY <2>1, <3>1, <3>2, <3>3
  <2>3. N \cap Range(order) = {} /\ N \subseteq Registry!Keys
    BY <1>6, <2>1, RegistryLive
  <2>4. Range(order') = (Range(order) \cup N) \ D /\ Registry!Drop(D)
    BY <1>4, <1>12, <2>1
  <2>5. pending' \subseteq Registry!Keys /\ now' = now /\ closed' = closed /\ alive' = alive /\ ~closed
    BY <1>0, <1>4 DEF TableTypes
  <2> QED
    BY <2>2, <2>3, <2>4, <2>5, Dropped
<1>15. RecordTypes'
  <2>1. now + TTL \in 0..(MaxTime + TTL)
    BY <1>6
  <2>2. expires' \in [Registry!Keys -> 0..(MaxTime + TTL)]
    BY <1>0, <1>4, <2>1 DEF RecordTypes
  <2> QED
    BY <1>0, <1>4, <1>14, <2>2 DEF RecordTypes
<1>16. ASSUME NEW k \in Range(order), k \notin Range(order'), k \notin E
       PROVE  /\ Cardinality(Range(order) \ E) = MaxCandidates
              /\ \A j \in Range(order) \ E : k <= j
  <2>1. k \in V /\ k \in Range(w)
    BY <1>5, <1>12, <1>16
  <2>2. over = 1 /\ k = s[1]
    BY <1>3, <1>9, <2>1
  <2>3. Len(w) = MaxCandidates /\ Len(w) > 0
    <3>1. PICK i \in DOMAIN w : k = w[i]
      BY <2>1 DEF Range
    <3> QED
      BY <1>5, <1>9, <2>2, <3>1
  <2>4. ASSUME NEW j \in Range(w) PROVE k <= j
    <3>0. DOMAIN w = 1..Len(w) /\ \A i \in DOMAIN w : w[i] \in Nat
      BY <1>5
    <3>1. PICK i \in 1..Len(w) : j = w[i]
      BY <2>4, <3>0 DEF Range
    <3>2. k = w[1] /\ 1 \in DOMAIN w /\ i \in DOMAIN w /\ k \in Nat /\ j \in Nat
      <4>1. 1 \in 1..Len(w) /\ i \in 1..Len(w)
        BY <1>5, <2>3, <3>1
      <4>2. s[1] = w[1] /\ w[1] \in Nat /\ w[i] \in Nat
        BY <1>7, <3>0, <4>1
      <4> QED
        BY <2>2, <3>0, <3>1, <4>1, <4>2
    <3>3. CASE i = 1
      BY <3>1, <3>2, <3>3
    <3>4. CASE i > 1
      <4>1. w[1] < w[i]
        BY <1>5, <3>2, <3>4 DEF Increasing
      <4> QED
        BY <3>1, <3>2, <4>1
    <3> QED
      BY <3>3, <3>4
  <2> QED
    BY <1>5, <2>3, <2>4
<1> QED
  BY <1>1, <1>4, <1>13, <1>14, <1>15, <1>16 DEF RegistryStepsRight, RegistryInv

LEMMA RegistryPurge ==
  ASSUME Registry!RegistryAssumption, RegistryInv, Registry!Purge
  PROVE  RegistryStepsRight
<1>0. RegistryOrder /\ RecordTypes /\ TableTypes /\ TablesAgree
  BY DEF RegistryInv
<1>1. PICK E : E = Registry!Expired
  OBVIOUS
<1>2. /\ ~closed /\ order' = Without(order, E) /\ Registry!Drop(E)
      /\ UNCHANGED <<expires, finalized, schema, carrier, alive, unbound, pending, last, now, closed>>
  BY <1>1, RegistryWithout DEF Registry!Purge
<1>3. PICK w : w = order'
  OBVIOUS
<1>4. /\ w \in Seq(Nat) /\ Increasing(w) /\ Len(w) <= MaxCandidates
      /\ Range(w) = Range(order) \ E /\ \A k \in Range(w) : k \in 1..last
  BY <1>2, <1>3, OrderShrinks
<1>5. RegistryOrder'
  BY <1>0, <1>2, <1>3, <1>4 DEF RegistryOrder
<1>6. /\ TablesAgree' /\ TableTypes'
      /\ registryListed' \in [Registry!Keys -> SUBSET Exprs]
      /\ hashed' \in [Registry!Keys -> SUBSET Hashes]
  <2>1. PICK N : N = {}
    OBVIOUS
  <2>2. E \subseteq Registry!Keys
    BY <1>1, RegistryLive DEF Registry!Expired
  <2>3. N \cap Range(order) = {} /\ N \subseteq Registry!Keys /\ Range(order') = (Range(order) \cup N) \ E
    BY <1>3, <1>4, <2>1
  <2>4. pending' \subseteq Registry!Keys /\ now' = now /\ closed' = closed /\ alive' = alive /\ ~closed
    BY <1>0, <1>2 DEF TableTypes
  <2> QED
    BY <1>2, <2>2, <2>3, <2>4, Dropped
<1>7. RecordTypes'
  BY <1>0, <1>2, <1>6 DEF RecordTypes
<1> QED
  BY <1>1, <1>2, <1>3, <1>4, <1>5, <1>6, <1>7 DEF RegistryStepsRight, RegistryInv

LEMMA RegistryClose ==
  ASSUME Registry!RegistryAssumption, RegistryInv, Registry!Close
  PROVE  RegistryStepsRight
<1>0. RegistryOrder /\ RecordTypes /\ TableTypes /\ TablesAgree
  BY DEF RegistryInv
<1>1. /\ closed' = TRUE /\ order' = <<>>
      /\ byExpr' = [e \in Exprs |-> Registry!None] /\ byHash' = [h \in Hashes |-> Registry!None]
      /\ hashOf' = [e \in Exprs |-> Registry!NoHash] /\ refs' = {}
      /\ UNCHANGED <<registryListed, hashed, expires, finalized, schema, carrier>>
      /\ UNCHANGED <<alive, unbound, pending, last, now>>
  BY DEF Registry!Close, Registry!recordVars
<1>2. Range(order') = {}
  BY <1>1 DEF Range
<1>3. RegistryOrder'
  BY <1>0, <1>1, <1>2 DEF RegistryOrder, Increasing, Registry!RegistryAssumption
<1>4. RecordTypes' /\ TableTypes'
  BY <1>0, <1>1 DEF RecordTypes, TableTypes
<1>5. TablesAgree'
  BY <1>1, <1>2 DEF TablesAgree
<1> QED
  BY <1>1, <1>3, <1>4, <1>5 DEF RegistryStepsRight, RegistryInv

LEMMA RegistryBind ==
  ASSUME Registry!RegistryAssumption, RegistryInv, NEW e \in Exprs, NEW k \in unbound, Registry!Bind(e, k)
  PROVE  RegistryStepsRight
<1>0. RegistryOrder /\ RecordTypes /\ TableTypes /\ TablesAgree
  BY DEF RegistryInv
<1>1. /\ e \notin alive /\ unbound' = unbound \ {k} /\ alive' = alive \cup {e}
      /\ UNCHANGED <<order, finalized, schema, carrier, pending, last, now, closed>>
  BY DEF Registry!Bind
<1>2. RegistryOrder'
  BY <1>0, <1>1 DEF RegistryOrder
<1>3. CASE closed \/ k \notin Registry!Live
  <2>1. UNCHANGED <<registryListed, hashed, expires, byExpr, byHash, hashOf, refs>>
    BY <1>3 DEF Registry!Bind, Registry!tables
  <2>2. RecordTypes' /\ TableTypes' /\ TablesAgree'
    BY <1>0, <1>1, <2>1 DEF RecordTypes, TableTypes, TablesAgree
  <2> QED
    BY <1>1, <1>2, <2>2 DEF RegistryStepsRight, RegistryInv
<1>4. CASE ~closed /\ k \in Registry!Live
  <2>1. k \in Range(order) /\ k \in Registry!Keys /\ HashOf[e] \in Hashes /\ k # Registry!None
    BY <1>4, RegistryLive DEF Registry!RegistryAssumption, Registry!Keys, Registry!None
  <2>2. /\ expires' = [expires EXCEPT ![k] = now + TTL]
        /\ registryListed' = [registryListed EXCEPT ![k] = registryListed[k] \cup {e}]
        /\ hashed' = [hashed EXCEPT ![k] = hashed[k] \cup {HashOf[e]}]
        /\ byExpr' = [byExpr EXCEPT ![e] = k]
        /\ byHash' = [byHash EXCEPT ![HashOf[e]] = k]
        /\ hashOf' = [hashOf EXCEPT ![e] = HashOf[e]]
        /\ refs' = refs \cup {e}
    BY <1>4 DEF Registry!Bind
  <2>3. now + TTL \in 0..(MaxTime + TTL)
    BY <1>0 DEF TableTypes, Registry!RegistryAssumption
  <2>4. RecordTypes'
    BY <1>0, <1>1, <2>1, <2>2, <2>3 DEF RecordTypes
  <2>5. TableTypes'
    BY <1>0, <1>1, <2>1, <2>2 DEF TableTypes
  <2>6. /\ registryListed'[k] = registryListed[k] \cup {e}
        /\ \A j \in Registry!Keys : j # k => registryListed'[j] = registryListed[j]
    BY <1>0, <2>1, <2>2 DEF RecordTypes
  <2>7. byExpr'[e] = k /\ \A x \in Exprs : x # e => byExpr'[x] = byExpr[x]
    BY <1>0, <2>2 DEF TableTypes
  <2>8. \A x \in Exprs : byExpr'[x] # Registry!None =>
          byExpr'[x] \in Range(order') /\ x \in registryListed'[byExpr'[x]]
    BY <1>0, <1>1, <2>1, <2>6, <2>7, RegistryLive DEF TablesAgree
  <2>9. \A h \in Hashes : byHash'[h] # Registry!None =>
          byHash'[h] \in Range(order') /\ \E x \in registryListed'[byHash'[h]] : HashOf[x] = h
    <3>1. SUFFICES ASSUME NEW h \in Hashes, byHash'[h] # Registry!None
                   PROVE  byHash'[h] \in Range(order') /\ \E x \in registryListed'[byHash'[h]] : HashOf[x] = h
      OBVIOUS
    <3>2. CASE h = HashOf[e]
      <4>1. byHash'[h] = k
        BY <1>0, <2>2, <3>2 DEF TableTypes
      <4> QED
        BY <1>1, <2>1, <2>6, <3>2, <4>1
    <3>3. CASE h # HashOf[e]
      <4>1. byHash'[h] = byHash[h]
        BY <1>0, <2>2, <3>3 DEF TableTypes
      <4>2. byHash[h] \in Range(order) /\ \E x \in registryListed[byHash[h]] : HashOf[x] = h
        BY <1>0, <3>1, <4>1 DEF TablesAgree
      <4>3. registryListed[byHash[h]] \subseteq registryListed'[byHash[h]]
        BY <2>6, <4>2, RegistryLive
      <4> QED
        BY <1>1, <4>1, <4>2, <4>3
    <3> QED
      BY <3>2, <3>3
  <2>10. \A j \in Range(order') : \A x \in registryListed'[j] :
           x \in alive' /\ x \in refs' /\ byExpr'[x] = j
    <3>1. SUFFICES ASSUME NEW j \in Range(order), NEW x \in registryListed'[j]
                   PROVE  x \in alive' /\ x \in refs' /\ byExpr'[x] = j
      BY <1>1
    <3>2. CASE x \in registryListed[j]
      <4>1. x \in alive /\ x \in refs /\ byExpr[x] = j /\ x \in Exprs
        BY <1>0, <1>4, <3>2 DEF TablesAgree, TableTypes
      <4> QED
        BY <1>1, <2>2, <2>7, <4>1
    <3>3. CASE x \notin registryListed[j]
      <4>1. j = k /\ x = e
        BY <2>6, <3>1, <3>3, RegistryLive
      <4> QED
        BY <1>1, <2>2, <2>7, <4>1
    <3> QED
      BY <3>2, <3>3
  <2>11. \A j \in Registry!Keys : j \notin Range(order') => registryListed'[j] = {}
    BY <1>0, <1>1, <1>4, <2>1, <2>6 DEF TablesAgree
  <2>12. \A x \in refs' : x \in alive' /\ hashOf'[x] = HashOf[x]
    BY <1>0, <1>1, <2>2 DEF TablesAgree, TableTypes
  <2>13. TablesAgree'
    BY <1>1, <1>4, <2>8, <2>9, <2>10, <2>11, <2>12 DEF TablesAgree
  <2> QED
    BY <1>1, <1>2, <2>4, <2>5, <2>13 DEF RegistryStepsRight, RegistryInv
<1> QED
  BY <1>3, <1>4

(* The death of an expression that the registry refers to.                     *)
LEMMA RegistryDie ==
  ASSUME Registry!RegistryAssumption, RegistryInv, NEW e \in Exprs, Registry!Die(e)
  PROVE  RegistryStepsRight
<1>0. RegistryOrder /\ RecordTypes /\ TableTypes /\ TablesAgree
  BY DEF RegistryInv
<1>1. /\ e \in alive /\ alive' = alive \ {e}
      /\ UNCHANGED <<expires, finalized, schema, carrier, unbound, pending, last, now, closed>>
  BY DEF Registry!Die
<1>2. CASE e \notin refs
  <2>1. UNCHANGED <<order, registryListed, hashed, byExpr, byHash, hashOf, refs>>
    BY <1>2 DEF Registry!Die, Registry!tables
  <2>2. RegistryOrder' /\ RecordTypes'
    BY <1>0, <1>1, <2>1 DEF RegistryOrder, RecordTypes
  <2>3. TableTypes'
    BY <1>0, <1>1, <2>1 DEF TableTypes
  <2>4. TablesAgree'
    BY <1>0, <1>1, <1>2, <2>1 DEF TablesAgree
  <2> QED
    BY <1>1, <2>1, <2>2, <2>3, <2>4 DEF RegistryStepsRight, RegistryInv
<1>3. CASE e \in refs
  <2>1. PICK k, h : k = byExpr[e] /\ h = hashOf[e]
    OBVIOUS
  <2>2. PICK gone \in BOOLEAN : gone <=> k # Registry!None /\ registryListed[k] = {e} /\ ~finalized[k]
    OBVIOUS
  <2>3. /\ byExpr' = [byExpr EXCEPT ![e] = Registry!None]
        /\ refs' = refs \ {e} /\ hashOf' = [hashOf EXCEPT ![e] = Registry!NoHash]
        /\ byHash' = IF k # Registry!None /\ h # Registry!NoHash
                     THEN [x \in Hashes |-> IF byHash[x] = k /\ (x = h \/ gone)
                                            THEN Registry!None ELSE byHash[x]]
                     ELSE byHash
        /\ registryListed' = IF k = Registry!None THEN registryListed
                             ELSE [registryListed EXCEPT ![k] = registryListed[k] \ {e}]
        /\ hashed' = IF k = Registry!None THEN hashed
                     ELSE [hashed EXCEPT ![k] = IF gone THEN {} ELSE hashed[k] \ {h}]
        /\ order' = IF gone THEN Without(order, {k}) ELSE order
    BY <1>3, <2>1, <2>2, RegistryWithout DEF Registry!Die
  <2>4. /\ ~closed /\ h = HashOf[e] /\ h \in Hashes /\ h # Registry!NoHash
        /\ k \in Registry!Keys \cup {Registry!None}
    BY <1>0, <1>3, <2>1 DEF TablesAgree, TableTypes, Registry!RegistryAssumption
  <2>5. PICK w : w = order'
    OBVIOUS
  <2>6. /\ w \in Seq(Nat) /\ Increasing(w) /\ Len(w) <= MaxCandidates
        /\ \A j \in Range(w) : j \in 1..last
        /\ Range(w) = IF gone THEN Range(order) \ {k} ELSE Range(order)
    <3>1. CASE gone
      BY <2>3, <2>5, <3>1, OrderShrinks
    <3>2. CASE ~gone
      BY <1>0, <2>3, <2>5, <3>2 DEF RegistryOrder
    <3> QED
      BY <3>1, <3>2
  <2>7. RegistryOrder'
    BY <1>0, <1>1, <2>5, <2>6 DEF RegistryOrder
  <2>8. RecordTypes'
    <3>1. CASE k = Registry!None
      BY <1>0, <1>1, <2>3, <3>1 DEF RecordTypes
    <3>2. CASE k # Registry!None
      <4>1. k \in Registry!Keys
        BY <2>4, <3>2
      <4>2. registryListed' \in [Registry!Keys -> SUBSET Exprs]
        BY <1>0, <2>3, <3>2, <4>1 DEF RecordTypes
      <4>3. hashed' \in [Registry!Keys -> SUBSET Hashes]
        <5>1. PICK g : g = IF gone THEN {} ELSE hashed[k] \ {h}
          OBVIOUS
        <5>2. g \in SUBSET Hashes
          BY <1>0, <4>1, <5>1 DEF RecordTypes
        <5> QED
          BY <1>0, <2>3, <3>2, <4>1, <5>1, <5>2 DEF RecordTypes
      <4> QED
        BY <1>0, <1>1, <4>2, <4>3 DEF RecordTypes
    <3> QED
      BY <3>1, <3>2
  <2>9. TableTypes'
    <3>1. byExpr' \in [Exprs -> Registry!Keys \cup {Registry!None}]
      BY <1>0, <2>3 DEF TableTypes
    <3>2. byHash' \in [Hashes -> Registry!Keys \cup {Registry!None}]
      BY <1>0, <2>3 DEF TableTypes
    <3>3. hashOf' \in [Exprs -> Hashes \cup {Registry!NoHash}] /\ refs' \subseteq Exprs
      BY <1>0, <2>3 DEF TableTypes
    <3> QED
      BY <1>0, <1>1, <3>1, <3>2, <3>3 DEF TableTypes
  <2>10. \A j \in Registry!Keys : registryListed'[j] = registryListed[j] \ {e}
    <3>1. \A j \in Registry!Keys : e \in registryListed[j] => j = k /\ j # Registry!None
      <4>1. \A j \in Registry!Keys : e \in registryListed[j] => j \in Range(order)
        BY <1>0, <2>4 DEF TablesAgree
      <4>2. \A j \in Registry!Keys : e \in registryListed[j] => byExpr[e] = j
        BY <1>0, <2>4, <4>1 DEF TablesAgree
      <4> QED
        BY <2>1, <4>2 DEF Registry!Keys, Registry!None, Registry!RegistryAssumption
    <3>2. ASSUME NEW j \in Registry!Keys PROVE registryListed'[j] = registryListed[j] \ {e}
      <4>1. CASE j = k /\ k # Registry!None
        BY <1>0, <2>3, <4>1 DEF RecordTypes
      <4>2. CASE j # k \/ k = Registry!None
        <5>1. registryListed'[j] = registryListed[j]
          BY <1>0, <2>3, <4>2 DEF RecordTypes
        <5>2. e \notin registryListed[j]
          BY <3>1, <4>2
        <5> QED
          BY <5>1, <5>2
      <4> QED
        BY <4>1, <4>2
    <3> QED
      BY <3>2
  <2>11. /\ byExpr'[e] = Registry!None
         /\ \A x \in Exprs : x # e => byExpr'[x] = byExpr[x] /\ hashOf'[x] = hashOf[x]
    BY <1>0, <2>3 DEF TableTypes
  <2>12. gone => registryListed[k] = {e} /\ k \in Registry!Keys
    BY <2>2, <2>4
  <2>13. \A x \in Exprs : byExpr'[x] # Registry!None =>
           byExpr'[x] \in Range(order') /\ x \in registryListed'[byExpr'[x]]
    <3>1. SUFFICES ASSUME NEW x \in Exprs, byExpr'[x] # Registry!None
                   PROVE  byExpr'[x] \in Range(order') /\ x \in registryListed'[byExpr'[x]]
      OBVIOUS
    <3>2. x # e /\ byExpr'[x] = byExpr[x]
      BY <2>11, <3>1
    <3>3. byExpr[x] \in Range(order) /\ x \in registryListed[byExpr[x]]
      BY <1>0, <3>1, <3>2 DEF TablesAgree
    <3>4. gone => byExpr[x] # k
      BY <2>12, <3>2, <3>3
    <3> QED
      BY <2>5, <2>6, <2>10, <3>2, <3>3, <3>4, RegistryLive
  <2>14. \A x \in Hashes : byHash'[x] # Registry!None =>
           byHash'[x] \in Range(order') /\ \E y \in registryListed'[byHash'[x]] : HashOf[y] = x
    <3>1. SUFFICES ASSUME NEW x \in Hashes, byHash'[x] # Registry!None
                   PROVE  byHash'[x] \in Range(order') /\ \E y \in registryListed'[byHash'[x]] : HashOf[y] = x
      OBVIOUS
    <3>2. /\ byHash'[x] = byHash[x] /\ byHash[x] # Registry!None
          /\ k # Registry!None /\ byHash[x] = k => x # h /\ ~gone
      BY <2>3, <2>4, <3>1
    <3>3. byHash[x] \in Range(order) /\ byHash[x] \in Registry!Keys
      BY <1>0, <3>2, RegistryLive DEF TablesAgree
    <3>4. PICK y \in registryListed[byHash[x]] : HashOf[y] = x
      BY <1>0, <3>2 DEF TablesAgree
    <3>5. byHash[x] # k => y # e
      BY <1>0, <2>1, <2>4, <3>3, <3>4 DEF TablesAgree
    <3>6. byHash[x] = k => y # e /\ ~gone
      BY <2>4, <3>2, <3>4
    <3>7. y \in registryListed'[byHash[x]] /\ byHash[x] \in Range(order')
      BY <2>5, <2>6, <2>10, <3>3, <3>4, <3>5, <3>6
    <3> QED
      BY <3>2, <3>4, <3>7
  <2>15. \A j \in Range(order') : \A x \in registryListed'[j] :
           x \in alive' /\ x \in refs' /\ byExpr'[x] = j
    <3>1. SUFFICES ASSUME NEW j \in Range(order'), NEW x \in registryListed'[j]
                   PROVE  x \in alive' /\ x \in refs' /\ byExpr'[x] = j
      OBVIOUS
    <3>2. j \in Range(order) /\ j \in Registry!Keys
      BY <2>5, <2>6, RegistryLive
    <3>3. x \in registryListed[j] /\ x # e
      BY <2>10, <3>2
    <3>4. x \in alive /\ x \in refs /\ byExpr[x] = j /\ x \in Exprs
      BY <1>0, <2>4, <3>2, <3>3 DEF TablesAgree, TableTypes
    <3> QED
      BY <1>1, <2>3, <2>11, <3>3, <3>4
  <2>16. \A j \in Registry!Keys : j \notin Range(order') => registryListed'[j] = {}
    BY <1>0, <2>4, <2>5, <2>6, <2>10, <2>12 DEF TablesAgree
  <2>17. \A x \in refs' : x \in alive' /\ hashOf'[x] = HashOf[x]
    BY <1>0, <1>1, <2>3, <2>11 DEF TablesAgree, TableTypes
  <2>18. TablesAgree'
    BY <1>1, <2>4, <2>13, <2>14, <2>15, <2>16, <2>17 DEF TablesAgree
  <2>19. \A j \in Range(order) : j \notin Range(order') =>
           /\ ~finalized[j] /\ registryListed[j] # {}
           /\ \A x \in registryListed[j] : x \notin alive'
    BY <1>1, <2>2, <2>5, <2>6
  <2> QED
    BY <1>1, <2>7, <2>8, <2>9, <2>18, <2>19 DEF RegistryStepsRight, RegistryInv
<1> QED
  BY <1>2, <1>3

LEMMA RegistryFinalize ==
  ASSUME Registry!RegistryAssumption, RegistryInv, NEW k \in pending,
         NEW a \in Registry!Carriers \cup {"unpublished"}, Registry!Finalize(k, a)
  PROVE  RegistryStepsRight
<1>0. RegistryOrder /\ RecordTypes /\ TableTypes /\ TablesAgree
  BY DEF RegistryInv
<1>1. UNCHANGED <<order, registryListed, hashed, expires, byExpr, byHash, hashOf, refs, alive,
                  unbound, last, now, closed>>
  BY DEF Registry!Finalize, Registry!tables
<1>2. RegistryOrder' /\ TablesAgree'
  BY <1>0, <1>1 DEF RegistryOrder, TablesAgree
<1>3. k \in Registry!Keys
  BY <1>0 DEF TableTypes
<1>4. /\ pending' \subseteq pending
      /\ \/ UNCHANGED <<schema, carrier, finalized>>
         \/ /\ ~finalized[k] /\ ~schema[k] /\ schema' = [schema EXCEPT ![k] = TRUE]
            /\ \/ UNCHANGED <<carrier, finalized>>
               \/ /\ a \in Registry!Carriers /\ carrier' = [carrier EXCEPT ![k] = a]
                  /\ finalized' = [finalized EXCEPT ![k] = TRUE]
  BY DEF Registry!Finalize
<1>5. /\ schema' \in [Registry!Keys -> BOOLEAN] /\ finalized' \in [Registry!Keys -> BOOLEAN]
      /\ carrier' \in [Registry!Keys -> Registry!Carriers]
      /\ \A j \in Registry!Keys : /\ finalized[j] => finalized'[j] /\ carrier'[j] = carrier[j]
                                  /\ schema[j] => schema'[j] /\ carrier'[j] = carrier[j]
  BY <1>0, <1>3, <1>4 DEF RecordTypes
<1>6. RecordTypes' /\ TableTypes'
  BY <1>0, <1>1, <1>4, <1>5 DEF RecordTypes, TableTypes
<1> QED
  BY <1>1, <1>2, <1>5, <1>6 DEF RegistryStepsRight, RegistryInv

LEMMA RegistryNext ==
  ASSUME Registry!RegistryAssumption, RegistryInv, Registry!Next \/ UNCHANGED registryVars
  PROVE  RegistryStepsRight
<1>0. RegistryOrder /\ RecordTypes /\ TableTypes /\ TablesAgree
  BY DEF RegistryInv
<1>1. CASE UNCHANGED registryVars
  <2>1. RegistryOrder' /\ RecordTypes' /\ TableTypes' /\ TablesAgree'
    BY <1>0, <1>1 DEF RegistryOrder, RecordTypes, TableTypes, TablesAgree, registryVars
  <2> QED
    BY <1>1, <2>1 DEF RegistryStepsRight, RegistryInv, registryVars
<1>2. CASE Registry!Tick
  <2>1. /\ now < MaxTime /\ now' = now + 1
        /\ UNCHANGED <<order, registryListed, hashed, expires, finalized, schema, carrier>>
        /\ UNCHANGED <<byExpr, byHash, hashOf, refs, alive, unbound, pending, last, closed>>
    BY <1>2 DEF Registry!Tick, Registry!recordVars, Registry!tables
  <2>2. now' \in 0..MaxTime
    BY <1>0, <2>1 DEF TableTypes, Registry!RegistryAssumption
  <2>3. RegistryOrder' /\ RecordTypes' /\ TableTypes' /\ TablesAgree'
    BY <1>0, <2>1, <2>2 DEF RegistryOrder, RecordTypes, TableTypes, TablesAgree
  <2> QED
    BY <2>1, <2>3 DEF RegistryStepsRight, RegistryInv
<1>3. ASSUME NEW e \in Exprs, Registry!Copy(e) PROVE RegistryStepsRight
  <2>1. /\ alive' = alive \cup {e}
        /\ UNCHANGED <<order, registryListed, hashed, expires, finalized, schema, carrier>>
        /\ UNCHANGED <<byExpr, byHash, hashOf, refs, unbound, pending, last, now, closed>>
    BY <1>3 DEF Registry!Copy, Registry!recordVars, Registry!tables
  <2>2. RegistryOrder' /\ RecordTypes' /\ TableTypes' /\ TablesAgree'
    BY <1>0, <2>1 DEF RegistryOrder, RecordTypes, TableTypes, TablesAgree
  <2> QED
    BY <2>1, <2>2 DEF RegistryStepsRight, RegistryInv
<1>4. ASSUME NEW args \in (SUBSET alive) \ {{}}, NEW nested \in SUBSET Registry!Live,
             Registry!Operation(args, nested)
      PROVE  RegistryStepsRight
  <2>1. /\ pending' = ({Registry!Found(e) : e \in args} \ {Registry!None}) \cup nested
        /\ UNCHANGED <<order, registryListed, hashed, expires, finalized, schema, carrier>>
        /\ UNCHANGED <<byExpr, byHash, hashOf, refs, alive, unbound, last, now, closed>>
    BY <1>4 DEF Registry!Operation, Registry!recordVars, Registry!tables
  <2>2. \A e \in args : Registry!Found(e) \in Registry!Keys \cup {Registry!None}
    BY <1>0, <1>4 DEF TableTypes, Registry!Found, Registry!RegistryAssumption
  <2>3. nested \subseteq Registry!Keys
    BY <1>4, RegistryLive
  <2>4. pending' \subseteq Registry!Keys
    BY <2>1, <2>2, <2>3
  <2>5. RegistryOrder' /\ RecordTypes' /\ TableTypes' /\ TablesAgree'
    BY <1>0, <2>1, <2>4 DEF RegistryOrder, RecordTypes, TableTypes, TablesAgree
  <2> QED
    BY <2>1, <2>5 DEF RegistryStepsRight, RegistryInv
<1> QED
  BY <1>1, <1>2, <1>3, <1>4, RegistryRegister, RegistryPurge, RegistryClose, RegistryBind,
     RegistryDie, RegistryFinalize DEF Registry!Next

LEMMA RegistryFacts ==
  ASSUME Registry!RegistryAssumption, RegistryInv
  PROVE  Registry!TypeOK /\ Registry!IndexesAgree
<1>0. RegistryOrder /\ RecordTypes /\ TableTypes /\ TablesAgree
  BY DEF RegistryInv
<1>1. unbound \subseteq Registry!Keys
  BY <1>0 DEF RegistryOrder, Registry!Keys, Registry!RegistryAssumption
<1>2. Registry!TypeOK
  BY <1>0, <1>1, RegistryLive, RegistryCount
     DEF RegistryOrder, RecordTypes, TableTypes, Registry!TypeOK
<1>3. Registry!IndexesAgree
  BY <1>0, RegistryLive DEF TablesAgree, Registry!IndexesAgree
<1> QED
  BY <1>2, <1>3

LEMMA RegistryActions ==
  ASSUME Registry!RegistryAssumption, RegistryInv, RegistryStepsRight
  PROVE  RegistryInv' /\ Registry!SettledStays /\ Registry!DropsForAReason
<1>1. order \in Seq(Nat) /\ order' \in Seq(Nat)
  BY DEF RegistryInv, RegistryOrder, RegistryStepsRight
<1>2. Range(order') = {order'[i] : i \in 1..Len(order')}
  BY <1>1 DEF Range
<1>3. Registry!Live = Range(order)
  BY RegistryLive
<1> QED
  BY <1>2, <1>3, RegistryCount
     DEF RegistryStepsRight, Registry!SettledStays, Registry!DropsForAReason

-----------------------------------------------------------------------------
(* The driver's cache of captured programs.                                    *)
CapturesInv ==
  /\ captureEntries \in Seq(CacheKeys) /\ Distinct(captureEntries)
  /\ Len(captureEntries) <= CacheLimit
  /\ until \in [CacheKeys -> 0..(CacheTime + CacheTTL)] /\ clock \in 0..CacheTime
  /\ served \in CacheKeys \cup {Captures!NoKey}

LEMMA CapturesWithout == \A s, K : Captures!Without(s, K) = Without(s, K)
BY DEF Captures!Without, Without

LEMMA CapturesCount == \A S : Captures!Cardinality(S) = Cardinality(S)
BY DEF Captures!Cardinality, Cardinality

LEMMA CapturesHeld ==
  ASSUME CapturesInv
  PROVE  /\ Captures!Held = Range(captureEntries)
         /\ Len(captureEntries) = Cardinality(Captures!Held) /\ IsFiniteSet(Captures!Held)
         /\ Captures!Held \subseteq CacheKeys /\ Len(captureEntries) \in Nat
<1>1. DOMAIN captureEntries = 1..Len(captureEntries)
      /\ \A i \in DOMAIN captureEntries : captureEntries[i] \in CacheKeys
  BY DEF CapturesInv
<1>2. Captures!Held = Range(captureEntries)
  BY <1>1 DEF Captures!Held, Range
<1>3. Captures!Held \subseteq CacheKeys
  BY <1>1, <1>2 DEF Range
<1> QED
  BY <1>2, <1>3, DistinctLength DEF CapturesInv

LEMMA CapturesInit ==
  ASSUME Captures!CaptureAssumption, Captures!Init
  PROVE  CapturesInv
<1>1. captureEntries = <<>> /\ until = [k \in CacheKeys |-> 0] /\ clock = 0 /\ served = Captures!NoKey
  BY DEF Captures!Init
<1> QED
  BY <1>1 DEF CapturesInv, Captures!CaptureAssumption, Distinct

(* The cache after a put: the newest of what was left and the new key.         *)
Newest(s, t, K, k) ==
  \/ Range(t) = (Range(s) \ K) \cup {k}
  \/ /\ K \cap Range(s) = {} /\ Len(s) = CacheLimit
     /\ \A x \in Range(s) : x = s[1] \/ x \in Range(t)

LEMMA Trimmed ==
  ASSUME NEW s \in Seq(CacheKeys), Distinct(s), CacheLimit \in Nat, NEW k \in CacheKeys,
         NEW K, k \in K, Len(s) <= CacheLimit,
         NEW t, t = Captures!Newest(Append(Without(s, K), k))
  PROVE  /\ t \in Seq(CacheKeys) /\ Distinct(t) /\ Len(t) <= CacheLimit
         /\ Newest(s, t, K, k)
<1>1. PICK w : w = Without(s, K)
  OBVIOUS
<1>2. w \in Seq(CacheKeys) /\ Distinct(w) /\ Range(w) = Range(s) \ K
  BY <1>1, WithoutFacts
<1>3. Len(w) = Cardinality(Range(s) \ K) /\ Len(w) \in Nat /\ Len(w) <= Len(s) /\ IsFiniteSet(Range(s))
  BY <1>1, WithoutShorter
<1>4. PICK a : a = Append(w, k)
  OBVIOUS
<1>5. /\ a \in Seq(CacheKeys) /\ Range(a) = Range(w) \cup {k} /\ Distinct(a)
      /\ Len(a) = Len(w) + 1 /\ Len(a) \in Nat
      /\ \A i \in 1..Len(w) : a[i] = w[i]
  <2>1. a \in Seq(CacheKeys) /\ Range(a) = Range(w) \cup {k}
    BY <1>2, <1>4, AppendRange
  <2>2. Distinct(a)
    BY <1>2, <1>4, AppendDistinct
  <2>3. Len(a) = Len(w) + 1 /\ \A i \in 1..Len(w) : a[i] = w[i]
    BY <1>2, <1>4, AppendItems
  <2>4. Len(a) \in Nat
    BY <1>3, <2>3
  <2> QED
    BY <2>1, <2>2, <2>3, <2>4
<1>6. t = IF Len(a) > CacheLimit THEN SubSeq(a, Len(a) - CacheLimit + 1, Len(a)) ELSE a
  BY <1>1, <1>4 DEF Captures!Newest
<1>7. CASE ~(Len(a) > CacheLimit)
  BY <1>2, <1>5, <1>6, <1>7 DEF Newest
<1>8. CASE Len(a) > CacheLimit
  <2>1. Len(s) \in Nat /\ Len(a) = CacheLimit + 1 /\ Len(w) = CacheLimit /\ Len(s) = CacheLimit
    BY <1>3, <1>5, <1>8
  <2>2. t = SubSeq(a, 2, CacheLimit + 1)
    BY <1>6, <1>8, <2>1
  <2>3. /\ t \in Seq(CacheKeys) /\ Len(t) = CacheLimit /\ DOMAIN t = 1..CacheLimit
        /\ \A i \in 1..CacheLimit : t[i] = a[i + 1] /\ i + 1 \in DOMAIN a
    BY <1>5, <2>1, <2>2
  <2>4. Distinct(t)
    <3>1. \A i, j \in DOMAIN t : t[i] = t[j] => i + 1 = j + 1 /\ i \in Nat /\ j \in Nat
      <4>1. SUFFICES ASSUME NEW i \in 1..CacheLimit, NEW j \in 1..CacheLimit, t[i] = t[j]
                     PROVE  i + 1 = j + 1
        BY <2>3
      <4>2. a[i + 1] = a[j + 1] /\ i + 1 \in DOMAIN a /\ j + 1 \in DOMAIN a
        BY <2>3, <4>1
      <4> QED
        BY <1>5, <4>2 DEF Distinct
    <3> QED
      BY <3>1 DEF Distinct
  <2>5. K \cap Range(s) = {}
    <3>1. Cardinality(Range(s) \ K) = Cardinality(Range(s))
      BY <1>3, <2>1, DistinctLength
    <3>2. PICK u : u = Range(s) \ K
      OBVIOUS
    <3>3. u = Range(s)
      <4>1. u \subseteq Range(s) /\ Cardinality(u) = Cardinality(Range(s))
        BY <3>1, <3>2
      <4> QED
        BY <1>3, <4>1, FS_Subset
    <3> QED
      BY <3>2, <3>3
  <2>6. w = s
    BY <1>1, <2>5, WithoutNothing
  <2>7. ASSUME NEW x \in Range(s), x # s[1] PROVE x \in Range(t)
    <3>1. PICK i \in 1..CacheLimit : x = s[i]
      BY <2>1 DEF Range
    <3>2. i # 1 /\ i - 1 \in 1..CacheLimit /\ (i - 1) + 1 = i
      BY <2>7, <3>1
    <3>3. t[i - 1] = a[i] /\ a[i] = s[i]
      BY <1>5, <2>1, <2>3, <2>6, <3>1, <3>2
    <3> QED
      BY <2>3, <3>1, <3>2, <3>3 DEF Range
  <2> QED
    BY <2>1, <2>3, <2>4, <2>5, <2>7 DEF Newest
<1> QED
  BY <1>7, <1>8

CapturesNext1 ==
  /\ CapturesInv'
  /\ served' # Captures!NoKey => until[served'] > clock
  /\ \A k \in Captures!Held \ Captures!Expired :
       k \notin {captureEntries'[i] : i \in 1..Len(captureEntries')} =>
         \/ \E j \in Jobs : JobOf[k] = j /\ Captures!ClearJob(j)
         \/ /\ Cardinality(Captures!Held \ Captures!Expired) = CacheLimit
            /\ Head(Without(captureEntries, Captures!Expired)) = k

LEMMA CapturesPut ==
  ASSUME Captures!CaptureAssumption, CapturesInv, NEW k \in CacheKeys, Captures!Put(k)
  PROVE  CapturesNext1
<1>1. PICK s, E : s = captureEntries /\ E = Captures!Expired
  OBVIOUS
<1>2. /\ captureEntries' = Captures!Newest(Append(Without(s, E \cup {k}), k))
      /\ until' = [until EXCEPT ![k] = clock + CacheTTL] /\ clock' = clock /\ served' = Captures!NoKey
  BY <1>1, CapturesWithout DEF Captures!Put
<1>3. /\ s \in Seq(CacheKeys) /\ Distinct(s) /\ Len(s) <= CacheLimit /\ CacheLimit \in Nat
      /\ Captures!Held = Range(s) /\ Len(s) = Cardinality(Captures!Held)
  BY <1>1, CapturesHeld DEF CapturesInv, Captures!CaptureAssumption
<1>4. PICK t, K : t = captureEntries' /\ K = E \cup {k}
  OBVIOUS
<1>5. /\ t \in Seq(CacheKeys) /\ Distinct(t) /\ Len(t) <= CacheLimit
      /\ \/ Range(t) = (Range(s) \ K) \cup {k}
         \/ /\ K \cap Range(s) = {} /\ Len(s) = CacheLimit
            /\ \A x \in Range(s) : x = s[1] \/ x \in Range(t)
  <2>1. k \in K /\ t = Captures!Newest(Append(Without(s, K), k))
    BY <1>2, <1>4
  <2> QED
    <3>1. s \in Seq(CacheKeys) /\ Distinct(s) /\ CacheLimit \in Nat /\ Len(s) <= CacheLimit
      BY <1>3
    <3>2. t \in Seq(CacheKeys) /\ Distinct(t) /\ Len(t) <= CacheLimit
      BY <2>1, <3>1, Trimmed, SMT
    <3>3. Newest(s, t, K, k)
      BY <2>1, <3>1, Trimmed, Zenon
    <3> QED
      BY <3>2, <3>3 DEF Newest
<1>6. CapturesInv'
  <2>1. until' \in [CacheKeys -> 0..(CacheTime + CacheTTL)]
    BY <1>2 DEF CapturesInv, Captures!CaptureAssumption
  <2> QED
    BY <1>2, <1>4, <1>5, <2>1 DEF CapturesInv
<1>7. Range(t) = {captureEntries'[i] : i \in 1..Len(captureEntries')}
  BY <1>4, <1>5 DEF Range
<1>8. ASSUME NEW x \in Captures!Held \ Captures!Expired, x \notin Range(t)
      PROVE  /\ Cardinality(Captures!Held \ Captures!Expired) = CacheLimit
             /\ Head(Without(captureEntries, Captures!Expired)) = x
  <2>1. x \in Range(s) /\ x \notin E
    BY <1>1, <1>3, <1>8
  <2>2. ~(Range(t) = (Range(s) \ K) \cup {k})
    BY <1>4, <1>8, <2>1
  <2>3. K \cap Range(s) = {} /\ Len(s) = CacheLimit /\ x = s[1]
    BY <1>5, <1>8, <2>1, <2>2
  <2>4. E \cap Range(s) = {}
    BY <1>4, <2>3
  <2>5. Captures!Held \ Captures!Expired = Captures!Held
    BY <1>1, <1>3, <2>4
  <2>6. Without(s, E) = s
    BY <1>3, <2>4, WithoutNothing
  <2>7. Head(s) = s[1]
    BY <1>3, <2>1 DEF Range
  <2> QED
    BY <1>1, <1>3, <2>3, <2>5, <2>6, <2>7
<1> QED
  BY <1>2, <1>6, <1>7, <1>8 DEF CapturesNext1

(* Every other step takes keys out, and a get moves one to the end.            *)
LEMMA CapturesTaken ==
  ASSUME Captures!CaptureAssumption, CapturesInv, NEW K, NEW t \in Seq(CacheKeys),
         t = Without(captureEntries, K)
  PROVE  /\ Distinct(t) /\ Len(t) <= CacheLimit /\ Len(t) \in Nat
         /\ Range(t) = Captures!Held \ K
<1>1. Len(t) \in Nat /\ Len(t) <= Len(captureEntries) /\ Len(captureEntries) \in Nat
  BY CapturesHeld, WithoutShorter DEF CapturesInv
<1>2. Distinct(t) /\ Range(t) = Captures!Held \ K
  BY CapturesHeld, WithoutFacts DEF CapturesInv
<1> QED
  BY <1>1, <1>2 DEF CapturesInv, Captures!CaptureAssumption

LEMMA CapturesGet ==
  ASSUME Captures!CaptureAssumption, CapturesInv, NEW k \in CacheKeys, Captures!Get(k)
  PROVE  CapturesNext1
<1>1. PICK E, w : E = Captures!Expired /\ w = Without(captureEntries, E)
  OBVIOUS
<1>2. /\ captureEntries' = IF k \in Captures!Held \ E THEN Append(Without(w, {k}), k) ELSE w
      /\ served' = IF k \in Captures!Held \ E THEN k ELSE Captures!NoKey
      /\ until' = until /\ clock' = clock
  BY <1>1, CapturesWithout DEF Captures!Get
<1>3. /\ w \in Seq(CacheKeys) /\ Distinct(w) /\ Len(w) <= CacheLimit /\ Len(w) \in Nat
      /\ Range(w) = Captures!Held \ E
  <2>1. w \in Seq(CacheKeys)
    BY <1>1, WithoutFacts DEF CapturesInv
  <2> QED
    BY <1>1, <2>1, CapturesTaken
<1>4. PICK t : t = captureEntries'
  OBVIOUS
<1>5. /\ t \in Seq(CacheKeys) /\ Distinct(t) /\ Len(t) <= CacheLimit
      /\ Range(t) = Captures!Held \ E
  <2>1. CASE k \notin Captures!Held \ E
    BY <1>2, <1>3, <1>4, <2>1
  <2>2. CASE k \in Captures!Held \ E
    <3>1. PICK v : v = Without(w, {k})
      OBVIOUS
    <3>2. v \in Seq(CacheKeys) /\ Distinct(v) /\ Range(v) = Range(w) \ {k}
      BY <1>3, <3>1, WithoutFacts
    <3>3. t = Append(v, k)
      BY <1>2, <1>4, <2>2, <3>1
    <3>4. t \in Seq(CacheKeys) /\ Range(t) = Range(v) \cup {k}
      BY <3>2, <3>3, AppendRange
    <3>5. Distinct(t)
      BY <3>2, <3>3, AppendDistinct
    <3>6. Len(t) = Cardinality(Range(t)) /\ Len(w) = Cardinality(Range(w))
      BY <1>3, <3>4, <3>5, DistinctLength
    <3>7. Range(t) = Range(w)
      BY <1>3, <2>2, <3>2, <3>4
    <3> QED
      BY <1>3, <3>4, <3>5, <3>6, <3>7
  <2> QED
    BY <2>1, <2>2
<1>6. CapturesInv'
  BY <1>2, <1>4, <1>5 DEF CapturesInv
<1>7. Range(t) = {captureEntries'[i] : i \in 1..Len(captureEntries')}
  BY <1>4, <1>5 DEF Range
<1>8. served' # Captures!NoKey => until[served'] > clock
  <2>1. ASSUME k \in Captures!Held \ E PROVE until[k] > clock
    <3>1. ~(until[k] <= clock)
      BY <1>1, <2>1 DEF Captures!Expired
    <3>2. until[k] \in Nat /\ clock \in Nat
      BY DEF CapturesInv, Captures!CaptureAssumption
    <3> QED
      BY <3>1, <3>2
  <2> QED
    BY <1>2, <2>1
<1> QED
  BY <1>1, <1>5, <1>6, <1>7, <1>8 DEF CapturesNext1

LEMMA CapturesDrop ==
  ASSUME Captures!CaptureAssumption, CapturesInv, NEW K, captureEntries' = Without(captureEntries, K),
         served' = Captures!NoKey, UNCHANGED <<until, clock>>
  PROVE  /\ CapturesInv'
         /\ {captureEntries'[i] : i \in 1..Len(captureEntries')} = Captures!Held \ K
<1>1. PICK t : t = captureEntries'
  OBVIOUS
<1>2. t \in Seq(CacheKeys)
  BY <1>1, WithoutFacts DEF CapturesInv
<1>3. Distinct(t) /\ Len(t) <= CacheLimit /\ Range(t) = Captures!Held \ K
  BY <1>1, <1>2, CapturesTaken
<1>4. Range(t) = {captureEntries'[i] : i \in 1..Len(captureEntries')}
  BY <1>1, <1>2 DEF Range
<1> QED
  BY <1>1, <1>2, <1>3, <1>4 DEF CapturesInv

LEMMA CapturesNext ==
  ASSUME Captures!CaptureAssumption, CapturesInv, Captures!Next \/ UNCHANGED capturesVars
  PROVE  CapturesInv' /\ (Captures!FreshStay \/ UNCHANGED capturesVars)
<1>1. CapturesNext1 => CapturesInv' /\ Captures!FreshStay
  BY CapturesWithout, CapturesCount DEF CapturesNext1, Captures!FreshStay
<1>2. CASE Captures!PurgeExpired
  <2>1. /\ captureEntries' = Without(captureEntries, Captures!Expired)
        /\ served' = Captures!NoKey /\ UNCHANGED <<until, clock>>
    BY <1>2, CapturesWithout DEF Captures!PurgeExpired
  <2>2. CapturesNext1
    BY <2>1, CapturesDrop DEF CapturesNext1
  <2> QED
    BY <1>1, <2>2
<1>3. ASSUME NEW j \in Jobs, Captures!ClearJob(j) PROVE CapturesNext1
  <2> DEFINE K == {k \in CacheKeys : JobOf[k] = j}
  <2>1. /\ captureEntries' = Without(captureEntries, K)
        /\ served' = Captures!NoKey /\ UNCHANGED <<until, clock>>
    BY <1>3, CapturesWithout DEF Captures!ClearJob
  <2>2. \A k \in K : JobOf[k] = j
    OBVIOUS
  <2> HIDE DEF K
  <2>3. /\ CapturesInv'
        /\ {captureEntries'[i] : i \in 1..Len(captureEntries')} = Captures!Held \ K
    BY <2>1, CapturesDrop
  <2> QED
    BY <1>3, <2>1, <2>2, <2>3 DEF CapturesNext1
<1>4. CASE Captures!Tick
  <2>1. /\ clock < CacheTime /\ clock' = clock + 1 /\ served' = Captures!NoKey
        /\ UNCHANGED <<captureEntries, until>>
    BY <1>4 DEF Captures!Tick
  <2>2. CapturesInv'
    BY <2>1 DEF CapturesInv, Captures!CaptureAssumption
  <2>3. {captureEntries'[i] : i \in 1..Len(captureEntries')} = Captures!Held
    BY <2>1 DEF Captures!Held
  <2> QED
    BY <1>1, <2>1, <2>2, <2>3 DEF CapturesNext1
<1>5. CASE UNCHANGED capturesVars
  BY <1>5 DEF CapturesInv, capturesVars
<1> QED
  BY <1>1, <1>2, <1>3, <1>4, <1>5, CapturesGet, CapturesPut DEF Captures!Next

LEMMA CapturesFacts ==
  ASSUME Captures!CaptureAssumption, CapturesInv
  PROVE  Captures!TypeOK
BY CapturesHeld, CapturesCount DEF CapturesInv, Captures!TypeOK

-----------------------------------------------------------------------------
(* The diagnostic bundle.                                                      *)
BundleTypes ==
  /\ place \in {"temp", "final"} /\ file \in [Bundle!Names -> {"none", "part", "whole"}]
  /\ bundleListed \in Seq(Bundle!Artifacts) /\ Distinct(bundleListed)
  /\ exhausted \in BOOLEAN /\ partial \in BOOLEAN /\ hurt \in BOOLEAN
  /\ rec \in [Bundle!Artifacts -> Bundle!Over \cup {"todo", "admitted", "open", "written"}]
  /\ pub \in {"idle", "stages", "verify", "fit", "manifest", "replace", "marker", "rename",
              "published"}
  /\ status \in {"COMPLETE", "PARTIAL", "INCOMPLETE"}
  /\ doc \in [status : {"none", "COMPLETE", "PARTIAL", "INCOMPLETE"},
              artifacts : SUBSET Bundle!Artifacts]
  /\ bundleEnded \in SUBSET Recorded
  /\ faults \in 0..MaxFaults /\ attempts \in 0..MaxAttempts

(* What is listed is whole; what failed, was dropped or is no longer listed has *)
(* left its mark.                                                               *)
RecordsMarked ==
  \A a \in Bundle!Artifacts :
    /\ a \in Range(bundleListed) => rec[a] = "listed" /\ file[a] = "whole"
    /\ rec[a] = "listed" => a \in Range(bundleListed) \/ exhausted \/ partial
    /\ rec[a] = "written" => file[a] = "whole"
    /\ rec[a] = "dropped" => exhausted
    /\ rec[a] = "failed" => partial

(* What is going to be published as complete lists all that was over.           *)
LatePub == {"manifest", "replace", "marker", "rename", "published"}
CompleteLists ==
  /\ pub \in {"stages", "verify"} /\ status = "COMPLETE" =>
       \A a \in bundleEnded : a \in Range(bundleListed) \/ exhausted
  /\ pub = "fit" /\ status = "COMPLETE" => \A a \in bundleEnded : a \in Range(bundleListed)
  /\ pub \in LatePub /\ doc.status = "COMPLETE" => bundleEnded \subseteq doc.artifacts

(* The files of a finalization, in the order they are written.                  *)
FilesInOrder ==
  /\ pub \in LatePub => \A a \in doc.artifacts : file[a] = "whole"
  /\ pub \in LatePub \ {"manifest"} => file["manifest.json"] = "whole"
  /\ pub \in {"marker", "rename", "published"} => place = "final"
  /\ file["COMPLETE"] # "none" => pub = "published"

BundleInv == BundleTypes /\ RecordsMarked /\ CompleteLists /\ FilesInOrder

LEMMA BundleCount == \A S : Bundle!Cardinality(S) = Cardinality(S)
BY DEF Bundle!Cardinality, Cardinality

LEMMA BundleNames ==
  ASSUME Bundle!BundleAssumption
  PROVE  /\ \A a \in Bundle!Artifacts : /\ a \in Bundle!Names /\ a # "manifest.json"
                                        /\ a # "marker.tmp" /\ a # "COMPLETE"
         /\ {"manifest.json", "marker.tmp", "COMPLETE"} \subseteq Bundle!Names
         /\ Bundle!Stages \in Bundle!Artifacts /\ Bundle!Stages \notin Recorded
         /\ Recorded \subseteq Bundle!Artifacts
         /\ MaxFaults \in Nat /\ MaxAttempts \in Nat /\ MaxBytes \in Nat
BY DEF Bundle!BundleAssumption, Bundle!Artifacts, Bundle!Names, Bundle!Stages

LEMMA BundleInit ==
  ASSUME Bundle!BundleAssumption, Bundle!Init
  PROVE  BundleInv
<1>0. /\ place = "temp" /\ file = [n \in Bundle!Names |-> "none"] /\ bundleListed = <<>>
      /\ exhausted = FALSE /\ partial = FALSE /\ hurt = FALSE
      /\ rec = [a \in Bundle!Artifacts |-> "todo"]
      /\ pub = "idle" /\ status = "COMPLETE" /\ doc = [status |-> "none", artifacts |-> {}]
      /\ bundleEnded = {} /\ faults = 0 /\ attempts = 0
  BY DEF Bundle!Init, Bundle!NoDoc
<1>1. BundleTypes
  <2>1. faults \in 0..MaxFaults /\ attempts \in 0..MaxAttempts
    BY <1>0, BundleNames
  <2>2. exhausted \in BOOLEAN /\ partial \in BOOLEAN /\ hurt \in BOOLEAN
    BY <1>0
  <2>3. bundleListed \in Seq(Bundle!Artifacts) /\ Distinct(bundleListed)
    BY <1>0 DEF Distinct
  <2> QED
    BY <1>0, <2>1, <2>2, <2>3 DEF BundleTypes
<1>2. Range(bundleListed) = {}
  BY <1>0 DEF Range
<1>3. RecordsMarked /\ CompleteLists
  BY <1>0, <1>2 DEF RecordsMarked, CompleteLists, LatePub
<1>4. FilesInOrder
  BY <1>0, BundleNames DEF FilesInOrder, LatePub
<1> QED
  BY <1>1, <1>3, <1>4 DEF BundleInv

LEMMA BundleCounts ==
  ASSUME Bundle!BundleAssumption, BundleInv
  PROVE  /\ Bundle!Fault => faults' \in 0..MaxFaults /\ hurt' \in BOOLEAN
         /\ Bundle!NoFault => faults' \in 0..MaxFaults /\ hurt' \in BOOLEAN
<1>0. faults \in 0..MaxFaults /\ hurt \in BOOLEAN
  BY DEF BundleInv, BundleTypes
<1>1. MaxFaults \in Nat
  BY BundleNames
<1>2. CASE Bundle!Fault
  <2>1. faults < MaxFaults /\ faults' = faults + 1 /\ hurt' = TRUE
    BY <1>2 DEF Bundle!Fault
  <2>2. faults' \in 0..MaxFaults
    BY <1>0, <1>1, <2>1
  <2>3. hurt' \in BOOLEAN
    BY <2>1
  <2> QED
    BY <2>2, <2>3
<1>3. CASE Bundle!NoFault
  <2>1. faults' = faults /\ hurt' = hurt
    BY <1>3 DEF Bundle!NoFault
  <2>2. hurt' \in BOOLEAN
    BY <1>0, <2>1, Zenon
  <2>3. faults' \in 0..MaxFaults
    BY <1>0, <2>1
  <2> QED
    BY <2>2, <2>3
<1> QED
  BY <1>2, <1>3

(* A recording goes one step on, whatever the finalization is doing.            *)
LEMMA BundleRecords ==
  ASSUME Bundle!BundleAssumption, BundleInv, NEW a \in Bundle!Artifacts, rec[a] # "listed",
         NEW s \in Bundle!Over \cup {"todo", "admitted", "open", "written"},
         rec' = [rec EXCEPT ![a] = s],
         \/ bundleListed' = bundleListed /\ s # "listed"
         \/ bundleListed' = Append(bundleListed, a) /\ s = "listed" /\ file'[a] = "whole",
         \/ file' = file
         \/ \E f \in {"part", "whole"} : file' = [file EXCEPT ![a] = f],
         file[a] = "whole" => file'[a] = "whole",
         s = "written" => file'[a] = "whole",
         exhausted' \in BOOLEAN, exhausted => exhausted', s = "dropped" => exhausted',
         partial' \in BOOLEAN, partial => partial', s = "failed" => partial',
         Bundle!Fault \/ Bundle!NoFault,
         UNCHANGED <<place, pub, status, doc, bundleEnded, attempts>>
  PROVE  BundleInv'
<1>0. BundleTypes /\ RecordsMarked /\ CompleteLists /\ FilesInOrder
  BY DEF BundleInv
<1>1. a \notin Range(bundleListed)
  BY <1>0 DEF RecordsMarked
<1>2. /\ bundleListed' \in Seq(Bundle!Artifacts) /\ Distinct(bundleListed')
      /\ \A x : x \in Range(bundleListed') <=> x \in Range(bundleListed) \/ (x = a /\ s = "listed")
  <2>1. CASE bundleListed' = bundleListed /\ s # "listed"
    <3>1. Range(bundleListed') = Range(bundleListed)
      BY <2>1 DEF Range
    <3>2. bundleListed' \in Seq(Bundle!Artifacts) /\ Distinct(bundleListed')
      BY <1>0, <2>1 DEF BundleTypes, Distinct
    <3> QED
      BY <2>1, <3>1, <3>2
  <2>2. CASE bundleListed' = Append(bundleListed, a) /\ s = "listed"
    <3>1. PICK t, u : t = bundleListed /\ u = bundleListed'
      OBVIOUS
    <3>2. t \in Seq(Bundle!Artifacts) /\ Distinct(t) /\ a \notin Range(t) /\ u = Append(t, a)
      BY <1>0, <1>1, <2>2, <3>1 DEF BundleTypes
    <3>3. u \in Seq(Bundle!Artifacts) /\ Range(u) = Range(t) \cup {a}
      BY <3>2, AppendRange
    <3>4. Distinct(u)
      BY <3>2, AppendDistinct
    <3> QED
      BY <2>2, <3>1, <3>3, <3>4
  <2> QED
    BY <2>1, <2>2
<1>3. /\ file' \in [Bundle!Names -> {"none", "part", "whole"}]
      /\ \A n \in Bundle!Names : n # a => file'[n] = file[n]
  BY <1>0, BundleNames DEF BundleTypes
<1>4. /\ rec'[a] = s /\ \A x \in Bundle!Artifacts : x # a => rec'[x] = rec[x]
      /\ rec' \in [Bundle!Artifacts -> Bundle!Over \cup {"todo", "admitted", "open", "written"}]
  BY <1>0 DEF BundleTypes
<1>5. BundleTypes'
  <2>1. faults' \in 0..MaxFaults /\ hurt' \in BOOLEAN
    BY BundleCounts
  <2> QED
    BY <1>0, <1>2, <1>3, <1>4, <2>1 DEF BundleTypes
<1>6. RecordsMarked'
  <2>1. SUFFICES ASSUME NEW x \in Bundle!Artifacts
                 PROVE  /\ x \in Range(bundleListed') => rec'[x] = "listed" /\ file'[x] = "whole"
                        /\ rec'[x] = "listed" => x \in Range(bundleListed') \/ exhausted' \/ partial'
                        /\ rec'[x] = "written" => file'[x] = "whole"
                        /\ rec'[x] = "dropped" => exhausted'
                        /\ rec'[x] = "failed" => partial'
    BY DEF RecordsMarked
  <2>2. CASE x # a
    <3>1. rec'[x] = rec[x] /\ file'[x] = file[x] /\ (x \in Range(bundleListed') <=> x \in Range(bundleListed))
      BY <1>2, <1>3, <1>4, <2>2, BundleNames
    <3> QED
      BY <1>0, <3>1 DEF RecordsMarked
  <2>3. CASE x = a
    <3>1. rec'[x] = s /\ (x \in Range(bundleListed') <=> s = "listed")
      BY <1>1, <1>2, <1>4, <2>3
    <3> QED
      BY <2>3, <3>1
  <2> QED
    BY <2>2, <2>3
<1>7. CompleteLists'
  BY <1>0, <1>2 DEF CompleteLists
<1>8. FilesInOrder'
  <2>1. \A x \in doc.artifacts : x \in Bundle!Artifacts
    BY <1>0 DEF BundleTypes
  <2>2. \A x \in doc.artifacts : file[x] = "whole" => file'[x] = "whole"
    BY <1>3, <2>1, BundleNames
  <2>3. file'["manifest.json"] = file["manifest.json"] /\ file'["COMPLETE"] = file["COMPLETE"]
    BY <1>3, BundleNames
  <2> QED
    BY <1>0, <2>2, <2>3 DEF FilesInOrder
<1> QED
  BY <1>5, <1>6, <1>7, <1>8 DEF BundleInv

LEMMA BundleRecordSteps ==
  ASSUME Bundle!BundleAssumption, BundleInv, NEW a \in Bundle!Artifacts,
         Bundle!Admit(a) \/ Bundle!AdmitClosed(a) \/ Bundle!Create(a) \/ Bundle!Fill(a) \/ Bundle!List(a)
  PROVE  BundleInv'
<1>0. BundleTypes /\ RecordsMarked
  BY DEF BundleInv
<1>1. /\ exhausted \in BOOLEAN /\ partial \in BOOLEAN
      /\ file \in [Bundle!Names -> {"none", "part", "whole"}] /\ a \in Bundle!Names
  BY <1>0, BundleNames DEF BundleTypes
<1>2. {"listed", "dropped", "failed"} = Bundle!Over
  BY DEF Bundle!Over
<1>3. CASE Bundle!Admit(a)
  <2>1. /\ rec[a] # "listed" /\ bundleListed' = bundleListed /\ file' = file /\ partial' = partial
        /\ Bundle!NoFault /\ UNCHANGED <<place, pub, status, doc, bundleEnded, attempts>>
    BY <1>3 DEF Bundle!Admit
  <2>2. \/ rec' = [rec EXCEPT ![a] = "admitted"] /\ exhausted' = exhausted
        \/ rec' = [rec EXCEPT ![a] = "dropped"] /\ exhausted' = TRUE
    BY <1>3 DEF Bundle!Admit, Bundle!Recording
  <2>3. CASE rec' = [rec EXCEPT ![a] = "admitted"] /\ exhausted' = exhausted
    BY <1>1, <2>1, <2>3, BundleRecords
  <2>4. CASE rec' = [rec EXCEPT ![a] = "dropped"] /\ exhausted' = TRUE
    BY <1>1, <1>2, <2>1, <2>4, BundleRecords
  <2> QED
    BY <2>2, <2>3, <2>4
<1>4. CASE Bundle!AdmitClosed(a)
  <2>1. /\ rec[a] # "listed" /\ bundleListed' = bundleListed /\ file' = file /\ partial' = TRUE
        /\ exhausted' = exhausted /\ rec' = [rec EXCEPT ![a] = "failed"]
        /\ Bundle!NoFault /\ UNCHANGED <<place, pub, status, doc, bundleEnded, attempts>>
    BY <1>4 DEF Bundle!AdmitClosed, Bundle!RecordingFails, Bundle!Recording
  <2> QED
    BY <1>1, <1>2, <2>1, BundleRecords
<1>5. CASE Bundle!Create(a)
  <2>1. /\ rec[a] # "listed" /\ bundleListed' = bundleListed /\ exhausted' = exhausted
        /\ UNCHANGED <<place, pub, status, doc, bundleEnded, attempts>>
        /\ Bundle!Fault \/ Bundle!NoFault
    BY <1>5 DEF Bundle!Create
  <2>2. \/ /\ file[a] = "none" /\ file' = [file EXCEPT ![a] = "part"]
           /\ rec' = [rec EXCEPT ![a] = "open"] /\ partial' = partial
        \/ rec' = [rec EXCEPT ![a] = "failed"] /\ partial' = TRUE /\ file' = file
    BY <1>5 DEF Bundle!Create, Bundle!RecordingFails, Bundle!Recording
  <2>3. CASE /\ file[a] = "none" /\ file' = [file EXCEPT ![a] = "part"]
             /\ rec' = [rec EXCEPT ![a] = "open"] /\ partial' = partial
    BY <1>1, <2>1, <2>3, BundleRecords
  <2>4. CASE rec' = [rec EXCEPT ![a] = "failed"] /\ partial' = TRUE /\ file' = file
    BY <1>1, <1>2, <2>1, <2>4, BundleRecords
  <2> QED
    BY <2>2, <2>3, <2>4
<1>6. CASE Bundle!Fill(a)
  <2>1. /\ rec[a] # "listed" /\ bundleListed' = bundleListed /\ exhausted' = exhausted
        /\ UNCHANGED <<place, pub, status, doc, bundleEnded, attempts>>
        /\ Bundle!Fault \/ Bundle!NoFault
    BY <1>6 DEF Bundle!Fill
  <2>2. \/ /\ file' = [file EXCEPT ![a] = "whole"]
           /\ rec' = [rec EXCEPT ![a] = "written"] /\ partial' = partial
        \/ /\ file' = [file EXCEPT ![a] = "whole"]
           /\ rec' = [rec EXCEPT ![a] = "failed"] /\ partial' = TRUE
        \/ rec' = [rec EXCEPT ![a] = "failed"] /\ partial' = TRUE /\ file' = file
    BY <1>6 DEF Bundle!Fill, Bundle!RecordingFails, Bundle!Recording
  <2>3. file' = [file EXCEPT ![a] = "whole"] => file'[a] = "whole"
    BY <1>1
  <2>4. CASE /\ file' = [file EXCEPT ![a] = "whole"]
             /\ rec' = [rec EXCEPT ![a] = "written"] /\ partial' = partial
    BY <1>1, <2>1, <2>3, <2>4, BundleRecords
  <2>5. CASE /\ file' = [file EXCEPT ![a] = "whole"]
             /\ rec' = [rec EXCEPT ![a] = "failed"] /\ partial' = TRUE
    BY <1>1, <1>2, <2>1, <2>3, <2>5, BundleRecords
  <2>6. CASE rec' = [rec EXCEPT ![a] = "failed"] /\ partial' = TRUE /\ file' = file
    BY <1>1, <1>2, <2>1, <2>6, BundleRecords
  <2> QED
    BY <2>2, <2>4, <2>5, <2>6
<1>7. CASE Bundle!List(a)
  <2>1. /\ rec[a] = "written" /\ bundleListed' = Append(bundleListed, a) /\ file' = file
        /\ partial' = partial /\ exhausted' = exhausted /\ rec' = [rec EXCEPT ![a] = "listed"]
        /\ Bundle!NoFault /\ UNCHANGED <<place, pub, status, doc, bundleEnded, attempts>>
    BY <1>7 DEF Bundle!List, Bundle!Recording
  <2>2. file'[a] = "whole"
    BY <1>0, <2>1 DEF RecordsMarked
  <2> QED
    BY <1>1, <1>2, <2>1, <2>2, BundleRecords
<1> QED
  BY <1>3, <1>4, <1>5, <1>6, <1>7

(* What a step of the finalization leaves alone.                                *)
RecordsKept ==
  UNCHANGED <<bundleListed, exhausted, rec>> /\ (partial => partial') /\ partial' \in BOOLEAN

LEMMA BundlePartial ==
  ASSUME Bundle!BundleAssumption, BundleInv, Bundle!MarkPartial
  PROVE  BundleInv'
<1>0. BundleTypes /\ RecordsMarked /\ CompleteLists /\ FilesInOrder
  BY DEF BundleInv
<1>1. /\ partial' = TRUE /\ Bundle!NoFault
      /\ UNCHANGED <<place, file, bundleListed, exhausted, rec, pub, status, doc, bundleEnded, attempts>>
  BY DEF Bundle!MarkPartial
<1>2. BundleTypes'
  BY <1>0, <1>1, BundleCounts DEF BundleTypes
<1>3. RecordsMarked' /\ CompleteLists' /\ FilesInOrder'
  BY <1>0, <1>1 DEF RecordsMarked, CompleteLists, FilesInOrder
<1> QED
  BY <1>2, <1>3 DEF BundleInv

LEMMA BundleBegin ==
  ASSUME Bundle!BundleAssumption, BundleInv, NEW wish \in {"COMPLETE", "INCOMPLETE"}, Bundle!Begin(wish)
  PROVE  BundleInv'
<1>0. BundleTypes /\ RecordsMarked /\ CompleteLists /\ FilesInOrder
  BY DEF BundleInv
<1>1. /\ pub = "idle" /\ attempts < MaxAttempts /\ attempts' = attempts + 1
      /\ status' = IF wish = "COMPLETE" /\ partial THEN "PARTIAL" ELSE wish
      /\ bundleEnded' = {a \in Recorded : rec[a] \in Bundle!Over}
      /\ hurt' = FALSE /\ faults' = faults
      /\ UNCHANGED <<place, file, bundleListed, exhausted, partial, doc>>
  BY DEF Bundle!Begin
<1>2. \/ rec[Bundle!Stages] \in {"listed", "dropped"} /\ pub' = "verify" /\ rec' = rec
      \/ /\ rec[Bundle!Stages] \notin {"listed", "dropped"} /\ pub' = "stages"
         /\ rec' = [rec EXCEPT ![Bundle!Stages] = "todo"]
  BY DEF Bundle!Begin, Bundle!Recording
<1>3. /\ pub' \in {"stages", "verify"}
      /\ rec' \in [Bundle!Artifacts -> Bundle!Over \cup {"todo", "admitted", "open", "written"}]
      /\ \A a \in Bundle!Artifacts : rec'[a] = rec[a] \/ (rec[a] # "listed" /\ rec'[a] = "todo")
  <2>1. rec \in [Bundle!Artifacts -> Bundle!Over \cup {"todo", "admitted", "open", "written"}]
    BY <1>0 DEF BundleTypes
  <2>2. CASE rec[Bundle!Stages] \in {"listed", "dropped"} /\ pub' = "verify" /\ rec' = rec
    BY <2>1, <2>2
  <2>3. CASE /\ rec[Bundle!Stages] \notin {"listed", "dropped"} /\ pub' = "stages"
             /\ rec' = [rec EXCEPT ![Bundle!Stages] = "todo"]
    BY <2>1, <2>3
  <2> QED
    BY <1>2, <2>2, <2>3
<1>4. BundleTypes'
  <2>0. attempts \in 0..MaxAttempts /\ MaxAttempts \in Nat
    BY <1>0, BundleNames DEF BundleTypes
  <2>1. /\ attempts' \in 0..MaxAttempts
        /\ hurt' \in BOOLEAN /\ faults' = faults /\ bundleEnded' \in SUBSET Recorded
    <3>1. attempts' \in 0..MaxAttempts
      BY <1>1, <2>0
    <3>2. bundleEnded' \in SUBSET Recorded
      BY <1>1
    <3>3. hurt' \in BOOLEAN
      BY <1>1
    <3> QED
      BY <1>1, <3>1, <3>2, <3>3
  <2>2. status' \in {"COMPLETE", "PARTIAL", "INCOMPLETE"}
    BY <1>1
  <2> QED
    BY <1>0, <1>1, <1>3, <2>1, <2>2 DEF BundleTypes
<1>5. RecordsMarked'
  BY <1>0, <1>1, <1>3 DEF RecordsMarked
<1>6. CompleteLists'
  <2>1. ASSUME status' = "COMPLETE", NEW a \in bundleEnded'
        PROVE  a \in Range(bundleListed') \/ exhausted'
    <3>1. ~partial /\ a \in Bundle!Artifacts /\ rec[a] \in {"listed", "dropped", "failed"}
      BY <1>1, <2>1, BundleNames DEF Bundle!Over
    <3> QED
      BY <1>0, <1>1, <3>1 DEF RecordsMarked
  <2> QED
    BY <1>3, <2>1 DEF CompleteLists, LatePub
<1>7. FilesInOrder'
  BY <1>0, <1>1, <1>3 DEF FilesInOrder, LatePub
<1> QED
  BY <1>4, <1>5, <1>6, <1>7 DEF BundleInv

(* A finalization that gives up.                                                *)
LEMMA BundleGivesUp ==
  ASSUME Bundle!BundleAssumption, BundleInv, pub # "published", Bundle!GiveUp, Bundle!Fault \/ Bundle!NoFault,
         UNCHANGED <<place, exhausted, rec, doc, bundleEnded, attempts>>,
         status' \in {"COMPLETE", "PARTIAL", "INCOMPLETE"},
         bundleListed' \in Seq(Bundle!Artifacts), Distinct(bundleListed'),
         \A a \in Range(bundleListed') : a \in Range(bundleListed),
         \/ file' = file
         \/ \E n \in {"manifest.json", "marker.tmp"}, f \in {"none", "part"} : file' = [file EXCEPT ![n] = f]
  PROVE  BundleInv'
<1>0. BundleTypes /\ RecordsMarked /\ CompleteLists /\ FilesInOrder
  BY DEF BundleInv
<1>1. pub' = "idle" /\ partial' = TRUE
  BY DEF Bundle!GiveUp
<1>2. /\ file' \in [Bundle!Names -> {"none", "part", "whole"}]
      /\ \A a \in Bundle!Artifacts : file'[a] = file[a]
      /\ file'["COMPLETE"] = file["COMPLETE"]
  BY <1>0, BundleNames DEF BundleTypes
<1>3. BundleTypes'
  BY <1>0, <1>1, <1>2, BundleCounts DEF BundleTypes
<1>4. RecordsMarked'
  BY <1>0, <1>1, <1>2 DEF RecordsMarked
<1>5. CompleteLists' /\ FilesInOrder'
  BY <1>0, <1>1, <1>2 DEF CompleteLists, FilesInOrder, LatePub
<1> QED
  BY <1>3, <1>4, <1>5 DEF BundleInv

LEMMA BundleStagesDone ==
  ASSUME Bundle!BundleAssumption, BundleInv, Bundle!StagesDone
  PROVE  BundleInv'
<1>0. BundleTypes /\ RecordsMarked /\ CompleteLists /\ FilesInOrder
  BY DEF BundleInv
<1>1. /\ pub = "stages" /\ Bundle!NoFault
      /\ UNCHANGED <<place, file, bundleListed, exhausted, rec, status, doc, bundleEnded, attempts>>
      /\ Bundle!GiveUp \/ (pub' = "verify" /\ partial' = partial)
  <2>1. Bundle!GiveUp \/ (pub' = "verify" /\ partial' = partial)
    BY DEF Bundle!StagesDone
  <2> QED
    BY <2>1 DEF Bundle!StagesDone
<1>2. CASE Bundle!GiveUp
  <2>1. /\ bundleListed' \in Seq(Bundle!Artifacts) /\ Distinct(bundleListed')
        /\ status' \in {"COMPLETE", "PARTIAL", "INCOMPLETE"}
    BY <1>0, <1>1 DEF BundleTypes
  <2> QED
    BY <1>1, <1>2, <2>1, BundleGivesUp
<1>3. CASE pub' = "verify" /\ partial' = partial
  <2>1. BundleTypes'
    BY <1>0, <1>1, <1>3, BundleCounts DEF BundleTypes
  <2>2. RecordsMarked' /\ CompleteLists' /\ FilesInOrder'
    BY <1>0, <1>1, <1>3 DEF RecordsMarked, CompleteLists, FilesInOrder, LatePub
  <2> QED
    BY <2>1, <2>2 DEF BundleInv
<1> QED
  BY <1>1, <1>2, <1>3

LEMMA BundleVerify ==
  ASSUME Bundle!BundleAssumption, BundleInv, Bundle!Verify
  PROVE  BundleInv'
<1>0. BundleTypes /\ RecordsMarked /\ CompleteLists /\ FilesInOrder
  BY DEF BundleInv
<1>1. /\ pub = "verify" /\ Bundle!NoFault
      /\ status' = IF status = "COMPLETE" /\ exhausted THEN "PARTIAL" ELSE status
      /\ UNCHANGED <<place, file, bundleListed, exhausted, rec, doc, bundleEnded, attempts>>
      /\ Bundle!GiveUp \/ (pub' = "fit" /\ partial' = partial)
  <2>1. Bundle!GiveUp \/ (pub' = "fit" /\ partial' = partial)
    BY DEF Bundle!Verify
  <2> QED
    BY <2>1 DEF Bundle!Verify
<1>2. status' \in {"COMPLETE", "PARTIAL", "INCOMPLETE"}
  BY <1>0, <1>1 DEF BundleTypes
<1>3. CASE Bundle!GiveUp
  <2>1. bundleListed' \in Seq(Bundle!Artifacts) /\ Distinct(bundleListed')
    BY <1>0, <1>1 DEF BundleTypes
  <2> QED
    BY <1>1, <1>2, <1>3, <2>1, BundleGivesUp
<1>4. CASE pub' = "fit" /\ partial' = partial
  <2>1. BundleTypes'
    BY <1>0, <1>1, <1>2, <1>4, BundleCounts DEF BundleTypes
  <2>2. status' = "COMPLETE" => status = "COMPLETE" /\ ~exhausted
    BY <1>1
  <2>3. RecordsMarked' /\ CompleteLists' /\ FilesInOrder'
    BY <1>0, <1>1, <1>4, <2>2 DEF RecordsMarked, CompleteLists, FilesInOrder, LatePub
  <2> QED
    BY <2>1, <2>3 DEF BundleInv
<1> QED
  BY <1>1, <1>3, <1>4

LEMMA BundleFit ==
  ASSUME Bundle!BundleAssumption, BundleInv, NEW extra, Bundle!Fit(extra)
  PROVE  BundleInv'
<1>0. BundleTypes /\ RecordsMarked /\ CompleteLists /\ FilesInOrder
  BY DEF BundleInv
<1>1. /\ pub = "fit" /\ Bundle!NoFault /\ pub' = "manifest"
      /\ doc' = [status |-> status, artifacts |-> Bundle!Listed]
      /\ UNCHANGED <<place, file, bundleListed, exhausted, partial, rec, status, bundleEnded, attempts>>
  BY DEF Bundle!Fit
<1>2. Bundle!Listed = Range(bundleListed)
  BY DEF Bundle!Listed, Range
<1>3. Range(bundleListed) \subseteq Bundle!Artifacts
  BY <1>0 DEF BundleTypes, Range
<1>4. doc'.status = status /\ doc'.artifacts = Range(bundleListed)
  BY <1>1, <1>2
<1>5. BundleTypes'
  <2>1. doc' \in [status : {"none", "COMPLETE", "PARTIAL", "INCOMPLETE"},
                  artifacts : SUBSET Bundle!Artifacts]
    BY <1>0, <1>1, <1>2, <1>3 DEF BundleTypes
  <2> QED
    BY <1>0, <1>1, <2>1, BundleCounts DEF BundleTypes
<1>6. RecordsMarked'
  BY <1>0, <1>1 DEF RecordsMarked
<1>7. CompleteLists'
  BY <1>0, <1>1, <1>4 DEF CompleteLists
<1>8. FilesInOrder'
  <2>1. \A a \in doc'.artifacts : file'[a] = "whole"
    BY <1>0, <1>1, <1>3, <1>4 DEF RecordsMarked
  <2> QED
    BY <1>0, <1>1, <2>1 DEF FilesInOrder, LatePub
<1> QED
  BY <1>5, <1>6, <1>7, <1>8 DEF BundleInv

LEMMA ButTheLast ==
  ASSUME NEW S, NEW s \in Seq(S), Distinct(s), s # <<>>, NEW t, t = SubSeq(s, 1, Len(s) - 1)
  PROVE  /\ t \in Seq(S) /\ Distinct(t) /\ Range(t) = Range(s) \ {s[Len(s)]}
         /\ s[Len(s)] \in Range(s) /\ s[Len(s)] \in S
<1>1. /\ Len(s) \in Nat \ {0} /\ Len(s) \in DOMAIN s /\ DOMAIN s = 1..Len(s)
  OBVIOUS
<1>2. /\ t \in Seq(S) /\ DOMAIN t = 1..(Len(s) - 1)
      /\ \A i \in DOMAIN t : t[i] = s[i] /\ i \in DOMAIN s /\ i # Len(s)
  BY <1>1
<1>3. Distinct(t)
  BY <1>2 DEF Distinct
<1>4. \A x : x \in Range(t) <=> x \in Range(s) /\ x # s[Len(s)]
  <2>1. ASSUME NEW x \in Range(t) PROVE x \in Range(s) /\ x # s[Len(s)]
    BY <1>1, <1>2 DEF Range, Distinct
  <2>2. ASSUME NEW x \in Range(s), x # s[Len(s)] PROVE x \in Range(t)
    <3>1. PICK i \in DOMAIN s : x = s[i]
      BY DEF Range
    <3>2. i \in DOMAIN t
      BY <1>1, <1>2, <2>2, <3>1
    <3> QED
      BY <1>2, <3>1, <3>2 DEF Range
  <2> QED
    BY <2>1, <2>2
<1>5. Range(t) = Range(s) \ {s[Len(s)]}
  BY <1>4
<1>6. s[Len(s)] \in Range(s)
  BY <1>1 DEF Range
<1>7. s[Len(s)] \in S
  BY <1>1
<1> QED
  BY <1>2, <1>3, <1>5, <1>6, <1>7

LEMMA BundleFitDrops ==
  ASSUME Bundle!BundleAssumption, BundleInv, NEW extra, Bundle!FitDrops(extra)
  PROVE  BundleInv'
<1>0. BundleTypes /\ RecordsMarked /\ CompleteLists /\ FilesInOrder
  BY DEF BundleInv
<1>1. PICK s, t, x : s = bundleListed /\ t = bundleListed' /\ x = s[Len(s)]
  OBVIOUS
<1>2. /\ pub = "fit" /\ s # <<>> /\ t = SubSeq(s, 1, Len(s) - 1)
      /\ UNCHANGED <<place, rec, doc, bundleEnded, attempts>>
      /\ \/ /\ file' = [file EXCEPT ![x] = "none"] /\ exhausted' = TRUE /\ Bundle!NoFault
            /\ status' = IF status = "INCOMPLETE" THEN status ELSE "PARTIAL"
            /\ UNCHANGED <<pub, partial>>
         \/ Bundle!Fault /\ Bundle!GiveUp /\ UNCHANGED <<file, exhausted, status>>
  BY <1>1 DEF Bundle!FitDrops
<1>3. s \in Seq(Bundle!Artifacts) /\ Distinct(s)
  BY <1>0, <1>1 DEF BundleTypes
<1>4. /\ t \in Seq(Bundle!Artifacts) /\ Distinct(t) /\ Range(t) = Range(s) \ {x}
      /\ x \in Range(s) /\ x \in Bundle!Artifacts
  BY <1>1, <1>2, <1>3, ButTheLast
<1>5. CASE Bundle!Fault /\ Bundle!GiveUp /\ UNCHANGED <<file, exhausted, status>>
  <2>1. \A a \in Range(bundleListed') : a \in Range(bundleListed)
    BY <1>1, <1>4
  <2>2. /\ bundleListed' \in Seq(Bundle!Artifacts) /\ Distinct(bundleListed')
        /\ status' \in {"COMPLETE", "PARTIAL", "INCOMPLETE"}
    BY <1>0, <1>1, <1>4, <1>5 DEF BundleTypes
  <2> QED
    BY <1>2, <1>5, <2>1, <2>2, BundleGivesUp
<1>6. CASE /\ file' = [file EXCEPT ![x] = "none"] /\ exhausted' = TRUE /\ Bundle!NoFault
           /\ status' = IF status = "INCOMPLETE" THEN status ELSE "PARTIAL"
           /\ UNCHANGED <<pub, partial>>
  <2>1. /\ file' \in [Bundle!Names -> {"none", "part", "whole"}]
        /\ \A n \in Bundle!Names : n # x => file'[n] = file[n]
        /\ file'["COMPLETE"] = file["COMPLETE"]
    BY <1>0, <1>4, <1>6, BundleNames DEF BundleTypes
  <2>2. status' \in {"PARTIAL", "INCOMPLETE"}
    BY <1>6
  <2>3. BundleTypes'
    BY <1>0, <1>1, <1>2, <1>4, <1>6, <2>1, <2>2, BundleCounts DEF BundleTypes
  <2>4. RecordsMarked'
    <3>1. ASSUME NEW a \in Bundle!Artifacts
          PROVE  /\ a \in Range(t) => rec[a] = "listed" /\ file'[a] = "whole"
                 /\ rec[a] = "written" => file'[a] = "whole"
                 /\ rec[a] = "failed" => partial
      <4>1. CASE a # x
        BY <1>0, <1>1, <1>4, <2>1, <4>1, BundleNames DEF RecordsMarked
      <4>2. CASE a = x
        BY <1>0, <1>1, <1>4, <4>2 DEF RecordsMarked
      <4> QED
        BY <4>1, <4>2
    <3> QED
      BY <1>1, <1>2, <1>6, <3>1 DEF RecordsMarked
  <2>5. CompleteLists' /\ FilesInOrder'
    BY <1>0, <1>2, <1>6, <2>1, <2>2 DEF CompleteLists, FilesInOrder, LatePub
  <2> QED
    BY <2>3, <2>4, <2>5 DEF BundleInv
<1> QED
  BY <1>2, <1>5, <1>6

(* The finalization writes its own files, or moves the directory.               *)
LEMMA BundleWrites ==
  ASSUME Bundle!BundleAssumption, BundleInv,
         Bundle!WriteManifest \/ Bundle!Replace \/ Bundle!WriteMarker \/ Bundle!RenameMarker
  PROVE  BundleInv'
<1>0. BundleTypes /\ RecordsMarked /\ CompleteLists /\ FilesInOrder
  BY DEF BundleInv
<1>1. /\ pub \in {"manifest", "replace", "marker", "rename"}
      /\ UNCHANGED <<bundleListed, exhausted, rec, status, doc, bundleEnded, attempts>>
  BY DEF Bundle!WriteManifest, Bundle!Replace, Bundle!WriteMarker, Bundle!RenameMarker
<1>2. \/ /\ Bundle!Fault /\ Bundle!GiveUp /\ place' = place
         /\ \/ file' = file
            \/ \E n \in {"manifest.json", "marker.tmp"}, f \in {"none", "part"} : file' = [file EXCEPT ![n] = f]
      \/ /\ Bundle!NoFault /\ partial' = partial
         /\ \/ /\ pub = "manifest" /\ file' = [file EXCEPT !["manifest.json"] = "whole"]
               /\ pub' = "replace" /\ place' = place
            \/ pub = "replace" /\ place' = "final" /\ file' = file /\ pub' \in {"marker", "published"}
            \/ /\ pub = "marker" /\ file' = [file EXCEPT !["marker.tmp"] = "whole"]
               /\ pub' = "rename" /\ place' = place
            \/ /\ pub = "rename" /\ pub' = "published" /\ place' = place
               /\ file' = [file EXCEPT !["marker.tmp"] = "none", !["COMPLETE"] = "whole"]
  <2>1. CASE Bundle!WriteManifest
    BY <2>1 DEF Bundle!WriteManifest, Bundle!WriteNew
  <2>2. CASE Bundle!WriteMarker
    BY <2>2 DEF Bundle!WriteMarker, Bundle!WriteNew
  <2>3. CASE Bundle!Replace
    BY <2>3 DEF Bundle!Replace
  <2>4. CASE Bundle!RenameMarker
    BY <2>4 DEF Bundle!RenameMarker
  <2> QED
    BY <2>1, <2>2, <2>3, <2>4
<1>3. CASE /\ Bundle!Fault /\ Bundle!GiveUp /\ place' = place
           /\ \/ file' = file
              \/ \E n \in {"manifest.json", "marker.tmp"}, f \in {"none", "part"} : file' = [file EXCEPT ![n] = f]
  <2>1. /\ bundleListed' \in Seq(Bundle!Artifacts) /\ Distinct(bundleListed') /\ pub # "published"
        /\ status' \in {"COMPLETE", "PARTIAL", "INCOMPLETE"}
        /\ \A a \in Range(bundleListed') : a \in Range(bundleListed)
    BY <1>0, <1>1 DEF BundleTypes
  <2> QED
    BY <1>1, <1>3, <2>1, BundleGivesUp
<1>4. CASE /\ Bundle!NoFault /\ partial' = partial
           /\ \/ /\ pub = "manifest" /\ file' = [file EXCEPT !["manifest.json"] = "whole"]
                 /\ pub' = "replace" /\ place' = place
              \/ pub = "replace" /\ place' = "final" /\ file' = file /\ pub' \in {"marker", "published"}
              \/ /\ pub = "marker" /\ file' = [file EXCEPT !["marker.tmp"] = "whole"]
                 /\ pub' = "rename" /\ place' = place
              \/ /\ pub = "rename" /\ pub' = "published" /\ place' = place
                 /\ file' = [file EXCEPT !["marker.tmp"] = "none", !["COMPLETE"] = "whole"]
  <2>1. /\ file' \in [Bundle!Names -> {"none", "part", "whole"}]
        /\ \A a \in Bundle!Artifacts : file'[a] = file[a]
        /\ pub = "manifest" => file'["manifest.json"] = "whole"
        /\ pub # "manifest" => file'["manifest.json"] = file["manifest.json"]
        /\ pub # "rename" => file'["COMPLETE"] = file["COMPLETE"]
    BY <1>0, <1>4, BundleNames DEF BundleTypes
  <2>2. /\ pub' \in LatePub \ {"manifest"} /\ pub \in LatePub /\ place' \in {"temp", "final"}
        /\ pub = "rename" => pub' = "published"
    BY <1>0, <1>4 DEF LatePub, BundleTypes
  <2>3. BundleTypes'
    BY <1>0, <1>1, <1>4, <2>1, <2>2, BundleCounts DEF BundleTypes, LatePub
  <2>4. RecordsMarked'
    BY <1>0, <1>1, <1>4, <2>1 DEF RecordsMarked
  <2>5. CompleteLists'
    BY <1>0, <1>1, <2>2 DEF CompleteLists, LatePub
  <2>6. FilesInOrder'
    <3>1. \A a \in doc'.artifacts : file'[a] = "whole"
      BY <1>0, <1>1, <2>1, <2>2 DEF FilesInOrder, BundleTypes
    <3>2. file'["manifest.json"] = "whole"
      BY <1>0, <2>1, <2>2 DEF FilesInOrder
    <3>3. pub' \in {"marker", "rename", "published"} => place' = "final"
      BY <1>0, <1>4 DEF FilesInOrder
    <3>4. file'["COMPLETE"] # "none" => pub' = "published"
      BY <1>0, <1>1, <2>1, <2>2 DEF FilesInOrder
    <3> QED
      BY <3>1, <3>2, <3>3, <3>4 DEF FilesInOrder
  <2> QED
    BY <2>3, <2>4, <2>5, <2>6 DEF BundleInv
<1> QED
  BY <1>2, <1>3, <1>4

LEMMA BundleNext ==
  ASSUME Bundle!BundleAssumption, BundleInv, Bundle!Next \/ UNCHANGED bundleVars
  PROVE  BundleInv'
<1>1. CASE UNCHANGED bundleVars
  BY <1>1 DEF BundleInv, BundleTypes, RecordsMarked, CompleteLists, FilesInOrder, bundleVars
<1> QED
  BY <1>1, BundleRecordSteps, BundlePartial, BundleBegin, BundleStagesDone, BundleVerify, BundleFit,
     BundleFitDrops, BundleWrites DEF Bundle!Next

LEMMA BundleFacts ==
  ASSUME Bundle!BundleAssumption, BundleInv
  PROVE  Bundle!TypeOK /\ Bundle!CompleteLacksNothing /\ Bundle!MarkerMeansWhole
<1>0. BundleTypes /\ RecordsMarked /\ CompleteLists /\ FilesInOrder
  BY DEF BundleInv
<1>1. Bundle!Listed = Range(bundleListed)
  BY DEF Bundle!Listed, Range
<1>2. Bundle!TypeOK
  <2>1. Cardinality(Range(bundleListed)) = Len(bundleListed)
    BY <1>0, DistinctLength DEF BundleTypes
  <2>2. Bundle!Cardinality(Bundle!Listed) = Len(bundleListed)
    BY <1>1, <2>1, BundleCount
  <2> QED
    BY <1>0, <2>2 DEF BundleTypes, Bundle!TypeOK
<1>3. Bundle!CompleteLacksNothing
  <2>1. SUFFICES ASSUME Bundle!Accepted, doc.status = "COMPLETE" PROVE bundleEnded \subseteq doc.artifacts
    BY DEF Bundle!CompleteLacksNothing
  <2>2. "COMPLETE" \in Bundle!Existing
    BY <2>1 DEF Bundle!Accepted
  <2>3. pub = "published"
    BY <1>0, <2>2 DEF FilesInOrder, Bundle!Existing
  <2> QED
    BY <1>0, <2>1, <2>3 DEF CompleteLists, LatePub
<1>4. Bundle!MarkerMeansWhole
  BY <1>0 DEF FilesInOrder, LatePub, Bundle!MarkerMeansWhole
<1> QED
  BY <1>2, <1>3, <1>4

-----------------------------------------------------------------------------
(* The diagnostics of a rejection.                                             *)
RejectionTypes ==
  /\ rejection \in Rejections!Cases
  /\ doing \in {"open", "evidence", "capture", "listing", "source", "chain", "conclude", "done"}
  /\ contents \in Seq(Rejections!Required \cup {"source", "chain", "stages"})
  /\ missing \in BOOLEAN /\ textMissing \in BOOLEAN
  /\ says \subseteq {"capture", "source"}
  /\ outcome \in {"", "recorded", "not_selected", "failed"}
  /\ bundleStatus \in {"none", "PARTIAL", "INCOMPLETE"}

(* What was recorded so far, if nothing that is needed was refused; the chain   *)
(* status is the last artifact of all.                                         *)
BeforeTheChain == {"open", "evidence", "capture", "listing", "source", "chain"}
RecordedSoFar ==
  /\ doing \in BeforeTheChain => "chain" \notin Range(contents)
  /\ "capture" \in says => rejection.capture
  /\ doing \in {"capture", "listing", "source", "chain"} /\ ~missing => "evidence" \in Range(contents)
  /\ doing \in {"listing", "source", "chain"} /\ ~missing /\ rejection.capture =>
       "capture" \in Range(contents)
  /\ doing \in {"source", "chain"} /\ ~missing => "listing" \in Range(contents)
  /\ doing = "chain" => ~missing /\ ("source" \in says => "source" \in Range(contents))
  /\ doing = "conclude" => \A i \in DOMAIN contents : contents[i] = "chain" => i = Len(contents)
  /\ "chain" \in Range(contents) => says \cup {"evidence", "listing"} \subseteq Range(contents)

(* A text that was wanted is there or is missed, and what is missed is told.    *)
TextAccounted ==
  /\ doing \notin {"open", "done"} /\ rejection.text => textMissing \/ "source" \in says
  /\ outcome = "recorded" => /\ doing = "done" /\ bundleStatus = "PARTIAL" /\ ~missing
                             /\ ~textMissing /\ (rejection.text => "source" \in says)

RejectionInv == RejectionTypes /\ RecordedSoFar /\ TextAccounted

LEMMA RejectionInit ==
  ASSUME Rejections!Init
  PROVE  RejectionInv
<1>1. /\ rejection \in Rejections!Cases /\ doing = "open" /\ contents = <<>>
      /\ missing = FALSE /\ textMissing = FALSE /\ says = {}
      /\ outcome = "" /\ bundleStatus = "none"
  BY DEF Rejections!Init
<1>2. Range(contents) = {}
  <2>1. contents = <<>>
    BY <1>1
  <2> QED
    BY <2>1 DEF Range
<1>3. RejectionTypes
  <2>1. missing \in BOOLEAN /\ textMissing \in BOOLEAN
    BY <1>1
  <2>2. contents \in Seq(Rejections!Required \cup {"source", "chain", "stages"})
    <3>1. contents = <<>>
      BY <1>1
    <3> QED
      BY <3>1
  <2> QED
    BY <1>1, <2>1, <2>2 DEF RejectionTypes
<1>4. RecordedSoFar /\ TextAccounted
  BY <1>1, <1>2 DEF RecordedSoFar, TextAccounted, BeforeTheChain
<1> QED
  BY <1>3, <1>4 DEF RejectionInv

PrefixTells(s, t, c) ==
  /\ c \in Range(t) => c \in Range(s)
  /\ (\A i \in DOMAIN s : s[i] = c => i = Len(s)) /\ c \in Range(t) =>
       \A y : y \in Range(s) => y \in Range(t)

(* A prefix that holds the chain status, the last of all, holds everything.     *)
LEMMA KeptPrefix ==
  ASSUME NEW S, NEW s \in Seq(S), NEW kept \in 0..(Len(s) + 1), NEW x \in S, NEW c, c # x,
         NEW t, t = SubSeq(Append(s, x), 1, kept)
  PROVE  t \in Seq(S) /\ PrefixTells(s, t, c)
<1>1. PICK u : u = Append(s, x)
  OBVIOUS
<1>2. /\ u \in Seq(S) /\ Len(u) = Len(s) + 1 /\ Len(s) \in Nat /\ DOMAIN s = 1..Len(s)
      /\ \A i \in 1..Len(s) : u[i] = s[i]
      /\ u[Len(s) + 1] = x
  BY <1>1
<1>3. t = SubSeq(u, 1, kept)
  BY <1>1
<1>4. t \in Seq(S) /\ DOMAIN t = 1..kept /\ \A i \in 1..kept : t[i] = u[i]
  BY <1>2, <1>3
<1>5. ASSUME c \in Range(t)
      PROVE  \E i \in 1..kept : i \in 1..Len(s) /\ s[i] = c
  <2>1. PICK i \in 1..kept : t[i] = c
    BY <1>4, <1>5 DEF Range
  <2>2. i # Len(s) + 1
    BY <1>2, <1>4, <2>1
  <2>3. i \in 1..Len(s)
    BY <1>2, <2>2
  <2> QED
    BY <1>2, <1>4, <2>1, <2>3
<1>6. c \in Range(t) => c \in Range(s)
  BY <1>2, <1>5 DEF Range
<1>7. ASSUME \A i \in DOMAIN s : s[i] = c => i = Len(s), c \in Range(t), NEW y \in Range(s)
      PROVE  y \in Range(t)
  <2>1. Len(s) \in 1..kept
    BY <1>2, <1>5, <1>7
  <2>2. PICK j \in 1..Len(s) : s[j] = y
    BY <1>2 DEF Range
  <2>3. j \in 1..kept
    BY <1>2, <2>1
  <2>4. t[j] = y
    BY <1>2, <1>4, <2>2, <2>3
  <2> QED
    BY <1>4, <2>3, <2>4 DEF Range
<1> QED
  BY <1>4, <1>6, <1>7 DEF PrefixTells

(* What a publication, of whatever length, leaves of the contents.              *)
LEMMA Publishes ==
  ASSUME RejectionInv, NEW kept \in 0..(Len(contents) + 1), NEW st \in {"PARTIAL", "INCOMPLETE"},
         Rejections!PublishedAs(kept, st), doing' = "done", doing \in BeforeTheChain \cup {"conclude"},
         says' \subseteq says, rejection' = rejection
  PROVE  /\ contents' \in Seq(Rejections!Required \cup {"source", "chain", "stages"})
         /\ bundleStatus' = st
         /\ RecordedSoFar'
<1>0. RejectionTypes /\ RecordedSoFar
  BY DEF RejectionInv
<1>1. PICK s, t : s = contents /\ t = contents'
  OBVIOUS
<1>2. bundleStatus' = st /\ t = SubSeq(Append(s, "stages"), 1, kept)
  BY <1>1 DEF Rejections!PublishedAs
<1>3. s \in Seq(Rejections!Required \cup {"source", "chain", "stages"})
  BY <1>0, <1>1 DEF RejectionTypes
<1>4. kept \in 0..(Len(s) + 1) /\ "stages" \in Rejections!Required \cup {"source", "chain", "stages"}
  BY <1>1
<1>5. /\ t \in Seq(Rejections!Required \cup {"source", "chain", "stages"})
      /\ "chain" \in Range(t) => "chain" \in Range(s)
      /\ (\A i \in DOMAIN s : s[i] = "chain" => i = Len(s)) /\ "chain" \in Range(t) =>
           \A y : y \in Range(s) => y \in Range(t)
  <2>1. PICK x, c : x = "stages" /\ c = "chain"
    OBVIOUS
  <2>2. PICK S : S = Rejections!Required \cup {"source", "chain", "stages"}
    OBVIOUS
  <2>3. s \in Seq(S) /\ x \in S /\ c # x /\ t = SubSeq(Append(s, x), 1, kept)
    BY <1>2, <1>3, <1>4, <2>1, <2>2
  <2>4. t \in Seq(S) /\ PrefixTells(s, t, c)
    BY <1>4, <2>3, KeptPrefix
  <2> QED
    BY <2>1, <2>2, <2>4 DEF PrefixTells
<1>6. "chain" \in Range(t) => says' \cup {"evidence", "listing"} \subseteq Range(t)
  <2>1. SUFFICES ASSUME "chain" \in Range(t) PROVE says' \cup {"evidence", "listing"} \subseteq Range(t)
    OBVIOUS
  <2>2. "chain" \in Range(s)
    BY <1>5, <2>1
  <2>3. says \cup {"evidence", "listing"} \subseteq Range(s)
    BY <1>0, <1>1, <2>2 DEF RecordedSoFar
  <2>4. doing = "conclude"
    BY <1>0, <1>1, <2>2 DEF RecordedSoFar
  <2>5. \A i \in DOMAIN s : s[i] = "chain" => i = Len(s)
    BY <1>0, <1>1, <2>4 DEF RecordedSoFar
  <2>6. \A y : y \in Range(s) => y \in Range(t)
    BY <1>5, <2>1, <2>5
  <2> QED
    BY <2>3, <2>6
<1>7. RecordedSoFar'
  BY <1>0, <1>1, <1>6 DEF RecordedSoFar, BeforeTheChain
<1> QED
  BY <1>1, <1>2, <1>5, <1>7

LEMMA RejectionFails ==
  ASSUME RejectionInv, Rejections!Failed, doing \in BeforeTheChain \cup {"conclude"},
         UNCHANGED <<rejection, missing, textMissing, says>>
  PROVE  /\ RejectionTypes' /\ RecordedSoFar' /\ outcome' = "failed"
<1>0. RejectionTypes /\ RecordedSoFar
  BY DEF RejectionInv
<1>1. doing' = "done" /\ outcome' = "failed"
  BY DEF Rejections!Failed, Rejections!Ends
<1>2. /\ contents' \in Seq(Rejections!Required \cup {"source", "chain", "stages"})
      /\ bundleStatus' \in {"none", "PARTIAL", "INCOMPLETE"}
      /\ RecordedSoFar'
  <2>1. CASE UNCHANGED <<contents, bundleStatus>>
    BY <1>0, <1>1, <2>1 DEF RejectionTypes, RecordedSoFar, BeforeTheChain
  <2>2. CASE \E kept \in 0..(Len(contents) + 1) : Rejections!PublishedAs(kept, "INCOMPLETE")
    BY <1>1, <2>2, Publishes
  <2> QED
    BY <2>1, <2>2 DEF Rejections!Failed
<1>3. RejectionTypes'
  BY <1>0, <1>1, <1>2 DEF RejectionTypes
<1> QED
  BY <1>1, <1>2, <1>3

LEMMA RejectionOpens ==
  ASSUME RejectionInv, Rejections!Open
  PROVE  RejectionInv'
<1>0. RejectionTypes /\ RecordedSoFar /\ TextAccounted
  BY DEF RejectionInv
<1>1. doing = "open" /\ rejection' = rejection /\ missing' = missing
  BY DEF Rejections!Open
<1>2. CASE Rejections!Failed /\ UNCHANGED <<textMissing, says>>
  <2>1. RejectionTypes' /\ RecordedSoFar' /\ outcome' = "failed"
    BY <1>1, <1>2, RejectionFails DEF BeforeTheChain
  <2>2. doing' = "done"
    BY <1>2 DEF Rejections!Failed, Rejections!Ends
  <2>3. TextAccounted'
    BY <2>1, <2>2 DEF TextAccounted
  <2> QED
    BY <2>1, <2>3 DEF RejectionInv
<1>3. CASE Rejections!Ends("not_selected") /\ UNCHANGED <<contents, bundleStatus, textMissing, says>>
  <2>1. doing' = "done" /\ outcome' = "not_selected"
    BY <1>3 DEF Rejections!Ends
  <2>2. RejectionTypes'
    BY <1>0, <1>1, <1>3, <2>1 DEF RejectionTypes
  <2>3. RecordedSoFar' /\ TextAccounted'
    BY <1>0, <1>1, <1>3, <2>1 DEF RecordedSoFar, TextAccounted, BeforeTheChain
  <2> QED
    BY <2>2, <2>3 DEF RejectionInv
<1>4. CASE /\ doing' = "evidence" /\ textMissing' = (rejection.text /\ ~rejection.found)
           /\ says' = (IF rejection.capture THEN {"capture"} ELSE {})
                        \cup (IF rejection.text /\ rejection.found THEN {"source"} ELSE {})
           /\ UNCHANGED <<contents, outcome, bundleStatus>>
  <2>1. /\ says' \subseteq {"capture", "source"}
        /\ "capture" \in says' => rejection.capture
        /\ "source" \in says' <=> rejection.text /\ rejection.found
    BY <1>4
  <2>2. textMissing' \in BOOLEAN
    BY <1>4
  <2>3. contents' = contents /\ Range(contents') = Range(contents)
    BY <1>4 DEF Range
  <2>4. "chain" \notin Range(contents)
    BY <1>0, <1>1 DEF RecordedSoFar, BeforeTheChain
  <2>5. RejectionTypes'
    BY <1>0, <1>1, <1>4, <2>1, <2>2 DEF RejectionTypes
  <2>6. RecordedSoFar'
    BY <1>1, <1>4, <2>1, <2>3, <2>4 DEF RecordedSoFar
  <2>7. TextAccounted'
    <3>1. outcome' # "recorded"
      BY <1>0, <1>1, <1>4 DEF TextAccounted
    <3>2. rejection.text => textMissing' \/ "source" \in says'
      BY <1>4, <2>1
    <3> QED
      BY <1>1, <3>1, <3>2 DEF TextAccounted
  <2> QED
    BY <2>5, <2>6, <2>7 DEF RejectionInv
<1> QED
  BY <1>2, <1>3, <1>4 DEF Rejections!Open

(* The artifact that comes next, whatever has been refused.                     *)
LEMMA ComesNext ==
  ASSUME RejectionInv, Rejections!Record, doing' = Rejections!After(doing)
  PROVE  /\ doing = "evidence" => doing' = IF rejection.capture THEN "capture" ELSE "listing"
         /\ doing = "capture" => doing' = "listing"
         /\ doing = "listing" => doing' = IF "source" \in says THEN "source"
                                         ELSE IF missing' THEN "conclude" ELSE "chain"
         /\ doing = "source" => doing' = IF missing' THEN "conclude" ELSE "chain"
         /\ doing = "chain" => doing' = "conclude"
         /\ doing \in {"evidence", "capture", "listing", "source", "chain"}
         /\ doing' \in {"capture", "listing", "source", "chain", "conclude"}
<1>1. doing \in {"evidence", "capture", "listing", "source", "chain"}
  BY DEF Rejections!Record, Rejections!Required
<1>2. /\ doing = "evidence" => doing' = IF rejection.capture THEN "capture" ELSE "listing"
      /\ doing = "capture" => doing' = "listing"
      /\ doing = "listing" => doing' = IF "source" \in says THEN "source"
                                      ELSE IF missing' THEN "conclude" ELSE "chain"
      /\ doing = "source" => doing' = IF missing' THEN "conclude" ELSE "chain"
      /\ doing = "chain" => doing' = "conclude"
  BY <1>1 DEF Rejections!After
<1> QED
  BY <1>1, <1>2

LEMMA RejectionRecords ==
  ASSUME RejectionInv, Rejections!Record
  PROVE  RejectionInv'
<1>0. RejectionTypes /\ RecordedSoFar /\ TextAccounted
  BY DEF RejectionInv
<1>1. doing \in {"evidence", "capture", "listing", "source", "chain"} /\ rejection' = rejection
  BY DEF Rejections!Record, Rejections!Required
<1>2. CASE Rejections!Failed /\ UNCHANGED <<missing, textMissing, says>>
  <2>1. RejectionTypes' /\ RecordedSoFar' /\ outcome' = "failed"
    BY <1>1, <1>2, RejectionFails DEF BeforeTheChain
  <2>2. doing' = "done"
    BY <1>2 DEF Rejections!Failed, Rejections!Ends
  <2>3. TextAccounted'
    BY <2>1, <2>2 DEF TextAccounted
  <2> QED
    BY <2>1, <2>3 DEF RejectionInv
<1>3. CASE /\ contents' = Append(contents, doing) /\ UNCHANGED <<missing, textMissing>>
           /\ doing' = Rejections!After(doing) /\ UNCHANGED <<says, outcome, bundleStatus>>
  <2>1. PICK s, t, x, S : /\ s = contents /\ t = contents' /\ x = doing
                          /\ S = Rejections!Required \cup {"source", "chain", "stages"}
    OBVIOUS
  <2>2. s \in Seq(S) /\ x \in S /\ t = Append(s, x)
    BY <1>0, <1>1, <1>3, <2>1 DEF RejectionTypes, Rejections!Required
  <2>3. t \in Seq(S) /\ Range(t) = Range(s) \cup {x}
    BY <2>2, AppendRange
  <2>4. Len(t) = Len(s) + 1 /\ t[Len(t)] = x /\ \A i \in DOMAIN t : i = Len(t) \/ (i \in DOMAIN s /\ t[i] = s[i])
    BY <2>2
  <2>5. RejectionTypes'
    <3>1. doing' \in {"capture", "listing", "source", "chain", "conclude"}
      BY <1>3, ComesNext
    <3>2. contents' \in Seq(Rejections!Required \cup {"source", "chain", "stages"})
      BY <2>1, <2>3
    <3> QED
      BY <1>0, <1>1, <1>3, <3>1, <3>2 DEF RejectionTypes
  <2>6. TextAccounted'
    BY <1>0, <1>1, <1>3 DEF TextAccounted
  <2>7. "chain" \notin Range(s)
    BY <1>0, <1>1, <2>1 DEF RecordedSoFar, BeforeTheChain
  <2>8. RecordedSoFar'
    <3>1. "chain" \in Range(t) <=> doing = "chain"
      BY <2>1, <2>3, <2>7
    <3>2. doing' \in BeforeTheChain => doing # "chain"
      BY <1>3, ComesNext DEF BeforeTheChain
    <3>3. /\ doing' \in {"capture", "listing", "source", "chain"} /\ ~missing => "evidence" \in Range(t)
          /\ doing' \in {"listing", "source", "chain"} /\ ~missing /\ rejection.capture =>
               "capture" \in Range(t)
          /\ doing' \in {"source", "chain"} /\ ~missing => "listing" \in Range(t)
          /\ doing' = "chain" => ~missing /\ ("source" \in says => "source" \in Range(t))
      BY <1>0, <1>3, <2>1, <2>3, ComesNext DEF RecordedSoFar
    <3>4. doing' = "conclude" => \A i \in DOMAIN t : t[i] = "chain" => i = Len(t)
      BY <2>4, <2>7 DEF Range
    <3>5. doing = "chain" => says \cup {"evidence", "listing"} \subseteq Range(t)
      <4>1. SUFFICES ASSUME doing = "chain" PROVE says \cup {"evidence", "listing"} \subseteq Range(s)
        BY <2>3
      <4>2. says \subseteq {"capture", "source"}
        BY <1>0 DEF RejectionTypes
      <4> QED
        BY <1>0, <2>1, <4>1, <4>2 DEF RecordedSoFar
    <3>6. "capture" \in says => rejection.capture
      BY <1>0 DEF RecordedSoFar
    <3> QED
      BY <1>1, <1>3, <2>1, <3>1, <3>2, <3>3, <3>4, <3>5, <3>6 DEF RecordedSoFar
  <2> QED
    BY <2>5, <2>6, <2>8 DEF RejectionInv
<1>4. CASE /\ missing' = (missing \/ doing # "source") /\ textMissing' = (textMissing \/ doing = "source")
           /\ says' = says \ (IF doing = "source" THEN {"source"} ELSE {})
           /\ doing' = Rejections!After(doing) /\ UNCHANGED <<contents, outcome, bundleStatus>>
  <2>1. Range(contents') = Range(contents)
    BY <1>4 DEF Range
  <2>2. doing' \in {"capture", "listing", "source", "chain", "conclude"}
    BY <1>4, ComesNext
  <2>3. says' \subseteq says /\ (doing # "source" => says' = says) /\ (doing = "source" => "source" \notin says')
    BY <1>4
  <2>4. RejectionTypes'
    <3>1. missing' \in BOOLEAN /\ textMissing' \in BOOLEAN
      BY <1>4
    <3>2. says' \subseteq {"capture", "source"}
      BY <1>0, <2>3 DEF RejectionTypes
    <3> QED
      BY <1>0, <1>1, <1>4, <2>2, <3>1, <3>2 DEF RejectionTypes
  <2>5. TextAccounted'
    <3>1. outcome' # "recorded"
      BY <1>0, <1>1, <1>4 DEF TextAccounted
    <3>2. rejection.text => textMissing' \/ "source" \in says'
      BY <1>0, <1>1, <1>4, <2>3 DEF TextAccounted
    <3> QED
      BY <1>1, <3>1, <3>2 DEF TextAccounted
  <2>6. "chain" \notin Range(contents)
    BY <1>0, <1>1 DEF RecordedSoFar, BeforeTheChain
  <2>7. RecordedSoFar'
    <3>1. doing # "source" => missing'
      BY <1>4
    <3>2. doing = "source" => missing' = missing
      BY <1>0, <1>4 DEF RejectionTypes
    <3>3. doing' \in {"capture", "listing", "source", "chain"} /\ ~missing' =>
            doing = "source" /\ doing' = "chain" /\ ~missing
      BY <1>4, <3>1, <3>2, ComesNext
    <3>4. doing' = "chain" => ~missing'
      BY <1>1, <1>4, ComesNext
    <3>5. \A i \in DOMAIN contents : contents[i] # "chain"
      BY <2>6 DEF Range
    <3> QED
      BY <1>0, <1>1, <1>4, <2>1, <2>2, <2>3, <2>6, <3>3, <3>4, <3>5 DEF RecordedSoFar
  <2> QED
    BY <2>4, <2>5, <2>7 DEF RejectionInv
<1> QED
  BY <1>2, <1>3, <1>4 DEF Rejections!Record

LEMMA RejectionConcludes ==
  ASSUME RejectionInv, Rejections!Conclude
  PROVE  RejectionInv'
<1>0. RejectionTypes /\ RecordedSoFar /\ TextAccounted
  BY DEF RejectionInv
<1>1. doing = "conclude" /\ UNCHANGED <<rejection, missing, textMissing, says>>
  BY DEF Rejections!Conclude
<1>2. CASE Rejections!Failed
  <2>1. RejectionTypes' /\ RecordedSoFar' /\ outcome' = "failed"
    BY <1>1, <1>2, RejectionFails
  <2>2. doing' = "done"
    BY <1>2 DEF Rejections!Failed, Rejections!Ends
  <2>3. TextAccounted'
    BY <2>1, <2>2 DEF TextAccounted
  <2> QED
    BY <2>1, <2>3 DEF RejectionInv
<1>3. CASE Rejections!Ends("failed") /\ UNCHANGED <<contents, bundleStatus>>
  <2>1. doing' = "done" /\ outcome' = "failed"
    BY <1>3 DEF Rejections!Ends
  <2>2. RejectionTypes'
    BY <1>0, <1>1, <1>3, <2>1 DEF RejectionTypes
  <2>3. RecordedSoFar' /\ TextAccounted'
    BY <1>0, <1>1, <1>3, <2>1 DEF RecordedSoFar, TextAccounted, BeforeTheChain
  <2> QED
    BY <2>2, <2>3 DEF RejectionInv
<1>4. CASE /\ ~missing /\ ~textMissing /\ Rejections!Ends("recorded")
           /\ \E kept \in 0..(Len(contents) + 1) : Rejections!PublishedAs(kept, "PARTIAL")
  <2>1. doing' = "done" /\ outcome' = "recorded"
    BY <1>4 DEF Rejections!Ends
  <2>2. /\ contents' \in Seq(Rejections!Required \cup {"source", "chain", "stages"})
        /\ bundleStatus' = "PARTIAL" /\ RecordedSoFar'
    BY <1>1, <1>4, <2>1, Publishes
  <2>3. RejectionTypes'
    BY <1>0, <1>1, <2>1, <2>2 DEF RejectionTypes
  <2>4. TextAccounted'
    BY <1>0, <1>1, <1>4, <2>1, <2>2 DEF TextAccounted
  <2> QED
    BY <2>2, <2>3, <2>4 DEF RejectionInv
<1> QED
  BY <1>2, <1>3, <1>4 DEF Rejections!Conclude

LEMMA RejectionNext ==
  ASSUME RejectionInv, Rejections!Next \/ UNCHANGED rejectionsVars
  PROVE  RejectionInv'
<1>1. CASE UNCHANGED rejectionsVars
  <2>1. UNCHANGED <<rejection, doing, contents, missing, textMissing, says, outcome, bundleStatus>>
    BY <1>1 DEF rejectionsVars
  <2>2. RejectionTypes' <=> RejectionTypes
    BY <2>1 DEF RejectionTypes
  <2>3. RecordedSoFar' <=> RecordedSoFar
    BY <2>1 DEF RecordedSoFar, Range
  <2>4. TextAccounted' <=> TextAccounted
    BY <2>1 DEF TextAccounted
  <2> QED
    BY <2>2, <2>3, <2>4 DEF RejectionInv
<1> QED
  BY <1>1, RejectionOpens, RejectionRecords, RejectionConcludes DEF Rejections!Next

LEMMA RejectionFacts ==
  ASSUME RejectionInv
  PROVE  Rejections!TypeOK /\ Rejections!ChainStatusIsTrue
<1>0. RejectionTypes /\ RecordedSoFar /\ TextAccounted
  BY DEF RejectionInv
<1>1. Rejections!TypeOK
  <2>1. {missing, textMissing} \subseteq BOOLEAN
    BY <1>0 DEF RejectionTypes
  <2>2. doing \in Rejections!Required \cup {"open", "source", "chain", "conclude", "done"}
    BY <1>0 DEF RejectionTypes, Rejections!Required
  <2> QED
    BY <1>0, <2>1, <2>2 DEF RejectionTypes, Rejections!TypeOK
<1>2. Rejections!Contents = Range(contents)
  BY DEF Rejections!Contents, Range
<1>3. Rejections!ChainStatusIsTrue
  BY <1>0, <1>2 DEF RecordedSoFar, TextAccounted, Rejections!ChainStatusIsTrue
<1> QED
  BY <1>1, <1>3

-----------------------------------------------------------------------------
(* The recorders of a worker.                                                  *)
Early == {"sink", "prepare", "build", "decide"}
RecorderTypes ==
  /\ recKind \in [Recordings -> RecKinds] /\ recSubject \in [Recordings -> Subjects]
  /\ selector \in {"candidate", "udf", "region"} /\ matching \subseteq Subjects
  /\ progress \in [Recordings -> Early \cup {"writing", "mark", "over"}]
  /\ instance \in [Recordings -> BOOLEAN] /\ recorderAt \in [Recordings -> 1..(ChainLength + 1)]
  /\ emitted \in [Recordings -> BOOLEAN] /\ sinks \subseteq Subjects
  /\ claimed \subseteq Subjects /\ recorded \subseteq Subjects
  /\ written \in [Recorders!Paths -> Subjects \cup {Recorders!Nobody}]
  /\ selected \in BOOLEAN /\ marked \in BOOLEAN /\ degraded \in BOOLEAN
  /\ perf \in {"off", "due", "recorded", "lost"}
  /\ fin \in {"open", "choosing", "published"} /\ chosen \in {"COMPLETE", "PARTIAL"}
  /\ recorderEnded \subseteq Recordings /\ failures \in 0..MaxFailures

(* A chain is written from its first artifact on, each under a path that no     *)
(* other compilation writes; one that was refused has degraded the session.     *)
ChainsInOrder ==
  \A r \in Recordings :
    /\ progress[r] \in Early => recorderAt[r] = 1
    /\ recorderAt[r] <= Recorders!Length(r) + 1
    /\ progress[r] = "over" /\ recorderAt[r] > 1 => recorderAt[r] > Recorders!Length(r)
    /\ emitted[r] => \A i \in 1..(recorderAt[r] - 1) : written[<<recKind[r], i>>] = recSubject[r]
    /\ ~emitted[r] => degraded

(* The chains that were over when finalize began stay as they are, and are      *)
(* whole if the bundle says COMPLETE.                                           *)
EndedWhole ==
  /\ \A r \in recorderEnded : progress[r] = "over" /\ recorderAt[r] > 1
  /\ fin = "published" /\ chosen = "COMPLETE" => \A r \in recorderEnded : emitted[r]

(* A typed region is claimed by the one call that writes it, and recorded once  *)
(* a call has written all of it.                                                *)
WritesTyped(r) == recKind[r] = "typed" /\ progress[r] \in {"writing", "mark"}
RegionsHeld ==
  /\ \A s \in claimed : \E r \in Recordings : recSubject[r] = s /\ WritesTyped(r)
  /\ \A r \in Recordings : WritesTyped(r) => recSubject[r] \in claimed
  /\ \A r, x \in Recordings :
       WritesTyped(r) /\ WritesTyped(x) /\ recSubject[r] = recSubject[x] => r = x
RegionsWritten ==
  \A s \in recorded : \E r \in Recordings :
    /\ recKind[r] = "typed" /\ recSubject[r] = s /\ progress[r] = "over"
    /\ \A i \in 1..Recorders!Length(r) : written[<<recKind[r], i>>] = s

RecorderInv == RecorderTypes /\ ChainsInOrder /\ EndedWhole /\ RegionsHeld /\ RegionsWritten

LEMMA RecorderConstants ==
  ASSUME Recorders!RecorderAssumption
  PROVE  /\ ChainLength \in Nat /\ ChainLength >= 1 /\ MaxFailures \in Nat
         /\ Recorders!Nobody \notin Subjects
         /\ \A k \in RecKinds, i \in 1..ChainLength : <<k, i>> \in Recorders!Paths
BY DEF Recorders!RecorderAssumption, Recorders!Paths

LEMMA LengthOfChain ==
  ASSUME Recorders!RecorderAssumption
  PROVE  \A r : /\ Recorders!Length(r) \in Nat /\ Recorders!Length(r) <= ChainLength
                /\ Recorders!Length(r) = ChainLength \/ Recorders!Length(r) = ChainLength - 1
BY RecorderConstants DEF Recorders!Length

LEMMA RecorderInit ==
  ASSUME Recorders!RecorderAssumption, Recorders!Init
  PROVE  RecorderInv
<1>1. /\ recSubject \in [Recordings -> Subjects] /\ selector \in {"candidate", "udf", "region"}
      /\ selected = (selector # "region")
      /\ progress = [r \in Recordings |-> Recorders!Start(r)]
      /\ instance = [r \in Recordings |-> FALSE] /\ recorderAt = [r \in Recordings |-> 1]
      /\ emitted = [r \in Recordings |-> TRUE]
      /\ sinks = {} /\ claimed = {} /\ recorded = {}
      /\ written = [p \in Recorders!Paths |-> Recorders!Nobody]
      /\ marked = FALSE /\ degraded = FALSE /\ perf = IF Recorders!Scalar THEN "due" ELSE "off"
      /\ fin = "open" /\ chosen = "COMPLETE" /\ recorderEnded = {} /\ failures = 0
  BY DEF Recorders!Init
<1>2. recKind \in [Recordings -> RecKinds]
  <2>1. "compile" \in RecKinds
    BY DEF Recorders!RecorderAssumption
  <2>2. recKind \in [Recordings -> RecKinds \ {"compile"}] \cup [Recordings -> {"compile"}]
    BY DEF Recorders!Init
  <2> QED
    BY <2>1, <2>2
<1>3. matching \subseteq Subjects
  BY DEF Recorders!Init
<1>4. \A r \in Recordings : progress[r] \in {"sink", "prepare"}
  BY <1>1 DEF Recorders!Start
<1>5. RecorderTypes
  <2>1. recorderAt \in [Recordings -> 1..(ChainLength + 1)] /\ failures \in 0..MaxFailures
    BY <1>1, RecorderConstants
  <2>2. instance \in [Recordings -> BOOLEAN] /\ emitted \in [Recordings -> BOOLEAN]
    BY <1>1
  <2>3. selected \in BOOLEAN /\ marked \in BOOLEAN /\ degraded \in BOOLEAN
    BY <1>1
  <2>4. perf \in {"off", "due", "recorded", "lost"}
    BY <1>1
  <2>5. progress \in [Recordings -> Early \cup {"writing", "mark", "over"}]
    BY <1>1, <1>4 DEF Early
  <2>6. written \in [Recorders!Paths -> Subjects \cup {Recorders!Nobody}]
    BY <1>1
  <2> QED
    BY <1>1, <1>2, <1>3, <2>1, <2>2, <2>3, <2>4, <2>5, <2>6 DEF RecorderTypes
<1>6. ChainsInOrder
  <2>1. SUFFICES ASSUME NEW r \in Recordings
                 PROVE  /\ recorderAt[r] = 1 /\ recorderAt[r] <= Recorders!Length(r) + 1
                        /\ progress[r] # "over" /\ emitted[r]
                        /\ \A i \in 1..(recorderAt[r] - 1) : FALSE
    BY DEF ChainsInOrder
  <2>2. recorderAt[r] = 1 /\ emitted[r] /\ progress[r] # "over"
    BY <1>1, <1>4
  <2> QED
    BY <2>2, LengthOfChain
<1>7. EndedWhole /\ RegionsHeld /\ RegionsWritten
  BY <1>1, <1>4 DEF EndedWhole, RegionsHeld, RegionsWritten, WritesTyped
<1> QED
  BY <1>5, <1>6, <1>7 DEF RecorderInv

(* What goes before the writing: a recording begins to write, or is over        *)
(* without a chain.                                                             *)
LEMMA EarlyStep ==
  ASSUME Recorders!RecorderAssumption, RecorderInv, NEW r \in Recordings,
         NEW q \in {"prepare", "build", "decide", "over", "writing"},
         progress[r] \in Early, progress' = [progress EXCEPT ![r] = q],
         UNCHANGED <<recKind, recSubject, selector, matching, recorderAt, emitted, written, recorded,
                     perf, fin, chosen, recorderEnded>>,
         \/ instance' = instance
         \/ \E v \in BOOLEAN : instance' = [instance EXCEPT ![r] = v],
         \/ claimed' = claimed /\ (recKind[r] # "typed" \/ q # "writing")
         \/ /\ recKind[r] = "typed" /\ q = "writing" /\ recSubject[r] \notin claimed
            /\ claimed' = claimed \cup {recSubject[r]},
         sinks' \subseteq Subjects, selected' \in BOOLEAN, marked' \in BOOLEAN,
         degraded' \in BOOLEAN, degraded => degraded', failures' \in 0..MaxFailures
  PROVE  RecorderInv'
<1>0. RecorderTypes /\ ChainsInOrder /\ EndedWhole /\ RegionsHeld /\ RegionsWritten
  BY DEF RecorderInv
<1>1. /\ progress' \in [Recordings -> Early \cup {"writing", "mark", "over"}]
      /\ progress'[r] = q /\ \A x \in Recordings : x # r => progress'[x] = progress[x]
  BY <1>0 DEF RecorderTypes, Early
<1>2. /\ instance' \in [Recordings -> BOOLEAN]
      /\ \A x \in Recordings : x # r => instance'[x] = instance[x]
  BY <1>0 DEF RecorderTypes
<1>3. claimed' \subseteq Subjects
  BY <1>0 DEF RecorderTypes
<1>4. RecorderTypes'
  BY <1>0, <1>1, <1>2, <1>3 DEF RecorderTypes
<1>5. ChainsInOrder'
  <2>1. SUFFICES ASSUME NEW x \in Recordings
                 PROVE  /\ progress'[x] \in Early => recorderAt[x] = 1
                        /\ recorderAt[x] <= Recorders!Length(x)' + 1
                        /\ progress'[x] = "over" /\ recorderAt[x] > 1 => recorderAt[x] > Recorders!Length(x)'
                        /\ emitted[x] => \A i \in 1..(recorderAt[x] - 1) : written[<<recKind[x], i>>] = recSubject[x]
                        /\ ~emitted[x] => degraded'
    BY DEF ChainsInOrder
  <2>2. CASE x = r
    <3>1. recorderAt[x] = 1
      BY <1>0, <2>2 DEF ChainsInOrder
    <3>2. Recorders!Length(x)' \in Nat
      BY RecorderConstants DEF Recorders!Length
    <3> QED
      BY <1>0, <3>1, <3>2 DEF ChainsInOrder
  <2>3. CASE x # r
    <3>1. Recorders!Length(x)' = Recorders!Length(x)
      BY <1>2, <2>3 DEF Recorders!Length
    <3> QED
      BY <1>0, <1>1, <2>3, <3>1 DEF ChainsInOrder
  <2> QED
    BY <2>2, <2>3
<1>6. EndedWhole'
  <2>1. r \notin recorderEnded
    BY <1>0 DEF EndedWhole, Early
  <2> QED
    BY <1>0, <1>1, <2>1 DEF EndedWhole, RecorderTypes
<1>7. RegionsHeld'
  <2>1. \A x \in Recordings : x # r => (WritesTyped(x)' <=> WritesTyped(x))
    BY <1>1 DEF WritesTyped
  <2>2. ~WritesTyped(r) /\ (WritesTyped(r)' <=> recKind[r] = "typed" /\ q = "writing")
    BY <1>1 DEF WritesTyped, Early
  <2>3. CASE claimed' = claimed /\ (recKind[r] # "typed" \/ q # "writing")
    <3>1. \A x \in Recordings : WritesTyped(x)' <=> WritesTyped(x)
      BY <2>1, <2>2, <2>3
    <3> QED
      BY <1>0, <2>3, <3>1 DEF RegionsHeld
  <2>4. CASE /\ recKind[r] = "typed" /\ q = "writing" /\ recSubject[r] \notin claimed
             /\ claimed' = claimed \cup {recSubject[r]}
    <3>1. \A x \in Recordings : WritesTyped(x)' <=> (WritesTyped(x) \/ x = r)
      BY <2>1, <2>2, <2>4
    <3> QED
      BY <1>0, <2>2, <2>4, <3>1 DEF RegionsHeld
  <2> QED
    BY <2>3, <2>4
<1>8. RegionsWritten'
  <2>1. SUFFICES ASSUME NEW s \in recorded
                 PROVE  \E x \in Recordings :
                          /\ recKind[x] = "typed" /\ recSubject[x] = s /\ progress'[x] = "over"
                          /\ \A i \in 1..(Recorders!Length(x)') : written[<<recKind[x], i>>] = s
    BY DEF RegionsWritten
  <2>2. PICK x \in Recordings :
          /\ recKind[x] = "typed" /\ recSubject[x] = s /\ progress[x] = "over"
          /\ \A i \in 1..Recorders!Length(x) : written[<<recKind[x], i>>] = s
    BY <1>0 DEF RegionsWritten
  <2>3. x # r
    BY <2>2 DEF Early
  <2>4. Recorders!Length(x)' = Recorders!Length(x) /\ progress'[x] = "over"
    BY <1>1, <1>2, <2>2, <2>3 DEF Recorders!Length
  <2> QED
    BY <2>2, <2>4
<1> QED
  BY <1>4, <1>5, <1>6, <1>7, <1>8 DEF RecorderInv

LEMMA FailureCounts ==
  ASSUME Recorders!RecorderAssumption, RecorderInv
  PROVE  /\ Recorders!Fails => failures' \in 0..MaxFailures
         /\ failures \in 0..MaxFailures
BY RecorderConstants DEF RecorderInv, RecorderTypes, Recorders!Fails

LEMMA RecorderSinks ==
  ASSUME Recorders!RecorderAssumption, RecorderInv, NEW r \in Recordings, Recorders!Sink(r)
  PROVE  RecorderInv'
<1>0. RecorderTypes
  BY DEF RecorderInv
<1>1. /\ progress[r] = "sink" /\ progress' = [progress EXCEPT ![r] = "prepare"]
      /\ UNCHANGED <<recKind, recSubject, selector, matching, recorderAt, emitted, written, recorded,
                     perf, fin, chosen, recorderEnded, instance, claimed, degraded>>
  BY DEF Recorders!Sink, Recorders!Goes, Recorders!Call, Recorders!Chain, Recorders!Final
<1>2. progress[r] \in Early /\ recSubject[r] \in Subjects
  BY <1>0, <1>1 DEF RecorderTypes, Early
<1>3. selected' \in BOOLEAN
  <2>1. selected' = selected \/ selected' = (recSubject[r] \in matching)
    BY DEF Recorders!Sink
  <2>2. selected \in BOOLEAN
    BY <1>0 DEF RecorderTypes
  <2>3. (recSubject[r] \in matching) \in BOOLEAN
    OBVIOUS
  <2> QED
    BY <2>1, <2>2, <2>3, Zenon
<1>4. sinks' \subseteq Subjects
  <2>1. sinks' = sinks \/ sinks' = sinks \cup {recSubject[r]}
    BY DEF Recorders!Sink
  <2> QED
    BY <1>0, <1>2, <2>1 DEF RecorderTypes
<1>5. marked' \in BOOLEAN
  <2>1. marked' = marked \/ marked' = TRUE
    BY DEF Recorders!Sink, Recorders!MarkPartial
  <2> QED
    BY <1>0, <2>1 DEF RecorderTypes
<1>6. failures' \in 0..MaxFailures
  <2>1. failures' = failures \/ Recorders!Fails
    BY DEF Recorders!Sink
  <2> QED
    BY <2>1, FailureCounts
<1>7. degraded' \in BOOLEAN /\ (degraded => degraded')
  BY <1>0, <1>1 DEF RecorderTypes
<1> QED
  BY <1>1, <1>2, <1>3, <1>4, <1>5, <1>6, <1>7, EarlyStep

LEMMA RecorderPrepares ==
  ASSUME Recorders!RecorderAssumption, RecorderInv, NEW r \in Recordings, Recorders!Prepare(r)
  PROVE  RecorderInv'
<1>0. RecorderTypes
  BY DEF RecorderInv
<1>1. /\ progress[r] = "prepare" /\ progress' = [progress EXCEPT ![r] = "build"]
      /\ UNCHANGED <<recKind, recSubject, selector, matching, recorderAt, emitted, written, recorded,
                     perf, fin, chosen, recorderEnded, claimed, degraded, sinks, selected>>
  BY DEF Recorders!Prepare, Recorders!Goes, Recorders!Call, Recorders!Final
<1>2. progress[r] \in Early
  BY <1>1 DEF Early
<1>3. /\ instance' = instance \/ instance' = [instance EXCEPT ![r] = selected]
      /\ marked' = marked \/ marked' = TRUE
      /\ failures' = failures \/ Recorders!Fails
  BY DEF Recorders!Prepare, Recorders!MarkPartial
<1>4. selected \in BOOLEAN /\ selected' \in BOOLEAN /\ sinks' \subseteq Subjects
  BY <1>0, <1>1 DEF RecorderTypes
<1>5. \/ instance' = instance
      \/ \E v \in BOOLEAN : instance' = [instance EXCEPT ![r] = v]
  BY <1>3, <1>4
<1>6. marked' \in BOOLEAN
  BY <1>0, <1>3 DEF RecorderTypes
<1>7. failures' \in 0..MaxFailures
  BY <1>3, FailureCounts
<1>8. degraded' \in BOOLEAN /\ (degraded => degraded')
  BY <1>0, <1>1 DEF RecorderTypes
<1> QED
  BY <1>1, <1>2, <1>4, <1>5, <1>6, <1>7, <1>8, EarlyStep

LEMMA RecorderBuilds ==
  ASSUME Recorders!RecorderAssumption, RecorderInv, NEW r \in Recordings, Recorders!Build(r)
  PROVE  RecorderInv'
<1>0. RecorderTypes
  BY DEF RecorderInv
<1>1. /\ progress[r] = "build"
      /\ UNCHANGED <<recKind, recSubject, selector, matching, recorderAt, emitted, written, recorded,
                     perf, fin, chosen, recorderEnded, claimed, sinks, selected, instance, marked>>
  BY DEF Recorders!Build, Recorders!Call, Recorders!Chain, Recorders!Final
<1>2. progress[r] \in Early
  BY <1>1 DEF Early
<1>3. /\ progress' = [progress EXCEPT ![r] = "over"] \/ progress' = [progress EXCEPT ![r] = "decide"]
      /\ degraded' = degraded \/ degraded' = (degraded \/ recKind[r] = "compile")
      /\ failures' = failures \/ Recorders!Fails
  BY DEF Recorders!Build, Recorders!Goes
<1>4. selected' \in BOOLEAN /\ sinks' \subseteq Subjects /\ marked' \in BOOLEAN
  BY <1>0, <1>1 DEF RecorderTypes
<1>5. failures' \in 0..MaxFailures
  BY <1>3, FailureCounts
<1>6. degraded' \in BOOLEAN /\ (degraded => degraded')
  <2>1. degraded \in BOOLEAN
    BY <1>0 DEF RecorderTypes
  <2>2. degraded' = degraded \/ degraded' = (degraded \/ recKind[r] = "compile")
    BY <1>3
  <2>3. CASE degraded' = degraded
    BY <2>1, <2>3, Zenon
  <2>4. CASE degraded' = (degraded \/ recKind[r] = "compile")
    BY <2>4, Zenon
  <2> QED
    BY <2>2, <2>3, <2>4
<1>7. CASE progress' = [progress EXCEPT ![r] = "over"]
  BY <1>1, <1>2, <1>4, <1>5, <1>6, <1>7, EarlyStep
<1>8. CASE progress' = [progress EXCEPT ![r] = "decide"]
  BY <1>1, <1>2, <1>4, <1>5, <1>6, <1>8, EarlyStep
<1> QED
  BY <1>3, <1>7, <1>8

LEMMA RecorderCollects ==
  ASSUME Recorders!RecorderAssumption, RecorderInv, NEW r \in Recordings, Recorders!Collect(r)
  PROVE  RecorderInv'
<1>0. RecorderTypes
  BY DEF RecorderInv
<1>1. /\ progress[r] = "decide" /\ recKind[r] # "typed"
      /\ UNCHANGED <<recKind, recSubject, selector, matching, recorderAt, emitted, written, recorded,
                     perf, fin, chosen, recorderEnded, claimed, sinks, selected, instance, degraded>>
  BY DEF Recorders!Collect, Recorders!Call, Recorders!Chain, Recorders!Final
<1>2. progress[r] \in Early
  BY <1>1 DEF Early
<1>3. /\ progress' = [progress EXCEPT ![r] = "over"] \/ progress' = [progress EXCEPT ![r] = "writing"]
      /\ marked' = marked \/ marked' = TRUE
      /\ failures' = failures \/ Recorders!Fails
  BY DEF Recorders!Collect, Recorders!Goes, Recorders!MarkPartial
<1>4. selected' \in BOOLEAN /\ sinks' \subseteq Subjects
  BY <1>0, <1>1 DEF RecorderTypes
<1>5. failures' \in 0..MaxFailures
  BY <1>3, FailureCounts
<1>6. degraded' \in BOOLEAN /\ (degraded => degraded')
  BY <1>0, <1>1 DEF RecorderTypes
<1>7. marked' \in BOOLEAN
  BY <1>0, <1>3 DEF RecorderTypes
<1>8. CASE progress' = [progress EXCEPT ![r] = "over"]
  BY <1>1, <1>2, <1>4, <1>5, <1>6, <1>7, <1>8, EarlyStep
<1>9. CASE progress' = [progress EXCEPT ![r] = "writing"]
  BY <1>1, <1>2, <1>4, <1>5, <1>6, <1>7, <1>9, EarlyStep
<1> QED
  BY <1>3, <1>8, <1>9

LEMMA RecorderDecides ==
  ASSUME Recorders!RecorderAssumption, RecorderInv, NEW r \in Recordings, Recorders!Decide(r)
  PROVE  RecorderInv'
<1>0. RecorderTypes
  BY DEF RecorderInv
<1>1. /\ progress[r] = "decide" /\ recKind[r] = "typed"
      /\ UNCHANGED <<recKind, recSubject, selector, matching, recorderAt, emitted, written, recorded,
                     perf, fin, chosen, recorderEnded, sinks, instance, degraded>>
  BY DEF Recorders!Decide, Recorders!Call, Recorders!Chain, Recorders!Final
<1>2. progress[r] \in Early
  BY <1>1 DEF Early
<1>3. /\ marked' = marked \/ marked' = TRUE
      /\ failures' = failures \/ Recorders!Fails
  BY DEF Recorders!Decide, Recorders!MarkPartial
<1>4. selected' \in BOOLEAN
  <2>1. selected' = selected \/ selected' = (recSubject[r] \in matching)
    BY DEF Recorders!Decide
  <2>2. selected \in BOOLEAN
    BY <1>0 DEF RecorderTypes
  <2>3. (recSubject[r] \in matching) \in BOOLEAN
    OBVIOUS
  <2> QED
    BY <2>1, <2>2, <2>3, Zenon
<1>5. failures' \in 0..MaxFailures
  BY <1>3, FailureCounts
<1>6. degraded' \in BOOLEAN /\ (degraded => degraded') /\ sinks' \subseteq Subjects
  BY <1>0, <1>1 DEF RecorderTypes
<1>7. marked' \in BOOLEAN
  BY <1>0, <1>3 DEF RecorderTypes
<1>8. CASE progress' = [progress EXCEPT ![r] = "over"] /\ claimed' = claimed
  BY <1>1, <1>2, <1>4, <1>5, <1>6, <1>7, <1>8, EarlyStep
<1>9. CASE /\ recSubject[r] \notin recorded \cup claimed /\ progress' = [progress EXCEPT ![r] = "writing"]
           /\ claimed' = claimed \cup {recSubject[r]}
  BY <1>1, <1>2, <1>4, <1>5, <1>6, <1>7, <1>9, EarlyStep
<1> QED
  BY <1>8, <1>9 DEF Recorders!Decide, Recorders!Goes

(* An artifact is written under a path of its own, or the chain is degraded.    *)
LEMMA RecorderWrites ==
  ASSUME Recorders!RecorderAssumption, RecorderInv, NEW r \in Recordings, Recorders!Write(r)
  PROVE  RecorderInv'
<1>0. RecorderTypes /\ ChainsInOrder /\ EndedWhole /\ RegionsHeld /\ RegionsWritten
  BY DEF RecorderInv
<1>1. PICK k, n, s : k = recKind[r] /\ n = recorderAt[r] /\ s = recSubject[r]
  OBVIOUS
<1>2. /\ progress[r] = "writing" /\ n <= Recorders!Length(r)
      /\ recorderAt' = [recorderAt EXCEPT ![r] = n + 1]
      /\ UNCHANGED <<recKind, recSubject, selector, matching, selected, instance, sinks, claimed,
                     recorded, marked, perf, fin, chosen, recorderEnded>>
  BY <1>1 DEF Recorders!Write, Recorders!Call, Recorders!Final
<1>3. \/ /\ written[<<k, n>>] = Recorders!Nobody
         /\ written' = [written EXCEPT ![<<k, n>>] = s]
         /\ UNCHANGED <<progress, emitted, degraded, failures>>
      \/ /\ failures' = failures \/ Recorders!Fails
         /\ degraded' = TRUE /\ emitted' = [emitted EXCEPT ![r] = FALSE]
         /\ progress' = [progress EXCEPT ![r] = "mark"] /\ written' = written
  BY <1>1 DEF Recorders!Write, Recorders!Goes
<1>4. k \in RecKinds /\ s \in Subjects /\ n \in 1..(ChainLength + 1)
  BY <1>0, <1>1 DEF RecorderTypes
<1>5. n \in 1..ChainLength /\ <<k, n>> \in Recorders!Paths
  <2>1. n \in 1..ChainLength
    BY <1>2, <1>4, LengthOfChain, RecorderConstants
  <2> QED
    BY <1>4, <2>1, RecorderConstants
<1>6. /\ recorderAt' \in [Recordings -> 1..(ChainLength + 1)] /\ recorderAt'[r] = n + 1
      /\ \A x \in Recordings : x # r => recorderAt'[x] = recorderAt[x]
  <2>1. n + 1 \in 1..(ChainLength + 1)
    BY <1>5, RecorderConstants
  <2> QED
    BY <1>0, <1>2, <2>1 DEF RecorderTypes
<1>7. \A x : Recorders!Length(x)' = Recorders!Length(x)
  BY <1>2 DEF Recorders!Length
<1>8. /\ written' \in [Recorders!Paths -> Subjects \cup {Recorders!Nobody}]
      /\ \A p \in Recorders!Paths : written[p] # Recorders!Nobody => written'[p] = written[p]
  BY <1>0, <1>3, <1>4, <1>5 DEF RecorderTypes
<1>9. /\ progress' \in [Recordings -> Early \cup {"writing", "mark", "over"}]
      /\ progress'[r] \in {"writing", "mark"} /\ \A x \in Recordings : x # r => progress'[x] = progress[x]
  BY <1>0, <1>2, <1>3 DEF RecorderTypes
<1>10. /\ emitted' \in [Recordings -> BOOLEAN] /\ \A x \in Recordings : x # r => emitted'[x] = emitted[x]
       /\ degraded' \in BOOLEAN /\ (degraded => degraded')
  <2>1. CASE UNCHANGED <<emitted, degraded>>
    BY <1>0, <2>1 DEF RecorderTypes
  <2>2. CASE degraded' = TRUE /\ emitted' = [emitted EXCEPT ![r] = FALSE]
    BY <1>0, <2>2 DEF RecorderTypes
  <2> QED
    BY <1>3, <2>1, <2>2
<1>11. RecorderTypes'
  <2>1. failures' \in 0..MaxFailures
    BY <1>3, FailureCounts
  <2> QED
    BY <1>0, <1>2, <1>6, <1>8, <1>9, <1>10, <2>1 DEF RecorderTypes
<1>12. ASSUME NEW x \in Recordings, NEW i \in 1..ChainLength, NEW y \in Subjects,
              written[<<recKind[x], i>>] = y
       PROVE  written'[<<recKind[x], i>>] = y
  BY <1>0, <1>8, <1>12, RecorderConstants DEF RecorderTypes
<1>13. ChainsInOrder'
  <2>1. SUFFICES ASSUME NEW x \in Recordings
                 PROVE  /\ progress'[x] \in Early => recorderAt'[x] = 1
                        /\ recorderAt'[x] <= Recorders!Length(x) + 1
                        /\ progress'[x] = "over" /\ recorderAt'[x] > 1 => recorderAt'[x] > Recorders!Length(x)
                        /\ emitted'[x] => \A i \in 1..(recorderAt'[x] - 1) :
                                            written'[<<recKind[x], i>>] = recSubject[x]
                        /\ ~emitted'[x] => degraded'
    BY <1>2, <1>7 DEF ChainsInOrder
  <2>2. CASE x # r
    <3>1. recorderAt[x] \in 1..(ChainLength + 1) /\ recSubject[x] \in Subjects
      BY <1>0 DEF RecorderTypes
    <3>2. ASSUME emitted[x], NEW i \in 1..(recorderAt[x] - 1)
          PROVE  written'[<<recKind[x], i>>] = recSubject[x]
      <4>1. i \in 1..ChainLength
        BY <3>1, RecorderConstants
      <4>2. written[<<recKind[x], i>>] = recSubject[x]
        BY <1>0, <3>2 DEF ChainsInOrder
      <4> QED
        BY <1>12, <3>1, <4>1, <4>2
    <3> QED
      BY <1>0, <1>6, <1>9, <1>10, <2>2, <3>2 DEF ChainsInOrder
  <2>3. CASE x = r
    <3>1. progress'[x] \notin Early /\ progress'[x] # "over" /\ recorderAt'[x] = n + 1
      BY <1>6, <1>9, <2>3 DEF Early
    <3>2. n + 1 <= Recorders!Length(x) + 1
      BY <1>2, <1>4, <2>3, LengthOfChain
    <3>3. ASSUME emitted'[x]
          PROVE  emitted[x] /\ written'[<<k, n>>] = s
      BY <1>0, <1>3, <1>5, <2>3, <3>3 DEF RecorderTypes
    <3>4. ASSUME emitted'[x], NEW i \in 1..n
          PROVE  written'[<<recKind[x], i>>] = recSubject[x]
      <4>1. CASE i = n
        BY <1>1, <2>3, <3>3, <3>4, <4>1
      <4>2. CASE i # n
        <5>1. i \in 1..(n - 1) /\ i \in 1..ChainLength
          BY <1>5, <4>2, RecorderConstants
        <5>2. written[<<recKind[x], i>>] = recSubject[x]
          BY <1>0, <1>1, <2>3, <3>3, <3>4, <5>1 DEF ChainsInOrder
        <5> QED
          BY <1>1, <1>4, <1>12, <2>3, <5>1, <5>2
      <4> QED
        BY <4>1, <4>2
    <3>5. ~emitted'[x] => degraded'
      BY <1>0, <1>3, <2>3 DEF ChainsInOrder
    <3>6. (n + 1) - 1 = n
      BY <1>4
    <3> QED
      BY <3>1, <3>2, <3>4, <3>5, <3>6
  <2> QED
    BY <2>2, <2>3
<1>14. EndedWhole'
  <2>1. r \notin recorderEnded
    BY <1>0, <1>2 DEF EndedWhole
  <2>2. \A x \in recorderEnded : progress'[x] = progress[x] /\ recorderAt'[x] = recorderAt[x] /\ emitted'[x] = emitted[x]
    BY <1>0, <1>6, <1>9, <1>10, <2>1 DEF RecorderTypes
  <2> QED
    BY <1>0, <1>2, <2>2 DEF EndedWhole
<1>15. RegionsHeld'
  <2>1. \A x \in Recordings : WritesTyped(x)' <=> WritesTyped(x)
    BY <1>2, <1>9 DEF WritesTyped
  <2> QED
    BY <1>0, <1>2, <2>1 DEF RegionsHeld
<1>16. RegionsWritten'
  <2>1. SUFFICES ASSUME NEW y \in recorded
                 PROVE  \E x \in Recordings :
                          /\ recKind[x] = "typed" /\ recSubject[x] = y /\ progress'[x] = "over"
                          /\ \A i \in 1..Recorders!Length(x) : written'[<<recKind[x], i>>] = y
    BY <1>2, <1>7 DEF RegionsWritten
  <2>2. PICK x \in Recordings :
          /\ recKind[x] = "typed" /\ recSubject[x] = y /\ progress[x] = "over"
          /\ \A i \in 1..Recorders!Length(x) : written[<<recKind[x], i>>] = y
    BY <1>0 DEF RegionsWritten
  <2>3. progress'[x] = "over" /\ y \in Subjects
    BY <1>0, <1>2, <1>9, <2>2 DEF RecorderTypes
  <2>4. \A i \in 1..Recorders!Length(x) : i \in 1..ChainLength
    BY LengthOfChain, RecorderConstants
  <2>5. \A i \in 1..Recorders!Length(x) : written'[<<recKind[x], i>>] = y
    BY <1>12, <2>2, <2>3, <2>4
  <2> QED
    BY <2>2, <2>3, <2>5
<1> QED
  BY <1>11, <1>13, <1>14, <1>15, <1>16 DEF RecorderInv

LEMMA RecorderMarks ==
  ASSUME Recorders!RecorderAssumption, RecorderInv, NEW r \in Recordings, Recorders!Mark(r)
  PROVE  RecorderInv'
<1>0. RecorderTypes /\ ChainsInOrder /\ EndedWhole /\ RegionsHeld /\ RegionsWritten
  BY DEF RecorderInv
<1>1. /\ progress[r] = "mark" /\ progress' = [progress EXCEPT ![r] = "writing"] /\ marked' = TRUE
      /\ UNCHANGED <<recKind, recSubject, selector, matching, selected, instance, recorderAt, emitted, written,
                     sinks, claimed, recorded, degraded, failures, perf, fin, chosen, recorderEnded>>
  BY DEF Recorders!Mark, Recorders!MarkPartial, Recorders!Goes, Recorders!Call, Recorders!Chain,
         Recorders!Final
<1>2. /\ progress' \in [Recordings -> Early \cup {"writing", "mark", "over"}]
      /\ progress'[r] = "writing" /\ \A x \in Recordings : x # r => progress'[x] = progress[x]
  BY <1>0, <1>1 DEF RecorderTypes
<1>3. \A x : Recorders!Length(x)' = Recorders!Length(x)
  BY <1>1 DEF Recorders!Length
<1>4. RecorderTypes'
  <2>1. marked' \in BOOLEAN
    BY <1>1
  <2> QED
    BY <1>0, <1>1, <1>2, <2>1 DEF RecorderTypes
<1>5. \A x \in Recordings : /\ (progress'[x] \in Early <=> progress[x] \in Early)
                           /\ (progress'[x] = "over" <=> progress[x] = "over")
                           /\ (WritesTyped(x)' <=> WritesTyped(x))
  BY <1>1, <1>2 DEF WritesTyped, Early
<1>6. ChainsInOrder' /\ EndedWhole'
  BY <1>0, <1>1, <1>3, <1>5 DEF ChainsInOrder, EndedWhole, RecorderTypes
<1>7. RegionsHeld' /\ RegionsWritten'
  BY <1>0, <1>1, <1>3, <1>5 DEF RegionsHeld, RegionsWritten
<1> QED
  BY <1>4, <1>6, <1>7 DEF RecorderInv

(* A chain ends; a typed region is given back, and recorded if all was written. *)
LEMMA RecorderConcludes ==
  ASSUME Recorders!RecorderAssumption, RecorderInv, NEW r \in Recordings, Recorders!Conclude(r)
  PROVE  RecorderInv'
<1>0. RecorderTypes /\ ChainsInOrder /\ EndedWhole /\ RegionsHeld /\ RegionsWritten
  BY DEF RecorderInv
<1>1. /\ progress[r] = "writing" /\ recorderAt[r] > Recorders!Length(r)
      /\ progress' = [progress EXCEPT ![r] = "over"]
      /\ UNCHANGED <<recKind, recSubject, selector, matching, selected, instance, recorderAt, emitted, written,
                     sinks, marked, degraded, failures, perf, fin, chosen, recorderEnded>>
  BY DEF Recorders!Conclude, Recorders!Goes, Recorders!Call, Recorders!Chain, Recorders!Final
<1>2. /\ recKind[r] = "typed" => /\ recorded' = IF emitted[r] THEN recorded \cup {recSubject[r]} ELSE recorded
                                 /\ claimed' = claimed \ {recSubject[r]}
      /\ recKind[r] # "typed" => recorded' = recorded /\ claimed' = claimed
  BY DEF Recorders!Conclude
<1>3. /\ progress' \in [Recordings -> Early \cup {"writing", "mark", "over"}]
      /\ progress'[r] = "over" /\ \A x \in Recordings : x # r => progress'[x] = progress[x]
  BY <1>0, <1>1 DEF RecorderTypes
<1>4. \A x : Recorders!Length(x)' = Recorders!Length(x)
  BY <1>1 DEF Recorders!Length
<1>5. recSubject[r] \in Subjects
  BY <1>0 DEF RecorderTypes
<1>6. RecorderTypes'
  <2>1. claimed' \subseteq Subjects /\ recorded' \subseteq Subjects
    BY <1>0, <1>2, <1>5 DEF RecorderTypes
  <2> QED
    BY <1>0, <1>1, <1>3, <2>1 DEF RecorderTypes
<1>7. ChainsInOrder'
  BY <1>0, <1>1, <1>3, <1>4 DEF ChainsInOrder, Early
<1>8. EndedWhole'
  BY <1>0, <1>1, <1>3 DEF EndedWhole, RecorderTypes
<1>9. /\ \A x \in Recordings : x # r => (WritesTyped(x)' <=> WritesTyped(x))
      /\ ~(WritesTyped(r)') /\ (WritesTyped(r) <=> recKind[r] = "typed")
  BY <1>1, <1>3 DEF WritesTyped
<1>10. RegionsHeld'
  <2>1. CASE recKind[r] # "typed"
    <3>1. \A x \in Recordings : WritesTyped(x)' <=> WritesTyped(x)
      BY <1>9, <2>1
    <3> QED
      BY <1>0, <1>1, <1>2, <2>1, <3>1 DEF RegionsHeld
  <2>2. CASE recKind[r] = "typed"
    <3>1. WritesTyped(r) /\ claimed' = claimed \ {recSubject[r]}
      BY <1>2, <1>9, <2>2
    <3>2. ASSUME NEW s \in claimed'
          PROVE  \E x \in Recordings : recSubject[x] = s /\ WritesTyped(x)'
      <4>1. PICK x \in Recordings : recSubject[x] = s /\ WritesTyped(x)
        BY <1>0, <3>1 DEF RegionsHeld
      <4>2. x # r
        BY <3>1, <4>1
      <4> QED
        BY <1>9, <4>1, <4>2
    <3>3. ASSUME NEW x \in Recordings, WritesTyped(x)'
          PROVE  recSubject[x] \in claimed'
      <4>1. x # r /\ WritesTyped(x)
        BY <1>9, <3>3
      <4> QED
        BY <1>0, <3>1, <4>1 DEF RegionsHeld
    <3>4. ASSUME NEW x \in Recordings, NEW y \in Recordings, WritesTyped(x)', WritesTyped(y)',
                 recSubject[x] = recSubject[y]
          PROVE  x = y
      <4>1. WritesTyped(x) /\ WritesTyped(y)
        BY <1>9, <3>4
      <4> QED
        BY <1>0, <3>4, <4>1 DEF RegionsHeld
    <3> QED
      BY <1>1, <3>2, <3>3, <3>4 DEF RegionsHeld
  <2> QED
    BY <2>1, <2>2
<1>11. RegionsWritten'
  <2>1. SUFFICES ASSUME NEW s \in recorded'
                 PROVE  \E x \in Recordings :
                          /\ recKind[x] = "typed" /\ recSubject[x] = s /\ progress'[x] = "over"
                          /\ \A i \in 1..Recorders!Length(x) : written[<<recKind[x], i>>] = s
    BY <1>1, <1>4 DEF RegionsWritten
  <2>2. CASE s \in recorded
    <3>1. PICK x \in Recordings :
            /\ recKind[x] = "typed" /\ recSubject[x] = s /\ progress[x] = "over"
            /\ \A i \in 1..Recorders!Length(x) : written[<<recKind[x], i>>] = s
      BY <1>0, <2>2 DEF RegionsWritten
    <3> QED
      BY <1>3, <3>1
  <2>3. CASE s \notin recorded
    <3>1. recKind[r] = "typed" /\ emitted[r] /\ recSubject[r] = s
      BY <1>2, <2>1, <2>3
    <3>2. \A i \in 1..Recorders!Length(r) : i \in 1..(recorderAt[r] - 1)
      <4>1. recorderAt[r] \in Nat /\ Recorders!Length(r) \in Nat
        BY <1>0, LengthOfChain, RecorderConstants DEF RecorderTypes
      <4> QED
        BY <1>1, <4>1
    <3>3. \A i \in 1..Recorders!Length(r) : written[<<recKind[r], i>>] = s
      BY <1>0, <3>1, <3>2 DEF ChainsInOrder
    <3> QED
      BY <1>3, <3>1, <3>3
  <2> QED
    BY <2>2, <2>3
<1> QED
  BY <1>6, <1>7, <1>8, <1>10, <1>11 DEF RecorderInv

(* The session's own steps leave the chains alone.                             *)
LEMMA SessionStep ==
  ASSUME Recorders!RecorderAssumption, RecorderInv,
         UNCHANGED <<recKind, recSubject, selector, matching, selected, progress, instance, recorderAt,
                     emitted, written, sinks, claimed, recorded>>,
         marked' \in BOOLEAN, degraded' \in BOOLEAN, degraded => degraded', failures' \in 0..MaxFailures,
         perf' \in {"off", "due", "recorded", "lost"}, fin' \in {"open", "choosing", "published"},
         chosen' \in {"COMPLETE", "PARTIAL"},
         recorderEnded' \subseteq Recordings,
         \A r \in recorderEnded' : progress[r] = "over" /\ recorderAt[r] > 1,
         fin' = "published" /\ chosen' = "COMPLETE" => \A r \in recorderEnded' : emitted[r]
  PROVE  RecorderInv'
<1>0. RecorderTypes /\ ChainsInOrder /\ EndedWhole /\ RegionsHeld /\ RegionsWritten
  BY DEF RecorderInv
<1>1. RecorderTypes'
  BY <1>0 DEF RecorderTypes
<1>2. \A x : Recorders!Length(x)' = Recorders!Length(x)
  BY DEF Recorders!Length
<1>3. ChainsInOrder'
  BY <1>0, <1>2 DEF ChainsInOrder
<1>4. EndedWhole'
  BY DEF EndedWhole
<1>5. RegionsHeld' /\ RegionsWritten'
  BY <1>0, <1>2 DEF RegionsHeld, RegionsWritten, WritesTyped
<1> QED
  BY <1>1, <1>3, <1>4, <1>5 DEF RecorderInv

LEMMA RecorderSession ==
  ASSUME Recorders!RecorderAssumption, RecorderInv,
         Recorders!Perf \/ Recorders!Finalize \/ Recorders!Publish
  PROVE  RecorderInv'
<1>0. RecorderTypes /\ ChainsInOrder /\ EndedWhole
  BY DEF RecorderInv
<1>1. /\ marked \in BOOLEAN /\ degraded \in BOOLEAN /\ failures \in 0..MaxFailures
      /\ perf \in {"off", "due", "recorded", "lost"} /\ fin \in {"open", "choosing", "published"}
      /\ chosen \in {"COMPLETE", "PARTIAL"} /\ recorderEnded \subseteq Recordings
      /\ \A r \in recorderEnded : progress[r] = "over" /\ recorderAt[r] > 1
  BY <1>0 DEF RecorderTypes, EndedWhole
<1>2. CASE Recorders!Perf
  <2>1. /\ fin = "open" /\ perf' \in {"due", "recorded", "lost"}
        /\ UNCHANGED <<recKind, recSubject, selector, matching, selected, progress, instance, recorderAt,
                       emitted, written, sinks, claimed, recorded, fin, chosen, recorderEnded>>
    BY <1>2 DEF Recorders!Perf, Recorders!Call, Recorders!Chain
  <2>2. /\ marked' = marked \/ marked' = TRUE
        /\ degraded' = degraded \/ degraded' = (degraded \/ perf' = "lost")
        /\ failures' = failures \/ Recorders!Fails
    BY <1>2 DEF Recorders!Perf, Recorders!MarkPartial
  <2>3. marked' \in BOOLEAN
    BY <1>1, <2>2
  <2>4. degraded' \in BOOLEAN /\ (degraded => degraded')
    <3>1. CASE degraded' = degraded
      BY <1>1, <3>1, Zenon
    <3>2. CASE degraded' = (degraded \/ perf' = "lost")
      BY <3>2, Zenon
    <3> QED
      BY <2>2, <3>1, <3>2
  <2>5. failures' \in 0..MaxFailures
    BY <2>2, FailureCounts
  <2> QED
    BY <1>1, <2>1, <2>3, <2>4, <2>5, SessionStep
<1>3. CASE Recorders!Finalize
  <2>1. /\ fin' = "choosing" /\ chosen' \in {"COMPLETE", "PARTIAL"}
        /\ recorderEnded' = {r \in Recordings : progress[r] = "over" /\ recorderAt[r] > 1}
        /\ UNCHANGED <<recKind, recSubject, selector, matching, selected, progress, instance, recorderAt,
                       emitted, written, sinks, claimed, recorded, marked, degraded, perf, failures>>
    BY <1>3 DEF Recorders!Finalize, Recorders!Call, Recorders!Chain
  <2>2. /\ recorderEnded' \subseteq Recordings
        /\ \A r \in recorderEnded' : progress[r] = "over" /\ recorderAt[r] > 1
    BY <2>1
  <2>3. /\ marked' \in BOOLEAN /\ degraded' \in BOOLEAN /\ (degraded => degraded')
        /\ failures' \in 0..MaxFailures /\ perf' \in {"off", "due", "recorded", "lost"}
    BY <1>1, <2>1
  <2> QED
    BY <2>1, <2>2, <2>3, SessionStep
<1>4. CASE Recorders!Publish
  <2>1. /\ UNCHANGED <<recKind, recSubject, selector, matching, selected, progress, instance, recorderAt,
                       emitted, written, sinks, claimed, recorded, perf, recorderEnded>>
        /\ \/ /\ fin' = "published" /\ UNCHANGED <<marked, degraded, failures>>
              /\ chosen' = IF degraded THEN "PARTIAL" ELSE chosen
           \/ /\ fin' = "open" /\ Recorders!Fails /\ degraded' = TRUE /\ marked' = TRUE
              /\ chosen' = chosen
    BY <1>4 DEF Recorders!Publish, Recorders!Call, Recorders!Chain
  <2>2. /\ marked' \in BOOLEAN /\ degraded' \in BOOLEAN /\ (degraded => degraded')
        /\ chosen' \in {"COMPLETE", "PARTIAL"} /\ fin' \in {"open", "choosing", "published"}
    <3>1. CASE fin' = "published" /\ UNCHANGED <<marked, degraded>> /\ chosen' = IF degraded THEN "PARTIAL" ELSE chosen
      BY <1>1, <3>1
    <3>2. CASE fin' = "open" /\ degraded' = TRUE /\ marked' = TRUE /\ chosen' = chosen
      BY <1>1, <3>2
    <3> QED
      BY <2>1, <3>1, <3>2
  <2>3. failures' \in 0..MaxFailures
    BY <2>1, FailureCounts
  <2>4. fin' = "published" /\ chosen' = "COMPLETE" => \A r \in recorderEnded' : emitted[r]
    <3>1. SUFFICES ASSUME fin' = "published", chosen' = "COMPLETE" PROVE ~degraded
      BY <1>0, <1>1, <2>1 DEF ChainsInOrder
    <3> QED
      BY <2>1, <3>1
  <2>5. /\ perf' \in {"off", "due", "recorded", "lost"} /\ recorderEnded' \subseteq Recordings
        /\ \A r \in recorderEnded' : progress[r] = "over" /\ recorderAt[r] > 1
    BY <1>1, <2>1
  <2> QED
    BY <2>1, <2>2, <2>3, <2>4, <2>5, SessionStep
<1> QED
  BY <1>2, <1>3, <1>4

LEMMA RecorderNext ==
  ASSUME Recorders!RecorderAssumption, RecorderInv, Recorders!Next \/ UNCHANGED recordersVars
  PROVE  RecorderInv'
<1>0. RecorderTypes /\ ChainsInOrder /\ EndedWhole /\ RegionsHeld /\ RegionsWritten
  BY DEF RecorderInv
<1>1. CASE UNCHANGED recordersVars
  <2>1. UNCHANGED <<recKind, recSubject, selector, matching, selected, progress, instance, recorderAt,
                    emitted, written, sinks, claimed, recorded, marked, degraded, perf, fin, chosen,
                    recorderEnded, failures>>
    BY <1>1 DEF recordersVars
  <2>2. /\ marked' \in BOOLEAN /\ degraded' \in BOOLEAN /\ (degraded => degraded')
        /\ failures' \in 0..MaxFailures /\ perf' \in {"off", "due", "recorded", "lost"}
        /\ fin' \in {"open", "choosing", "published"} /\ chosen' \in {"COMPLETE", "PARTIAL"}
        /\ recorderEnded' \subseteq Recordings
    BY <1>0, <2>1 DEF RecorderTypes
  <2>3. /\ \A r \in recorderEnded' : progress[r] = "over" /\ recorderAt[r] > 1
        /\ fin' = "published" /\ chosen' = "COMPLETE" => \A r \in recorderEnded' : emitted[r]
    BY <1>0, <2>1 DEF EndedWhole
  <2> QED
    BY <2>1, <2>2, <2>3, SessionStep
<1>2. CASE Recorders!Next
  BY <1>2, RecorderSinks, RecorderPrepares, RecorderBuilds, RecorderCollects, RecorderDecides,
     RecorderWrites, RecorderMarks, RecorderConcludes, RecorderSession DEF Recorders!Next
<1> QED
  BY <1>1, <1>2

LEMMA RecorderCount == \A S : Recorders!Cardinality(S) = Cardinality(S)
BY DEF Recorders!Cardinality, Cardinality

LEMMA RecorderFacts ==
  ASSUME Recorders!RecorderAssumption, RecorderInv
  PROVE  Recorders!TypeOK /\ Recorders!CompleteChainsAreWhole /\ Recorders!RegionsClaimedOnce
<1>0. RecorderTypes /\ ChainsInOrder /\ EndedWhole /\ RegionsHeld /\ RegionsWritten
  BY DEF RecorderInv
<1>1. Recorders!TypeOK
  <2>1. {selected, marked, degraded} \subseteq BOOLEAN
    BY <1>0 DEF RecorderTypes
  <2>2. progress \in [Recordings -> Recorders!Writing \cup {"sink", "prepare", "build", "decide", "over"}]
    BY <1>0 DEF RecorderTypes, Early, Recorders!Writing
  <2> QED
    BY <1>0, <2>1, <2>2 DEF RecorderTypes, Recorders!TypeOK
<1>2. ASSUME NEW r \in Recordings, emitted[r], recorderAt[r] > Recorders!Length(r),
             NEW p \in Recorders!PathsOf(r)
      PROVE  written[p] = recSubject[r]
  <2>1. PICK i \in 1..Recorders!Length(r) : p = <<recKind[r], i>>
    BY DEF Recorders!PathsOf
  <2>2. recorderAt[r] \in Nat /\ Recorders!Length(r) \in Nat
    BY <1>0, LengthOfChain, RecorderConstants DEF RecorderTypes
  <2>3. i \in 1..(recorderAt[r] - 1)
    BY <1>2, <2>2
  <2> QED
    BY <1>0, <1>2, <2>1, <2>3 DEF ChainsInOrder
<1>3. Recorders!CompleteChainsAreWhole
  <2>1. SUFFICES ASSUME fin = "published", chosen = "COMPLETE", NEW r \in recorderEnded,
                        NEW p \in Recorders!PathsOf(r)
                 PROVE  written[p] = recSubject[r]
    BY DEF Recorders!CompleteChainsAreWhole
  <2>2. r \in Recordings /\ emitted[r] /\ progress[r] = "over" /\ recorderAt[r] > 1
    BY <1>0, <2>1 DEF EndedWhole, RecorderTypes
  <2>3. recorderAt[r] > Recorders!Length(r)
    BY <1>0, <2>2 DEF ChainsInOrder
  <2> QED
    BY <1>2, <2>2, <2>3
<1>4. Recorders!RegionsClaimedOnce
  <2>1. SUFFICES ASSUME NEW s \in Subjects
                 PROVE  /\ Recorders!Cardinality(Recorders!TypedIn(s, Recorders!Writing))
                              = IF s \in claimed THEN 1 ELSE 0
                        /\ s \in recorded => \E r \in Recorders!TypedIn(s, {"over"}) :
                             \A p \in Recorders!PathsOf(r) : written[p] = s
    BY DEF Recorders!RegionsClaimedOnce
  <2>2. PICK W : W = Recorders!TypedIn(s, Recorders!Writing)
    OBVIOUS
  <2>3. \A x : x \in W <=> x \in Recordings /\ WritesTyped(x) /\ recSubject[x] = s
    BY <2>2 DEF Recorders!TypedIn, Recorders!Writing, WritesTyped
  <2>4. Cardinality(W) = IF s \in claimed THEN 1 ELSE 0
    <3>1. CASE s \in claimed
      <4>1. PICK x \in Recordings : recSubject[x] = s /\ WritesTyped(x)
        BY <1>0, <3>1 DEF RegionsHeld
      <4>2. W = {x}
        BY <1>0, <2>3, <4>1 DEF RegionsHeld
      <4>3. Cardinality({x}) = 1
        BY FS_Singleton
      <4> QED
        BY <3>1, <4>2, <4>3
    <3>2. CASE s \notin claimed
      <4>1. W = {}
        BY <1>0, <2>3, <3>2 DEF RegionsHeld
      <4>2. Cardinality({}) = 0
        BY FS_EmptySet
      <4> QED
        BY <3>2, <4>1, <4>2
    <3> QED
      BY <3>1, <3>2
  <2>5. Recorders!Cardinality(W) = IF s \in claimed THEN 1 ELSE 0
    BY <2>4, RecorderCount
  <2>6. ASSUME s \in recorded
        PROVE  \E r \in Recorders!TypedIn(s, {"over"}) : \A p \in Recorders!PathsOf(r) : written[p] = s
    <3>1. PICK r \in Recordings :
            /\ recKind[r] = "typed" /\ recSubject[r] = s /\ progress[r] = "over"
            /\ \A i \in 1..Recorders!Length(r) : written[<<recKind[r], i>>] = s
      BY <1>0, <2>6 DEF RegionsWritten
    <3>2. r \in Recorders!TypedIn(s, {"over"})
      BY <3>1 DEF Recorders!TypedIn
    <3>3. \A p \in Recorders!PathsOf(r) : written[p] = s
      BY <3>1 DEF Recorders!PathsOf
    <3> QED
      BY <3>2, <3>3
  <2> QED
    BY <2>2, <2>5, <2>6
<1> QED
  BY <1>1, <1>3, <1>4

-----------------------------------------------------------------------------
(* The evidence of an acceptance run: what it may hold.                        *)
EvidenceRuns == {"this_run", "earlier_run"}
EvidenceCommits == {"this_commit", "earlier_commit"}
TestCounts == {ExpectedTests, ExpectedTests - 1}
LogsHeld == [ok : BOOLEAN, count : TestCounts, skipped : {0, 1}, named : BOOLEAN]
HashesHeld ==
  [run : EvidenceRuns, commit : EvidenceCommits, named : BOOLEAN, count : TestCounts,
   skipped : {0, 1}]
ReceiptsHeld ==
  [none : {FALSE}, run : EvidenceRuns, commit : EvidenceCommits, named : BOOLEAN,
   count : TestCounts, skipped : {0, 1}, proof : HashesHeld]
ObservationsHeld ==
  [none : {FALSE}, completed : BOOLEAN, result : {"r", "other"}, rows : Nat,
   calls : Nat, effects : Nat, raised : BOOLEAN]
EvidenceHeld ==
  [logs : [Accepted!Suites -> LogsHeld],
   receipts : [Accepted!Suites -> ReceiptsHeld \cup {Accepted!None}],
   off : [Accepted!Scenarios -> ObservationsHeld \cup {Accepted!None}],
   auto : [Accepted!Scenarios -> ObservationsHeld \cup {Accepted!None}],
   base : [Accepted!Checks -> Accepted!Statuses \cup {"unknown"}], base_verdict : Accepted!Statuses,
   from : [base : EvidenceRuns, scenarios : EvidenceRuns],
   source : [commit : {"this_commit", "other_commit"}, dirty : BOOLEAN, manifest : BOOLEAN,
             image : {"this_image", "other_image"}],
   covered : BOOLEAN, completed : BOOLEAN,
   section : [present : SUBSET Accepted!Paths, status : {"complete", "incomplete"}]]

(* A receipt whose hash was taken in the run, and not of the commit that     *)
(* nothing is built from, has the hash of the suite's log.                   *)
HashOfLog(s, log, r, run, commit, other) ==
  r # Accepted!None /\ r.proof.run = run /\ r.proof.commit # other =>
    /\ Accepted!LogProves(s, log)
    /\ r.proof = [run |-> run, commit |-> commit, named |-> log.named,
                  count |-> log.count, skipped |-> log.skipped]
HashIsOfLog(s, log, r) == HashOfLog(s, log, r, "this_run", "this_commit", "earlier_commit")

(* No edit changes a hash, so that at most one receipt of a suite can tell of  *)
(* this run and commit; and a verdict tells of the evidence as it stands.      *)
EvidenceInv ==
  /\ profile \in [separate : BOOLEAN, release : BOOLEAN]
  /\ evidence \in EvidenceHeld
  /\ \A s \in Accepted!Suites : HashIsOfLog(s, evidence.logs[s], evidence.receipts[s])
  /\ defects \in 0..Defects
  /\ acceptedVerdict = Accepted!None \/ acceptedVerdict = Accepted!Aggregated(evidence)

LEMMA SomethingHeld ==
  /\ \A r \in ReceiptsHeld : r # Accepted!None /\ r.none = FALSE
  /\ \A r \in ObservationsHeld : r # Accepted!None /\ r.none = FALSE
  /\ Accepted!None.none = TRUE
<1>1. \A r \in ReceiptsHeld : r.none = FALSE
  BY DEF ReceiptsHeld
<1>2. \A r \in ObservationsHeld : r.none = FALSE
  BY DEF ObservationsHeld
<1>3. Accepted!None.none = TRUE
  BY DEF Accepted!None
<1> QED
  BY <1>1, <1>2, <1>3

LEMMA ReceiptHeld ==
  ASSUME NEW s \in Accepted!Suites, NEW log \in LogsHeld, NEW run \in EvidenceRuns, NEW commit \in EvidenceCommits
  PROVE  /\ Accepted!Receipt(s, log, run, commit) \in ReceiptsHeld \cup {Accepted!None}
         /\ Accepted!Receipt(s, log, run, commit) # Accepted!None =>
              LET r == Accepted!Receipt(s, log, run, commit) IN
              /\ Accepted!LogProves(s, log)
              /\ r.proof = [run |-> run, commit |-> commit, named |-> log.named,
                            count |-> log.count, skipped |-> log.skipped]
<1>1. CASE ~Accepted!LogProves(s, log)
  BY <1>1 DEF Accepted!Receipt
<1>2. CASE Accepted!LogProves(s, log)
  <2> DEFINE r == [none |-> FALSE, run |-> run, commit |-> commit, named |-> log.named,
          count |-> log.count, skipped |-> log.skipped,
          proof |-> [run |-> run, commit |-> commit, named |-> log.named,
                     count |-> log.count, skipped |-> log.skipped]]
  <2>1. Accepted!Receipt(s, log, run, commit) = r
    BY <1>2 DEF Accepted!Receipt
  <2>2. /\ log.named \in BOOLEAN /\ log.count \in TestCounts /\ log.skipped \in {0, 1}
    BY DEF LogsHeld
  <2>3. r \in ReceiptsHeld
    BY <2>2 DEF ReceiptsHeld, HashesHeld
  <2>4. r.proof = [run |-> run, commit |-> commit, named |-> log.named,
                            count |-> log.count, skipped |-> log.skipped]
    OBVIOUS
  <2> QED
    BY <1>2, <2>1, <2>3, <2>4
<1> QED
  BY <1>1, <1>2

LEMMA ReceiptHash ==
  ASSUME NEW s \in Accepted!Suites, NEW log \in LogsHeld, NEW run \in EvidenceRuns, NEW commit \in EvidenceCommits, NEW other
  PROVE  HashOfLog(s, log, Accepted!Receipt(s, log, run, commit), run, commit, other)
BY ReceiptHeld DEF HashOfLog

LEMMA ReceiptOfOther ==
  ASSUME NEW s \in Accepted!Suites, NEW log \in LogsHeld, NEW run \in EvidenceRuns, NEW commit \in EvidenceCommits,
         NEW mine, NEW here, NEW other, mine # run \/ commit = other, NEW any
  PROVE  HashOfLog(s, any, Accepted!Receipt(s, log, run, commit), mine, here, other)
<1> DEFINE r == Accepted!Receipt(s, log, run, commit)
<1>1. r # Accepted!None => r.proof = [run |-> run, commit |-> commit, named |-> log.named,
                             count |-> log.count, skipped |-> log.skipped]
  BY ReceiptHeld
<1> HIDE DEF r
<1>2. HashOfLog(s, any, r, mine, here, other)
  BY <1>1 DEF HashOfLog
<1> QED
  BY <1>2 DEF r

LEMMA GoodLogHeld == Accepted!GoodLog \in LogsHeld
BY DEF Accepted!GoodLog, LogsHeld, TestCounts

(* Evidence that becomes something else, hash by hash of the right log.        *)
LEMMA BecomesKeeps ==
  ASSUME EvidenceInv, NEW e \in EvidenceHeld,
         \A s \in Accepted!Suites : HashIsOfLog(s, e.logs[s], e.receipts[s]), Accepted!Becomes(e),
         Accepted!AcceptanceAssumption
  PROVE  EvidenceInv'
<1>1. /\ acceptedVerdict' = Accepted!None /\ evidence' = e /\ profile' = profile /\ defects' \in 0..Defects
  BY DEF Accepted!Becomes, EvidenceInv, Accepted!AcceptanceAssumption
<1> QED
  BY <1>1 DEF EvidenceInv

LEMMA EvidenceShape ==
  ASSUME NEW e \in EvidenceHeld
  PROVE  /\ e = [logs |-> e.logs, receipts |-> e.receipts, off |-> e.off, auto |-> e.auto,
                 base |-> e.base, base_verdict |-> e.base_verdict, from |-> e.from,
                 source |-> e.source, covered |-> e.covered, completed |-> e.completed,
                 section |-> e.section]
         /\ e.logs \in [Accepted!Suites -> LogsHeld] /\ e.receipts \in [Accepted!Suites -> ReceiptsHeld \cup {Accepted!None}]
         /\ e.off \in [Accepted!Scenarios -> ObservationsHeld \cup {Accepted!None}]
         /\ e.auto \in [Accepted!Scenarios -> ObservationsHeld \cup {Accepted!None}]
         /\ e.base \in [Accepted!Checks -> Accepted!Statuses \cup {"unknown"}] /\ e.base_verdict \in Accepted!Statuses
         /\ e.from \in [base : EvidenceRuns, scenarios : EvidenceRuns]
         /\ e.source \in [commit : {"this_commit", "other_commit"}, dirty : BOOLEAN,
                          manifest : BOOLEAN, image : {"this_image", "other_image"}]
         /\ e.covered \in BOOLEAN /\ e.completed \in BOOLEAN
         /\ e.section \in [present : SUBSET Accepted!Paths, status : {"complete", "incomplete"}]
BY DEF EvidenceHeld

LEMMA LogsKeep ==
  ASSUME EvidenceInv, Accepted!AcceptanceAssumption, NEW s \in Accepted!Suites, NEW log \in LogsHeld, NEW r \in ReceiptsHeld \cup {Accepted!None},
         HashIsOfLog(s, log, r),
         Accepted!Becomes([evidence EXCEPT !.logs[s] = log, !.receipts[s] = r])
  PROVE  EvidenceInv'
<1> DEFINE e == [evidence EXCEPT !.logs[s] = log, !.receipts[s] = r]
<1>1. evidence \in EvidenceHeld
  BY DEF EvidenceInv
<1>2. /\ e.logs = [evidence.logs EXCEPT ![s] = log]
      /\ e.receipts = [evidence.receipts EXCEPT ![s] = r]
      /\ e \in EvidenceHeld
  BY <1>1 DEF EvidenceHeld
<1>3. /\ evidence.logs \in [Accepted!Suites -> LogsHeld]
      /\ evidence.receipts \in [Accepted!Suites -> ReceiptsHeld \cup {Accepted!None}]
  BY <1>1, EvidenceShape
<1>4. ASSUME NEW t \in Accepted!Suites
      PROVE  HashIsOfLog(t, e.logs[t], e.receipts[t])
  <2>1. CASE t = s
    <3>1. e.logs[t] = log /\ e.receipts[t] = r
      BY <1>2, <1>3, <2>1
    <3> QED
      BY <3>1, <2>1
  <2>2. CASE t # s
    <3>1. e.logs[t] = evidence.logs[t] /\ e.receipts[t] = evidence.receipts[t]
      BY <1>2, <1>3, <2>2
    <3> QED
      BY <3>1 DEF EvidenceInv
  <2> QED
    BY <2>1, <2>2
<1> HIDE DEF e
<1> QED
  BY <1>2, <1>4, BecomesKeeps DEF e

LEMMA ReceiptKeeps ==
  ASSUME EvidenceInv, Accepted!AcceptanceAssumption, NEW s \in Accepted!Suites, NEW r \in ReceiptsHeld \cup {Accepted!None},
         HashIsOfLog(s, evidence.logs[s], r), Accepted!Becomes([evidence EXCEPT !.receipts[s] = r])
  PROVE  EvidenceInv'
<1> DEFINE e == [evidence EXCEPT !.receipts[s] = r]
<1>1. evidence \in EvidenceHeld
  BY DEF EvidenceInv
<1>2. /\ e.logs = evidence.logs
      /\ e.receipts = [evidence.receipts EXCEPT ![s] = r]
      /\ e \in EvidenceHeld
  BY <1>1 DEF EvidenceHeld
<1>3. evidence.receipts \in [Accepted!Suites -> ReceiptsHeld \cup {Accepted!None}]
  BY <1>1, EvidenceShape
<1>4. ASSUME NEW t \in Accepted!Suites
      PROVE  HashIsOfLog(t, e.logs[t], e.receipts[t])
  <2>1. CASE t = s
    <3>1. e.logs[t] = evidence.logs[s] /\ e.receipts[t] = r
      BY <1>2, <1>3, <2>1
    <3> QED
      BY <3>1, <2>1
  <2>2. CASE t # s
    <3>1. e.logs[t] = evidence.logs[t] /\ e.receipts[t] = evidence.receipts[t]
      BY <1>2, <1>3, <2>2
    <3> QED
      BY <3>1 DEF EvidenceInv
  <2> QED
    BY <2>1, <2>2
<1> HIDE DEF e
<1> QED
  BY <1>2, <1>4, BecomesKeeps DEF e

LEMMA OthersKeep ==
  ASSUME EvidenceInv, Accepted!AcceptanceAssumption, NEW e \in EvidenceHeld, Accepted!Becomes(e),
         e.logs = evidence.logs, e.receipts = evidence.receipts
  PROVE  EvidenceInv'
<1>1. \A s \in Accepted!Suites : HashIsOfLog(s, e.logs[s], e.receipts[s])
  BY DEF EvidenceInv
<1> QED
  BY <1>1, BecomesKeeps

LEMMA StepLogs ==
  ASSUME EvidenceInv, Accepted!AcceptanceAssumption, NEW s \in Accepted!Suites, Accepted!Logs(s)
  PROVE  EvidenceInv'
<1>1. PICK log \in {[Accepted!GoodLog EXCEPT !.ok = FALSE], [Accepted!GoodLog EXCEPT !.named = FALSE],
                [Accepted!GoodLog EXCEPT !.count = ExpectedTests - 1], [Accepted!GoodLog EXCEPT !.skipped = 1]} :
        Accepted!Becomes([evidence EXCEPT !.logs[s] = log,
                                 !.receipts[s] = Accepted!Receipt(s, log, "this_run", "this_commit")])
  BY DEF Accepted!Logs
<1>2. log \in LogsHeld
  BY <1>1 DEF Accepted!GoodLog, LogsHeld, TestCounts
<1>3. "this_run" \in EvidenceRuns /\ "this_commit" \in EvidenceCommits
  BY DEF EvidenceRuns, EvidenceCommits
<1>4. Accepted!Receipt(s, log, "this_run", "this_commit") \in ReceiptsHeld \cup {Accepted!None}
  BY <1>2, <1>3, ReceiptHeld
<1>5. HashIsOfLog(s, log, Accepted!Receipt(s, log, "this_run", "this_commit"))
  BY <1>2, <1>3, ReceiptHash, Zenon DEF HashIsOfLog
<1> QED
  BY <1>1, <1>2, <1>4, <1>5, LogsKeep, Zenon

LEMMA StepReceipts ==
  ASSUME EvidenceInv, Accepted!AcceptanceAssumption, NEW s \in Accepted!Suites, Accepted!Receipts(s)
  PROVE  EvidenceInv'
<1>1. PICK r \in {Accepted!None, Accepted!Receipt(s, Accepted!GoodLog, "earlier_run", "this_commit"),
              Accepted!Receipt(s, Accepted!GoodLog, "this_run", "earlier_commit")} :
        Accepted!Becomes([evidence EXCEPT !.receipts[s] = r])
  BY DEF Accepted!Receipts
<1>2. {"this_run", "earlier_run"} \subseteq EvidenceRuns /\ {"this_commit", "earlier_commit"} \subseteq EvidenceCommits
  BY DEF EvidenceRuns, EvidenceCommits
<1>3. r \in ReceiptsHeld \cup {Accepted!None}
  BY <1>1, <1>2, GoodLogHeld, ReceiptHeld
<1>4. CASE r = Accepted!None
  BY <1>1, <1>3, <1>4, ReceiptKeeps DEF HashIsOfLog, HashOfLog
<1>5. CASE r = Accepted!Receipt(s, Accepted!GoodLog, "earlier_run", "this_commit")
  <2>1. "earlier_run" \in EvidenceRuns /\ "this_commit" \in EvidenceCommits /\ "this_run" # "earlier_run"
    BY DEF EvidenceRuns, EvidenceCommits
  <2>2. HashIsOfLog(s, evidence.logs[s], r)
    BY <1>5, <2>1, GoodLogHeld, ReceiptOfOther, Zenon DEF HashIsOfLog
  <2> QED
    BY <1>1, <1>3, <2>2, ReceiptKeeps
<1>6. CASE r = Accepted!Receipt(s, Accepted!GoodLog, "this_run", "earlier_commit")
  <2>1. "this_run" \in EvidenceRuns /\ "earlier_commit" \in EvidenceCommits
    BY DEF EvidenceRuns, EvidenceCommits
  <2>2. HashIsOfLog(s, evidence.logs[s], r)
    BY <1>6, <2>1, GoodLogHeld, ReceiptOfOther, Zenon DEF HashIsOfLog
  <2> QED
    BY <1>1, <1>3, <2>2, ReceiptKeeps
<1> QED
  BY <1>1, <1>4, <1>5, <1>6

(* Whatever is edited of a receipt, its hash stays what it was.              *)
LEMMA StepEdits ==
  ASSUME EvidenceInv, Accepted!AcceptanceAssumption, NEW s \in Accepted!Suites, Accepted!Edits(s)
  PROVE  EvidenceInv'
<1> DEFINE r == evidence.receipts[s]
           forRun == [r EXCEPT !.run = "this_run", !.commit = "this_commit"]
           counted == [r EXCEPT !.count = ExpectedTests, !.skipped = 0]
<1>1. evidence \in EvidenceHeld
  BY DEF EvidenceInv
<1>2. evidence.receipts \in [Accepted!Suites -> ReceiptsHeld \cup {Accepted!None}]
  BY <1>1, EvidenceShape
<1>3. r \in ReceiptsHeld
  BY <1>2, SomethingHeld DEF Accepted!Edits
<1>4. HashIsOfLog(s, evidence.logs[s], r)
  BY DEF EvidenceInv
<1>5. /\ forRun \in ReceiptsHeld /\ forRun.proof = r.proof
      /\ counted \in ReceiptsHeld /\ counted.proof = r.proof
  BY <1>3 DEF ReceiptsHeld, EvidenceRuns, EvidenceCommits, TestCounts
<1>6. HashIsOfLog(s, evidence.logs[s], forRun) /\ HashIsOfLog(s, evidence.logs[s], counted)
  BY <1>3, <1>4, <1>5, SomethingHeld DEF HashIsOfLog, HashOfLog
<1>7. /\ DOMAIN evidence = DOMAIN evidence /\ "receipts" \in DOMAIN evidence
      /\ DOMAIN evidence.receipts = Accepted!Suites
  BY <1>1, <1>2 DEF EvidenceHeld
<1>8. CASE Accepted!Becomes([evidence EXCEPT !.receipts[s].run = "this_run", !.receipts[s].commit = "this_commit"])
  <2>1. [evidence EXCEPT !.receipts[s].run = "this_run", !.receipts[s].commit = "this_commit"]
          = [evidence EXCEPT !.receipts[s] = forRun]
    BY <1>1, <1>2, <1>3, <1>7
  <2> QED
    BY <1>8, <2>1, <1>5, <1>6, ReceiptKeeps
<1>9. CASE Accepted!Becomes([evidence EXCEPT !.receipts[s].count = ExpectedTests, !.receipts[s].skipped = 0])
  <2>1. [evidence EXCEPT !.receipts[s].count = ExpectedTests, !.receipts[s].skipped = 0]
          = [evidence EXCEPT !.receipts[s] = counted]
    BY <1>1, <1>2, <1>3, <1>7
  <2> QED
    BY <1>9, <2>1, <1>5, <1>6, ReceiptKeeps
<1> QED
  BY <1>8, <1>9 DEF Accepted!Edits

LEMMA StepBehaves ==
  ASSUME EvidenceInv, Accepted!AcceptanceAssumption, NEW n \in Accepted!Scenarios, Accepted!Behaves(n)
  PROVE  EvidenceInv'
<1>1. evidence \in EvidenceHeld
  BY DEF EvidenceInv
<1>2. PICK mode \in {"off", "auto"} :
        LET seen == evidence[mode][n] IN
        ~seen.none /\ \E other \in {Accepted!None, [seen EXCEPT !.calls = @ + 1], [seen EXCEPT !.effects = @ + 1],
                      [seen EXCEPT !.result = "other"], [seen EXCEPT !.completed = FALSE],
                      [seen EXCEPT !.raised = FALSE], [seen EXCEPT !.rows = 0]} :
            Accepted!Becomes([evidence EXCEPT ![mode][n] = other])
  BY DEF Accepted!Behaves
<1> DEFINE seen == evidence[mode][n]
<1>3. PICK other \in {Accepted!None, [seen EXCEPT !.calls = @ + 1], [seen EXCEPT !.effects = @ + 1],
                      [seen EXCEPT !.result = "other"], [seen EXCEPT !.completed = FALSE],
                      [seen EXCEPT !.raised = FALSE], [seen EXCEPT !.rows = 0]} :
            Accepted!Becomes([evidence EXCEPT ![mode][n] = other])
  BY <1>2
<1>4. evidence.off[n] \in ObservationsHeld \cup {Accepted!None} /\ evidence.auto[n] \in ObservationsHeld \cup {Accepted!None}
  BY <1>1, EvidenceShape
<1>5. seen \in ObservationsHeld
  BY <1>2, <1>4, SomethingHeld
<1>6. other \in ObservationsHeld \cup {Accepted!None}
  <2> HIDE DEF seen
  <2>1. /\ [seen EXCEPT !.calls = @ + 1] \in ObservationsHeld /\ [seen EXCEPT !.effects = @ + 1] \in ObservationsHeld
    <3>1. seen.calls + 1 \in Nat /\ seen.effects + 1 \in Nat
      BY <1>5 DEF ObservationsHeld
    <3> QED
      BY <3>1, <1>5 DEF ObservationsHeld
  <2>2. /\ [seen EXCEPT !.result = "other"] \in ObservationsHeld /\ [seen EXCEPT !.completed = FALSE] \in ObservationsHeld
        /\ [seen EXCEPT !.raised = FALSE] \in ObservationsHeld /\ [seen EXCEPT !.rows = 0] \in ObservationsHeld
    BY <1>5 DEF ObservationsHeld
  <2> QED
    BY <1>3, <2>1, <2>2
<1>7. CASE mode = "off"
  <2> DEFINE e == [evidence EXCEPT !["off"][n] = other]
  <2>1. e \in EvidenceHeld /\ e.logs = evidence.logs /\ e.receipts = evidence.receipts
    BY <1>1, <1>6 DEF EvidenceHeld
  <2>2. Accepted!Becomes(e)
    BY <1>3, <1>7
  <2> QED
    BY <2>1, <2>2, OthersKeep
<1>8. CASE mode = "auto"
  <2> DEFINE e == [evidence EXCEPT !["auto"][n] = other]
  <2>1. e \in EvidenceHeld /\ e.logs = evidence.logs /\ e.receipts = evidence.receipts
    BY <1>1, <1>6 DEF EvidenceHeld
  <2>2. Accepted!Becomes(e)
    BY <1>3, <1>8
  <2> QED
    BY <2>1, <2>2, OthersKeep
<1> QED
  BY <1>7, <1>8

LEMMA StepCircumstances ==
  ASSUME EvidenceInv, Accepted!AcceptanceAssumption, Accepted!Circumstances
  PROVE  EvidenceInv'
<1>1. evidence \in EvidenceHeld
  BY DEF EvidenceInv
<1> DEFINE Same(e) == e \in EvidenceHeld /\ e.logs = evidence.logs /\ e.receipts = evidence.receipts
<1>2. ASSUME NEW c \in Accepted!Checks, NEW s \in Accepted!Statuses \cup {"unknown"}
      PROVE  Same([evidence EXCEPT !.base[c] = s])
  BY <1>1 DEF EvidenceHeld
<1>3. ASSUME NEW s \in Accepted!Statuses
      PROVE  Same([evidence EXCEPT !.base_verdict = s])
  BY <1>1 DEF EvidenceHeld
<1>4. ASSUME NEW of \in {"base", "scenarios"}
      PROVE  Same([evidence EXCEPT !.from[of] = "earlier_run"])
  <2>1. Same([evidence EXCEPT !.from["base"] = "earlier_run"])
    BY <1>1 DEF EvidenceHeld, EvidenceRuns
  <2>2. Same([evidence EXCEPT !.from["scenarios"] = "earlier_run"])
    BY <1>1 DEF EvidenceHeld, EvidenceRuns
  <2> QED
    BY <2>1, <2>2
<1>5. Same([evidence EXCEPT !.source.dirty = TRUE])
  BY <1>1 DEF EvidenceHeld
<1>6. Same([evidence EXCEPT !.source.commit = "other_commit"])
  BY <1>1 DEF EvidenceHeld
<1>7. Same([evidence EXCEPT !.source.manifest = FALSE])
  BY <1>1 DEF EvidenceHeld
<1>8. Same([evidence EXCEPT !.source.image = "other_image"])
  BY <1>1 DEF EvidenceHeld
<1>9. Same([evidence EXCEPT !.covered = FALSE]) /\ Same([evidence EXCEPT !.completed = FALSE])
  BY <1>1 DEF EvidenceHeld
<1>10. ASSUME NEW p \in Accepted!Paths
       PROVE  Same([evidence EXCEPT !.section.present = @ \ {p}])
  BY <1>1 DEF EvidenceHeld
<1>11. ASSUME NEW x \in {"complete", "incomplete"}
       PROVE  Same([evidence EXCEPT !.section.status = x])
  BY <1>1 DEF EvidenceHeld
<1>12. \E e : Same(e) /\ Accepted!Becomes(e)
  <2> HIDE DEF Same
  <2>1. CASE \E c \in Accepted!Checks, s \in Accepted!Statuses \cup {"unknown"} : Accepted!Becomes([evidence EXCEPT !.base[c] = s])
    BY <2>1, <1>2
  <2>2. CASE \E s \in Accepted!Statuses \ {"incomplete"} : Accepted!Becomes([evidence EXCEPT !.base_verdict = s])
    BY <2>2, <1>3
  <2>3. CASE \E of \in {"base", "scenarios"} : Accepted!Becomes([evidence EXCEPT !.from[of] = "earlier_run"])
    BY <2>3, <1>4
  <2>4. CASE \E p \in Accepted!Paths : Accepted!Becomes([evidence EXCEPT !.section.present = @ \ {p}])
    BY <2>4, <1>10
  <2>5. CASE \E x \in {"complete", "incomplete"} : Accepted!Becomes([evidence EXCEPT !.section.status = x])
    BY <2>5, <1>11
  <2> QED
    BY <2>1, <2>2, <2>3, <2>4, <2>5, <1>5, <1>6, <1>7, <1>8, <1>9, Zenon DEF Accepted!Circumstances
<1> QED
  BY <1>12, OthersKeep

LEMMA StepAggregate ==
  ASSUME EvidenceInv, Accepted!Aggregate
  PROVE  EvidenceInv'
<1>1. /\ profile' = profile /\ evidence' = evidence /\ defects' = defects
      /\ acceptedVerdict' = Accepted!Aggregated(evidence)
  BY DEF Accepted!Aggregate
<1>2. Accepted!Gates' = Accepted!Gates
  BY <1>1 DEF Accepted!Gates
<1>3. Accepted!Profile(evidence)' = Accepted!Profile(evidence) /\ Accepted!Formal(evidence)' = Accepted!Formal(evidence)
  BY <1>1, <1>2 DEF Accepted!Profile, Accepted!Formal
<1>4. Accepted!Aggregated(evidence)' = Accepted!Aggregated(evidence)
  BY <1>1, <1>3 DEF Accepted!Aggregated
<1> QED
  BY <1>1, <1>4 DEF EvidenceInv

(* A suite that passes is proven: the receipt is the one of this log.        *)
LEMMA ReceiptIs ==
  ASSUME NEW s \in Accepted!Suites, NEW log \in LogsHeld, NEW r \in ReceiptsHeld,
         NEW run, NEW commit, NEW built, NEW other, built # other,
         HashOfLog(s, log, r, run, commit, other), r.run = run, r.commit = built, r.proof = Accepted!Bound(r)
  PROVE  Accepted!LogProves(s, log) /\ r = Accepted!Receipt(s, log, run, built)
<1>1. /\ r.proof.run = r.run /\ r.proof.commit = r.commit /\ r.proof.named = r.named
      /\ r.proof.count = r.count /\ r.proof.skipped = r.skipped
  BY DEF Accepted!Bound
<1>2. r # Accepted!None
  BY SomethingHeld
<1>3. /\ Accepted!LogProves(s, log)
      /\ r.proof = [run |-> run, commit |-> commit, named |-> log.named,
                    count |-> log.count, skipped |-> log.skipped]
  BY <1>1, <1>2 DEF HashOfLog
<1>4. /\ commit = built /\ r.named = log.named /\ r.count = log.count /\ r.skipped = log.skipped
  BY <1>1, <1>3
<1>5. r = [none |-> r.none, run |-> r.run, commit |-> r.commit, named |-> r.named,
           count |-> r.count, skipped |-> r.skipped, proof |-> r.proof]
  BY DEF ReceiptsHeld
<1>6. r.none = FALSE
  BY SomethingHeld
<1>7. r = [none |-> FALSE, run |-> run, commit |-> built, named |-> log.named,
           count |-> log.count, skipped |-> log.skipped,
           proof |-> [run |-> run, commit |-> built, named |-> log.named,
                      count |-> log.count, skipped |-> log.skipped]]
  BY <1>3, <1>4, <1>5, <1>6, Zenon
<1> QED
  BY <1>3, <1>7 DEF Accepted!Receipt

LEMMA PassedSuiteIsProven ==
  ASSUME EvidenceInv, NEW s \in Accepted!Suites, Accepted!SuiteStatus(s, evidence) = "pass"
  PROVE  Accepted!SuiteProven(s)
<1> DEFINE r == evidence.receipts[s]
           log == evidence.logs[s]
<1>1. evidence \in EvidenceHeld
  BY DEF EvidenceInv
<1>2. r \in ReceiptsHeld \cup {Accepted!None} /\ log \in LogsHeld
      /\ evidence.source.commit \in {"this_commit", "other_commit"}
  BY <1>1, EvidenceShape
<1>3. /\ ~r.none /\ r.run = "this_run" /\ r.commit = evidence.source.commit /\ r.proof = Accepted!Bound(r)
  BY DEF Accepted!SuiteStatus
<1>4. r \in ReceiptsHeld
  BY <1>2, <1>3, SomethingHeld
<1>5. HashOfLog(s, log, r, "this_run", "this_commit", "earlier_commit")
  BY DEF EvidenceInv, HashIsOfLog
<1>6. evidence.source.commit # "earlier_commit"
  BY <1>2
<1> HIDE DEF r, log
<1>7. Accepted!LogProves(s, log) /\ r = Accepted!Receipt(s, log, "this_run", evidence.source.commit)
  BY <1>2, <1>3, <1>4, <1>5, <1>6, ReceiptIs, Zenon
<1> QED
  BY <1>3, <1>7 DEF Accepted!SuiteProven, r, log

LEMMA CombinedPass ==
  ASSUME NEW S, S \subseteq Accepted!Statuses, Accepted!Combine(S) = "pass"
  PROVE  \A x \in S : x = "pass"
BY DEF Accepted!Combine, Accepted!Statuses

LEMMA GateStatuses ==
  ASSUME NEW e \in EvidenceHeld
  PROVE  \A g \in Accepted!Gates : Accepted!GateStatus(g, e) \in Accepted!Statuses
<1>1. /\ "pass" \in Accepted!Statuses /\ "fail" \in Accepted!Statuses /\ "incomplete" \in Accepted!Statuses
  BY DEF Accepted!Statuses
<1>2. \A s \in Accepted!Suites : Accepted!SuiteStatus(s, e) \in Accepted!Statuses
  BY <1>1 DEF Accepted!SuiteStatus
<1>3. \A c \in Accepted!Checks : Accepted!BaseCheck(c, e) \in Accepted!Statuses
  BY <1>1 DEF Accepted!BaseCheck
<1>4. \A x, y, z : Accepted!Equivalent(x, y, z) \in Accepted!Statuses
  BY <1>1 DEF Accepted!Equivalent
<1>5. \A x \in Accepted!Statuses, ok \in BOOLEAN : Accepted!And(x, ok) \in Accepted!Statuses
  BY <1>1 DEF Accepted!And
<1>6. /\ Accepted!ScenarioStatus("with_column", e) \in Accepted!Statuses /\ Accepted!ScenarioStatus("unsupported", e) \in Accepted!Statuses
      /\ Accepted!ScenarioStatus("zero_row", e) \in Accepted!Statuses /\ Accepted!ScenarioStatus("exception", e) \in Accepted!Statuses
  BY <1>1, <1>4 DEF Accepted!ScenarioStatus, Accepted!And
<1>7. \A S : Accepted!Combine(S) \in Accepted!Statuses
  BY DEF Accepted!Combine, Accepted!Statuses
<1>8. e.base_verdict \in Accepted!Statuses
  BY EvidenceShape
<1>9. Accepted!SourceStatus(e).clean \in Accepted!Statuses /\ Accepted!SourceStatus(e).image \in Accepted!Statuses
  BY <1>1 DEF Accepted!SourceStatus
<1> TAKE g \in Accepted!Gates
<1>10. "unit" \in Accepted!Suites /\ "integration" \in Accepted!Suites /\ "live" \in Accepted!Suites /\ "guard_miss" \in Accepted!Checks
  BY DEF Accepted!Suites, Accepted!Checks
<1>11. g \in {"tests.unit", "tests.integration", "tests.live", "clean_source", "image_identity",
     "guard_miss", "with_column", "unsupported", "zero_row", "exception",
     "base_verdict", "judged.named", "judged.unnamed", "release"}
  BY DEF Accepted!Gates
<1> QED
  BY <1>1, <1>2, <1>3, <1>6, <1>7, <1>8, <1>9, <1>10, <1>11 DEF Accepted!GateStatus

(* What it takes for a report to pass: every gate does.                      *)
LEMMA PassedGates ==
  ASSUME EvidenceInv, ~acceptedVerdict.none, acceptedVerdict.verdict = "pass"
  PROVE  /\ Accepted!SameRun(evidence)
         /\ \A g \in Accepted!Gates : Accepted!GateStatus(g, evidence) = "pass"
<1>1. evidence \in EvidenceHeld /\ acceptedVerdict = Accepted!Aggregated(evidence)
  BY SomethingHeld DEF EvidenceInv
<1>2. CASE ~Accepted!SameRun(evidence)
  <2>1. acceptedVerdict.verdict = Accepted!Refused.verdict
    BY <1>1, <1>2 DEF Accepted!Aggregated
  <2> QED
    BY <2>1 DEF Accepted!Refused
<1>3. CASE Accepted!SameRun(evidence) /\ profile.separate
  <2>1. acceptedVerdict.verdict = Accepted!Profile(evidence).verdict
    BY <1>1, <1>3 DEF Accepted!Aggregated
  <2> DEFINE judged == {g \in Accepted!Gates : Accepted!GateStatus(g, evidence) # "incomplete"}
  <2>2. Accepted!Gates \ judged = {} /\ Accepted!Combine({Accepted!GateStatus(g, evidence) : g \in judged}) = "pass"
    BY <2>1 DEF Accepted!Profile, Accepted!NoVerdict
  <2>3. {Accepted!GateStatus(g, evidence) : g \in judged} \subseteq Accepted!Statuses
    BY <1>1, GateStatuses
  <2>4. \A g \in judged : Accepted!GateStatus(g, evidence) = "pass"
    BY <2>2, <2>3, CombinedPass
  <2> QED
    BY <1>3, <2>2, <2>4
<1>4. CASE Accepted!SameRun(evidence) /\ ~profile.separate
  <2>1. acceptedVerdict.verdict = Accepted!Formal(evidence).verdict
    BY <1>1, <1>4 DEF Accepted!Aggregated
  <2>2. Accepted!Combine({Accepted!GateStatus(g, evidence) : g \in Accepted!Gates}) = "pass"
    BY <2>1 DEF Accepted!Formal
  <2>3. {Accepted!GateStatus(g, evidence) : g \in Accepted!Gates} \subseteq Accepted!Statuses
    BY <1>1, GateStatuses
  <2> QED
    BY <1>4, <2>2, <2>3, CombinedPass
<1> QED
  BY <1>2, <1>3, <1>4

LEMMA PassedScenarioIsSame ==
  ASSUME NEW n \in Accepted!Scenarios, Accepted!ScenarioStatus(n, evidence) = "pass"
  PROVE  Accepted!SameBehaviour(n)
<1> DEFINE off == evidence.off[n]
           auto == evidence.auto[n]
<1>1. \A nonempty : Accepted!Equivalent(off, auto, nonempty) = "pass" =>
        /\ ~off.none /\ ~auto.none /\ off.completed /\ auto.completed
        /\ off.calls = auto.calls /\ off.effects = auto.effects
        /\ off.rows = auto.rows /\ off.result = auto.result
  BY DEF Accepted!Equivalent
<1>2. \A first, ok : Accepted!And(first, ok) = "pass" => first = "pass"
  BY DEF Accepted!And
<1>3. CASE n = "exception"
  <2>1. /\ ~off.none /\ ~auto.none /\ off.completed /\ auto.completed /\ off.raised /\ auto.raised
        /\ off.calls = 1 /\ auto.calls = 1 /\ off.effects = 1 /\ auto.effects = 1
    BY <1>3 DEF Accepted!ScenarioStatus
  <2> QED
    BY <2>1, <1>3 DEF Accepted!SameBehaviour
<1>4. CASE n # "exception"
  <2>1. \E nonempty : Accepted!Equivalent(off, auto, nonempty) = "pass"
    <3>1. CASE n = "with_column"
      BY <3>1 DEF Accepted!ScenarioStatus
    <3>2. CASE n = "unsupported"
      BY <3>2, <1>2 DEF Accepted!ScenarioStatus
    <3>3. CASE n = "zero_row"
      BY <3>3, <1>2 DEF Accepted!ScenarioStatus
    <3> QED
      BY <1>4, <3>1, <3>2, <3>3 DEF Accepted!Scenarios
  <2> QED
    BY <2>1, <1>1, <1>4 DEF Accepted!SameBehaviour
<1> QED
  BY <1>3, <1>4

(* Of two statuses that pass together, each passes.                          *)
LEMMA BothPass ==
  ASSUME NEW a, NEW b, Accepted!Combine({a, b}) = "pass", a \in Accepted!Statuses, b \in Accepted!Statuses
  PROVE  a = "pass" /\ b = "pass"
BY CombinedPass

LEMMA PassIsProven == ASSUME EvidenceInv PROVE Accepted!PassMeansProven
<1> SUFFICES ASSUME ~acceptedVerdict.none, acceptedVerdict.verdict = "pass"
             PROVE  /\ \A s \in Accepted!Suites : Accepted!SuiteProven(s)
                    /\ \A n \in Accepted!Scenarios : Accepted!SameBehaviour(n)
                    /\ \A c \in Accepted!Checks : evidence.base[c] = "pass"
                    /\ evidence.base_verdict = "pass" /\ ~profile.release
                    /\ evidence.from = [base |-> "this_run", scenarios |-> "this_run"]
                    /\ ~evidence.source.dirty /\ evidence.source.manifest
                    /\ evidence.source.image = "this_image" /\ evidence.covered
  BY DEF Accepted!PassMeansProven
<1>1. evidence \in EvidenceHeld
  BY DEF EvidenceInv
<1>2. Accepted!SameRun(evidence) /\ \A g \in Accepted!Gates : Accepted!GateStatus(g, evidence) = "pass"
  BY PassedGates
<1>3. {"tests.unit", "tests.integration", "tests.live", "clean_source", "image_identity",
       "guard_miss", "with_column", "unsupported", "zero_row", "exception",
       "base_verdict", "judged.named", "judged.unnamed"} \subseteq Accepted!Gates
  BY DEF Accepted!Gates
<1>4. \A s \in Accepted!Suites : Accepted!SuiteStatus(s, evidence) = "pass"
  <2>1. /\ Accepted!GateStatus("tests.unit", evidence) = "pass" /\ Accepted!GateStatus("tests.integration", evidence) = "pass"
        /\ Accepted!GateStatus("tests.live", evidence) = "pass"
    BY <1>2, <1>3
  <2> QED
    BY <2>1 DEF Accepted!GateStatus, Accepted!Suites
<1>5. \A s \in Accepted!Suites : Accepted!SuiteProven(s)
  BY <1>4, PassedSuiteIsProven
<1>6. /\ \A n \in Accepted!Scenarios : Accepted!ScenarioStatus(n, evidence) = "pass"
      /\ \A c \in Accepted!Checks : Accepted!BaseCheck(c, evidence) = "pass"
  <2>1. /\ Accepted!GateStatus("with_column", evidence) = "pass" /\ Accepted!GateStatus("unsupported", evidence) = "pass"
        /\ Accepted!GateStatus("zero_row", evidence) = "pass" /\ Accepted!GateStatus("exception", evidence) = "pass"
        /\ Accepted!GateStatus("guard_miss", evidence) = "pass"
    BY <1>2, <1>3
  <2>2. /\ Accepted!ScenarioStatus("with_column", evidence) = "pass" /\ Accepted!ScenarioStatus("exception", evidence) = "pass"
        /\ Accepted!BaseCheck("guard_miss", evidence) = "pass"
    BY <2>1 DEF Accepted!GateStatus
  <2>3. ASSUME NEW g \in {"unsupported", "zero_row"}
        PROVE  Accepted!BaseCheck(g, evidence) = "pass" /\ Accepted!ScenarioStatus(g, evidence) = "pass"
    <3>1. Accepted!Combine({Accepted!BaseCheck(g, evidence), Accepted!ScenarioStatus(g, evidence)}) = "pass"
      BY <2>1 DEF Accepted!GateStatus
    <3>2. Accepted!BaseCheck(g, evidence) \in Accepted!Statuses
      BY DEF Accepted!BaseCheck, Accepted!Statuses
    <3>3. Accepted!ScenarioStatus(g, evidence) \in Accepted!Statuses
      BY DEF Accepted!ScenarioStatus, Accepted!Equivalent, Accepted!And, Accepted!Statuses
    <3> QED
      BY <3>1, <3>2, <3>3, BothPass
  <2> QED
    BY <2>2, <2>3 DEF Accepted!Scenarios, Accepted!Checks
<1>7. \A n \in Accepted!Scenarios : Accepted!SameBehaviour(n)
  BY <1>6, PassedScenarioIsSame
<1>8. \A c \in Accepted!Checks : evidence.base[c] = "pass"
  BY <1>6 DEF Accepted!BaseCheck
<1>9. /\ Accepted!GateStatus("base_verdict", evidence) = "pass" /\ Accepted!GateStatus("clean_source", evidence) = "pass"
      /\ Accepted!GateStatus("image_identity", evidence) = "pass" /\ Accepted!GateStatus("judged.unnamed", evidence) = "pass"
  BY <1>2, <1>3
<1>10. evidence.base_verdict = "pass" /\ evidence.covered
  BY <1>9 DEF Accepted!GateStatus
<1>11. Accepted!SourceStatus(evidence).clean = "pass" /\ Accepted!SourceStatus(evidence).image = "pass"
  BY <1>9 DEF Accepted!GateStatus
<1>12. ~evidence.source.dirty /\ evidence.source.manifest /\ evidence.source.image = "this_image"
  BY <1>11 DEF Accepted!SourceStatus
<1>13. ~profile.release
  <2>1. SUFFICES ASSUME profile.release PROVE FALSE
    OBVIOUS
  <2>2. "release" \in Accepted!Gates
    BY <2>1 DEF Accepted!Gates
  <2>3. Accepted!GateStatus("release", evidence) = "incomplete"
    BY DEF Accepted!GateStatus
  <2> QED
    BY <1>2, <2>2, <2>3
<1>14. evidence.from = [base |-> "this_run", scenarios |-> "this_run"]
  <2>1. evidence.from \in [base : EvidenceRuns, scenarios : EvidenceRuns]
    BY <1>1, EvidenceShape
  <2> QED
    BY <1>2, <2>1 DEF Accepted!SameRun
<1> QED
  BY <1>5, <1>7, <1>8, <1>10, <1>12, <1>13, <1>14

(* What a requirement that passed asked for did pass.                        *)
LEMMA PassedRequirement ==
  ASSUME EvidenceInv, ~acceptedVerdict.none, NEW name \in {"R1", "R2", "R3"}, name \in acceptedVerdict.passed
  PROVE  \A g \in Accepted!Requirements[name] : Accepted!GateStatus(g, evidence) = "pass"
<1>1. evidence \in EvidenceHeld /\ acceptedVerdict = Accepted!Aggregated(evidence)
  BY SomethingHeld DEF EvidenceInv
<1> DEFINE asked == {Accepted!GateStatus(g, evidence) : g \in Accepted!Requirements[name]}
<1>2. Accepted!Combine(asked) = "pass"
  <2>1. CASE ~Accepted!SameRun(evidence)
    <3>1. acceptedVerdict.passed = Accepted!Refused.passed
      BY <1>1, <2>1 DEF Accepted!Aggregated
    <3> QED
      BY <3>1 DEF Accepted!Refused
  <2>2. CASE Accepted!SameRun(evidence) /\ profile.separate
    <3>1. acceptedVerdict.passed = Accepted!Profile(evidence).passed
      BY <1>1, <2>2 DEF Accepted!Aggregated
    <3> QED
      BY <3>1 DEF Accepted!Profile
  <2>3. CASE Accepted!SameRun(evidence) /\ ~profile.separate
    <3>1. acceptedVerdict.passed = Accepted!Formal(evidence).passed
      BY <1>1, <2>3 DEF Accepted!Aggregated
    <3> QED
      BY <3>1 DEF Accepted!Formal
  <2> QED
    BY <2>1, <2>2, <2>3
<1>3. Accepted!Requirements[name] \subseteq Accepted!Gates
  BY DEF Accepted!Requirements, Accepted!Gates
<1>4. asked \subseteq Accepted!Statuses
  BY <1>1, <1>3, GateStatuses
<1> HIDE DEF asked
<1>5. \A x \in asked : x = "pass"
  BY <1>2, <1>4, CombinedPass
<1> QED
  BY <1>5 DEF asked

LEMMA ReadyIsComplete == ASSUME EvidenceInv PROVE Accepted!ReadyMeansComplete
<1> SUFFICES ASSUME ~acceptedVerdict.none
             PROVE  /\ acceptedVerdict.ready => evidence.completed /\ acceptedVerdict.missing = {} /\ acceptedVerdict.verdict = "pass"
                    /\ "R1" \in acceptedVerdict.passed => Accepted!SuiteProven("unit") /\ Accepted!SameBehaviour("with_column")
                    /\ "R3" \in acceptedVerdict.passed => Accepted!SuiteProven("integration") /\ evidence.covered
                    /\ acceptedVerdict.prerequisite # "false_claim" =>
                         /\ (acceptedVerdict.prerequisite = "pass") = (evidence.section.present = Accepted!Paths)
                         /\ (evidence.section.status = "complete") = (evidence.section.present = Accepted!Paths)
  BY DEF Accepted!ReadyMeansComplete
<1>1. evidence \in EvidenceHeld /\ acceptedVerdict = Accepted!Aggregated(evidence)
  BY SomethingHeld DEF EvidenceInv
<1>2. ASSUME acceptedVerdict.ready
      PROVE  evidence.completed /\ acceptedVerdict.missing = {} /\ acceptedVerdict.verdict = "pass"
  <2>1. CASE ~Accepted!SameRun(evidence)
    <3>1. acceptedVerdict.ready = Accepted!Refused.ready
      BY <1>1, <2>1 DEF Accepted!Aggregated
    <3> QED
      BY <3>1, <1>2 DEF Accepted!Refused
  <2>2. CASE Accepted!SameRun(evidence) /\ profile.separate
    <3>1. /\ acceptedVerdict.ready = Accepted!Profile(evidence).ready /\ acceptedVerdict.missing = Accepted!Profile(evidence).missing
          /\ acceptedVerdict.verdict = Accepted!Profile(evidence).verdict
      BY <1>1, <2>2 DEF Accepted!Aggregated
    <3> QED
      BY <3>1, <1>2 DEF Accepted!Profile
  <2>3. CASE Accepted!SameRun(evidence) /\ ~profile.separate
    <3>1. acceptedVerdict.ready = Accepted!Formal(evidence).ready
      BY <1>1, <2>3 DEF Accepted!Aggregated
    <3> QED
      BY <3>1, <1>2 DEF Accepted!Formal
  <2> QED
    BY <2>1, <2>2, <2>3
<1>3. ASSUME "R1" \in acceptedVerdict.passed
      PROVE  Accepted!SuiteProven("unit") /\ Accepted!SameBehaviour("with_column")
  <2>1. "tests.unit" \in Accepted!Requirements["R1"] /\ "with_column" \in Accepted!Requirements["R1"]
    BY DEF Accepted!Requirements
  <2>2. Accepted!GateStatus("tests.unit", evidence) = "pass" /\ Accepted!GateStatus("with_column", evidence) = "pass"
    BY <1>3, <2>1, PassedRequirement
  <2>3. Accepted!SuiteStatus("unit", evidence) = "pass" /\ Accepted!ScenarioStatus("with_column", evidence) = "pass"
    BY <2>2 DEF Accepted!GateStatus
  <2>4. "unit" \in Accepted!Suites /\ "with_column" \in Accepted!Scenarios
    BY DEF Accepted!Suites, Accepted!Scenarios
  <2> QED
    BY <2>3, <2>4, PassedSuiteIsProven, PassedScenarioIsSame
<1>4. ASSUME "R3" \in acceptedVerdict.passed
      PROVE  Accepted!SuiteProven("integration") /\ evidence.covered
  <2>1. "judged.unnamed" \in Accepted!Requirements["R3"]
    BY DEF Accepted!Requirements
  <2>2. Accepted!GateStatus("judged.unnamed", evidence) = "pass"
    BY <1>4, <2>1, PassedRequirement
  <2>3. Accepted!SuiteStatus("integration", evidence) = "pass" /\ evidence.covered
    BY <2>2 DEF Accepted!GateStatus
  <2>4. "integration" \in Accepted!Suites
    BY DEF Accepted!Suites
  <2> QED
    BY <2>3, <2>4, PassedSuiteIsProven
<1>5. ASSUME acceptedVerdict.prerequisite # "false_claim"
      PROVE  /\ (acceptedVerdict.prerequisite = "pass") = (evidence.section.present = Accepted!Paths)
             /\ (evidence.section.status = "complete") = (evidence.section.present = Accepted!Paths)
  <2>1. acceptedVerdict.prerequisite = Accepted!Prerequisite(evidence)
    BY <1>1 DEF Accepted!Aggregated
  <2>2. evidence.section.present \subseteq Accepted!Paths
    BY <1>1, EvidenceShape
  <2>3. Accepted!Paths \subseteq evidence.section.present <=> evidence.section.present = Accepted!Paths
    BY <2>2
  <2>4. CASE evidence.section.present = Accepted!Paths
    BY <1>5, <2>1, <2>3, <2>4 DEF Accepted!Prerequisite
  <2>5. CASE evidence.section.present # Accepted!Paths
    BY <1>5, <2>1, <2>3, <2>5 DEF Accepted!Prerequisite
  <2> QED
    BY <2>4, <2>5
<1> QED
  BY <1>2, <1>3, <1>4, <1>5

LEMMA EvidenceInit == ASSUME Accepted!Init, Accepted!AcceptanceAssumption PROVE EvidenceInv
<1>1. "this_run" \in EvidenceRuns /\ "this_commit" \in EvidenceCommits
  BY DEF EvidenceRuns, EvidenceCommits
<1>2. \A s \in Accepted!Suites :
        /\ Accepted!Receipt(s, Accepted!GoodLog, "this_run", "this_commit") \in ReceiptsHeld \cup {Accepted!None}
        /\ HashIsOfLog(s, Accepted!GoodLog, Accepted!Receipt(s, Accepted!GoodLog, "this_run", "this_commit"))
  BY <1>1, GoodLogHeld, ReceiptHeld, ReceiptHash, Zenon DEF HashIsOfLog
<1>3. \A n \in Accepted!Scenarios : Accepted!Usual(n) \in ObservationsHeld
  BY DEF Accepted!Usual, Accepted!Seen, ObservationsHeld
<1> DEFINE receipts == [s \in Accepted!Suites |-> Accepted!Receipt(s, Accepted!GoodLog, "this_run", "this_commit")]
           logs == [s \in Accepted!Suites |-> Accepted!GoodLog]
           seen == [n \in Accepted!Scenarios |-> Accepted!Usual(n)]
           checked == [c \in Accepted!Checks |-> "pass"]
<1>4. evidence = [logs |-> logs, receipts |-> receipts, off |-> seen, auto |-> seen,
         base |-> checked, base_verdict |-> "pass",
         from |-> [base |-> "this_run", scenarios |-> "this_run"],
         source |-> [commit |-> "this_commit", dirty |-> FALSE, manifest |-> TRUE, image |-> "this_image"],
         covered |-> TRUE, completed |-> TRUE,
         section |-> [present |-> Accepted!Paths, status |-> "complete"]]
  BY DEF Accepted!Init
<1>5. /\ logs \in [Accepted!Suites -> LogsHeld] /\ receipts \in [Accepted!Suites -> ReceiptsHeld \cup {Accepted!None}]
      /\ seen \in [Accepted!Scenarios -> ObservationsHeld \cup {Accepted!None}]
      /\ checked \in [Accepted!Checks -> Accepted!Statuses \cup {"unknown"}] /\ "pass" \in Accepted!Statuses
  BY <1>2, <1>3, GoodLogHeld DEF Accepted!Statuses
<1>6. \A s \in Accepted!Suites : logs[s] = Accepted!GoodLog /\ receipts[s] = Accepted!Receipt(s, Accepted!GoodLog, "this_run", "this_commit")
  OBVIOUS
<1> HIDE DEF receipts, logs, seen, checked
<1>7. evidence \in EvidenceHeld
  BY <1>1, <1>4, <1>5 DEF EvidenceHeld
<1>8. evidence.logs = logs /\ evidence.receipts = receipts
  BY <1>4
<1>9. \A s \in Accepted!Suites : HashIsOfLog(s, evidence.logs[s], evidence.receipts[s])
  BY <1>2, <1>6, <1>8
<1>10. profile \in [separate : BOOLEAN, release : BOOLEAN] /\ defects = 0 /\ acceptedVerdict = Accepted!None
  BY DEF Accepted!Init
<1>11. 0 \in 0..Defects
  BY DEF Accepted!AcceptanceAssumption
<1> QED
  BY <1>7, <1>9, <1>10, <1>11 DEF EvidenceInv

LEMMA EvidenceStep == ASSUME EvidenceInv, Accepted!Next, Accepted!AcceptanceAssumption PROVE EvidenceInv'
BY StepAggregate, StepCircumstances, StepLogs, StepReceipts, StepEdits, StepBehaves DEF Accepted!Next

LEMMA EvidenceFacts ==
  ASSUME EvidenceInv PROVE Accepted!TypeOK /\ Accepted!PassMeansProven /\ Accepted!ReadyMeansComplete
<1>1. DOMAIN evidence.receipts = Accepted!Suites
  BY EvidenceShape DEF EvidenceInv
<1> QED
  BY <1>1, PassIsProven, ReadyIsComplete DEF Accepted!TypeOK, EvidenceInv
LEMMA EvidenceNext ==
  ASSUME EvidenceInv, Accepted!Next \/ UNCHANGED acceptanceVars, Accepted!AcceptanceAssumption
  PROVE  EvidenceInv'
<1>1. CASE UNCHANGED acceptanceVars
  <2>1. /\ profile' = profile /\ evidence' = evidence /\ defects' = defects
        /\ acceptedVerdict' = acceptedVerdict
    BY <1>1 DEF acceptanceVars
  <2>2. Accepted!Gates' = Accepted!Gates
    BY <2>1 DEF Accepted!Gates
  <2>3. /\ Accepted!Profile(evidence)' = Accepted!Profile(evidence)
        /\ Accepted!Formal(evidence)' = Accepted!Formal(evidence)
    BY <2>1, <2>2 DEF Accepted!Profile, Accepted!Formal
  <2>4. Accepted!Aggregated(evidence)' = Accepted!Aggregated(evidence)
    BY <2>1, <2>3 DEF Accepted!Aggregated
  <2> QED
    BY <2>1, <2>4 DEF EvidenceInv
<1> QED
  BY <1>1, EvidenceStep

-----------------------------------------------------------------------------
(* The parts together.  A step is a step of at most one of them, and the       *)
(* policy in force is a policy only where a run looks at it.                   *)
LEMMA OneStep ==
  ASSUME [Next]_vars
  PROVE  /\ part' = part
         /\ Managers!Next \/ UNCHANGED managersVars
         /\ part = "policies" => Governed!Next \/ UNCHANGED policiesVars
         /\ Hooks!Next \/ UNCHANGED hooksVars
         /\ Lineage!Next \/ UNCHANGED lineageVars
         /\ Delivery!Next \/ UNCHANGED deliveryVars
         /\ Registry!Next \/ UNCHANGED registryVars
         /\ Captures!Next \/ UNCHANGED capturesVars
         /\ Bundle!Next \/ UNCHANGED bundleVars
         /\ Recorders!Next \/ UNCHANGED recordersVars
         /\ Rejections!Next \/ UNCHANGED rejectionsVars
         /\ part = "acceptance" => Accepted!Next \/ UNCHANGED acceptanceVars
BY Zenon DEF Next, vars, ManagersStep, GovernedStep, ExplainedStep, AcceptedStep, RegistryStep,
   CapturesStep, HooksStep, LineageStep, DeliveryStep, CodecStep, BundleStep, RecordersStep,
   RejectionsStep

ServicesInv ==
  /\ ManagersInv /\ (part = "policies" => PoliciesInv)
  /\ HooksInv /\ LineageInv /\ DeliveryInv /\ RegistryInv /\ CapturesInv
  /\ BundleInv /\ RecorderInv /\ RejectionInv
  /\ (part = "acceptance" => EvidenceInv)

LEMMA ServicesInvariant == Spec => []ServicesInv
<1>1. Init => ServicesInv
  BY ServicesAssumption, ManagersInit, PoliciesInit, HooksInit, LineageInit, DeliveryInit,
     RegistryInit, CapturesInit, BundleInit, RecorderInit, RejectionInit, EvidenceInit
     DEF Init, ServicesInv, ServicesAssumption
<1>2. ServicesInv /\ [Next]_vars => ServicesInv'
  BY ServicesAssumption, OneStep, ManagersNext, PoliciesNext, HooksNext, LineageNext, DeliveryNext,
     RegistryNext, CapturesNext, BundleNext, RecorderNext, RejectionNext, EvidenceNext
     DEF ServicesInv, ServicesAssumption, RegistryStepsRight
<1> QED
  BY PTL, <1>1, <1>2 DEF Spec

(* Adapters open, call and die: each keeps the manager it was given, no two     *)
(* policies serve one namespace, a policy has one governor, and no manager is   *)
(* closed in use (worker.py:126-330); a policy in force allows nothing that the *)
(* published one forbids, however often it is tightened (policy.py:159-216).    *)
THEOREM ManagersAreSafe == Spec => []ManagersSafe
<1>1. ServicesInv => ManagersSafe
  BY ServicesAssumption, ManagersFacts, PoliciesFacts DEF ServicesInv, ServicesAssumption, ManagersSafe
<1> QED
  BY PTL, ServicesInvariant, <1>1

(* Whatever raises half way, the user's method is back when the call lock is    *)
(* free and native expressions are bound only under guarded terminals           *)
(* (control.py:699-818); a terminal runs natively only what was checked, at     *)
(* every level of its chain, in the same resolution, whatever changed since     *)
(* the frames were built (native_expression.py:356-408).                        *)
THEOREM HooksAreSafe == Spec => []HooksSafe
<1>1. ServicesInv => HooksSafe
  BY ServicesAssumption, HooksFacts, LineageFacts DEF ServicesInv, ServicesAssumption, HooksSafe
<1> QED
  BY PTL, ServicesInvariant, <1>1

(* A worker holds the payloads of running tasks only, a task's context crosses  *)
(* scheduler and worker unchanged, and no content is both accepted and rejected *)
(* by one process, whatever is lost or restarted on the way                     *)
(* (objectref_bridge.py:300-560, loader.py).                                    *)
THEOREM DeliveryIsSafe == Spec => []DeliverySafe
<1>1. ServicesInv => DeliverySafe
  BY DeliveryFacts DEF ServicesInv, DeliverySafe
<1> QED
  BY PTL, ServicesInvariant, <1>1

(* The registry's tables lead from living expressions to their own live record, *)
(* however expressions die, identities are used again and records expire or are *)
(* evicted (registry.py:201-315).                                               *)
THEOREM IndexesAlwaysAgree == Spec => []IndexesAgree
<1>1. ServicesInv => IndexesAgree
  BY ServicesAssumption, RegistryFacts DEF ServicesInv, ServicesAssumption, IndexesAgree
<1> QED
  BY PTL, ServicesInvariant, <1>1

(* A carrier is settled once, and a record leaves only for its age, for room,   *)
(* with its last expression or at the end (registry.py:217-710,                 *)
(* wrapper.py:64-67).                                                           *)
THEOREM CarriersSettle == Spec => CarrierSettledOnce
<1>1. ServicesInv /\ [Next]_vars =>
        [Registry!SettledStays /\ Registry!DropsForAReason]_registryVars
  BY ServicesAssumption, OneStep, RegistryNext, RegistryActions DEF ServicesInv, ServicesAssumption
<1>2. Registry!vars = registryVars /\ Registry!vars' = registryVars'
  BY DEF Registry!vars, registryVars
<1>3. ServicesInv /\ [Next]_vars =>
        [Registry!SettledStays]_(Registry!vars) /\ [Registry!DropsForAReason]_(Registry!vars)
  BY <1>1, <1>2
<1> QED
  BY PTL, ServicesInvariant, <1>3
     DEF Spec, CarrierSettledOnce, Registry!CarrierSettledOnce, Registry!DroppedForAReason

(* No expired capture is served, and none that is fresh is dropped but for its  *)
(* job's end or, as the least recently used, for room (capture_cache.py:83-138).*)
THEOREM CapturesStayFresh == Spec => KeptWhileFresh
<1>1. ServicesInv /\ [Next]_vars => [Captures!FreshStay]_capturesVars
  BY ServicesAssumption, OneStep, CapturesNext DEF ServicesInv, ServicesAssumption
<1>2. Captures!vars = capturesVars /\ Captures!vars' = capturesVars'
  BY DEF Captures!vars, capturesVars
<1>3. ServicesInv /\ [Next]_vars => [Captures!FreshStay]_(Captures!vars)
  BY <1>1, <1>2
<1>4. ServicesInv => Captures!TypeOK
  BY ServicesAssumption, CapturesFacts DEF ServicesInv, ServicesAssumption
<1> QED
  BY PTL, ServicesInvariant, <1>3, <1>4 DEF Spec, KeptWhileFresh, Captures!KeptWhileFresh

(* A bundle that says COMPLETE lacks nothing whose recording was over when it    *)
(* was finalized, and its marker stands beside whole files, whichever file       *)
(* operations fail and wherever the process dies (bundle.py:380-560); a chain   *)
(* status in a driver's bundle is true, and a rejection is called recorded only *)
(* if nothing is missing (driver_runtime.py:219-517); the chains that were over *)
(* are whole and each of one compilation, however many calls write under the    *)
(* same paths, and a typed region is recorded by one call at a time             *)
(* (worker_runtime.py:268-1393).                                                *)
THEOREM BundlesAreSafe == Spec => []BundleSafe
<1>1. ServicesInv => BundleSafe
  BY ServicesAssumption, BundleFacts, RejectionFacts, RecorderFacts
     DEF ServicesInv, ServicesAssumption, BundleSafe
<1> QED
  BY PTL, ServicesInvariant, <1>1

(* A run is accepted on proof of its own: however many receipts, observations   *)
(* and checks were lost, left over, edited or failed, a verdict that passes     *)
(* tells of this run and commit, of logs that prove every suite, and of the     *)
(* same behaviour with the JIT as without (acceptance.py:1206-1604,             *)
(* test_evidence.py:170-272).                                                   *)
THEOREM VerdictsAreAlwaysProven == Spec => []VerdictsAreProven
<1>1. ServicesInv => VerdictsAreProven
  BY EvidenceFacts DEF ServicesInv, VerdictsAreProven
<1> QED
  BY PTL, ServicesInvariant, <1>1
=============================================================================

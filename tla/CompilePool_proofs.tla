-------------------------- MODULE CompilePool_proofs --------------------------
(***************************************************************************)
(* Proofs about CompilePool, for any number of keys, callers, workers and  *)
(* tasks: permits, singleflight, what drain() and a waiting shutdown leave *)
(* behind, and that every step of the pool is one of CompileService.       *)
(* Inductive says where every accepted task is between its submission and  *)
(* its answer; every lemma <Action>Preserves carries it over one action.   *)
(***************************************************************************)
EXTENDS CompilePool, SequenceTheorems, FiniteSetTheorems, TLAPS

-----------------------------------------------------------------------------
(* Where a task is.  Nobody else has it: a queue entry, the worker that     *)
(* compiles it, the caller that registers it, the thread that finishes it.  *)
Queued == {queue[i] : i \in 1..Len(queue)}
Finishing == {"complete", "pop", "release"}
Compiles(w, t) == thread[w].at = "compile" /\ thread[w].task = t
Registers(c, t) == thread[c].at = "register" /\ thread[c].task = t
Finishes(th, t) == thread[th].at \in Finishing /\ thread[th].task = t

Places ==
  /\ \A c \in Callers : thread[c].at \in {"idle", "register", "drain"} \cup Finishing
  /\ \A w \in Workers : thread[w].at \in {"idle", "compile"} \cup Finishing
  /\ thread[Closer].at \in {"idle", "join", "cancel", "left", "down"} \cup Finishing

QueueInjective == \A i, j \in 1..Len(queue) : queue[i] = queue[j] => i = j

QueuedOnce ==
  /\ QueueInjective
  /\ \A t \in Queued : t \in Issued /\ future[t] = "pending"

CompilingFits ==
  \A w \in Workers, t \in Tasks : Compiles(w, t) =>
    t \in Issued /\ t \notin Queued /\ future[t] = "pending"
CompiledOnce ==
  \A v, w \in Workers, t \in Tasks : Compiles(v, t) /\ Compiles(w, t) => v = w

RegisteringFits ==
  \A c \in Callers, t \in Tasks : Registers(c, t) =>
    t \in Issued /\ t \notin callbacks /\ delivered[t] = 0
RegisteredOnce ==
  \A c, d \in Callers, t \in Tasks : Registers(c, t) /\ Registers(d, t) => c = d

FinishingFits ==
  \A th \in Threads, t \in Tasks : Finishes(th, t) =>
    /\ t \in Issued /\ future[t] # "pending"
    /\ delivered[t] = (IF thread[th].at = "complete" THEN 0 ELSE 1)
    /\ thread[th].at = "pop" => inflight[keyOf[t]] = t
FinishedOnce ==
  \A x, y \in Threads, t \in Tasks : Finishes(x, t) /\ Finishes(y, t) => x = y
RegisteredFirst ==
  \A c \in Callers, x \in Threads, t \in Tasks : Registers(c, t) => ~Finishes(x, t)

(* The thread that has a task is in a place for tasks.                      *)
HasTask ==
  \A th \in Threads :
    thread[th].at \in {"register", "compile"} \cup Finishing => thread[th].task \in Tasks

Unissued ==
  \A t \in Tasks \ Issued : delivered[t] = 0 /\ future[t] = "pending" /\ t \notin callbacks

InflightIssued ==
  \A k \in Keys : inflight[k] # NoTask => inflight[k] \in Issued /\ keyOf[inflight[k]] = k

(* A pending task was not answered, waits in the queue or in a worker, and  *)
(* its callback is attached or being attached; a resolved one that was not  *)
(* answered is in the hands of the thread that will.                        *)
NothingLost ==
  \A t \in Issued :
    /\ future[t] = "pending" =>
         /\ delivered[t] = 0
         /\ t \in Queued \/ \E w \in Workers : Compiles(w, t)
         /\ t \in callbacks \/ \E c \in Callers : Registers(c, t)
    /\ future[t] # "pending" /\ delivered[t] = 0 =>
         \/ \E c \in Callers : Registers(c, t)
         \/ \E th \in Threads : thread[th].at = "complete" /\ thread[th].task = t

QuietWhenDown ==
  /\ thread[Closer].at # "idle" => closed
  /\ thread[Closer].at = "down" => queue = <<>> /\ \A w \in Workers : thread[w].at = "idle"

Inductive ==
  /\ TypeOK /\ PermitsConserved /\ SingleflightByKey
  /\ Places /\ HasTask /\ QueuedOnce /\ CompilingFits /\ CompiledOnce
  /\ RegisteringFits /\ RegisteredOnce /\ FinishingFits /\ FinishedOnce /\ RegisteredFirst
  /\ Unissued /\ InflightIssued /\ NothingLost /\ QuietWhenDown

-----------------------------------------------------------------------------
LEMMA QueueAppends ==
  ASSUME queue \in Seq(Tasks), NEW t \in Tasks, t \notin Queued, QueueInjective,
         queue' = Append(queue, t)
  PROVE  /\ queue' \in Seq(Tasks)
         /\ Queued' = Queued \cup {t}
         /\ QueueInjective'
<1>1. /\ queue' \in Seq(Tasks) /\ Len(queue') = Len(queue) + 1
      /\ \A i \in 1..Len(queue) : queue'[i] = queue[i]
      /\ queue'[Len(queue) + 1] = t
  BY AppendProperties
<1>2. Len(queue) \in Nat
  OBVIOUS
<1>3. 1..Len(queue') = 1..Len(queue) \cup {Len(queue) + 1}
  BY <1>1, <1>2
<1>4. Queued' = Queued \cup {t}
  BY <1>1, <1>2, <1>3 DEF Queued
<1>5. QueueInjective'
  BY <1>1, <1>2, <1>3 DEF QueueInjective, Queued
<1> QED
  BY <1>1, <1>4, <1>5

LEMMA QueueShrinks ==
  ASSUME queue \in Seq(Tasks), queue # <<>>, QueueInjective, queue' = Tail(queue)
  PROVE  /\ queue' \in Seq(Tasks)
         /\ Head(queue) \in Queued /\ Head(queue) \in Tasks
         /\ Queued' = Queued \ {Head(queue)}
         /\ QueueInjective'
<1>1. /\ queue' \in Seq(Tasks) /\ Len(queue') = Len(queue) - 1
      /\ \A i \in 1..Len(queue') : queue'[i] = queue[i + 1]
      /\ Head(queue) \in Tasks
  BY HeadTailProperties
<1>2. Len(queue) \in Nat \ {0} /\ Head(queue) = queue[1]
  BY EmptySeq
<1>3. Head(queue) \in Queued
  BY <1>2 DEF Queued
<1>4. Queued' = Queued \ {Head(queue)}
  <2>1. ASSUME NEW t \in Queued' PROVE t \in Queued \ {Head(queue)}
    <3>1. PICK i \in 1..Len(queue') : t = queue'[i]
      BY DEF Queued
    <3>2. i + 1 \in 1..Len(queue) /\ t = queue[i + 1] /\ i + 1 # 1
      BY <1>1, <1>2, <3>1
    <3> QED
      BY <1>2, <3>2 DEF Queued, QueueInjective
  <2>2. ASSUME NEW t \in Queued \ {Head(queue)} PROVE t \in Queued'
    <3>1. PICK i \in 1..Len(queue) : t = queue[i]
      BY DEF Queued
    <3>2. i # 1
      BY <1>2, <3>1
    <3>3. i - 1 \in 1..Len(queue') /\ queue'[i - 1] = t
      BY <1>1, <1>2, <3>1, <3>2
    <3> QED
      BY <3>3 DEF Queued
  <2> QED
    BY <2>1, <2>2
<1>5. QueueInjective'
  <2> SUFFICES ASSUME NEW i \in 1..Len(queue'), NEW j \in 1..Len(queue'), queue'[i] = queue'[j]
               PROVE  i = j
    BY DEF QueueInjective
  <2>1. i + 1 \in 1..Len(queue) /\ j + 1 \in 1..Len(queue) /\ queue[i + 1] = queue[j + 1]
    BY <1>1, <1>2
  <2> QED
    BY <2>1 DEF QueueInjective
<1> QED
  BY <1>1, <1>3, <1>4, <1>5

(* Issued tasks are 1..Len(keyOf); a submission issues the next.            *)
LEMMA KeyOfFacts ==
  ASSUME TypeOK
  PROVE  /\ keyOf \in Seq(Keys) /\ Len(keyOf) <= MaxTasks
         /\ Issued = 1..Len(keyOf) /\ Issued \subseteq Tasks
<1>1. PICK m \in 0..MaxTasks : keyOf \in [1..m -> Keys]
  BY DEF TypeOK, BoundedSeq, SeqOf
<1>2. keyOf \in Seq(Keys) /\ Len(keyOf) = m
  BY <1>1, PoolAssumption
<1> QED
  BY <1>1, <1>2, PoolAssumption DEF Issued, Tasks

LEMMA Issues ==
  ASSUME TypeOK, NEW k \in Keys, Len(keyOf) + 1 \in Tasks, keyOf' = Append(keyOf, k)
  PROVE  /\ keyOf' \in BoundedSeq(Keys, MaxTasks)
         /\ Len(keyOf) + 1 \notin Issued
         /\ Issued' = Issued \cup {Len(keyOf) + 1}
         /\ keyOf'[Len(keyOf) + 1] = k
         /\ \A t \in Issued : keyOf'[t] = keyOf[t]
<1>1. /\ keyOf \in Seq(Keys) /\ Issued = 1..Len(keyOf)
      /\ Len(keyOf) \in Nat
  BY KeyOfFacts
<1>2. /\ keyOf' \in Seq(Keys) /\ Len(keyOf') = Len(keyOf) + 1
      /\ \A i \in 1..Len(keyOf) : keyOf'[i] = keyOf[i]
      /\ keyOf'[Len(keyOf) + 1] = k
  BY <1>1, AppendProperties
<1>3. Issued' = 1..Len(keyOf')
  BY <1>2 DEF Issued
<1>4. keyOf' \in [1..Len(keyOf') -> Keys]
  BY <1>2, LenProperties
<1>5. Len(keyOf') \in 0..MaxTasks
  BY <1>1, <1>2, PoolAssumption DEF Tasks
<1> QED
  BY <1>1, <1>2, <1>3, <1>4, <1>5 DEF BoundedSeq, SeqOf

(* Permits are counted by the tasks that hold one.                          *)
LEMMA Counting ==
  ASSUME TypeOK, HasTask
  PROVE  /\ IsFiniteSet(Unreleased) /\ Cardinality(Unreleased) \in Nat /\ Capacity \in Nat
         /\ free \in Int
<1>1. Unreleased \subseteq Tasks
  BY KeyOfFacts DEF Unreleased, HasTask, Finishing
<1>2. IsFiniteSet(Tasks)
  BY PoolAssumption, FS_Interval DEF Tasks
<1>3. IsFiniteSet(Unreleased) /\ Cardinality(Unreleased) \in Nat
  BY <1>1, <1>2, FS_Subset, FS_CardinalityType
<1>4. Capacity \in Nat
  BY PoolAssumption, FS_CardinalityType DEF Capacity
<1> QED
  BY <1>3, <1>4 DEF TypeOK

LEMMA SamePermits ==
  ASSUME PermitsConserved, Unreleased' = Unreleased, free' = free
  PROVE  PermitsConserved'
BY DEF PermitsConserved, Capacity

LEMMA CompletePreserves ==
  ASSUME Inductive, NEW th \in Threads, Complete(th)
  PROVE  Inductive'
<1> USE DEF Inductive
<1> DEFINE t == thread[th].task
<1>1. /\ thread[th].at = "complete" /\ t \in Tasks /\ Finishes(th, t)
      /\ delivered' = [delivered EXCEPT ![t] = @ + 1]
      /\ thread' = [thread EXCEPT ![th] = [at |-> "pop", task |-> t]]
  BY DEF Complete, HasTask, Finishing, Finishes, Goto
<1>2. Queued' = Queued /\ QueueInjective' /\ Issued' = Issued
  BY DEF Complete, Queued, QueueInjective, QueuedOnce, Issued
<1>3. t \in Issued /\ future[t] # "pending" /\ delivered[t] = 0 /\ inflight[keyOf[t]] = t
  BY <1>1 DEF FinishingFits, SingleflightByKey
<1>4. TypeOK' /\ HasTask' /\ Places'
  BY <1>1 DEF Complete, TypeOK, HasTask, Places, Finishing, ThreadStates, NoTask
<1>5. PermitsConserved'
  <2>1. \A s \in Tasks : s \in Unreleased' <=> s \in Unreleased
    BY <1>1, <1>2, <1>3 DEF Unreleased, TypeOK
  <2>2. Unreleased' \subseteq Tasks /\ Unreleased \subseteq Tasks
    BY <1>2, <1>4, KeyOfFacts DEF Unreleased, HasTask, Finishing
  <2> QED
    BY <2>1, <2>2, SamePermits DEF Complete
<1>6. SingleflightByKey'
  BY <1>1, <1>2, <1>3, KeyOfFacts DEF Complete, SingleflightByKey, TypeOK
<1>7. QueuedOnce' /\ CompilingFits' /\ CompiledOnce'
  <2>1. QueuedOnce'
    BY <1>2 DEF Complete, QueuedOnce
  <2>2. \A w \in Workers, s \in Tasks : Compiles(w, s)' => Compiles(w, s)
    BY <1>1 DEF Compiles, Threads, TypeOK
  <2>3. CompilingFits'
    BY <1>2, <2>2 DEF Complete, CompilingFits
  <2>4. CompiledOnce'
    BY <2>2 DEF CompiledOnce
  <2> QED
    BY <2>1, <2>3, <2>4
<1>8. RegisteringFits' /\ RegisteredOnce' /\ RegisteredFirst'
  BY <1>1, <1>2
     DEF Complete, RegisteringFits, RegisteredOnce, RegisteredFirst, Registers,
         Finishes, Finishing, Threads, TypeOK
<1>9. FinishingFits'
  <2> SUFFICES ASSUME NEW x \in Threads, NEW s \in Tasks, Finishes(x, s)'
               PROVE  /\ s \in Issued /\ future[s] # "pending"
                      /\ delivered'[s] = (IF thread'[x].at = "complete" THEN 0 ELSE 1)
                      /\ thread'[x].at = "pop" => inflight[keyOf[s]] = s
    BY <1>2 DEF Complete, FinishingFits
  <2>1. CASE x = th
    BY <1>1, <1>3, <2>1 DEF Finishes, TypeOK
  <2>2. CASE x # th
    <3>1. thread'[x] = thread[x] /\ Finishes(x, s)
      BY <1>1, <2>2 DEF Finishes, TypeOK
    <3>2. s # t
      BY <1>1, <2>2, <3>1 DEF FinishedOnce
    <3> QED
      BY <1>1, <3>1, <3>2 DEF FinishingFits, TypeOK
  <2> QED
    BY <2>1, <2>2
<1>10. FinishedOnce'
  BY <1>1 DEF FinishedOnce, Finishes, Finishing, TypeOK
<1>11. Unissued' /\ InflightIssued' /\ QuietWhenDown'
  BY <1>1, <1>2, <1>3 DEF Complete, Unissued, InflightIssued, QuietWhenDown, Threads, TypeOK
<1>12. NothingLost'
  BY <1>1, <1>2, <1>3, KeyOfFacts
     DEF Complete, NothingLost, Compiles, Registers, Threads, TypeOK
<1> QED
  BY <1>4, <1>5, <1>6, <1>7, <1>8, <1>9, <1>10, <1>11, <1>12

LEMMA PopPreserves ==
  ASSUME Inductive, NEW th \in Threads, Pop(th)
  PROVE  Inductive'
<1> USE DEF Inductive
<1> DEFINE t == thread[th].task
<1>1. /\ thread[th].at = "pop" /\ t \in Tasks /\ Finishes(th, t)
      /\ inflight' = [inflight EXCEPT ![keyOf[t]] = NoTask]
      /\ thread' = [thread EXCEPT ![th] = [at |-> "release", task |-> t]]
  BY DEF Pop, HasTask, Finishing, Finishes, Goto
<1>2. Queued' = Queued /\ QueueInjective' /\ Issued' = Issued
  BY DEF Pop, Queued, QueueInjective, QueuedOnce, Issued
<1>3. /\ t \in Issued /\ future[t] # "pending" /\ delivered[t] = 1 /\ inflight[keyOf[t]] = t
      /\ keyOf[t] \in Keys
  BY <1>1, KeyOfFacts DEF FinishingFits
<1>4. TypeOK' /\ HasTask' /\ Places'
  BY <1>1, <1>3 DEF Pop, TypeOK, HasTask, Places, Finishing, ThreadStates, NoTask
<1>5. PermitsConserved'
  <2>1. \A s \in Tasks : s \in Unreleased' <=> s \in Unreleased
    BY <1>1, <1>2, <1>3 DEF Pop, Unreleased, TypeOK
  <2>2. Unreleased' \subseteq Tasks /\ Unreleased \subseteq Tasks
    BY <1>2, <1>4, KeyOfFacts DEF Unreleased, HasTask, Finishing
  <2> QED
    BY <2>1, <2>2, SamePermits DEF Pop
<1>6. SingleflightByKey'
  <2> SUFFICES ASSUME NEW s \in Issued, delivered[s] = 0
               PROVE  inflight'[keyOf[s]] = s
    BY <1>2 DEF Pop, SingleflightByKey
  <2>1. inflight[keyOf[s]] = s /\ s # t /\ keyOf[s] \in Keys
    BY <1>3, KeyOfFacts DEF SingleflightByKey
  <2> QED
    BY <1>1, <1>3, <2>1 DEF TypeOK
<1>7. QueuedOnce' /\ CompilingFits' /\ CompiledOnce'
  <2>1. QueuedOnce'
    BY <1>2 DEF Pop, QueuedOnce
  <2>2. \A w \in Workers, s \in Tasks : Compiles(w, s)' => Compiles(w, s)
    BY <1>1 DEF Compiles, Threads, TypeOK
  <2>3. CompilingFits'
    BY <1>2, <2>2 DEF Pop, CompilingFits
  <2>4. CompiledOnce'
    BY <2>2 DEF CompiledOnce
  <2> QED
    BY <2>1, <2>3, <2>4
<1>8. RegisteringFits' /\ RegisteredOnce' /\ RegisteredFirst'
  BY <1>1, <1>2
     DEF Pop, RegisteringFits, RegisteredOnce, RegisteredFirst, Registers, Finishes,
         Finishing, Threads, TypeOK
<1>9. FinishingFits'
  <2> SUFFICES ASSUME NEW x \in Threads, NEW s \in Tasks, Finishes(x, s)'
               PROVE  /\ s \in Issued /\ future[s] # "pending"
                      /\ delivered[s] = (IF thread'[x].at = "complete" THEN 0 ELSE 1)
                      /\ thread'[x].at = "pop" => inflight'[keyOf[s]] = s
    BY <1>2 DEF Pop, FinishingFits
  <2>1. CASE x = th
    BY <1>1, <1>3, <2>1 DEF Finishes, TypeOK
  <2>2. CASE x # th
    <3>1. thread'[x] = thread[x] /\ Finishes(x, s)
      BY <1>1, <2>2 DEF Finishes, TypeOK
    <3>2. s # t
      BY <1>1, <2>2, <3>1 DEF FinishedOnce
    <3>3. s \in Issued /\ keyOf[s] \in Keys
      BY <3>1, KeyOfFacts DEF FinishingFits
    <3> QED
      BY <1>1, <1>3, <3>1, <3>2, <3>3 DEF FinishingFits, TypeOK
  <2> QED
    BY <2>1, <2>2
<1>10. FinishedOnce'
  BY <1>1 DEF FinishedOnce, Finishes, Finishing, TypeOK
<1>11. Unissued' /\ InflightIssued' /\ QuietWhenDown'
  <2>1. Unissued' /\ QuietWhenDown'
    BY <1>1, <1>2 DEF Pop, Unissued, QuietWhenDown, Threads, TypeOK
  <2>2. InflightIssued'
    BY <1>1, <1>2, <1>3 DEF Pop, InflightIssued, TypeOK
  <2> QED
    BY <2>1, <2>2
<1>12. NothingLost'
  BY <1>1, <1>2, <1>3 DEF Pop, NothingLost, Compiles, Registers, Threads, TypeOK
<1> QED
  BY <1>4, <1>5, <1>6, <1>7, <1>8, <1>9, <1>10, <1>11, <1>12

LEMMA ReleasePreserves ==
  ASSUME Inductive, NEW th \in Threads, Release(th)
  PROVE  Inductive'
<1> USE DEF Inductive
<1> DEFINE t == thread[th].task
           next == IF th = Closer THEN "cancel" ELSE "idle"
<1>1. /\ thread[th].at = "release" /\ t \in Tasks /\ Finishes(th, t)
      /\ thread' = [thread EXCEPT ![th] = [at |-> next, task |-> NoTask]]
      /\ next \in {"idle", "cancel"} /\ (next = "cancel" <=> th = Closer)
  BY DEF Release, HasTask, Finishing, Finishes, Goto
<1> HIDE DEF next
<1>2. Queued' = Queued /\ QueueInjective' /\ Issued' = Issued
  BY DEF Release, Queued, QueueInjective, QueuedOnce, Issued
<1>3. t \in Issued /\ future[t] # "pending" /\ delivered[t] = 1
  BY <1>1 DEF FinishingFits
<1>4. HasTask' /\ Places'
  BY <1>1, PoolAssumption DEF TypeOK, HasTask, Places, Finishing, Threads
<1>5. PermitsConserved' /\ free' \in 0..Capacity
  <2>1. Unreleased' = Unreleased \ {t}
    <3>1. \A s \in Tasks : s \in Unreleased' <=> s \in Unreleased /\ s # t
      <4>1. \A x \in Threads : x # th => thread'[x] = thread[x]
        BY <1>1 DEF TypeOK
      <4>2. thread'[th].at \notin {"pop", "release"}
        BY <1>1 DEF TypeOK
      <4>3. \A x \in Threads : x # th /\ thread[x].at \in {"pop", "release"} => thread[x].task # t
        BY <1>1 DEF FinishedOnce, Finishes, Finishing
      <4> QED
        BY <1>2, <1>3, <4>1, <4>2, <4>3 DEF Release, Unreleased
    <3>2. Unreleased' \subseteq Tasks /\ Unreleased \subseteq Tasks
      BY <1>2, <1>4, KeyOfFacts DEF Unreleased, HasTask, Finishing
    <3> QED
      BY <3>1, <3>2
  <2>2. t \in Unreleased
    BY <1>1 DEF Unreleased
  <2>3. IsFiniteSet(Unreleased) /\ Cardinality(Unreleased) \in Nat /\ Capacity \in Nat /\ free \in Int
    BY Counting
  <2>4. Cardinality(Unreleased') = Cardinality(Unreleased) - 1 /\ Cardinality(Unreleased') \in Nat
    BY <2>1, <2>2, <2>3, FS_RemoveElement, FS_CardinalityType
  <2>5. free + Cardinality(Unreleased) = Capacity /\ free \in 0..Capacity /\ free' = free + 1
    BY DEF PermitsConserved, TypeOK, Release
  <2>6. Capacity' = Capacity
    BY DEF Capacity
  <2> HIDE DEF Inductive
  <2>7. free' + Cardinality(Unreleased') = Capacity /\ free' \in 0..Capacity
    BY <2>3, <2>4, <2>5
  <2> QED
    BY <2>6, <2>7 DEF PermitsConserved
<1>14. TypeOK'
  BY <1>1, <1>5 DEF Release, TypeOK, ThreadStates, NoTask, Capacity
<1>6. SingleflightByKey'
  BY <1>2 DEF Release, SingleflightByKey
<1>7. QueuedOnce' /\ CompilingFits' /\ CompiledOnce'
  <2>1. QueuedOnce'
    BY <1>2 DEF Release, QueuedOnce
  <2>2. \A w \in Workers, s \in Tasks : Compiles(w, s)' => Compiles(w, s)
    BY <1>1 DEF Compiles, Threads, TypeOK
  <2>3. CompilingFits'
    BY <1>2, <2>2 DEF Release, CompilingFits
  <2>4. CompiledOnce'
    BY <2>2 DEF CompiledOnce
  <2> QED
    BY <2>1, <2>3, <2>4
<1>8. RegisteringFits' /\ RegisteredOnce' /\ RegisteredFirst' /\ FinishingFits' /\ FinishedOnce'
  <2>1. \A x \in Threads, s \in Tasks : Finishes(x, s)' => Finishes(x, s) /\ thread'[x] = thread[x]
    BY <1>1 DEF Finishes, Finishing, TypeOK
  <2>2. \A c \in Callers, s \in Tasks : Registers(c, s)' => Registers(c, s)
    BY <1>1 DEF Registers, Threads, TypeOK
  <2>3. RegisteringFits' /\ RegisteredOnce' /\ RegisteredFirst'
    BY <1>2, <2>1, <2>2 DEF Release, RegisteringFits, RegisteredOnce, RegisteredFirst, Threads
  <2>4. FinishingFits'
    BY <1>2, <2>1 DEF Release, FinishingFits
  <2>5. FinishedOnce'
    BY <2>1 DEF FinishedOnce
  <2> QED
    BY <2>3, <2>4, <2>5
<1>11. Unissued' /\ InflightIssued' /\ QuietWhenDown'
  <2>1. thread[Closer].at # "idle" => thread'[Closer].at # "idle"
    BY <1>1 DEF Threads, TypeOK
  <2>2. thread'[Closer].at = "down" => thread[Closer].at = "down"
    BY <1>1 DEF Threads, TypeOK
  <2>3. thread'[Closer].at # "idle" => thread[Closer].at # "idle"
    BY <1>1 DEF Threads, TypeOK
  <2>4. \A w \in Workers : thread[w].at = "idle" => thread'[w].at = "idle"
    BY <1>1 DEF Threads, TypeOK
  <2>5. QuietWhenDown'
    BY <2>2, <2>3, <2>4 DEF Release, QuietWhenDown
  <2>6. Unissued' /\ InflightIssued'
    BY <1>2 DEF Release, Unissued, InflightIssued
  <2> QED
    BY <2>5, <2>6
<1>12. NothingLost'
  BY <1>1, <1>2, <1>3 DEF Release, NothingLost, Compiles, Registers, Threads, TypeOK
<1> QED
  BY <1>4, <1>5, <1>14, <1>6, <1>7, <1>8, <1>11, <1>12

(* A thread that has no task goes from one place to another.                *)
LEMMA MovePreserves ==
  ASSUME Inductive, NEW th \in Threads,
         NEW place \in {"idle", "drain", "join", "cancel", "left", "down"},
         thread[th].at \notin {"register", "compile"} \cup Finishing,
         Goto(th, place, NoTask), closed' \in BOOLEAN,
         UNCHANGED <<inflight, free, queue, future, callbacks, invocation, keyOf, delivered>>,
         Places', QuietWhenDown'
  PROVE  Inductive'
<1> USE DEF Inductive
<1>1. thread' = [thread EXCEPT ![th] = [at |-> place, task |-> NoTask]]
  BY DEF Goto
<1>2. Queued' = Queued /\ QueueInjective' /\ Issued' = Issued
  BY DEF Queued, QueueInjective, QueuedOnce, Issued
<1>3. TypeOK' /\ HasTask'
  BY <1>1 DEF TypeOK, HasTask, Finishing, ThreadStates, NoTask, Capacity
<1>4. /\ \A w \in Workers, s \in Tasks : Compiles(w, s)' <=> Compiles(w, s)
      /\ \A c \in Callers, s \in Tasks : Registers(c, s)' <=> Registers(c, s)
      /\ \A x \in Threads, s \in Tasks : Finishes(x, s)' <=> Finishes(x, s)
  BY <1>1 DEF Compiles, Registers, Finishes, Finishing, Threads, TypeOK
<1>5. \A x \in Threads : thread'[x].at \in Finishing => thread'[x] = thread[x]
  BY <1>1 DEF Finishing, TypeOK
<1>6. PermitsConserved'
  <2>1. \A s \in Tasks : s \in Unreleased' <=> s \in Unreleased
    BY <1>1, <1>2 DEF Unreleased, TypeOK, Finishing
  <2>2. Unreleased' \subseteq Tasks /\ Unreleased \subseteq Tasks
    BY <1>2, <1>3, KeyOfFacts DEF Unreleased, HasTask, Finishing
  <2> QED
    BY <2>1, <2>2, SamePermits
<1>7. SingleflightByKey' /\ Unissued' /\ InflightIssued'
  BY <1>2 DEF SingleflightByKey, Unissued, InflightIssued
<1>8. QueuedOnce' /\ CompilingFits' /\ CompiledOnce'
  <2>1. QueuedOnce'
    BY <1>2 DEF QueuedOnce
  <2>2. CompilingFits'
    BY <1>2, <1>4 DEF CompilingFits
  <2>3. CompiledOnce'
    BY <1>4 DEF CompiledOnce
  <2> QED
    BY <2>1, <2>2, <2>3
<1>9. RegisteringFits' /\ RegisteredOnce' /\ RegisteredFirst'
  BY <1>2, <1>4 DEF RegisteringFits, RegisteredOnce, RegisteredFirst, Threads
<1>10. FinishingFits' /\ FinishedOnce'
  <2>1. FinishingFits'
    BY <1>2, <1>4, <1>5 DEF FinishingFits, Finishes
  <2>2. FinishedOnce'
    BY <1>4 DEF FinishedOnce
  <2> QED
    BY <2>1, <2>2
<1>11. NothingLost'
  <2>1. \A x \in Threads, s \in Tasks :
          thread[x].at = "complete" /\ thread[x].task = s =>
            thread'[x].at = "complete" /\ thread'[x].task = s
    BY <1>1 DEF Finishing, TypeOK
  <2>2. \A s \in Issued : s \in Tasks
    BY KeyOfFacts
  <2> QED
    BY <1>2, <1>4, <2>1, <2>2 DEF NothingLost
<1> QED
  BY <1>3, <1>6, <1>7, <1>8, <1>9, <1>10, <1>11

LEMMA DrainsPreserve ==
  ASSUME Inductive, NEW c \in Callers, DrainCall(c) \/ DrainReturn(c)
  PROVE  Inductive'
<1>1. /\ c \in Threads /\ c # Closer /\ c \notin Workers
      /\ thread[c].at \notin {"register", "compile"} \cup Finishing
  BY PoolAssumption DEF DrainCall, DrainReturn, Threads, Finishing
<1>2. PICK place \in {"idle", "drain"} : Goto(c, place, NoTask)
  BY DEF DrainCall, DrainReturn
<1>3. thread' = [thread EXCEPT ![c] = [at |-> place, task |-> NoTask]]
  BY <1>2 DEF Goto
<1>4. /\ closed' = closed /\ closed' \in BOOLEAN
      /\ UNCHANGED <<inflight, free, queue, future, callbacks, invocation, keyOf, delivered>>
  BY DEF Inductive, TypeOK, DrainCall, DrainReturn
<1>5. Places' /\ QuietWhenDown'
  BY <1>1, <1>3, <1>4 DEF Inductive, Places, QuietWhenDown, Threads, TypeOK
<1> QED
  BY <1>1, <1>2, <1>4, <1>5, MovePreserves

LEMMA ClosingPreserves ==
  ASSUME Inductive, (\E wait \in BOOLEAN : Shutdown(wait)) \/ Join \/ CancelDone
  PROVE  Inductive'
<1>1. /\ Closer \in Threads /\ Closer \notin Workers \cup Callers
      /\ thread[Closer].at \notin {"register", "compile"} \cup Finishing
  BY PoolAssumption DEF Shutdown, Join, CancelDone, Threads, Finishing
<1>2. PICK place \in {"join", "cancel", "left", "down"} :
        /\ Goto(Closer, place, NoTask)
        /\ place = "down" => queue = <<>> /\ \A w \in Workers : thread[w].at = "idle"
  BY DEF Shutdown, Join, CancelDone
<1>3. thread' = [thread EXCEPT ![Closer] = [at |-> place, task |-> NoTask]]
  BY <1>2 DEF Goto
<1>4. /\ closed' = TRUE
      /\ UNCHANGED <<inflight, free, queue, future, callbacks, invocation, keyOf, delivered>>
  BY DEF Inductive, TypeOK, QuietWhenDown, Shutdown, Join, CancelDone
<1>5. Places'
  BY <1>1, <1>3 DEF Inductive, Places, Threads, TypeOK
<1>6. QuietWhenDown'
  <2>1. thread'[Closer].at = place /\ \A w \in Workers : thread'[w] = thread[w]
    BY <1>1, <1>3 DEF Inductive, TypeOK, Threads
  <2> QED
    BY <1>2, <1>4, <2>1 DEF QuietWhenDown
<1> QED
  BY <1>1, <1>2, <1>4, <1>5, <1>6, MovePreserves

LEMMA SubmitPreserves ==
  ASSUME Inductive, NEW c \in Callers, NEW k \in Keys, Submit(c, k)
  PROVE  Inductive'
<1> USE DEF Inductive
<1> DEFINE t == Len(keyOf) + 1
<1>1. /\ thread[c].at = "idle" /\ c \in Threads /\ t \in Tasks /\ ~closed
      /\ inflight[k] = NoTask /\ free > 0
      /\ thread' = [thread EXCEPT ![c] = [at |-> "register", task |-> t]]
      /\ inflight' = [inflight EXCEPT ![k] = t]
      /\ c # Closer /\ c \notin Workers
  BY PoolAssumption DEF Submit, Goto, Threads
<1>2. /\ keyOf' \in BoundedSeq(Keys, MaxTasks) /\ t \notin Issued
      /\ Issued' = Issued \cup {t} /\ keyOf'[t] = k
      /\ \A s \in Issued : keyOf'[s] = keyOf[s]
  BY <1>1, Issues DEF Submit
<1> HIDE DEF t
<1>3. /\ Issued \subseteq Tasks /\ \A s \in Issued : keyOf[s] \in Keys
      /\ \A s \in Issued : keyOf[s] = k => delivered[s] # 0
  <2>1. Issued \subseteq Tasks /\ \A s \in Issued : keyOf[s] \in Keys
    BY KeyOfFacts
  <2>2. \A s \in Tasks : s # NoTask
    BY DEF Tasks, NoTask
  <2> QED
    BY <1>1, <2>1, <2>2 DEF SingleflightByKey
<1>4. t \notin Queued /\ future[t] = "pending" /\ delivered[t] = 0 /\ t \notin callbacks
  BY <1>1, <1>2 DEF QueuedOnce, Unissued
<1>5. queue' \in Seq(Tasks) /\ Queued' = Queued \cup {t} /\ QueueInjective'
  <2>1. queue \in Seq(Tasks) /\ queue' = Append(queue, t) /\ QueueInjective
    BY DEF Submit, TypeOK, QueuedOnce, t
  <2> HIDE DEF Inductive
  <2> QED
    BY <1>1, <1>4, <2>1, QueueAppends
<1>6. /\ \A w \in Workers, s \in Tasks : Compiles(w, s)' <=> Compiles(w, s)
      /\ \A d \in Callers, s \in Tasks :
           Registers(d, s)' <=> Registers(d, s) \/ (d = c /\ s = t)
      /\ \A x \in Threads, s \in Tasks : Finishes(x, s)' <=> Finishes(x, s)
      /\ \A x \in Threads : x # c => thread'[x] = thread[x]
      /\ thread'[c] = [at |-> "register", task |-> t]
  BY <1>1 DEF Compiles, Registers, Finishes, Finishing, Threads, TypeOK
<1>7. /\ \A w \in Workers, s \in Tasks : Compiles(w, s) => s # t
      /\ \A d \in Callers, s \in Tasks : Registers(d, s) => s # t
      /\ \A x \in Threads, s \in Tasks : Finishes(x, s) => s # t
  BY <1>2 DEF CompilingFits, RegisteringFits, FinishingFits
<1>8. HasTask' /\ Places'
  BY <1>1, <1>6 DEF HasTask, Places, Finishing, Threads
<1>9. PermitsConserved' /\ free' \in 0..Capacity
  <2>1. Unreleased' = Unreleased \cup {t} /\ t \notin Unreleased
    BY <1>1, <1>2, <1>4, <1>6, <1>7 DEF Submit, Unreleased, Finishes, Finishing
  <2>2. IsFiniteSet(Unreleased) /\ Cardinality(Unreleased) \in Nat /\ Capacity \in Nat /\ free \in Int
    BY Counting
  <2>3. Cardinality(Unreleased') = Cardinality(Unreleased) + 1
    BY <2>1, <2>2, FS_AddElement
  <2>4. free + Cardinality(Unreleased) = Capacity /\ free' = free - 1 /\ free > 0 /\ free <= Capacity
    BY <2>2 DEF PermitsConserved, TypeOK, Submit
  <2>5. Capacity' = Capacity
    BY DEF Capacity
  <2> HIDE DEF Inductive
  <2>6. free' + Cardinality(Unreleased') = Capacity /\ free' \in 0..Capacity
    BY <2>2, <2>3, <2>4
  <2> QED
    BY <2>5, <2>6 DEF PermitsConserved
<1>10. TypeOK'
  BY <1>1, <1>2, <1>5, <1>9 DEF Submit, TypeOK, ThreadStates, Capacity
<1>11. SingleflightByKey'
  <2> SUFFICES ASSUME NEW s \in Issued', delivered[s] = 0
               PROVE  inflight'[keyOf'[s]] = s
    BY DEF Submit, SingleflightByKey
  <2>1. CASE s = t
    BY <1>1, <1>2, <2>1 DEF TypeOK
  <2>2. CASE s # t
    <3>1. s \in Issued /\ keyOf'[s] = keyOf[s] /\ keyOf[s] \in Keys /\ keyOf[s] # k
      BY <1>2, <1>3, <2>2
    <3> QED
      BY <1>1, <3>1 DEF SingleflightByKey, TypeOK
  <2> QED
    BY <2>1, <2>2
<1>12. QueuedOnce'
  BY <1>2, <1>4, <1>5 DEF Submit, QueuedOnce
<1>13. CompilingFits' /\ CompiledOnce'
  <2>1. CompilingFits'
    BY <1>2, <1>5, <1>6, <1>7 DEF Submit, CompilingFits
  <2>2. CompiledOnce'
    BY <1>6 DEF CompiledOnce
  <2> QED
    BY <2>1, <2>2
<1>14. RegisteringFits' /\ RegisteredOnce' /\ RegisteredFirst'
  <2>1. RegisteringFits'
    BY <1>2, <1>4, <1>6 DEF Submit, RegisteringFits
  <2>2. RegisteredOnce'
    BY <1>6, <1>7 DEF RegisteredOnce
  <2>3. RegisteredFirst'
    BY <1>6, <1>7 DEF RegisteredFirst
  <2> QED
    BY <2>1, <2>2, <2>3
<1>15. FinishingFits'
  <2> SUFFICES ASSUME NEW x \in Threads, NEW s \in Tasks, Finishes(x, s)'
               PROVE  /\ s \in Issued' /\ future[s] # "pending"
                      /\ delivered[s] = (IF thread'[x].at = "complete" THEN 0 ELSE 1)
                      /\ thread'[x].at = "pop" => inflight'[keyOf'[s]] = s
    BY DEF Submit, FinishingFits
  <2>1. /\ Finishes(x, s) /\ x # c /\ thread'[x] = thread[x]
        /\ s \in Issued /\ keyOf'[s] = keyOf[s] /\ keyOf[s] \in Keys /\ s # NoTask
    BY <1>1, <1>2, <1>3, <1>6 DEF FinishingFits, Finishes, Finishing, Tasks, NoTask
  <2>2. thread[x].at = "pop" => inflight[keyOf[s]] = s /\ keyOf[s] # k
    BY <1>1, <2>1 DEF FinishingFits
  <2> QED
    BY <1>1, <1>2, <2>1, <2>2 DEF FinishingFits, TypeOK
<1>16. FinishedOnce'
  BY <1>6 DEF FinishedOnce
<1>17. Unissued' /\ InflightIssued'
  <2>1. Unissued'
    BY <1>2 DEF Submit, Unissued
  <2>2. InflightIssued'
    BY <1>1, <1>2 DEF InflightIssued, TypeOK
  <2> QED
    BY <2>1, <2>2
<1>18. QuietWhenDown'
  BY <1>1, <1>6, PoolAssumption DEF Submit, QuietWhenDown, Threads
<1>19. NothingLost'
  <2> SUFFICES ASSUME NEW s \in Issued'
               PROVE  /\ future[s] = "pending" =>
                           /\ delivered[s] = 0
                           /\ s \in Queued' \/ \E w \in Workers : Compiles(w, s)'
                           /\ s \in callbacks \/ \E d \in Callers : Registers(d, s)'
                      /\ future[s] # "pending" /\ delivered[s] = 0 =>
                           \/ \E d \in Callers : Registers(d, s)'
                           \/ \E x \in Threads : thread'[x].at = "complete" /\ thread'[x].task = s
    BY DEF Submit, NothingLost
  <2>1. CASE s = t
    BY <1>1, <1>4, <1>5, <1>6, <2>1
  <2>2. CASE s # t
    <3>1. s \in Issued /\ s \in Tasks
      BY <1>2, <1>3, <2>2
    <3>2. \A x \in Threads : thread[x].at = "complete" => thread'[x] = thread[x]
      BY <1>1, <1>6
    <3> QED
      BY <1>5, <1>6, <3>1, <3>2 DEF NothingLost
  <2> QED
    BY <2>1, <2>2
<1> QED
  BY <1>8, <1>9, <1>10, <1>11, <1>12, <1>13, <1>14, <1>15, <1>16, <1>17, <1>18, <1>19

LEMMA RegisterPreserves ==
  ASSUME Inductive, NEW c \in Callers, Register(c)
  PROVE  Inductive'
<1> USE DEF Inductive
<1> DEFINE t == thread[c].task
<1>1. /\ thread[c].at = "register" /\ t \in Tasks /\ c \in Threads
      /\ c # Closer /\ c \notin Workers /\ Registers(c, t)
  BY PoolAssumption DEF Register, HasTask, Threads, Registers
<1>2. Queued' = Queued /\ QueueInjective' /\ Issued' = Issued
  BY DEF Register, Queued, QueueInjective, QueuedOnce, Issued
<1>3. t \in Issued /\ t \notin callbacks /\ delivered[t] = 0 /\ inflight[keyOf[t]] = t
  BY <1>1 DEF RegisteringFits, SingleflightByKey
<1>4. PICK place \in {"complete", "idle"} :
        /\ thread' = [thread EXCEPT ![c] =
             [at |-> place, task |-> IF place = "complete" THEN t ELSE NoTask]]
        /\ place = "complete" => future[t] # "pending" /\ callbacks' = callbacks
        /\ place = "idle" => future[t] = "pending" /\ callbacks' = callbacks \cup {t}
  BY <1>3 DEF Register, Goto, Resolved
<1>5. /\ \A x \in Threads : x # c => thread'[x] = thread[x]
      /\ thread'[c].at = place
      /\ place = "complete" => thread'[c].task = t
  BY <1>1, <1>4 DEF TypeOK
<1>6. /\ \A w \in Workers, s \in Tasks : Compiles(w, s)' <=> Compiles(w, s)
      /\ \A d \in Callers, s \in Tasks : Registers(d, s)' <=> Registers(d, s) /\ d # c
      /\ \A x \in Threads, s \in Tasks :
           Finishes(x, s)' <=> Finishes(x, s) \/ (x = c /\ s = t /\ place = "complete")
  BY <1>1, <1>5 DEF Compiles, Registers, Finishes, Finishing, Threads
<1>7. TypeOK'
  BY <1>1, <1>4 DEF Register, TypeOK, ThreadStates, NoTask, Capacity
<1>8. HasTask' /\ Places'
  BY <1>1, <1>5 DEF HasTask, Places, Finishing, Threads
<1>9. PermitsConserved'
  <2>1. \A x \in Threads : thread'[x].at \in {"pop", "release"} <=> thread[x].at \in {"pop", "release"}
    BY <1>1, <1>5
  <2>2. Unreleased' = Unreleased
    BY <1>1, <1>2, <1>5, <2>1 DEF Register, Unreleased
  <2> QED
    BY <2>2, SamePermits DEF Register
<1>10. SingleflightByKey' /\ InflightIssued'
  BY <1>2 DEF Register, SingleflightByKey, InflightIssued
<1>11. QueuedOnce' /\ CompilingFits' /\ CompiledOnce'
  <2>1. QueuedOnce'
    BY <1>2 DEF Register, QueuedOnce
  <2>2. CompilingFits'
    BY <1>2, <1>6 DEF Register, CompilingFits
  <2>3. CompiledOnce'
    BY <1>6 DEF CompiledOnce
  <2> QED
    BY <2>1, <2>2, <2>3
<1>12. \A d \in Callers, s \in Tasks : Registers(d, s)' => s # t
  BY <1>1, <1>6 DEF RegisteredOnce
<1>13. RegisteringFits' /\ RegisteredOnce' /\ RegisteredFirst'
  <2>1. RegisteringFits'
    BY <1>2, <1>4, <1>6, <1>12 DEF Register, RegisteringFits
  <2>2. RegisteredOnce'
    BY <1>6 DEF RegisteredOnce
  <2>3. RegisteredFirst'
    BY <1>6, <1>12 DEF RegisteredFirst
  <2> QED
    BY <2>1, <2>2, <2>3
<1>14. FinishingFits' /\ FinishedOnce'
  <2>1. FinishingFits'
    <3> SUFFICES ASSUME NEW x \in Threads, NEW s \in Tasks, Finishes(x, s)'
                 PROVE  /\ s \in Issued /\ future[s] # "pending"
                        /\ delivered[s] = (IF thread'[x].at = "complete" THEN 0 ELSE 1)
                        /\ thread'[x].at = "pop" => inflight[keyOf[s]] = s
      BY <1>2 DEF Register, FinishingFits
    <3>1. CASE Finishes(x, s)
      <4>1. x # c
        BY <1>1, <3>1 DEF Finishes, Finishing
      <4> QED
        BY <1>5, <3>1, <4>1 DEF FinishingFits
    <3>2. CASE x = c /\ s = t /\ place = "complete"
      BY <1>3, <1>4, <1>5, <3>2
    <3> QED
      BY <1>6, <3>1, <3>2
  <2>2. FinishedOnce'
    BY <1>1, <1>6 DEF FinishedOnce, RegisteredFirst
  <2> QED
    BY <2>1, <2>2
<1>15. Unissued'
  BY <1>2, <1>3, <1>4 DEF Register, Unissued
<1>16. QuietWhenDown'
  BY <1>1, <1>5 DEF Register, QuietWhenDown, Threads
<1>17. NothingLost'
  <2> SUFFICES ASSUME NEW s \in Issued
               PROVE  /\ future[s] = "pending" =>
                           /\ delivered[s] = 0
                           /\ s \in Queued \/ \E w \in Workers : Compiles(w, s)'
                           /\ s \in callbacks' \/ \E d \in Callers : Registers(d, s)'
                      /\ future[s] # "pending" /\ delivered[s] = 0 =>
                           \/ \E d \in Callers : Registers(d, s)'
                           \/ \E x \in Threads : thread'[x].at = "complete" /\ thread'[x].task = s
    BY <1>2 DEF Register, NothingLost
  <2>1. CASE s = t
    BY <1>1, <1>4, <1>5, <1>6, <2>1 DEF NothingLost
  <2>2. CASE s # t
    <3>1. s \in Tasks /\ callbacks \subseteq callbacks'
      BY <1>4, KeyOfFacts
    <3>2. \A d \in Callers : Registers(d, s) => Registers(d, s)'
      BY <1>6, <2>2, <3>1 DEF Registers
    <3>3. \A x \in Threads : thread[x].at = "complete" => thread'[x] = thread[x]
      BY <1>1, <1>5
    <3> QED
      BY <1>6, <3>1, <3>2, <3>3 DEF NothingLost
  <2> QED
    BY <2>1, <2>2
<1> QED
  BY <1>7, <1>8, <1>9, <1>10, <1>11, <1>13, <1>14, <1>15, <1>16, <1>17

LEMMA TakePreserves ==
  ASSUME Inductive, NEW w \in Workers, Take(w)
  PROVE  Inductive'
<1> USE DEF Inductive
<1> DEFINE t == Head(queue)
<1>1. /\ queue' \in Seq(Tasks) /\ t \in Queued /\ t \in Tasks
      /\ Queued' = Queued \ {t} /\ QueueInjective'
  <2>1. queue \in Seq(Tasks) /\ queue # <<>> /\ QueueInjective /\ queue' = Tail(queue)
    BY DEF Take, TypeOK, QueuedOnce
  <2> HIDE DEF Inductive
  <2> QED
    BY <2>1, QueueShrinks
<1>2. /\ thread[w].at = "idle" /\ w \in Threads /\ w # Closer /\ w \notin Callers
      /\ queue # <<>> /\ Issued' = Issued
      /\ thread' = [thread EXCEPT ![w] = [at |-> "compile", task |-> t]]
  BY PoolAssumption DEF Take, Goto, Threads, Issued
<1> HIDE DEF t
<1>3. t \in Issued /\ future[t] = "pending"
  BY <1>1 DEF QueuedOnce
<1>4. /\ \A x \in Threads : x # w => thread'[x] = thread[x]
      /\ thread'[w] = [at |-> "compile", task |-> t]
  BY <1>2 DEF TypeOK
<1>5. /\ \A v \in Workers, s \in Tasks :
           Compiles(v, s)' <=> (Compiles(v, s) /\ v # w) \/ (v = w /\ s = t)
      /\ \A c \in Callers, s \in Tasks : Registers(c, s)' <=> Registers(c, s)
      /\ \A x \in Threads, s \in Tasks : Finishes(x, s)' <=> Finishes(x, s)
      /\ \A x \in Threads : thread'[x].at \in Finishing => thread'[x] = thread[x]
      /\ \A x \in Threads : thread[x].at \in Finishing => thread'[x] = thread[x]
  BY <1>2, <1>4 DEF Compiles, Registers, Finishes, Finishing, Threads
<1>6. \A v \in Workers, s \in Tasks : Compiles(v, s) => s # t
  BY <1>1 DEF CompilingFits
<1>7. TypeOK'
  BY <1>1, <1>2 DEF Take, TypeOK, ThreadStates, Capacity, t
<1>8. HasTask' /\ Places'
  BY <1>1, <1>2, <1>4 DEF HasTask, Places, Finishing, Threads
<1>9. PermitsConserved'
  <2>1. Unreleased' = Unreleased
    BY <1>2, <1>5 DEF Take, Unreleased, Finishing
  <2> QED
    BY <2>1, SamePermits DEF Take
<1>10. SingleflightByKey' /\ InflightIssued' /\ Unissued'
  BY <1>2 DEF Take, SingleflightByKey, InflightIssued, Unissued
<1>11. QueuedOnce' /\ CompilingFits' /\ CompiledOnce'
  <2>1. QueuedOnce'
    BY <1>1, <1>2 DEF Take, QueuedOnce
  <2>2. CompilingFits'
    BY <1>1, <1>2, <1>3, <1>5 DEF Take, CompilingFits
  <2>3. CompiledOnce'
    BY <1>5, <1>6 DEF CompiledOnce
  <2> QED
    BY <2>1, <2>2, <2>3
<1>12. RegisteringFits' /\ RegisteredOnce' /\ RegisteredFirst'
  BY <1>2, <1>5 DEF Take, RegisteringFits, RegisteredOnce, RegisteredFirst
<1>13. FinishingFits' /\ FinishedOnce'
  <2>1. FinishingFits'
    BY <1>2, <1>5 DEF Take, FinishingFits, Finishes
  <2>2. FinishedOnce'
    BY <1>5 DEF FinishedOnce
  <2> QED
    BY <2>1, <2>2
<1>14. QuietWhenDown'
  BY <1>2, <1>4 DEF Take, QuietWhenDown, Threads
<1>15. NothingLost'
  <2> SUFFICES ASSUME NEW s \in Issued
               PROVE  /\ future[s] = "pending" =>
                           /\ delivered[s] = 0
                           /\ s \in Queued' \/ \E v \in Workers : Compiles(v, s)'
                           /\ s \in callbacks \/ \E c \in Callers : Registers(c, s)'
                      /\ future[s] # "pending" /\ delivered[s] = 0 =>
                           \/ \E c \in Callers : Registers(c, s)'
                           \/ \E x \in Threads : thread'[x].at = "complete" /\ thread'[x].task = s
    BY <1>2 DEF Take, NothingLost
  <2>1. s \in Tasks
    BY KeyOfFacts
  <2>2. \A v \in Workers : Compiles(v, s) => Compiles(v, s)'
    BY <1>2, <1>5, <2>1 DEF Compiles
  <2>3. \A x \in Threads : thread[x].at = "complete" => thread'[x] = thread[x]
    BY <1>5 DEF Finishing
  <2>4. s \in Queued => s \in Queued' \/ Compiles(w, s)'
    BY <1>1, <1>5, <2>1
  <2> QED
    BY <1>5, <2>1, <2>2, <2>3, <2>4 DEF NothingLost
<1> QED
  BY <1>7, <1>8, <1>9, <1>10, <1>11, <1>12, <1>13, <1>14, <1>15

(* A future that is pending is resolved by the one who has its task: the    *)
(* worker that compiles it, or the closing thread that took it from the     *)
(* queue; that thread runs finish() when the callback is attached.          *)
LEMMA ResolvePreserves ==
  ASSUME Inductive, NEW th \in Workers \cup {Closer}, NEW t \in Issued,
         NEW outcome \in {"value", "error", "timeout", "cancelled"},
         NEW place \in {"complete", "idle", "cancel"},
         future[t] = "pending", future' = [future EXCEPT ![t] = outcome],
         thread[th].at = (IF th = Closer THEN "cancel" ELSE "compile"),
         thread' \in [Threads -> ThreadStates],
         \A x \in Threads : x # th => thread'[x] = thread[x],
         thread'[th].at = place,
         place = "complete" <=> t \in callbacks,
         place = "complete" => thread'[th].task = t,
         place = "cancel" => th = Closer,
         place = "idle" => th # Closer,
         queue' \in Seq(Tasks), QueueInjective', Queued' = Queued \ {t},
         queue = <<>> => queue' = <<>>,
         \A w \in Workers, s \in Tasks : Compiles(w, s) => (w = th <=> s = t),
         invocation' \in [Tasks -> {"none", "running", "returned"}],
         UNCHANGED <<closed, inflight, free, callbacks, keyOf, delivered>>
  PROVE  Inductive'
<1> USE DEF Inductive
<1>1. /\ th \in Threads /\ th \notin Callers /\ Closer \notin Workers \cup Callers
      /\ Closer \in Threads /\ Issued' = Issued /\ t \in Tasks /\ Issued \subseteq Tasks
  BY PoolAssumption, KeyOfFacts DEF Threads, Issued
<1>2. /\ delivered[t] = 0 /\ inflight[keyOf[t]] = t
      /\ t \in callbacks \/ \E c \in Callers : Registers(c, t)
  BY DEF NothingLost, SingleflightByKey
<1>3. /\ future'[t] # "pending"
      /\ \A s \in Tasks : s # t => future'[s] = future[s]
  BY <1>1 DEF TypeOK
<1>4. /\ \A w \in Workers, s \in Tasks : Compiles(w, s)' <=> Compiles(w, s) /\ s # t
      /\ \A c \in Callers, s \in Tasks : Registers(c, s)' <=> Registers(c, s)
      /\ \A x \in Threads, s \in Tasks :
           Finishes(x, s)' <=> Finishes(x, s) \/ (x = th /\ s = t /\ place = "complete")
  BY <1>1 DEF Compiles, Registers, Finishes, Finishing, Threads
<1>5. \A x \in Threads : ~Finishes(x, t)
  BY <1>1 DEF FinishingFits
<1>6. TypeOK'
  BY <1>1 DEF TypeOK, Capacity
<1>7. HasTask' /\ Places'
  BY <1>1 DEF HasTask, Places, Finishing, Threads
<1>8. PermitsConserved'
  <2>1. \A x \in Threads :
          (thread[x].at \in {"pop", "release"} \/ thread'[x].at \in {"pop", "release"})
            => thread'[x] = thread[x]
    OBVIOUS
  <2>2. {x \in Threads : thread'[x].at \in {"pop", "release"}}
          = {x \in Threads : thread[x].at \in {"pop", "release"}}
    BY <2>1
  <2> HIDE DEF Inductive
  <2>3. Unreleased' = Unreleased
    BY <1>1, <2>1, <2>2 DEF Unreleased
  <2> QED
    BY <2>3, SamePermits DEF Inductive
<1>9. SingleflightByKey' /\ InflightIssued' /\ Unissued'
  <2>1. SingleflightByKey' /\ InflightIssued'
    BY <1>1 DEF SingleflightByKey, InflightIssued
  <2>2. Unissued'
    BY <1>1, <1>3 DEF Unissued
  <2> QED
    BY <2>1, <2>2
<1>10. QueuedOnce' /\ CompilingFits' /\ CompiledOnce'
  <2>1. QueuedOnce'
    <3> SUFFICES ASSUME NEW s \in Queued' PROVE s \in Issued /\ future'[s] = "pending"
      BY <1>1 DEF QueuedOnce
    <3>1. s \in Queued /\ s # t
      OBVIOUS
    <3>2. s \in Issued /\ future[s] = "pending"
      BY <3>1 DEF QueuedOnce
    <3> QED
      BY <1>1, <1>3, <3>1, <3>2
  <2>2. CompilingFits'
    BY <1>1, <1>3, <1>4 DEF CompilingFits
  <2>3. CompiledOnce'
    BY <1>4 DEF CompiledOnce
  <2> QED
    BY <2>1, <2>2, <2>3
<1>11. RegisteringFits' /\ RegisteredOnce' /\ RegisteredFirst'
  <2>1. RegisteringFits'
    BY <1>1, <1>4 DEF RegisteringFits
  <2>2. RegisteredOnce'
    BY <1>4 DEF RegisteredOnce
  <2>3. RegisteredFirst'
    BY <1>4 DEF RegisteredFirst, RegisteringFits
  <2> QED
    BY <2>1, <2>2, <2>3
<1>12. FinishingFits' /\ FinishedOnce'
  <2>1. FinishingFits'
    <3> SUFFICES ASSUME NEW x \in Threads, NEW s \in Tasks, Finishes(x, s)'
                 PROVE  /\ s \in Issued /\ future'[s] # "pending"
                        /\ delivered[s] = (IF thread'[x].at = "complete" THEN 0 ELSE 1)
                        /\ thread'[x].at = "pop" => inflight[keyOf[s]] = s
      BY <1>1 DEF FinishingFits
    <3>1. CASE Finishes(x, s)
      <4>1. x # th /\ s # t
        BY <1>5, <3>1 DEF Finishes, Finishing
      <4> QED
        BY <1>3, <3>1, <4>1 DEF FinishingFits
    <3>2. CASE x = th /\ s = t /\ place = "complete"
      BY <1>2, <1>3, <3>2
    <3> QED
      BY <1>4, <3>1, <3>2
  <2>2. FinishedOnce'
    BY <1>4, <1>5 DEF FinishedOnce
  <2> QED
    BY <2>1, <2>2
<1>13. QuietWhenDown'
  <2>1. CASE th = Closer
    BY <2>1 DEF QuietWhenDown
  <2>2. CASE th # Closer
    <3>1. th \in Workers /\ thread[th].at # "idle" /\ thread'[Closer] = thread[Closer]
      BY <1>1, <2>2
    <3> QED
      BY <3>1 DEF QuietWhenDown
  <2> QED
    BY <2>1, <2>2
<1>14. NothingLost'
  <2> SUFFICES ASSUME NEW s \in Issued
               PROVE  /\ future'[s] = "pending" =>
                           /\ delivered[s] = 0
                           /\ s \in Queued' \/ \E v \in Workers : Compiles(v, s)'
                           /\ s \in callbacks \/ \E c \in Callers : Registers(c, s)'
                      /\ future'[s] # "pending" /\ delivered[s] = 0 =>
                           \/ \E c \in Callers : Registers(c, s)'
                           \/ \E x \in Threads : thread'[x].at = "complete" /\ thread'[x].task = s
    BY <1>1 DEF NothingLost
  <2>1. CASE s = t
    BY <1>1, <1>2, <1>3, <1>4, <2>1
  <2>2. CASE s # t
    <3>1. s \in Tasks /\ future'[s] = future[s]
      BY <1>1, <1>3, <2>2
    <3>2. \A x \in Threads : thread[x].at = "complete" => thread'[x] = thread[x]
      OBVIOUS
    <3> QED
      BY <1>4, <2>2, <3>1, <3>2 DEF NothingLost
  <2> QED
    BY <2>1, <2>2
<1> QED
  BY <1>6, <1>7, <1>8, <1>9, <1>10, <1>11, <1>12, <1>13, <1>14

LEMMA WorkerResolves ==
  ASSUME Inductive, NEW w \in Workers,
         Timeout(w) \/ \E outcome \in {"value", "error"} : InvocationInTime(w, outcome)
  PROVE  Inductive'
<1> DEFINE t == thread[w].task
<1>1. PICK outcome \in {"value", "error", "timeout", "cancelled"} : Resolve(w, outcome)
  BY DEF Timeout, InvocationInTime
<1>2. /\ w \in Threads /\ w # Closer /\ thread[w].at = "compile" /\ t \in Tasks
      /\ UNCHANGED <<closed, inflight, free, queue, callbacks, keyOf, delivered>>
      /\ future' = [future EXCEPT ![t] = outcome]
  BY <1>1, PoolAssumption DEF Inductive, Resolve, Timeout, InvocationInTime, HasTask, Threads
<1>3. invocation' \in [Tasks -> {"none", "running", "returned"}]
  BY <1>2 DEF Timeout, InvocationInTime, Inductive, TypeOK
<1>4. t \in Issued /\ t \notin Queued /\ future[t] = "pending" /\ Compiles(w, t)
  BY <1>2 DEF Inductive, CompilingFits, Compiles
<1>5. PICK place \in {"complete", "idle"} :
        /\ thread' = [thread EXCEPT ![w] =
             [at |-> place, task |-> IF place = "complete" THEN t ELSE NoTask]]
        /\ place = "complete" <=> t \in callbacks
  BY <1>1 DEF Resolve, Goto
<1>6. /\ thread' \in [Threads -> ThreadStates]
      /\ \A x \in Threads : x # w => thread'[x] = thread[x]
      /\ thread'[w].at = place /\ (place = "complete" => thread'[w].task = t)
  BY <1>2, <1>5 DEF Inductive, TypeOK, ThreadStates, NoTask
<1>7. queue' \in Seq(Tasks) /\ QueueInjective' /\ Queued' = Queued \ {t}
  <2>1. Queued' = Queued /\ QueueInjective' /\ queue' \in Seq(Tasks)
    BY <1>2 DEF Inductive, TypeOK, QueuedOnce, QueueInjective, Queued
  <2> QED
    BY <1>4, <2>1
<1>8. \A v \in Workers, s \in Tasks : Compiles(v, s) => (v = w <=> s = t)
  BY <1>2, <1>4 DEF Inductive, CompiledOnce, Compiles
<1>9. /\ place \in {"complete", "idle", "cancel"} /\ w \in Workers \cup {Closer}
      /\ thread[w].at = (IF w = Closer THEN "cancel" ELSE "compile")
      /\ place = "cancel" => w = Closer
      /\ place = "idle" => w # Closer
      /\ queue = <<>> => queue' = <<>>
  BY <1>2, <1>5
<1> HIDE DEF t
<1> QED
  BY <1>2, <1>3, <1>4, <1>5, <1>6, <1>7, <1>8, <1>9, ResolvePreserves, ZenonT(60)

LEMMA CancelPreserves ==
  ASSUME Inductive, CancelQueued
  PROVE  Inductive'
<1> DEFINE t == Head(queue)
<1>1. /\ queue' \in Seq(Tasks) /\ t \in Queued /\ t \in Tasks
      /\ Queued' = Queued \ {t} /\ QueueInjective'
  <2>1. queue \in Seq(Tasks) /\ queue # <<>> /\ QueueInjective /\ queue' = Tail(queue)
    BY DEF CancelQueued, Inductive, TypeOK, QueuedOnce
  <2> QED
    BY <2>1, QueueShrinks
<1>2. /\ Closer \in Threads /\ Closer \notin Workers /\ thread[Closer].at = "cancel"
      /\ queue # <<>> /\ future' = [future EXCEPT ![t] = "cancelled"]
      /\ UNCHANGED <<closed, inflight, free, callbacks, invocation, keyOf, delivered>>
      /\ t \in callbacks => Goto(Closer, "complete", t)
      /\ t \notin callbacks => thread' = thread
  BY PoolAssumption DEF CancelQueued, Threads
<1> HIDE DEF t
<1>3. t \in Issued /\ future[t] = "pending"
  BY <1>1 DEF Inductive, QueuedOnce
<1>4. \A v \in Workers, s \in Tasks : Compiles(v, s) => (v = Closer <=> s = t)
  BY <1>1, <1>2 DEF Inductive, CompilingFits
<1>5. thread \in [Threads -> ThreadStates] /\ invocation' \in [Tasks -> {"none", "running", "returned"}]
  BY <1>2 DEF Inductive, TypeOK
<1>6. PICK place \in {"complete", "cancel"} :
        /\ place = "complete" <=> t \in callbacks
        /\ thread' \in [Threads -> ThreadStates]
        /\ \A x \in Threads : x # Closer => thread'[x] = thread[x]
        /\ thread'[Closer].at = place /\ (place = "complete" => thread'[Closer].task = t)
  <2>1. CASE t \in callbacks
    BY <1>1, <1>2, <1>5, <2>1 DEF Goto, ThreadStates
  <2>2. CASE t \notin callbacks
    BY <1>2, <1>5, <2>2
  <2> QED
    BY <2>1, <2>2
<1> QED
  BY <1>1, <1>2, <1>3, <1>4, <1>5, <1>6, ResolvePreserves, ZenonT(60)

LEMMA LatePreserves ==
  ASSUME Inductive, NEW t \in Tasks, InvocationLate(t)
  PROVE  Inductive'
<1>1. /\ UNCHANGED <<closed, inflight, free, queue, future, callbacks, keyOf, thread, delivered>>
      /\ invocation' \in [Tasks -> {"none", "running", "returned"}]
  BY DEF InvocationLate, Inductive, TypeOK
<1>2. TypeOK'
  BY <1>1 DEF Inductive, TypeOK, Capacity
<1> QED
  BY <1>1, <1>2
     DEF Inductive, PermitsConserved, Capacity, Unreleased, Issued, SingleflightByKey,
     Places, HasTask, QueuedOnce, QueueInjective, Queued, CompilingFits, CompiledOnce, Compiles,
     RegisteringFits, RegisteredOnce, Registers, FinishingFits, FinishedOnce, Finishes,
     RegisteredFirst, Unissued, InflightIssued, NothingLost, QuietWhenDown

LEMMA StutterPreserves ==
  ASSUME Inductive, UNCHANGED vars
  PROVE  Inductive'
BY
   DEF vars, Inductive, TypeOK, PermitsConserved, Capacity, Unreleased, Issued,
       SingleflightByKey,
   Places, HasTask, QueuedOnce, QueueInjective, Queued, CompilingFits, CompiledOnce, Compiles,
   RegisteringFits, RegisteredOnce, Registers, FinishingFits, FinishedOnce, Finishes,
   RegisteredFirst, Unissued, InflightIssued, NothingLost, QuietWhenDown

(* The pool starts empty: no submission, all permits free.                  *)
LEMMA InitInductive == Init => Inductive
<1> SUFFICES ASSUME Init PROVE Inductive
  OBVIOUS
<1>1. Capacity \in Nat
  BY PoolAssumption, FS_CardinalityType DEF Capacity
<1>2. Issued = {} /\ Queued = {} /\ Len(queue) = 0 /\ queue \in Seq(Tasks)
  BY EmptySeq DEF Init, Issued, Queued
<1>3. \A th \in Threads : thread[th] = Idle
  BY DEF Init
<1>4. keyOf \in BoundedSeq(Keys, MaxTasks)
  <2>1. <<>> \in [1..0 -> Keys] /\ 0 \in 0..MaxTasks
    BY PoolAssumption
  <2> QED
    BY <2>1 DEF Init, BoundedSeq, SeqOf
<1>5. TypeOK
  <2>1. /\ closed \in BOOLEAN /\ inflight \in [Keys -> Tasks \cup {NoTask}]
        /\ callbacks \in SUBSET Tasks /\ delivered \in [Tasks -> Nat]
    BY DEF Init
  <2>2. /\ future \in [Tasks -> {"pending", "value", "error", "timeout", "cancelled"}]
        /\ invocation \in [Tasks -> {"none", "running", "returned"}]
    BY DEF Init
  <2>3. Idle \in ThreadStates
    BY DEF Idle, ThreadStates, NoTask
  <2>4. thread \in [Threads -> ThreadStates] /\ free \in 0..Capacity
    BY <1>1, <2>3 DEF Init
  <2> QED
    BY <1>2, <1>4, <2>1, <2>2, <2>4 DEF TypeOK
<1>6. PermitsConserved
  <2>1. Unreleased = {}
    BY <1>2, <1>3 DEF Unreleased, Idle
  <2> QED
    BY <1>1, <2>1, FS_EmptySet DEF Init, PermitsConserved
<1>7. SingleflightByKey /\ InflightIssued /\ Unissued /\ NothingLost /\ QuietWhenDown
  BY <1>2, <1>3
     DEF Init, SingleflightByKey, InflightIssued, Unissued, NothingLost, QuietWhenDown,
     Threads, Idle
<1>8. Places /\ HasTask /\ QueuedOnce
  BY <1>2, <1>3 DEF Places, HasTask, QueuedOnce, QueueInjective, Threads, Finishing, Idle
<1>9. CompilingFits /\ CompiledOnce /\ RegisteringFits /\ RegisteredOnce
  BY <1>3 DEF CompilingFits, CompiledOnce, RegisteringFits, RegisteredOnce, Compiles, Registers,
     Threads, Idle
<1>10. FinishingFits /\ FinishedOnce /\ RegisteredFirst
  BY <1>3 DEF FinishingFits, FinishedOnce, RegisteredFirst, Registers, Finishes, Finishing,
     Threads, Idle
<1> QED
  BY <1>5, <1>6, <1>7, <1>8, <1>9, <1>10 DEF Inductive

LEMMA NextInductive == Inductive /\ [Next]_vars => Inductive'
<1> SUFFICES ASSUME Inductive, [Next]_vars PROVE Inductive'
  OBVIOUS
<1>1. ASSUME NEW c \in Callers, NEW k \in Keys, Submit(c, k) PROVE Inductive'
  BY <1>1, SubmitPreserves
<1>2. ASSUME NEW c \in Callers, Register(c) PROVE Inductive'
  BY <1>2, RegisterPreserves
<1>3. ASSUME NEW c \in Callers, DrainCall(c) \/ DrainReturn(c) PROVE Inductive'
  BY <1>3, DrainsPreserve
<1>4. ASSUME NEW w \in Workers, Take(w) PROVE Inductive'
  BY <1>4, TakePreserves
<1>5. ASSUME NEW w \in Workers,
             Timeout(w) \/ \E outcome \in {"value", "error"} : InvocationInTime(w, outcome)
      PROVE  Inductive'
  BY <1>5, WorkerResolves
<1>6. ASSUME NEW t \in Tasks, InvocationLate(t) PROVE Inductive'
  BY <1>6, LatePreserves
<1>7. ASSUME NEW th \in Threads, Finish(th) PROVE Inductive'
  BY <1>7, CompletePreserves, PopPreserves, ReleasePreserves DEF Finish
<1>8. ASSUME (\E wait \in BOOLEAN : Shutdown(wait)) \/ Join \/ CancelDone PROVE Inductive'
  BY <1>8, ClosingPreserves
<1>9. ASSUME CancelQueued PROVE Inductive'
  BY <1>9, CancelPreserves
<1>10. CASE UNCHANGED vars
  BY <1>10, StutterPreserves
<1> QED
  BY <1>1, <1>2, <1>3, <1>4, <1>5, <1>6, <1>7, <1>8, <1>9, <1>10 DEF Next

LEMMA InductiveHolds == Spec => []Inductive
BY InitInductive, NextInductive, PTL DEF Spec

(* After a waiting shutdown nothing is queued and no worker compiles, so    *)
(* every future is resolved; a task that was not answered is being          *)
(* registered or finished, and no worker and not the closer has it.         *)
LEMMA DownDetaches == Inductive => DownMeansDetached
<1> SUFFICES ASSUME Inductive, thread[Closer].at = "down", NEW t \in Issued, delivered[t] = 0
             PROVE  \E c \in Callers : thread[c].task = t
  BY DEF DownMeansDetached
<1>1. queue = <<>> /\ \A w \in Workers : thread[w].at = "idle"
  BY DEF Inductive, QuietWhenDown
<1>2. Queued = {}
  BY <1>1 DEF Queued
<1>3. future[t] # "pending"
  BY <1>1, <1>2 DEF Inductive, NothingLost, Compiles
<1>4. \/ \E c \in Callers : Registers(c, t)
      \/ \E th \in Threads : thread[th].at = "complete" /\ thread[th].task = t
  BY <1>3 DEF Inductive, NothingLost
<1> QED
  BY <1>1, <1>4 DEF Registers, Threads

(* compile_pool.py:60-185, for any number of keys, threads and tasks: the   *)
(* semaphore and the tasks that hold a permit add up, a key is compiled by  *)
(* one task at a time and answered at most once, and a waiting shutdown     *)
(* leaves nothing behind but what a caller still holds.                     *)
THEOREM PoolIsConsistent == Spec => []PoolConsistent
<1>1. Inductive => PoolConsistent
  BY DownDetaches DEF Inductive, PoolConsistent
<1> QED
  BY <1>1, InductiveHolds, PTL

-----------------------------------------------------------------------------
(* Who still has a resolved task whose key is in flight: a pool thread, when *)
(* the callback was attached in time; and whoever called completed().        *)
HeldByFinisher ==
  \A k \in Keys : inflight[k] # NoTask =>
    /\ inflight[k] \in Resolved \cap callbacks =>
         \E x \in Workers \cup {Closer} :
           thread[x].at \in {"complete", "pop"} /\ thread[x].task = inflight[k]
    /\ delivered[inflight[k]] # 0 =>
         \E x \in Threads : thread[x].at = "pop" /\ thread[x].task = inflight[k]

LEMMA HeldKept ==
  ASSUME HeldByFinisher, delivered' = delivered,
         \A k \in Keys : inflight'[k] # NoTask =>
           \/ inflight'[k] = inflight[k] /\
              (inflight'[k] \in Resolved' \cap callbacks' => inflight[k] \in Resolved \cap callbacks)
           \/ inflight'[k] \notin Resolved' /\ delivered[inflight'[k]] = 0,
         \A k \in Keys, x \in Threads :
           inflight'[k] # NoTask /\ thread[x].at \in {"complete", "pop"} /\ thread[x].task = inflight'[k]
             => thread'[x] = thread[x]
  PROVE  HeldByFinisher'
<1> SUFFICES ASSUME NEW k \in Keys, inflight'[k] # NoTask
             PROVE  /\ inflight'[k] \in Resolved' \cap callbacks' =>
                         \E x \in Workers \cup {Closer} :
                           thread'[x].at \in {"complete", "pop"} /\ thread'[x].task = inflight'[k]
                    /\ delivered[inflight'[k]] # 0 =>
                         \E x \in Threads : thread'[x].at = "pop" /\ thread'[x].task = inflight'[k]
  BY DEF HeldByFinisher
<1>1. CASE inflight'[k] \notin Resolved' /\ delivered[inflight'[k]] = 0
  BY <1>1
<1>2. CASE inflight'[k] = inflight[k] /\
           (inflight'[k] \in Resolved' \cap callbacks' => inflight[k] \in Resolved \cap callbacks)
  BY <1>2 DEF HeldByFinisher, Threads
<1> QED
  BY <1>1, <1>2

LEMMA HeldThroughMoves ==
  ASSUME Inductive, HeldByFinisher, UNCHANGED <<inflight, delivered, keyOf, future, callbacks>>,
         \A x \in Threads : thread[x].at \in {"complete", "pop"} => thread'[x] = thread[x]
  PROVE  HeldByFinisher'
<1>1. Resolved' = Resolved
  BY DEF Resolved, Issued
<1> QED
  BY <1>1, HeldKept

LEMMA HeldThroughSubmit ==
  ASSUME Inductive, HeldByFinisher, NEW c \in Callers, NEW k \in Keys, Submit(c, k)
  PROVE  HeldByFinisher'
<1> DEFINE t == Len(keyOf) + 1
<1>1. /\ thread[c].at = "idle" /\ c \in Threads /\ t \in Tasks
      /\ thread' = [thread EXCEPT ![c] = [at |-> "register", task |-> t]]
      /\ inflight' = [inflight EXCEPT ![k] = t]
      /\ UNCHANGED <<future, callbacks, delivered>>
  BY DEF Submit, Goto, Threads
<1>2. t \notin Issued /\ Issued' = Issued \cup {t}
  BY <1>1, Issues DEF Submit, Inductive
<1> HIDE DEF t
<1>3. future[t] = "pending" /\ delivered[t] = 0 /\ t \notin Resolved'
  BY <1>1, <1>2 DEF Inductive, Unissued, Resolved
<1>4. \A s \in Issued : s \in Resolved' <=> s \in Resolved
  BY <1>1, <1>2 DEF Resolved
<1>5. \A j \in Keys : inflight'[j] = (IF j = k THEN t ELSE inflight[j])
  BY <1>1 DEF Inductive, TypeOK
<1>6. \A j \in Keys : inflight[j] # NoTask => inflight[j] \in Issued
  BY DEF Inductive, InflightIssued
<1>7. \A x \in Threads : thread[x].at \in {"complete", "pop"} => thread'[x] = thread[x]
  BY <1>1 DEF Inductive, TypeOK
<1> QED
  BY <1>1, <1>3, <1>4, <1>5, <1>6, <1>7, HeldKept

LEMMA HeldThroughRegister ==
  ASSUME Inductive, HeldByFinisher, NEW c \in Callers, Register(c)
  PROVE  HeldByFinisher'
<1>1. /\ thread[c].at = "register" /\ Resolved' = Resolved
      /\ UNCHANGED <<inflight, delivered>>
      /\ \A s \in callbacks' \cap Resolved : s \in callbacks
  BY DEF Register, Resolved, Issued
<1>2. \A x \in Threads : thread[x].at \in {"complete", "pop"} => thread'[x] = thread[x]
  BY <1>1 DEF Register, Goto, Inductive, TypeOK
<1> QED
  BY <1>1, <1>2, HeldKept

LEMMA HeldThroughResolve ==
  ASSUME Inductive, HeldByFinisher, NEW th \in Workers \cup {Closer}, NEW t \in Issued,
         NEW outcome \in {"value", "error", "timeout", "cancelled"},
         future[t] = "pending", future' = [future EXCEPT ![t] = outcome],
         thread[th].at \in {"compile", "cancel"},
         \A x \in Threads : x # th => thread'[x] = thread[x],
         t \in callbacks => thread'[th].at = "complete" /\ thread'[th].task = t,
         UNCHANGED <<inflight, callbacks, keyOf, delivered>>
  PROVE  HeldByFinisher'
<1>1. /\ Resolved' = Resolved \cup {t} /\ t \notin Resolved /\ t \in Tasks
      /\ Issued' = Issued
  BY KeyOfFacts DEF Inductive, TypeOK, Resolved, Issued
<1>2. delivered[t] = 0
  BY DEF Inductive, NothingLost
<1>3. \A x \in Threads : thread[x].at \in {"complete", "pop"} => thread'[x] = thread[x]
  OBVIOUS
<1> SUFFICES ASSUME NEW k \in Keys, inflight[k] # NoTask
             PROVE  /\ inflight[k] \in Resolved' \cap callbacks =>
                         \E x \in Workers \cup {Closer} :
                           thread'[x].at \in {"complete", "pop"} /\ thread'[x].task = inflight[k]
                    /\ delivered[inflight[k]] # 0 =>
                         \E x \in Threads : thread'[x].at = "pop" /\ thread'[x].task = inflight[k]
  BY DEF HeldByFinisher
<1>4. CASE inflight[k] = t
  BY <1>2, <1>4
<1>5. CASE inflight[k] # t
  BY <1>1, <1>3, <1>5 DEF HeldByFinisher, Threads
<1> QED
  BY <1>4, <1>5

LEMMA HeldThroughComplete ==
  ASSUME Inductive, HeldByFinisher, NEW th \in Threads, Complete(th)
  PROVE  HeldByFinisher'
<1> DEFINE t == thread[th].task
<1>1. /\ thread[th].at = "complete" /\ t \in Tasks /\ Finishes(th, t)
      /\ delivered' = [delivered EXCEPT ![t] = @ + 1]
      /\ thread' = [thread EXCEPT ![th] = [at |-> "pop", task |-> t]]
      /\ UNCHANGED <<inflight, callbacks>> /\ Resolved' = Resolved
  BY DEF Complete, Inductive, HasTask, Finishing, Finishes, Goto, Resolved, Issued
<1>2. /\ \A x \in Threads : x # th => thread'[x] = thread[x]
      /\ thread'[th] = [at |-> "pop", task |-> t]
      /\ \A s \in Tasks : s # t => delivered'[s] = delivered[s]
  BY <1>1 DEF Inductive, TypeOK
<1>3. \A k \in Keys : inflight[k] \in Tasks \cup {NoTask}
  BY DEF Inductive, TypeOK
<1> SUFFICES ASSUME NEW k \in Keys, inflight[k] # NoTask
             PROVE  /\ inflight[k] \in Resolved \cap callbacks =>
                         \E x \in Workers \cup {Closer} :
                           thread'[x].at \in {"complete", "pop"} /\ thread'[x].task = inflight[k]
                    /\ delivered'[inflight[k]] # 0 =>
                         \E x \in Threads : thread'[x].at = "pop" /\ thread'[x].task = inflight[k]
  BY <1>1 DEF HeldByFinisher
<1> HIDE DEF t
<1>4. CASE inflight[k] = t
  <2>1. \A x \in Threads : thread[x].at \in {"complete", "pop"} /\ thread[x].task = t => x = th
    BY <1>1 DEF Inductive, FinishedOnce, Finishes, Finishing
  <2> QED
    BY <1>2, <1>4, <2>1 DEF HeldByFinisher, Threads
<1>5. CASE inflight[k] # t
  <2>1. inflight[k] \in Tasks /\ delivered'[inflight[k]] = delivered[inflight[k]]
    BY <1>2, <1>3, <1>5
  <2>2. \A x \in Threads : thread[x].task = inflight[k] => thread'[x] = thread[x]
    BY <1>2, <1>5 DEF t
  <2> QED
    BY <2>1, <2>2 DEF HeldByFinisher, Threads
<1> QED
  BY <1>4, <1>5

LEMMA HeldThroughPop ==
  ASSUME Inductive, HeldByFinisher, NEW th \in Threads, Pop(th)
  PROVE  HeldByFinisher'
<1> DEFINE t == thread[th].task
<1>1. /\ thread[th].at = "pop" /\ t \in Tasks /\ Finishes(th, t)
      /\ inflight' = [inflight EXCEPT ![keyOf[t]] = NoTask]
      /\ thread' = [thread EXCEPT ![th] = [at |-> "release", task |-> t]]
      /\ UNCHANGED <<callbacks, delivered>> /\ Resolved' = Resolved
  BY DEF Pop, Inductive, HasTask, Finishing, Finishes, Goto, Resolved, Issued
<1>2. t \in Issued /\ keyOf[t] \in Keys
  BY <1>1, KeyOfFacts DEF Inductive, FinishingFits
<1>3. \A k \in Keys : inflight'[k] # NoTask =>
        inflight'[k] = inflight[k] /\ k # keyOf[t] /\ keyOf[inflight[k]] = k
  BY <1>1, <1>2 DEF Inductive, TypeOK, InflightIssued
<1>4. \A x \in Threads : x # th => thread'[x] = thread[x]
  BY <1>1 DEF Inductive, TypeOK
<1>5. \A k \in Keys : inflight'[k] # NoTask => t # inflight'[k]
  BY <1>3
<1> QED
  BY <1>1, <1>3, <1>4, <1>5, HeldKept

LEMMA HeldNext == Inductive /\ HeldByFinisher /\ [Next]_vars => HeldByFinisher'
<1> SUFFICES ASSUME Inductive, HeldByFinisher, [Next]_vars PROVE HeldByFinisher'
  OBVIOUS
<1> USE DEF Inductive
<1>1. ASSUME NEW c \in Callers, NEW k \in Keys, Submit(c, k) PROVE HeldByFinisher'
  BY <1>1, HeldThroughSubmit
<1>2. ASSUME NEW c \in Callers, Register(c) PROVE HeldByFinisher'
  BY <1>2, HeldThroughRegister
<1>3. ASSUME NEW c \in Callers, DrainCall(c) \/ DrainReturn(c) PROVE HeldByFinisher'
  BY <1>3, HeldThroughMoves DEF DrainCall, DrainReturn, Goto, TypeOK
<1>4. ASSUME NEW w \in Workers, Take(w) PROVE HeldByFinisher'
  BY <1>4, HeldThroughMoves DEF Take, Goto, TypeOK
<1>5. ASSUME NEW w \in Workers,
             Timeout(w) \/ \E outcome \in {"value", "error"} : InvocationInTime(w, outcome)
      PROVE  HeldByFinisher'
  <2> DEFINE t == thread[w].task
  <2>1. PICK outcome \in {"value", "error", "timeout", "cancelled"} : Resolve(w, outcome)
    BY <1>5 DEF Timeout, InvocationInTime
  <2>2. /\ thread[w].at = "compile" /\ w \in Threads /\ t \in Tasks
        /\ future' = [future EXCEPT ![t] = outcome]
        /\ UNCHANGED <<inflight, callbacks, keyOf, delivered>>
    BY <1>5, <2>1 DEF Resolve, Timeout, InvocationInTime, HasTask, Threads
  <2>3. t \in Issued /\ future[t] = "pending"
    BY <2>2 DEF CompilingFits, Compiles
  <2>4. /\ \A x \in Threads : x # w => thread'[x] = thread[x]
        /\ t \in callbacks => thread'[w].at = "complete" /\ thread'[w].task = t
    BY <2>1, <2>2 DEF Resolve, Goto, TypeOK
  <2> HIDE DEF t, Inductive
  <2> QED
    BY <2>2, <2>3, <2>4, HeldThroughResolve
<1>6. ASSUME NEW t \in Tasks, InvocationLate(t) PROVE HeldByFinisher'
  BY <1>6, HeldThroughMoves DEF InvocationLate
<1>7. ASSUME NEW th \in Threads, Release(th) PROVE HeldByFinisher'
  BY <1>7, HeldThroughMoves DEF Release, Goto, TypeOK
<1>8. ASSUME (\E wait \in BOOLEAN : Shutdown(wait)) \/ Join \/ CancelDone PROVE HeldByFinisher'
  BY <1>8, HeldThroughMoves DEF Shutdown, Join, CancelDone, Goto, TypeOK
<1>9. ASSUME CancelQueued PROVE HeldByFinisher'
  <2> DEFINE t == Head(queue)
  <2>1. t \in Issued /\ future[t] = "pending"
    <3>1. queue \in Seq(Tasks) /\ queue # <<>> /\ QueueInjective /\ queue' = Tail(queue)
      BY <1>9 DEF CancelQueued, TypeOK, QueuedOnce
    <3>2. t \in Queued
      BY <3>1, QueueShrinks
    <3> QED
      BY <3>2 DEF QueuedOnce
  <2>2. /\ thread[Closer].at = "cancel" /\ Closer \in Threads
        /\ future' = [future EXCEPT ![t] = "cancelled"]
        /\ UNCHANGED <<inflight, callbacks, keyOf, delivered>>
        /\ \A x \in Threads : x # Closer => thread'[x] = thread[x]
        /\ t \in callbacks => thread'[Closer].at = "complete" /\ thread'[Closer].task = t
    BY <1>9 DEF CancelQueued, Goto, Threads, TypeOK
  <2> HIDE DEF t, Inductive
  <2> QED
    BY <2>1, <2>2, HeldThroughResolve
<1>10. CASE UNCHANGED vars
  BY <1>10, HeldThroughMoves DEF vars
<1> QED
  BY <1>1, <1>2, <1>3, <1>4, <1>5, <1>6, <1>7, <1>8, <1>9, <1>10,
     HeldThroughComplete, HeldThroughPop DEF Next, Finish

LEMMA HeldAlways == Spec => [](Inductive /\ HeldByFinisher)
<1>1. Init => HeldByFinisher
  BY DEF Init, HeldByFinisher
<1> QED
  BY <1>1, InitInductive, NextInductive, HeldNext, PTL DEF Spec

-----------------------------------------------------------------------------
(* Refinement: what CompileService sees of a step.                          *)
LEMMA KeyBusy ==
  Service!InFlight = {k \in Keys : inflight[k] # NoTask}
BY DEF Service!InFlight, flight

LEMMA ServiceRests ==
  ASSUME UNCHANGED <<inflight, delivered, free>>, gate' = gate, detached' = detached
  PROVE  UNCHANGED Service!serviceVars
BY DEF Service!serviceVars, flight, permits, Capacity

LEMMA SubmitServes ==
  ASSUME Inductive, NEW c \in Callers, NEW k \in Keys, Submit(c, k)
  PROVE  Service!Submit(k)
<1> DEFINE t == Len(keyOf) + 1
<1>1. /\ thread[c].at = "idle" /\ c \in Threads /\ t \in Tasks /\ ~closed /\ closed' = closed
      /\ inflight[k] = NoTask /\ free > 0 /\ free' = free - 1
      /\ inflight' = [inflight EXCEPT ![k] = t]
      /\ UNCHANGED <<future, callbacks, delivered>>
  BY DEF Submit, Threads
<1>2. t \notin Issued /\ Issued' = Issued \cup {t} /\ t # NoTask
  BY <1>1, Issues DEF Submit, Inductive, Tasks, NoTask
<1> HIDE DEF t
<1>3. future[t] = "pending" /\ delivered[t] = 0
  BY <1>1, <1>2 DEF Inductive, Unissued
<1>4. \A j \in Keys : inflight'[j] = (IF j = k THEN t ELSE inflight[j])
  BY <1>1 DEF Inductive, TypeOK
<1>5. \A j \in Keys : inflight[j] # NoTask => inflight[j] \in Issued
  BY DEF Inductive, InflightIssued
<1>6. detached' = detached
  BY <1>1, <1>2, <1>3, <1>4, <1>5 DEF detached, Resolved
<1>7. flight' = [flight EXCEPT ![k] = "compiling"]
  BY <1>1, <1>2, <1>3, <1>4, ZenonT(60) DEF flight
<1>8. permits' = permits + 1 /\ permits # Capacity
  <2>1. Capacity \in Nat /\ free \in Int /\ free > 0
    BY <1>1, Counting DEF Inductive
  <2> QED
    BY <1>1, <2>1 DEF permits, Capacity
<1>9. gate = "open" /\ gate' = gate
  BY <1>1 DEF gate
<1>10. k \notin Service!InFlight
  BY <1>1, KeyBusy
<1>11. Service!Decision(k) = "submitted"
  BY <1>8, <1>9, <1>10 DEF Service!Decision
<1> QED
  BY <1>6, <1>7, <1>8, <1>9, <1>11 DEF Service!Submit

LEMMA ResolveServes ==
  ASSUME Inductive, NEW t \in Issued,
         NEW outcome \in {"value", "error", "timeout", "cancelled"},
         future[t] = "pending", future' = [future EXCEPT ![t] = outcome],
         gate' = gate, UNCHANGED <<inflight, free, callbacks, keyOf, delivered>>
  PROVE  Service!Detach(keyOf[t]) \/ UNCHANGED Service!serviceVars
<1>1. /\ Resolved' = Resolved \cup {t} /\ t \notin Resolved /\ t \in Tasks
      /\ keyOf[t] \in Keys /\ t # NoTask
  BY KeyOfFacts DEF Inductive, TypeOK, Resolved, Issued, Tasks, NoTask
<1>2. /\ delivered[t] = 0 /\ inflight[keyOf[t]] = t
      /\ \A k \in Keys : inflight[k] = t => k = keyOf[t]
  BY <1>1 DEF Inductive, NothingLost, SingleflightByKey, InflightIssued
<1>3. CASE t \in callbacks
  BY <1>1, <1>3, ServiceRests DEF detached
<1>4. CASE t \notin callbacks
  <2>1. detached' = detached \cup {keyOf[t]} /\ keyOf[t] \notin detached
    BY <1>1, <1>2, <1>4 DEF detached
  <2>2. flight[keyOf[t]] = "compiling" /\ UNCHANGED <<flight, permits>>
    BY <1>1, <1>2 DEF flight, permits, Capacity
  <2> QED
    BY <2>1, <2>2 DEF Service!Detach
<1> QED
  BY <1>3, <1>4

LEMMA CompleteServes ==
  ASSUME Inductive, NEW th \in Threads, Complete(th)
  PROVE  Service!Deliver(keyOf[thread[th].task])
<1> DEFINE t == thread[th].task
<1>1. /\ thread[th].at = "complete" /\ t \in Tasks /\ Finishes(th, t)
      /\ delivered' = [delivered EXCEPT ![t] = @ + 1]
      /\ thread' = [thread EXCEPT ![th] = [at |-> "pop", task |-> t]]
      /\ UNCHANGED <<closed, inflight, free, callbacks>> /\ Resolved' = Resolved
  BY DEF Complete, Inductive, HasTask, Finishing, Finishes, Goto, Resolved, Issued
<1>2. /\ t \in Issued /\ delivered[t] = 0 /\ inflight[keyOf[t]] = t /\ keyOf[t] \in Keys
      /\ \A k \in Keys : inflight[k] = t => k = keyOf[t]
      /\ t # NoTask
  BY <1>1, KeyOfFacts
     DEF Inductive, FinishingFits, SingleflightByKey, InflightIssued, Tasks, NoTask
<1>3. gate' = gate
  BY <1>1 DEF gate, Inductive, TypeOK, Threads
<1>4. /\ \A s \in Tasks : s # t => delivered'[s] = delivered[s]
      /\ delivered'[t] = 1
      /\ \A k \in Keys : inflight[k] \in Tasks \cup {NoTask}
  BY <1>1, <1>2 DEF Inductive, TypeOK
<1> HIDE DEF t
<1>5. flight[keyOf[t]] = "compiling"
  BY <1>2 DEF flight
<1>6. flight' = [flight EXCEPT ![keyOf[t]] = "delivering"]
  <2>1. ASSUME NEW k \in Keys
        PROVE  flight'[k] = IF k = keyOf[t] THEN "delivering" ELSE flight[k]
    <3>1. CASE k = keyOf[t]
      BY <1>1, <1>2, <1>4, <3>1 DEF flight
    <3>2. CASE k # keyOf[t]
      <4>1. inflight'[k] = inflight[k] /\ (inflight[k] = NoTask \/ delivered'[inflight[k]] = delivered[inflight[k]])
        BY <1>1, <1>2, <1>4, <3>2
      <4> QED
        BY <3>2, <4>1 DEF flight
    <3> QED
      BY <3>1, <3>2
  <2> QED
    BY <2>1, <1>2 DEF flight
<1>7. detached' = detached /\ permits' = permits
  BY <1>1 DEF detached, permits, Capacity
<1> QED
  BY <1>3, <1>5, <1>6, <1>7 DEF Service!Deliver, t

LEMMA PopServes ==
  ASSUME Inductive, NEW th \in Threads, Pop(th)
  PROVE  Service!Forget(keyOf[thread[th].task])
<1> DEFINE t == thread[th].task
<1>1. /\ thread[th].at = "pop" /\ t \in Tasks /\ Finishes(th, t)
      /\ inflight' = [inflight EXCEPT ![keyOf[t]] = NoTask]
      /\ thread' = [thread EXCEPT ![th] = [at |-> "release", task |-> t]]
      /\ UNCHANGED <<closed, callbacks, delivered, free>> /\ Resolved' = Resolved
  BY DEF Pop, Inductive, HasTask, Finishing, Finishes, Goto, Resolved, Issued
<1>2. /\ t \in Issued /\ delivered[t] = 1 /\ inflight[keyOf[t]] = t /\ keyOf[t] \in Keys
      /\ t # NoTask
  BY <1>1, KeyOfFacts DEF Inductive, FinishingFits, Tasks, NoTask
<1>3. gate' = gate
  BY <1>1 DEF gate, Inductive, TypeOK, Threads
<1>4. \A j \in Keys : inflight'[j] = (IF j = keyOf[t] THEN NoTask ELSE inflight[j])
  BY <1>1 DEF Inductive, TypeOK
<1> HIDE DEF t
<1>5. flight[keyOf[t]] = "delivering"
  BY <1>2 DEF flight
<1>6. flight' = [flight EXCEPT ![keyOf[t]] = "free"]
  <2>1. ASSUME NEW k \in Keys
        PROVE  flight'[k] = IF k = keyOf[t] THEN "free" ELSE flight[k]
    BY <1>1, <1>2, <1>4 DEF flight
  <2> QED
    BY <2>1, <1>2 DEF flight
<1>7. detached' = detached \ {keyOf[t]} /\ permits' = permits
  BY <1>1, <1>2, <1>4 DEF detached, permits, Capacity
<1> QED
  BY <1>3, <1>5, <1>6, <1>7 DEF Service!Forget, t

(* Every key in flight has a task that holds a permit, and the task of a    *)
(* thread that is about to release is no key's any more.                    *)
LEMMA ReleaseServes ==
  ASSUME Inductive, HeldByFinisher, NEW th \in Threads, Release(th)
  PROVE  Service!ReturnPermit
<1> DEFINE t == thread[th].task
           busy == {k \in Keys : inflight[k] # NoTask}
           task == [k \in busy |-> inflight[k]]
<1>1. /\ thread[th].at = "release" /\ Finishes(th, t) /\ t \in Tasks
      /\ thread' = [thread EXCEPT ![th] = [at |-> IF th = Closer THEN "cancel" ELSE "idle", task |-> NoTask]]
      /\ UNCHANGED <<closed, inflight, callbacks, delivered>> /\ Resolved' = Resolved
      /\ free' = free + 1
  BY DEF Release, Inductive, HasTask, Finishing, Finishes, Goto, Resolved, Issued
<1>2. delivered[t] = 1 /\ t \in Unreleased
  BY <1>1 DEF Inductive, FinishingFits, Unreleased
<1>3. ASSUME NEW k \in busy PROVE inflight[k] \in Unreleased \ {t} /\ keyOf[inflight[k]] = k
  <2>1. inflight[k] \in Issued /\ keyOf[inflight[k]] = k
    BY DEF Inductive, InflightIssued
  <2>2. CASE delivered[inflight[k]] = 0
    BY <1>2, <2>1, <2>2 DEF Unreleased
  <2>3. CASE delivered[inflight[k]] # 0
    <3>1. PICK x \in Threads : thread[x].at = "pop" /\ thread[x].task = inflight[k]
      BY <2>3 DEF HeldByFinisher
    <3>2. x # th /\ inflight[k] # t
      BY <1>1, <3>1 DEF Inductive, FinishedOnce, Finishes, Finishing
    <3> QED
      BY <2>1, <3>1, <3>2 DEF Unreleased
  <2> QED
    BY <2>2, <2>3
<1>4. IsFiniteSet(Unreleased) /\ Cardinality(Unreleased) \in Nat /\ Capacity \in Nat /\ free \in Int
  BY Counting DEF Inductive
<1>5. /\ IsFiniteSet(Unreleased \ {t})
      /\ Cardinality(Unreleased \ {t}) = Cardinality(Unreleased) - 1
  BY <1>2, <1>4, FS_RemoveElement
<1>6. task \in Injection(busy, Unreleased \ {t})
  <2>1. task \in [busy -> Unreleased \ {t}]
    BY <1>3
  <2>2. \A j, k \in busy : task[j] = task[k] => j = k
    BY <1>3
  <2> QED
    BY <2>1, <2>2 DEF Injection, IsInjective
<1> HIDE DEF t, busy, task
<1>7. Cardinality(busy) <= Cardinality(Unreleased) - 1 /\ Cardinality(busy) \in Nat
  <2>1. IsFiniteSet(busy) /\ Cardinality(busy) <= Cardinality(Unreleased \ {t})
    BY <1>5, <1>6, FS_Injection
  <2> QED
    BY <1>5, <2>1, FS_CardinalityType
<1>8. permits > Cardinality(busy) /\ permits' = permits - 1
  <2>1. free + Cardinality(Unreleased) = Capacity
    BY DEF Inductive, PermitsConserved
  <2> QED
    BY <1>1, <1>4, <1>7, <2>1 DEF permits, Capacity
<1>9. gate' = gate
  BY <1>1 DEF gate, Inductive, TypeOK, Threads
<1>10. detached' = detached /\ flight' = flight
  BY <1>1 DEF detached, flight
<1> QED
  <2>1. Service!InFlight = busy /\ Service!Cardinality(busy) = Cardinality(busy)
    BY KeyBusy DEF busy, Service!Cardinality, Cardinality
  <2> QED
    BY <1>8, <1>9, <1>10, <2>1 DEF Service!ReturnPermit

LEMMA JoinServes ==
  ASSUME Inductive, HeldByFinisher, Join
  PROVE  Service!ShutdownReturns
<1>1. /\ thread[Closer].at = "join" /\ closed /\ closed' = closed /\ Closer \in Threads
      /\ Queued = {} /\ \A w \in Workers : thread[w].at = "idle"
      /\ thread' = [thread EXCEPT ![Closer] = [at |-> "down", task |-> NoTask]]
  BY DEF Join, Goto, Threads, Inductive, QuietWhenDown, Queued
<1>2. gate = "closed" /\ gate' = "down"
  BY <1>1 DEF gate, Inductive, TypeOK
<1>3. ASSUME NEW k \in Keys, inflight[k] # NoTask PROVE k \in detached
  <2>1. inflight[k] \in Issued
    BY <1>3 DEF Inductive, InflightIssued
  <2>2. inflight[k] \in Resolved
    BY <1>1, <2>1 DEF Inductive, NothingLost, Compiles, Resolved
  <2>3. inflight[k] \notin callbacks
    BY <1>1, <1>3, <2>2 DEF HeldByFinisher
  <2> QED
    BY <1>3, <2>2, <2>3 DEF detached
<1>4. UNCHANGED <<flight, detached, permits>>
  BY DEF Join, flight, detached, permits, Resolved, Issued, Capacity
<1> QED
  BY <1>2, <1>3, <1>4, KeyBusy DEF Service!ShutdownReturns

LEMMA StepServes ==
  ASSUME Inductive, HeldByFinisher, [Next]_vars
  PROVE  [Service!ServiceNext]_(Service!serviceVars)
<1>1. ASSUME NEW c \in Callers, NEW k \in Keys, Submit(c, k) PROVE Service!ServiceNext
  BY <1>1, SubmitServes DEF Service!ServiceNext
<1>2. ASSUME NEW c \in Callers, Register(c) PROVE UNCHANGED Service!serviceVars
  <2>1. /\ Resolved' \ callbacks' = Resolved \ callbacks
        /\ UNCHANGED <<closed, inflight, free, delivered>>
        /\ c # Closer
    BY <1>2, PoolAssumption DEF Register, Resolved, Issued
  <2>2. thread'[Closer] = thread[Closer]
    BY <1>2, <2>1 DEF Register, Goto, Inductive, TypeOK, Threads
  <2> QED
    BY <2>1, <2>2, ServiceRests DEF detached, gate
<1>3. ASSUME NEW c \in Callers, DrainCall(c) \/ DrainReturn(c) PROVE UNCHANGED Service!serviceVars
  <2>1. thread'[Closer] = thread[Closer]
    BY <1>3, PoolAssumption DEF DrainCall, DrainReturn, Goto, Inductive, TypeOK, Threads
  <2> QED
    BY <1>3, <2>1, ServiceRests DEF DrainCall, DrainReturn, detached, gate, Resolved, Issued
<1>4. ASSUME NEW w \in Workers, Take(w) PROVE UNCHANGED Service!serviceVars
  <2>1. thread'[Closer] = thread[Closer]
    BY <1>4, PoolAssumption DEF Take, Goto, Inductive, TypeOK, Threads
  <2> QED
    BY <1>4, <2>1, ServiceRests DEF Take, detached, gate, Resolved, Issued
<1>5. ASSUME NEW w \in Workers,
             Timeout(w) \/ \E outcome \in {"value", "error"} : InvocationInTime(w, outcome)
      PROVE  [Service!ServiceNext]_(Service!serviceVars)
  <2> DEFINE t == thread[w].task
  <2>1. PICK outcome \in {"value", "error", "timeout", "cancelled"} : Resolve(w, outcome)
    BY <1>5 DEF Timeout, InvocationInTime
  <2>2. /\ thread[w].at = "compile" /\ t \in Tasks /\ future' = [future EXCEPT ![t] = outcome]
        /\ UNCHANGED <<closed, inflight, free, callbacks, keyOf, delivered>>
    BY <1>5, <2>1 DEF Inductive, Resolve, Timeout, InvocationInTime, HasTask, Threads
  <2>3. t \in Issued /\ future[t] = "pending" /\ keyOf[t] \in Keys
    BY <2>2, KeyOfFacts DEF Inductive, CompilingFits, Compiles
  <2>4. thread'[Closer] = thread[Closer]
    BY <2>1, PoolAssumption DEF Resolve, Goto, Inductive, TypeOK, Threads
  <2>5. gate' = gate
    BY <2>2, <2>4 DEF gate
  <2> HIDE DEF t
  <2> QED
    BY <2>2, <2>3, <2>5, ResolveServes DEF Service!ServiceNext
<1>6. ASSUME NEW t \in Tasks, InvocationLate(t) PROVE UNCHANGED Service!serviceVars
  BY <1>6, ServiceRests DEF InvocationLate, detached, gate, Resolved, Issued
<1>7. ASSUME NEW th \in Threads, Finish(th) PROVE Service!ServiceNext
  <2>1. thread[th].at \in Finishing => keyOf[thread[th].task] \in Keys
    BY KeyOfFacts DEF Inductive, HasTask, FinishingFits, Finishes
  <2>2. CASE Complete(th)
    BY <2>1, <2>2, CompleteServes DEF Service!ServiceNext, Complete, Finishing
  <2>3. CASE Pop(th)
    BY <2>1, <2>3, PopServes DEF Service!ServiceNext, Pop, Finishing
  <2>4. CASE Release(th)
    BY <2>4, ReleaseServes DEF Service!ServiceNext
  <2> QED
    BY <1>7, <2>2, <2>3, <2>4 DEF Finish
<1>8. ASSUME NEW wait \in BOOLEAN, Shutdown(wait) PROVE [Service!ServiceNext]_(Service!serviceVars)
  <2>1. /\ thread[Closer].at = "idle" /\ thread'[Closer].at \in {"join", "cancel"} /\ closed' = TRUE
        /\ UNCHANGED <<inflight, free, future, callbacks, keyOf, delivered>>
    BY <1>8 DEF Shutdown, Goto, Inductive, TypeOK, Threads
  <2>2. UNCHANGED <<flight, detached, permits>>
    BY <2>1 DEF flight, detached, permits, Resolved, Issued, Capacity
  <2>3. CASE ~closed
    BY <2>1, <2>2, <2>3 DEF Service!ServiceNext, Service!Close, gate
  <2>4. CASE closed
    BY <2>1, <2>2, <2>4 DEF Service!serviceVars, gate
  <2> QED
    BY <2>3, <2>4
<1>9. CASE Join
  BY <1>9, JoinServes DEF Service!ServiceNext
<1>10. CASE CancelQueued
  <2> DEFINE t == Head(queue)
  <2>1. t \in Issued /\ future[t] = "pending" /\ keyOf[t] \in Keys
    <3>1. queue \in Seq(Tasks) /\ queue # <<>> /\ QueueInjective /\ queue' = Tail(queue)
      BY <1>10 DEF Inductive, CancelQueued, TypeOK, QueuedOnce
    <3>2. t \in Queued
      BY <3>1, QueueShrinks
    <3> QED
      BY <3>2, KeyOfFacts DEF Inductive, QueuedOnce
  <2>2. /\ thread[Closer].at = "cancel" /\ future' = [future EXCEPT ![t] = "cancelled"]
        /\ UNCHANGED <<closed, inflight, free, callbacks, keyOf, delivered>>
        /\ thread'[Closer].at \in {"cancel", "complete"}
    BY <1>10 DEF CancelQueued, Goto, Threads, Inductive, TypeOK
  <2>3. gate' = gate
    BY <2>2 DEF gate
  <2> HIDE DEF t
  <2> QED
    BY <2>1, <2>2, <2>3, ResolveServes DEF Service!ServiceNext
<1>11. CASE CancelDone
  <2>1. thread[Closer].at = "cancel" /\ thread'[Closer].at = "left"
    BY <1>11 DEF CancelDone, Goto, Inductive, TypeOK, Threads
  <2> QED
    BY <1>11, <2>1, ServiceRests DEF CancelDone, detached, gate, Resolved, Issued
<1>12. CASE UNCHANGED vars
  BY <1>12, ServiceRests DEF vars, detached, gate, Resolved, Issued
<1> QED
  BY <1>1, <1>2, <1>3, <1>4, <1>5, <1>6, <1>7, <1>8, <1>9, <1>10, <1>11, <1>12 DEF Next

(* Every step of the pool, by any of its threads, is a step of the exact-   *)
(* key singleflight that the variant manager relies on, or is invisible to  *)
(* it (compile_pool.py:60-185).  The fairness of the service, which         *)
(* ImplementsService adds, is model-checked only.                           *)
THEOREM RefinesService ==
  Spec => Service!ServiceInit /\ [][Service!ServiceNext]_(Service!serviceVars)
<1>1. Init => Service!ServiceInit
  <2> SUFFICES ASSUME Init PROVE Service!ServiceInit
    OBVIOUS
  <2>1. Capacity \in Nat
    BY PoolAssumption, FS_CardinalityType DEF Capacity
  <2>2. Issued = {}
    BY DEF Init, Issued
  <2>3. permits = 0 /\ gate = "open"
    BY <2>1 DEF Init, permits, gate
  <2>4. detached = {} /\ flight = [k \in Keys |-> "free"]
    BY <2>2 DEF Init, detached, flight
  <2> QED
    BY <2>3, <2>4 DEF Service!ServiceInit
<1>2. Inductive /\ HeldByFinisher /\ [Next]_vars => [Service!ServiceNext]_(Service!serviceVars)
  BY StepServes
<1> QED
  BY <1>1, <1>2, HeldAlways, PTL DEF Spec

(* drain() returns only when every submission accepted so far has had its   *)
(* callback (compile_pool.py: drain), whoever is still registering one.     *)
THEOREM DrainWaits == Spec => DrainedMeansDelivered
<1>1. ASSUME Inductive, [Next]_vars,
             NEW c \in Callers, thread[c].at = "drain", thread'[c].at = "idle", NEW t \in Issued
      PROVE  delivered[t] = 1
  <2>1. c \in Threads /\ c \notin Workers /\ c # Closer
    BY PoolAssumption DEF Threads
  <2>2. CASE DrainReturn(c)
    <3>1. t \in Tasks /\ keyOf[t] \in Keys /\ t # NoTask
      BY <1>1, KeyOfFacts DEF Inductive, Tasks, NoTask
    <3>2. delivered[t] # 0
      BY <1>1, <2>2, <3>1 DEF DrainReturn, Inductive, SingleflightByKey
    <3> QED
      BY <1>1, <3>1, <3>2 DEF Inductive, SingleflightByKey, TypeOK
  <2>3. CASE thread'[c] = thread[c]
    BY <1>1, <2>3
  <2>4. DrainReturn(c) \/ thread'[c] = thread[c]
    <3>1. ASSUME NEW th \in Threads, NEW place, NEW s, Goto(th, place, s), thread[th].at # "drain"
          PROVE  thread'[c] = thread[c]
      BY <1>1, <2>1, <3>1 DEF Goto, Inductive, TypeOK
    <3>2. ASSUME NEW d \in Callers, \/ \E k \in Keys : Submit(d, k)
                                    \/ Register(d) \/ DrainCall(d) \/ DrainReturn(d)
          PROVE  DrainReturn(c) \/ thread'[c] = thread[c]
      BY <1>1, <2>1, <3>2
         DEF Submit, Register, DrainCall, DrainReturn, Goto, Inductive, TypeOK, Threads
    <3>3. ASSUME NEW w \in Workers, \/ Take(w) \/ Timeout(w)
                                    \/ \E outcome \in {"value", "error"} : InvocationInTime(w, outcome)
          PROVE  thread'[c] = thread[c]
      BY <1>1, <2>1, <3>3
         DEF Take, Timeout, InvocationInTime, Resolve, Goto, Inductive, TypeOK, Threads
    <3>4. ASSUME NEW th \in Threads, Finish(th) PROVE thread'[c] = thread[c]
      BY <3>1, <3>4 DEF Finish, Complete, Pop, Release
    <3>5. ASSUME (\E wait \in BOOLEAN : Shutdown(wait)) \/ Join \/ CancelQueued \/ CancelDone
          PROVE  thread'[c] = thread[c]
      BY <1>1, <2>1, <3>5
         DEF Shutdown, Join, CancelQueued, CancelDone, Goto, Inductive, TypeOK, Threads
    <3>6. CASE UNCHANGED vars \/ \E s \in Tasks : InvocationLate(s)
      BY <3>6 DEF vars, InvocationLate
    <3> QED
      BY <1>1, <3>2, <3>3, <3>4, <3>5, <3>6 DEF Next
  <2> QED
    BY <2>2, <2>3, <2>4
<1>2. Inductive /\ [Next]_vars =>
        [\A c \in Callers : thread[c].at = "drain" /\ thread'[c].at = "idle"
           => \A t \in Issued : delivered[t] = 1]_vars
  BY <1>1
<1> QED
  BY <1>2, InductiveHolds, PTL DEF Spec, DrainedMeansDelivered
=============================================================================

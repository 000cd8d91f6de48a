---------------------------- MODULE ColumnarBatch ----------------------------
(* integration/daft_ray/columnar.py and native_batch.py: a batch wrapper that *)
(* calls a scalar function for a column of rows.  The native loop is compiled *)
(* once per process under a process-wide lock; a batch runs it, or runs it    *)
(* over the distinct values only, or runs the scalar wrapper row by row.      *)
(* Process 2 may be forked from process 1 between two calls.                  *)
EXTENDS Integers, Sequences, FiniteSets, SequencesExt
CONSTANTS
  BatchThreads,        \* threads that call the wrapper
  Batches,             \* columns of values
  DictionaryCapacity,  \* capacity of the value plan, 0 when it has an entry guard
  MaxDrifts,           \* how often the function or what it depends on changes
  MaxBatches           \* calls of a thread
ColumnsAssumption ==
  /\ \A c \in Batches : c \in Seq(ToSet(c))
  /\ "nobody" \notin BatchThreads
  /\ DictionaryCapacity \in Int /\ MaxDrifts \in Nat /\ MaxBatches \in Nat
VARIABLES home,        \* thread -> the process it runs in
          forked,      \* process 2 exists
          drift,       \* how often the function has changed
          executor,    \* process -> _native_batch_executor: its owner and version
          unavailable, \* process -> _native_batch_unavailable_process, 0 for None
          buildLock,   \* process -> the thread that holds _NATIVE_BATCH_BUILD_LOCK
          builds,      \* process -> how often the executor was built or failed
          batch        \* thread -> its call
vars == <<home, forked, drift, executor, unavailable, buildLock, builds, batch>>

NoExecutor == [owner |-> 0, version |-> 0]
Nobody == "nobody"
Enabled == DictionaryCapacity >= 0       \* UDFJIT_COLUMNAR_DICTIONARY
NoCall == [at |-> "idle", column |-> <<>>, entered |-> FALSE, use |-> NoExecutor, next |-> 1,
           outs |-> <<>>, ran |-> 0, began |-> 0, native |-> 0, dictionary |-> 0, rows |-> 0, left |-> MaxBatches]
Alive(t) == home[t] = 1 \/ forked
(* What the executor captured of the function and its dependencies still     *)
(* holds.                                                                    *)
Unchanged(e) == e.version = drift
Owns(e, p) == e.owner = p
Guarded(e) == e.owner # 0 /\ Unchanged(e)
Put(t, r) == batch' = [batch EXCEPT ![t] = r]
At(t, where) == batch[t].at = where
Processes == <<home, forked, drift, executor, unavailable, buildLock, builds>>

Init ==
  /\ home \in [BatchThreads -> {1, 2}] /\ forked = FALSE /\ drift = 0
  /\ \E t \in BatchThreads : home[t] = 1
  /\ executor = [p \in {1, 2} |-> NoExecutor] /\ unavailable = [p \in {1, 2} |-> 0]
  /\ buildLock = [p \in {1, 2} |-> Nobody] /\ builds = [p \in {1, 2} |-> 0]
  /\ batch = [t \in BatchThreads |-> NoCall]

(* The child has the wrapper as it was and fresh locks.                      *)
Fork ==
  /\ ~forked /\ forked' = TRUE
  /\ executor' = [executor EXCEPT ![2] = executor[1]]
  /\ unavailable' = [unavailable EXCEPT ![2] = unavailable[1]]
  /\ buildLock' = [buildLock EXCEPT ![2] = Nobody]
  /\ UNCHANGED <<home, drift, builds, batch>>
(* The user rebinds the function, or a watched cell changes.                 *)
Drift ==
  /\ drift < MaxDrifts /\ drift' = drift + 1
  /\ UNCHANGED <<home, forked, executor, unavailable, buildLock, builds, batch>>

-----------------------------------------------------------------------------
(* to_arrow, the lengths, the arity, the borrows and the physical types: a   *)
(* refusal is a TypeError, a ValueError or a DescriptorGuardError.           *)
Call(t) ==
  /\ Alive(t) /\ At(t, "idle") /\ batch[t].left > 0
  /\ \E c \in Batches, where \in {"resolve", "refused", "raised"} :
       Put(t, [NoCall EXCEPT !.at = where, !.column = c, !.began = drift, !.left = batch[t].left - 1,
               !.dictionary = IF Enabled THEN 0 ELSE 1])
  /\ UNCHANGED Processes

(* _resolve_native_batch_executor before the lock.                           *)
Resolve(t) ==
  LET p == home[t]
      e == executor[p]
  IN /\ At(t, "resolve")
     /\ Put(t, IF Owns(e, p) THEN [batch[t] EXCEPT !.at = "count", !.use = IF Guarded(e) THEN e ELSE NoExecutor]
               ELSE IF e.owner = 0 /\ unavailable[p] = p THEN [batch[t] EXCEPT !.at = "count"]
               ELSE [batch[t] EXCEPT !.at = "lock"])
     /\ UNCHANGED Processes
Lock(t) ==
  /\ At(t, "lock") /\ buildLock[home[t]] = Nobody
  /\ buildLock' = [buildLock EXCEPT ![home[t]] = t]
  /\ Put(t, [batch[t] EXCEPT !.at = "look"])
  /\ UNCHANGED <<home, forked, drift, executor, unavailable, builds>>
(* The wrapper is looked at again; an inherited executor is dropped.         *)
Look(t) ==
  LET p == home[t]
      foreign == executor[p].owner \notin {0, p}
      e == IF foreign THEN NoExecutor ELSE executor[p]
      none == IF foreign THEN 0 ELSE unavailable[p]
  IN /\ At(t, "look")
     /\ executor' = [executor EXCEPT ![p] = e]
     /\ unavailable' = [unavailable EXCEPT ![p] = none]
     /\ Put(t, IF e.owner # 0 THEN [batch[t] EXCEPT !.at = "unlock", !.use = e]
               ELSE IF none = p THEN [batch[t] EXCEPT !.at = "unlock"]
               ELSE [batch[t] EXCEPT !.at = "build", !.use = [owner |-> p, version |-> drift]])
     /\ UNCHANGED <<home, forked, drift, buildLock, builds>>
(* build_native_batch_executor: the guards captured first must still match.  *)
Build(t) ==
  LET p == home[t]
      e == batch[t].use
  IN /\ At(t, "build")
     /\ builds' = [builds EXCEPT ![p] = @ + 1]
     /\ \E ok \in BOOLEAN :
          IF ok /\ Guarded(e)
          THEN /\ executor' = [executor EXCEPT ![p] = e]
               /\ unavailable' = [unavailable EXCEPT ![p] = 0]
               /\ Put(t, [batch[t] EXCEPT !.at = "unlock"])
          ELSE /\ unavailable' = [unavailable EXCEPT ![p] = p]
               /\ Put(t, [batch[t] EXCEPT !.at = "unlock", !.use = NoExecutor])
               /\ UNCHANGED executor
     /\ UNCHANGED <<home, forked, drift, buildLock>>
Unlock(t) ==
  /\ At(t, "unlock")
  /\ buildLock' = [buildLock EXCEPT ![home[t]] = Nobody]
  /\ Put(t, [batch[t] EXCEPT !.at = "count", !.use = IF Guarded(batch[t].use) THEN batch[t].use ELSE NoExecutor])
  /\ UNCHANGED <<home, forked, drift, executor, unavailable, builds>>

-----------------------------------------------------------------------------
Distinct(c) == ToSet(c)
Profitable(c) ==
  /\ DictionaryCapacity > 0 /\ Cardinality(Distinct(c)) \in 1..DictionaryCapacity
  /\ Cardinality(Distinct(c)) * 2 <= Len(c)
(* Nullable columns and other types are not eligible.                        *)
Eligible(b) == b.use # NoExecutor /\ DictionaryCapacity > 0 /\ "null" \notin Distinct(b.column)
Count(t) ==
  LET b == batch[t] IN
  /\ At(t, "count")
  /\ Put(t, [b EXCEPT !.native = IF b.use = NoExecutor THEN 1 ELSE 0, !.rows = 1,
             !.at = IF Eligible(b) THEN "dictionary" ELSE "load"])
  /\ UNCHANGED Processes
(* The column is encoded, which may fail; then the guards are asked again.   *)
Dictionary(t) ==
  LET b == batch[t]
      without == [b EXCEPT !.dictionary = @ + 1, !.at = "load"]
  IN /\ At(t, "dictionary")
     /\ \/ Put(t, without)
        \/ /\ Profitable(b.column)
           /\ Put(t, IF ~Guarded(b.use) THEN without
                     ELSE [b EXCEPT !.entered = TRUE, !.dictionary = @ + 1, !.native = @ + 1, !.at = "distinct"])
     /\ UNCHANGED Processes
(* The handler: a failure after the semantic entry is the caller's, as is    *)
(* any other kind of exception.                                              *)
FailsAt(b) == IF b.entered THEN {"raised"} ELSE {"refused", "raised"}
(* The loop over the distinct values, and compute.take.                      *)
RunDistinct(t) ==
  LET b == batch[t] IN
  /\ At(t, "distinct")
  /\ \/ \E where \in FailsAt(b) : Put(t, [b EXCEPT !.ran = Len(b.column), !.at = where])
     \/ Put(t, [b EXCEPT !.ran = Len(b.column), !.outs = [i \in DOMAIN b.column |-> <<b.column[i], b.use.version>>],
                !.at = "published"])
  /\ UNCHANGED Processes
(* The column is loaded; the borrow may have expired.                        *)
Load(t) ==
  LET b == [batch[t] EXCEPT !.dictionary = IF batch[t].dictionary = 0 THEN 1 ELSE @]
  IN /\ At(t, "load")
     /\ \/ Put(t, [b EXCEPT !.at = "refused"])
        \/ Put(t, IF Guarded(b.use) THEN [b EXCEPT !.native = @ + 1, !.entered = TRUE, !.at = "native"]
                  ELSE [b EXCEPT !.native = IF b.native = 0 THEN 1 ELSE @, !.entered = TRUE, !.at = "scalar"])
     /\ UNCHANGED Processes
(* The native loop calls the function it was built for.                      *)
RowVersion(b) == IF b.at = "native" THEN b.use.version ELSE drift
(* The next row, in order; the function may raise.                           *)
Row(t) ==
  LET b == batch[t]
  IN /\ b.at \in {"native", "scalar"} /\ b.next <= Len(b.column)
     /\ \/ \E where \in FailsAt(b) : Put(t, [b EXCEPT !.ran = @ + 1, !.at = where])
        \/ Put(t, [b EXCEPT !.ran = @ + 1, !.next = @ + 1, !.outs = Append(@, <<b.column[b.next], RowVersion(b)>>)])
     /\ UNCHANGED Processes
(* pa.array may refuse what the function returned.                           *)
Publish(t) ==
  LET b == batch[t] IN
  /\ b.at \in {"native", "scalar"} /\ b.next > Len(b.column)
  /\ \E where \in {"published"} \cup FailsAt(b) : Put(t, [b EXCEPT !.at = where])
  /\ UNCHANGED Processes
(* Before it, the whole batch goes to the scalar wrapper; reading the        *)
(* columns again may raise.                                                  *)
Recover(t) ==
  LET b == batch[t]
      counted == [b EXCEPT !.native = IF @ = 0 THEN 1 ELSE @, !.dictionary = IF @ = 0 THEN 1 ELSE @]
  IN /\ At(t, "refused")
     /\ \/ Put(t, [counted EXCEPT !.at = "raised"])
        \/ Put(t, [counted EXCEPT !.rows = 1, !.entered = TRUE, !.at = "scalar", !.next = 1, !.outs = <<>>])
     /\ UNCHANGED Processes
Return(t) ==
  /\ batch[t].at \in {"published", "raised"}
  /\ Put(t, [batch[t] EXCEPT !.at = "idle", !.outs = <<>>, !.use = NoExecutor])
  /\ UNCHANGED Processes

Next ==
  \/ Fork \/ Drift
  \/ \E t \in BatchThreads :
       \/ Call(t) \/ Resolve(t) \/ Lock(t) \/ Look(t) \/ Build(t) \/ Unlock(t)
       \/ Count(t) \/ Dictionary(t) \/ RunDistinct(t) \/ Load(t) \/ Row(t) \/ Publish(t)
       \/ Recover(t) \/ Return(t)
Spec == Init /\ [][Next]_vars

-----------------------------------------------------------------------------
TypeOK ==
  /\ drift \in 0..MaxDrifts /\ forked \in BOOLEAN
  /\ \A t \in BatchThreads : batch[t].next <= Len(batch[t].column) + 1
  /\ \A p \in {1, 2} : buildLock[p] # Nobody => home[buildLock[p]] = p

(* No row is computed twice for one batch, whatever failed on the way        *)
(* (columnar.py:817).                                                        *)
NoRowReplayed == \A t \in BatchThreads : batch[t].ran <= Len(batch[t].column)
(* A published batch has the output of every row, in order, computed by a    *)
(* version of the function that was current during the call                  *)
(* (columnar.py:704, native_batch.py:176).                                   *)
PublishedIsWhole ==
  \A t \in BatchThreads : At(t, "published") =>
    /\ [i \in DOMAIN batch[t].outs |-> batch[t].outs[i][1]] = batch[t].column
    /\ \A i \in DOMAIN batch[t].outs : batch[t].outs[i][2] \in batch[t].began..drift
(* A process runs what it built itself, and builds at most once              *)
(* (columnar.py:503-552).                                                    *)
BuiltOnceHere ==
  /\ \A p \in {1, 2} : builds[p] <= 1
  /\ \A t \in BatchThreads : batch[t].use.owner \in {0, home[t]}
(* A published batch is counted once as native or not, once as dictionary or *)
(* not, and its rows once (columnar.py:582-861).                             *)
CountedOnce ==
  \A t \in BatchThreads :
    /\ batch[t].native <= 1 /\ batch[t].dictionary <= 1
    /\ At(t, "published") => batch[t].native = 1 /\ batch[t].dictionary = 1 /\ batch[t].rows = 1
=============================================================================

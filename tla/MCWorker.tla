------------------------------ MODULE MCWorker ------------------------------
(* The components of the Daft worker process.  They share no state: a run     *)
(* takes each part through all its behaviours.                                *)
EXTENDS Naturals, Sequences, FiniteSets

CONSTANT Parts   \* the parts a run looks at

CONSTANTS Threads, Variants, Captured, Replacements, RacesBinding,
          MaxRedefinitions, ExitCalls, MaxOddities, CallThreshold, Adapters,
          MaxRows, MaxVersion, Frames, Values, Unfit, BatchThreads, Batches,
          DictionaryCapacity, MaxDrifts, MaxBatches, Capacity, MaxEvents

VARIABLE part    \* the part that takes the steps

VARIABLES live, borrower, native, content, slotActive, paired, life, shut,
          slotThread, boundary
VARIABLES phase, invokeCode, redefinitions, binding, cache, invokeThread
VARIABLES contract, exits, oddities
VARIABLES proc, living, current, bypass, loopCode, owner, calls, mode,
          terminal, compiled, attempts, hits, fallbacks, loopLock, pc, mine,
          copy, seen, ran, rows
VARIABLES frame, staged, published, aborted, frameDelivered, frameActive,
          frameClosed
VARIABLES home, forked, drift, executor, unavailable, buildLock, builds, batch
VARIABLES queue, unfinished, accepted, eventDelivered, dropped, failures,
          eventClosed, eventLock, consumer, tpc, emitted

Scalar == INSTANCE ScalarExecution_proofs WITH active <- slotActive,
                                        thread <- slotThread
Invoke == INSTANCE WorkerInvoke WITH code <- invokeCode,
                                     thread <- invokeThread
Exits == INSTANCE Continuations
Loop == INSTANCE TypedLoopCalls WITH code <- loopCode, lock <- loopLock
Output == INSTANCE Physicalizer WITH delivered <- frameDelivered,
                                     active <- frameActive,
                                     closed <- frameClosed
Columns == INSTANCE ColumnarBatch
Events == INSTANCE Telemetry WITH delivered <- eventDelivered,
                                  closed <- eventClosed, lock <- eventLock
MCBatches == {<<"v", "v">>}

scalarVars == <<live, borrower, native, content, slotActive, paired, life,
                shut, slotThread, boundary>>
invokeVars == <<phase, invokeCode, redefinitions, binding, cache,
                invokeThread>>
exitsVars == <<contract, exits, oddities>>
loopVars == <<proc, living, current, bypass, loopCode, owner, calls, mode,
              terminal, compiled, attempts, hits, fallbacks, loopLock, pc,
              mine, copy, seen, ran, rows>>
framesVars == <<frame, staged, published, aborted, frameDelivered,
                frameActive, frameClosed>>
batchesVars == <<home, forked, drift, executor, unavailable, buildLock,
                 builds, batch>>
eventsVars == <<queue, unfinished, accepted, eventDelivered, dropped,
                failures, eventClosed, eventLock, consumer, tpc, emitted>>
vars == <<part, scalarVars, invokeVars, exitsVars, loopVars, framesVars,
          batchesVars, eventsVars>>

ScalarStep == part = "scalar" /\ UNCHANGED <<part, invokeVars, exitsVars,
                                             loopVars, framesVars,
                                             batchesVars, eventsVars>>
InvokeStep == part = "invoke" /\ UNCHANGED <<part, scalarVars, exitsVars,
                                             loopVars, framesVars,
                                             batchesVars, eventsVars>>
ExitsStep == part = "exits" /\ UNCHANGED <<part, scalarVars, invokeVars,
                                           loopVars, framesVars, batchesVars,
                                           eventsVars>>
LoopStep == part = "loop" /\ UNCHANGED <<part, scalarVars, invokeVars,
                                         exitsVars, framesVars, batchesVars,
                                         eventsVars>>
OutputStep == part = "frames" /\ UNCHANGED <<part, scalarVars, invokeVars,
                                             exitsVars, loopVars, batchesVars,
                                             eventsVars>>
ColumnsStep == part = "batches" /\ UNCHANGED <<part, scalarVars, invokeVars,
                                               exitsVars, loopVars,
                                               framesVars, eventsVars>>
EventsStep == part = "events" /\ UNCHANGED <<part, scalarVars, invokeVars,
                                             exitsVars, loopVars, framesVars,
                                             batchesVars>>

Init ==
  /\ part \in Parts
  /\ Scalar!Init
  /\ Invoke!Init
  /\ IF part = "exits" THEN Exits!Init
     ELSE contract = Exits!Own /\ exits = <<>> /\ oddities = 0
  /\ Loop!Init
  /\ Output!Init
  /\ IF part = "batches" THEN Columns!Init
     ELSE home = [t \in BatchThreads |-> 1] /\ Columns!Init
  /\ Events!Init

Next ==
  \/ ScalarStep /\ Scalar!Next
  \/ InvokeStep /\ Invoke!Next
  \/ ExitsStep /\ Exits!Next
  \/ LoopStep /\ Loop!Next
  \/ OutputStep /\ Output!Next
  \/ ColumnsStep /\ Columns!Next
  \/ EventsStep /\ Events!Next

Spec == Init /\ [][Next]_vars


(* A thread in a call goes on; the telemetry consumer runs and its backend     *)
(* returns.  Each condition speaks of the steps of one part.                   *)
Fairness ==
  /\ \A t \in Threads :
       /\ WF_vars(ScalarStep /\ Scalar!Execute(t))
       /\ WF_vars(InvokeStep /\ Invoke!Call(t))
       /\ WF_vars(EventsStep /\ Events!Count(t))
       /\ WF_vars(EventsStep /\ Events!Sentinel(t))
       /\ WF_vars(EventsStep /\ Events!Joined(t))
  /\ WF_vars(EventsStep /\ Events!Get)
  /\ WF_vars(EventsStep /\ Events!Leave)
  /\ WF_vars(EventsStep /\ \E b \in BOOLEAN : Events!Backend(b))
FairSpec == Spec /\ Fairness

ASSUME WorkerAssumption ==
  /\ Scalar!ExecutionAssumption /\ Invoke!InvokeAssumption /\ Output!OutputAssumption
  /\ Events!TelemetryAssumption /\ Loop!LoopAssumption /\ Columns!ColumnsAssumption
  /\ MaxOddities \in Nat

-----------------------------------------------------------------------------
(* Threads share the two slots of a variant: whichever exception is raised on  *)
(* the way and whenever the manager closes, borrows balance, a row loads what  *)
(* its own region stored, no slot is released under it, and a variant that is  *)
(* done with has released its slots (capability.py:401-471, executor.py:479).  *)
(* A region left by a side exit is continued once, by its own suffix with the  *)
(* values, aliases and exception it held (continuation.py:282-393, 571-760).   *)
SlotsSafe ==
  /\ part = "scalar" => /\ Scalar!TypeOK /\ Scalar!BorrowsAgree /\ Scalar!OwnRow
                        /\ Scalar!NotReleasedInUse /\ Scalar!NoSlotLeaks
  /\ part = "exits" => Exits!TypeOK /\ Exits!OneGoesOn /\ Exits!SuffixSeesTheRegion

(* Executing a variant is a guarded call: after the commit a row ends once, as *)
(* returned or raised, and only its boundary's suffix resumes it               *)
(* (executor.py:72-200, continuation.py:315).                                  *)
ImplementsGuardedCall == Scalar!ImplementsGuardedCall

(* No committed row runs the original too, every call that ends was answered,  *)
(* whoever skips the unlocked binding finds the assumption it compares, and a  *)
(* variant runs only for the code it was captured from (worker.py:1222-1663).  *)
InvokeSafe == part = "invoke" =>
  /\ Invoke!TypeOK /\ Invoke!NoReplay /\ Invoke!BindingComplete
  /\ Invoke!VariantRunsCapturedCode

(* Every row is answered, however the manager's cache changes meanwhile        *)
(* (worker.py:1586-1663).                                                      *)
CallsConclude == Invoke!CallsConclude

(* A row of the typed loop is answered by a version of the function that was   *)
(* current during its call, and no thread of a forked child waits for a lock   *)
(* its parent held (typed_loop_worker.py:857-915, wrapper.py:167-173).         *)
TypedLoopSafe == part = "loop" => Loop!TypeOK /\ Loop!RowRunsCurrentCode /\ Loop!LockHolderLives

(* The physicalizer's ids are those of the frames in use, so it closes exactly *)
(* when none is, and a frame delivers one valid value or is aborted            *)
(* (physicalize.py:134-286, ownership.py:50-86).  A batch publishes the output *)
(* of every row or none, runs no row twice, is counted once, and uses a native *)
(* loop its own process built (columnar.py:461-861, native_batch.py).          *)
OutputSafe ==
  /\ part = "frames" => Output!TypeOK /\ Output!IdsBelongToFrames /\ Output!OneValuePublished
  /\ part = "batches" => /\ Columns!TypeOK /\ Columns!NoRowReplayed /\ Columns!PublishedIsWhole
                         /\ Columns!BuiltOnceHere /\ Columns!CountedOnce

(* Every event offered is counted once, and none is left behind when close()   *)
(* returns (telemetry.py:178-229).                                             *)
Accounted == part = "events" => Events!TypeOK /\ Events!Accounted

(* close() ends although emitters fill the queue and the backend raises        *)
(* (telemetry.py:193-229).                                                     *)
CloseEnds == Events!CloseEnds
=============================================================================

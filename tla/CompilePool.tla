----------------------------- MODULE CompilePool -----------------------------
(***************************************************************************)
(* runtime/compile_pool.py, thread by thread: callers that submit and      *)
(* drain, the executor's worker threads, the daemon thread every compiler  *)
(* invocation runs in, and the thread that shuts the pool down.            *)
(*                                                                         *)
(* A task is one accepted submission.  Its future is resolved by a worker  *)
(* (the invocation's result, or the watchdog timeout) or cancelled by      *)
(* shutdown(wait=False).  Whichever thread finds the future resolved AND   *)
(* the callback attached runs the callback: completed(), then the removal  *)
(* from _inflight, then the release of the permit, in three steps.         *)
(***************************************************************************)
EXTENDS Naturals, Sequences, FiniteSets, SequencesExt

CONSTANTS
    Keys,           \* the exact keys that are submitted
    Workers,        \* the executor's max_workers threads
    Callers,        \* threads that call submit and drain
    Closer,         \* the thread that calls shutdown
    MaxPending,     \* max_pending
    MaxTasks        \* bound of the model: accepted submissions

ASSUME PoolAssumption ==
    /\ IsFiniteSet(Keys) /\ IsFiniteSet(Callers)
    /\ IsFiniteSet(Workers) /\ Workers # {}
    /\ Workers \cap Callers = {} /\ Closer \notin Workers \cup Callers
    /\ MaxPending \in Nat
    /\ MaxTasks \in Nat

VARIABLES
    closed,         \* _closed
    inflight,       \* _inflight: key -> task, NoTask where the key is absent
    free,           \* the value of the _capacity semaphore
    queue,          \* the executor's work queue
    future,         \* task -> "pending", or how it was resolved
    callbacks,      \* tasks whose finish() is attached to the future
    invocation,     \* task -> "none", "running" or "returned" (daemon thread)
    keyOf,          \* the keys of the accepted submissions, in order: task
                    \* t is the t-th of them
    thread,         \* thread -> what it is doing, and for which task
    delivered       \* task -> how many times completed() was called for it

vars == <<closed, inflight, free, queue, future, callbacks, invocation, keyOf,
          thread, delivered>>

Tasks == 1..MaxTasks
NoTask == 0
Threads == Workers \cup Callers \cup {Closer}
Capacity == Cardinality(Workers) + MaxPending

Idle == [at |-> "idle", task |-> NoTask]
Issued == DOMAIN keyOf
Resolved == {t \in Issued : future[t] # "pending"}

Goto(th, place, t) == thread' = [thread EXCEPT ![th] = [at |-> place, task |-> t]]

Init ==
    /\ closed = FALSE
    /\ inflight = [k \in Keys |-> NoTask]
    /\ free = Capacity
    /\ queue = <<>>
    /\ future = [t \in Tasks |-> "pending"]
    /\ callbacks = {}
    /\ invocation = [t \in Tasks |-> "none"]
    /\ keyOf = <<>>
    /\ thread = [th \in Threads |-> Idle]
    /\ delivered = [t \in Tasks |-> 0]

-----------------------------------------------------------------------------
(* submit, under _lock.  The other three decisions change nothing. *)
Submit(c, k) ==
    LET t == Len(keyOf) + 1
    IN  /\ thread[c].at = "idle"
        /\ t \in Tasks
        /\ ~closed
        /\ inflight[k] = NoTask
        /\ free > 0
        /\ free' = free - 1
        /\ queue' = Append(queue, t)
        /\ inflight' = [inflight EXCEPT ![k] = t]
        /\ keyOf' = Append(keyOf, k)
        /\ Goto(c, "register", t)
        /\ UNCHANGED <<closed, future, callbacks, invocation, delivered>>

(* Faulty: a future that is resolved already does not run the callback.    *)
RegisterLost(c) ==
    /\ thread[c].at = "register"
    /\ callbacks' = callbacks \cup {thread[c].task}
    /\ Goto(c, "idle", NoTask)
    /\ UNCHANGED <<closed, inflight, free, queue, future, invocation,
                   keyOf, delivered>>

(* add_done_callback, after _lock was released: it attaches finish(), or   *)
(* runs it in this thread when the future is already resolved.             *)
Register(c) ==
    LET t == thread[c].task
    IN  /\ thread[c].at = "register"
        /\ IF t \in Resolved
           THEN Goto(c, "complete", t) /\ UNCHANGED callbacks
           ELSE Goto(c, "idle", NoTask) /\ callbacks' = callbacks \cup {t}
        /\ UNCHANGED <<closed, inflight, free, queue, future, invocation,
                       keyOf, delivered>>

(* An executor thread takes the next task, starts its daemon invocation    *)
(* thread and waits for the result with the watchdog timeout.              *)
Take(w) ==
    /\ thread[w].at = "idle"
    /\ queue # <<>>
    /\ queue' = Tail(queue)
    /\ invocation' = [invocation EXCEPT ![Head(queue)] = "running"]
    /\ Goto(w, "compile", Head(queue))
    /\ UNCHANGED <<closed, inflight, free, future, callbacks, keyOf,
                   delivered>>

(* The worker leaves result.get: the future takes the outcome and the      *)
(* worker runs finish() when it is attached by now.                        *)
Resolve(w, outcome) ==
    LET t == thread[w].task
    IN  /\ thread[w].at = "compile"
        /\ future' = [future EXCEPT ![t] = outcome]
        /\ IF t \in callbacks
           THEN Goto(w, "complete", t)
           ELSE Goto(w, "idle", NoTask)

(* The compiler returns or raises while the worker still waits for it. *)
InvocationInTime(w, outcome) ==
    /\ Resolve(w, outcome)
    /\ invocation' = [invocation EXCEPT ![thread[w].task] = "returned"]
    /\ UNCHANGED <<closed, inflight, free, queue, callbacks, keyOf, delivered>>

(* Faulty: a timeout gives the key free at once, before its callback ran.  *)
TimeoutForgets(w) ==
    /\ Resolve(w, "timeout")
    /\ inflight' = [inflight EXCEPT ![keyOf[thread[w].task]] = NoTask]
    /\ UNCHANGED <<closed, free, queue, callbacks, invocation, keyOf, delivered>>

(* result.get raises queue.Empty; the daemon thread runs on. *)
Timeout(w) ==
    /\ Resolve(w, "timeout")
    /\ UNCHANGED <<closed, inflight, free, queue, callbacks, invocation, keyOf,
                   delivered>>

(* The compiler ends after the watchdog: nobody reads the result queue. *)
InvocationLate(t) ==
    /\ invocation[t] = "running"
    /\ t \in Resolved
    /\ invocation' = [invocation EXCEPT ![t] = "returned"]
    /\ UNCHANGED <<closed, inflight, free, queue, future, callbacks, keyOf,
                   thread, delivered>>

-----------------------------------------------------------------------------
(* Faulty: finish() leaves its key in _inflight, or keeps its permit.      *)
CompleteWithoutPop(th) ==
    /\ thread[th].at = "complete"
    /\ delivered' = [delivered EXCEPT ![thread[th].task] = @ + 1]
    /\ Goto(th, "release", thread[th].task)
    /\ UNCHANGED <<closed, inflight, free, queue, future, callbacks,
                   invocation, keyOf>>

(* finish(), in whichever thread runs it. *)
Complete(th) ==
    LET t == thread[th].task
    IN  /\ thread[th].at = "complete"
        /\ delivered' = [delivered EXCEPT ![t] = @ + 1]
        /\ Goto(th, "pop", t)
        /\ UNCHANGED <<closed, inflight, free, queue, future, callbacks,
                       invocation, keyOf>>

Pop(th) ==
    LET t == thread[th].task
    IN  /\ thread[th].at = "pop"
        /\ inflight' = [inflight EXCEPT ![keyOf[t]] = NoTask]
        /\ Goto(th, "release", t)
        /\ UNCHANGED <<closed, free, queue, future, callbacks, invocation,
                       keyOf, delivered>>

Release(th) ==
    /\ thread[th].at = "release"
    /\ free' = free + 1
    /\ Goto(th, IF th = Closer THEN "cancel" ELSE "idle", NoTask)
    /\ UNCHANGED <<closed, inflight, queue, future, callbacks, invocation,
                   keyOf, delivered>>

-----------------------------------------------------------------------------
(* drain: wait_for(not _inflight) *)
DrainCall(c) ==
    /\ thread[c].at = "idle"
    /\ Goto(c, "drain", NoTask)
    /\ UNCHANGED <<closed, inflight, free, queue, future, callbacks,
                   invocation, keyOf, delivered>>

(* Faulty: drain waits for the executor's queue only.                      *)
DrainReturnEarly(c) ==
    /\ thread[c].at = "drain"
    /\ queue = <<>>
    /\ Goto(c, "idle", NoTask)
    /\ UNCHANGED <<closed, inflight, free, queue, future, callbacks,
                   invocation, keyOf, delivered>>

DrainReturn(c) ==
    /\ thread[c].at = "drain"
    /\ \A k \in Keys : inflight[k] = NoTask
    /\ Goto(c, "idle", NoTask)
    /\ UNCHANGED <<closed, inflight, free, queue, future, callbacks,
                   invocation, keyOf, delivered>>

(* shutdown(wait): refuse submissions, then join the workers, which first  *)
(* empty the queue, or cancel what is queued and return.                   *)
Shutdown(wait) ==
    /\ thread[Closer].at = "idle"
    /\ closed' = TRUE
    /\ Goto(Closer, IF wait THEN "join" ELSE "cancel", NoTask)
    /\ UNCHANGED <<inflight, free, queue, future, callbacks, invocation,
                   keyOf, delivered>>

Join ==
    /\ thread[Closer].at = "join"
    /\ queue = <<>>
    /\ \A w \in Workers : thread[w].at = "idle"
    /\ Goto(Closer, "down", NoTask)
    /\ UNCHANGED <<closed, inflight, free, queue, future, callbacks,
                   invocation, keyOf, delivered>>

(* Cancelling a future runs its attached callback in the closing thread. *)
CancelQueued ==
    /\ thread[Closer].at = "cancel"
    /\ queue # <<>>
    /\ queue' = Tail(queue)
    /\ future' = [future EXCEPT ![Head(queue)] = "cancelled"]
    /\ IF Head(queue) \in callbacks
       THEN Goto(Closer, "complete", Head(queue))
       ELSE UNCHANGED thread
    /\ UNCHANGED <<closed, inflight, free, callbacks, invocation, keyOf,
                   delivered>>

CancelDone ==
    /\ thread[Closer].at = "cancel"
    /\ queue = <<>>
    /\ Goto(Closer, "left", NoTask)
    /\ UNCHANGED <<closed, inflight, free, queue, future, callbacks,
                   invocation, keyOf, delivered>>

-----------------------------------------------------------------------------
Finish(th) == Complete(th) \/ Pop(th) \/ Release(th)

Next ==
    \/ \E c \in Callers :
        \/ \E k \in Keys : Submit(c, k)
        \/ Register(c)
        \/ DrainCall(c)
        \/ DrainReturn(c)
    \/ \E w \in Workers :
        \/ Take(w)
        \/ Timeout(w)
        \/ \E outcome \in {"value", "error"} : InvocationInTime(w, outcome)
    \/ \E t \in Tasks : InvocationLate(t)
    \/ \E th \in Threads : Finish(th)
    \/ \E wait \in BOOLEAN : Shutdown(wait)
    \/ Join
    \/ CancelQueued
    \/ CancelDone

(* Threads the pool or the interpreter runs make progress; a compiler need *)
(* not ever return, and nobody is obliged to submit, drain or shut down.   *)
Fairness ==
    /\ \A c \in Callers : WF_vars(Register(c)) /\ WF_vars(DrainReturn(c))
    /\ \A w \in Workers : WF_vars(Take(w)) /\ WF_vars(Timeout(w))
    /\ \A th \in Threads : WF_vars(Finish(th))
    /\ WF_vars(Join) /\ WF_vars(CancelQueued \/ CancelDone)

Spec == Init /\ [][Next]_vars
FairSpec == Spec /\ Fairness

-----------------------------------------------------------------------------
ThreadStates ==
    [at : {"idle", "register", "compile", "complete", "pop", "release", "drain",
           "join", "cancel", "left", "down"},
     task : Tasks \cup {NoTask}]

TypeOK ==
    /\ closed \in BOOLEAN
    /\ inflight \in [Keys -> Tasks \cup {NoTask}]
    /\ free \in 0..Capacity
    /\ queue \in Seq(Tasks)
    /\ future \in [Tasks -> {"pending", "value", "error", "timeout", "cancelled"}]
    /\ callbacks \in SUBSET Tasks
    /\ invocation \in [Tasks -> {"none", "running", "returned"}]
    /\ keyOf \in BoundedSeq(Keys, MaxTasks)
    /\ thread \in [Threads -> ThreadStates]
    /\ delivered \in [Tasks -> Nat]

(* Tasks whose permit has not come back: some thread is at most one step   *)
(* of finish() away from releasing it.                                     *)
Unreleased ==
    {t \in Issued : delivered[t] = 0}
      \cup {thread[th].task : th \in {x \in Threads : thread[x].at \in {"pop", "release"}}}

(* The semaphore is neither leaked nor released twice: free permits and    *)
(* the tasks still holding one always add up to max_workers + max_pending. *)
PermitsConserved == free + Cardinality(Unreleased) = Capacity

(* Callbacks are exactly-once and ordered per key: while a task's callback *)
(* has not run, its key maps to it in _inflight, so no later task of that  *)
(* key exists; and completed() never runs twice, whoever runs finish().    *)
SingleflightByKey ==
    /\ \A t \in Issued : delivered[t] = 0 => inflight[keyOf[t]] = t
    /\ \A t \in Tasks : delivered[t] <= 1

(* When drain returns, completed() has been called for every submission    *)
(* accepted so far, even for those still being registered by another       *)
(* caller or timed out.                                                    *)
DrainedMeansDelivered ==
    [][\A c \in Callers :
        thread[c].at = "drain" /\ thread'[c].at = "idle"
            => \A t \in Issued : delivered[t] = 1]_vars

(* After shutdown(wait=True) returned no pool thread touches a callback    *)
(* any more; what is still undelivered is in the hands of the caller that  *)
(* submitted it and had not attached its callback in time.                 *)
DownMeansDetached ==
    thread[Closer].at = "down" =>
        \A t \in Issued : delivered[t] = 0 =>
            \E c \in Callers : thread[c].task = t

(* Permits, _inflight and callbacks stay in step, through timeouts, hanging *)
(* compilers and shutdown (compile_pool.py:60-185).                        *)
PoolConsistent ==
    TypeOK /\ PermitsConserved /\ SingleflightByKey /\ DownMeansDetached

(* Every accepted submission is answered even if its compiler hangs. *)
EveryTaskDelivered ==
    \A t \in Tasks : t \in Issued ~> delivered[t] = 1

(* Once the pool is closed every drain and the shutdown itself return. *)
ClosedPoolQuiesces ==
    /\ \A c \in Callers : (closed /\ thread[c].at = "drain") ~> thread[c].at = "idle"
    /\ closed ~> thread[Closer].at \in {"down", "left"}

-----------------------------------------------------------------------------
(* The pool implements the service the variant manager relies on. *)
flight ==
    [k \in Keys |->
        IF inflight[k] = NoTask THEN "free"
        ELSE IF delivered[inflight[k]] = 0 THEN "compiling" ELSE "delivering"]

detached == {k \in Keys : inflight[k] # NoTask /\ inflight[k] \in Resolved \ callbacks}
permits == Capacity - free
gate == IF ~closed THEN "open" ELSE IF thread[Closer].at = "down" THEN "down" ELSE "closed"

Service == INSTANCE CompileService

ImplementsService == Service!ServiceSpec
=============================================================================

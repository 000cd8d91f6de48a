--------------------------- MODULE ScalarExecution ---------------------------
(***************************************************************************)
(* provider/scalar_python/executor.py and capability.py, with the slots of *)
(* runtime/layout.py and the commit boundary of runtime/continuation.py.   *)
(*                                                                         *)
(* A variant owns a registry of two scalar slots, "in" and "out".  Threads *)
(* that execute a variant borrow both slots, write the input, commit, run  *)
(* the compiled region, and load the output (or resume the interpreter     *)
(* suffix after a side exit); meanwhile the variant may be closed.  One    *)
(* action is one critical section of the registry's lock, or one call made *)
(* outside of it.  A slot's content is the thread whose row it stems from; *)
(* it survives the borrow (only the pure-Python backend clears it).        *)
(***************************************************************************)
EXTENDS Naturals, FiniteSets

CONSTANTS
    Threads,    \* threads that execute variants
    Variants

None == "none"

ExecutionAssumption == None \notin Threads \cup Variants

VARIABLES
    live,       \* variant -> sides whose entry is in CapabilityRegistry._entries
    borrower,   \* variant, side -> the thread borrow_token stands for, or None
    native,     \* variant -> sides whose backend is _borrowed
    content,    \* variant, side -> the row its value stems from, or None
    active,     \* variant -> _active_borrows
    paired,     \* variants with argument_kind "backend_pair"; the others
                \* borrow slot by slot ("capability_pair")
    life,       \* variant -> its life from compilation to close
    shut,       \* TRUE once the manager that owns the variants is closed
    thread,     \* thread -> the step it is about to take, its variant, whether
                \* an exception is under way, and the row it loaded
    boundary    \* thread -> the phase of its CommitBoundary

registryVars == <<live, borrower, native, content, active>>
vars == <<registryVars, paired, life, shut, thread, boundary>>

Sides == {"in", "out"}
Idle == [at |-> "idle", variant |-> None, error |-> FALSE, loaded |-> None]

Init ==
    /\ live = [v \in Variants |-> {}]
    /\ borrower = [v \in Variants |-> [s \in Sides |-> None]]
    /\ native = [v \in Variants |-> {}]
    /\ content = [v \in Variants |-> [s \in Sides |-> None]]
    /\ active = [v \in Variants |-> 0]
    /\ paired = {}
    /\ life = [v \in Variants |-> "unbuilt"]
    /\ shut = FALSE
    /\ thread = [t \in Threads |-> Idle]
    /\ boundary = [t \in Threads |-> "pre_commit"]

Leased(v) == \E t \in Threads : thread[t].variant = v

-----------------------------------------------------------------------------
(* CinderXScalarProviderFactory.compile registers the slots, and releases  *)
(* what it registered when a later step fails.                             *)
Lives(v, from, to) == life[v] = from /\ life' = [life EXCEPT ![v] = to]

RegisterInput(v) ==
    /\ Lives(v, "unbuilt", "input")
    /\ live' = [live EXCEPT ![v] = {"in"}]
    /\ paired' \in {paired, paired \cup {v}}
    /\ UNCHANGED <<borrower, native, content, active, shut, thread, boundary>>

RegisterOutput(v, ok) ==
    /\ Lives(v, "input", IF ok THEN "built" ELSE "close_in")
    /\ live' = [live EXCEPT ![v] = IF ok THEN Sides ELSE @]
    /\ UNCHANGED <<paired, borrower, native, content, active, shut, thread, boundary>>

(* The rest of compile and the publication by the manager, which may       *)
(* refuse the variant and close it.                                        *)
Publish(v, ok) ==
    /\ Lives(v, "built", IF ok /\ ~shut THEN "cached" ELSE "close_out")
    /\ UNCHANGED <<registryVars, paired, shut, thread, boundary>>

(* The manager evicts a variant only when nobody leases it (CodeCache); its*)
(* own close() does not wait for leases.                                   *)
Evict(v) ==
    /\ ~Leased(v)
    /\ Lives(v, "cached", "close_out")
    /\ UNCHANGED <<registryVars, paired, shut, thread, boundary>>

CloseManager ==
    /\ ~shut
    /\ shut' = TRUE
    /\ life' = [v \in Variants |-> IF life[v] = "cached" THEN "close_out" ELSE life[v]]
    /\ UNCHANGED <<registryVars, paired, thread, boundary>>

(* ScalarProviderVariant.close: release the output, then the input; the    *)
(* first IN_USE ends it and nobody tries again.                            *)
ReleaseSlot(v, s) ==
    /\ life[v] = IF s = "out" THEN "close_out" ELSE "close_in"
    /\ IF active[v] > 0 \/ borrower[v][s] # None
       THEN life' = [life EXCEPT ![v] = "stuck"] /\ UNCHANGED live
       ELSE /\ life' = [life EXCEPT ![v] = IF s = "out" THEN "close_in" ELSE "closed"]
            /\ live' = [live EXCEPT ![v] = @ \ {s}]
    /\ UNCHANGED <<paired, borrower, native, content, active, shut, thread, boundary>>

-----------------------------------------------------------------------------
(* Borrowing.  beginFails is an exception of the backend's begin_borrow.   *)
Goto(t, step) == thread' = [thread EXCEPT ![t].at = step]
Fails(t, step) == thread' = [thread EXCEPT ![t].at = step, ![t].error = TRUE]

Call(t, v) ==
    /\ thread[t].at = "idle"
    /\ life[v] = "cached"
    /\ thread' = [thread EXCEPT ![t] =
            [at |-> IF v \in paired THEN "begin" ELSE "borrow_in",
             variant |-> v, error |-> FALSE, loaded |-> None]]
    /\ boundary' = [boundary EXCEPT ![t] = "pre_commit"]
    /\ UNCHANGED <<registryVars, paired, life, shut>>

Borrow(t, v, sides) ==
    /\ borrower' = [borrower EXCEPT ![v] =
            [s \in Sides |-> IF s \in sides THEN t ELSE @[s]]]
    /\ native' = [native EXCEPT ![v] = @ \cup sides]
    /\ active' = [active EXCEPT ![v] = @ + Cardinality(sides)]

Return(v, sides) ==
    /\ borrower' = [borrower EXCEPT ![v] =
            [s \in Sides |-> IF s \in sides THEN None ELSE @[s]]]
    /\ native' = [native EXCEPT ![v] = @ \ sides]
    /\ active' = [active EXCEPT ![v] = @ - Cardinality(sides)]

(* Faulty: slots that are borrowed already are borrowed again.             *)
BeginPairBorrowed(t, beginFails) ==
    LET v == thread[t].variant
    IN  /\ thread[t].at = "begin"
        /\ IF live[v] # Sides \/ beginFails
           THEN Fails(t, "ended") /\ UNCHANGED <<borrower, native, active>>
           ELSE Goto(t, "write") /\ Borrow(t, v, Sides)
        /\ UNCHANGED <<paired, live, content, life, shut, boundary>>

(* _begin_prepared_pair: both slots or none. *)
BeginPair(t, beginFails) ==
    LET v == thread[t].variant
    IN  /\ thread[t].at = "begin"
        /\ IF \/ live[v] # Sides
              \/ \E s \in Sides : borrower[v][s] # None
              \/ beginFails
           THEN Fails(t, "ended") /\ UNCHANGED <<borrower, native, active>>
           ELSE Goto(t, "write") /\ Borrow(t, v, Sides)
        /\ UNCHANGED <<paired, live, content, life, shut, boundary>>

(* borrow(handle), one slot at a time. *)
BorrowSlot(t, s, beginFails) ==
    LET v == thread[t].variant
    IN  /\ thread[t].at = IF s = "in" THEN "borrow_in" ELSE "borrow_out"
        /\ IF s \notin live[v] \/ borrower[v][s] # None \/ beginFails
           THEN /\ Fails(t, IF s = "in" THEN "ended" ELSE "return_in")
                /\ UNCHANGED <<borrower, native, active>>
           ELSE /\ Goto(t, IF s = "in" THEN "borrow_out" ELSE "write")
                /\ Borrow(t, v, {s})
        /\ UNCHANGED <<paired, live, content, life, shut, boundary>>

-----------------------------------------------------------------------------
(* The row.  Every step may raise; the context managers end the borrows:   *)
(* both at once after a pair protocol, the output's first otherwise.       *)
Exit(v) == IF v \in paired THEN "return_pair" ELSE "return_out"

Write(t, fails) ==
    LET v == thread[t].variant
    IN  /\ thread[t].at = "write"
        /\ IF fails
           THEN Fails(t, Exit(v)) /\ UNCHANGED content
           ELSE /\ Goto(t, "commit")
                /\ content' = [content EXCEPT ![v]["in"] = t]
        /\ UNCHANGED <<paired, live, borrower, native, active, life, shut, boundary>>

(* _execute_compiled_region: the commit, then the compiled function.       *)
CommitRow(t) ==
    /\ thread[t].at = "commit"
    /\ boundary[t] = "pre_commit"
    /\ boundary' = [boundary EXCEPT ![t] = "committed"]
    /\ Goto(t, "region")
    /\ UNCHANGED <<registryVars, paired, life, shut>>

Region(t, outcome) ==
    LET v == thread[t].variant
    IN  /\ thread[t].at = "region"
        /\ content' = IF outcome = "stored"
                      THEN [content EXCEPT ![v]["out"] = content[v]["in"]]
                      ELSE content
        /\ CASE outcome = "stored"    -> Goto(t, "load")
             [] outcome = "side_exit" -> Goto(t, "resume")
             [] outcome = "raised"    -> Fails(t, Exit(v))
        /\ UNCHANGED <<paired, live, borrower, native, active, life, shut, boundary>>

(* The side exit is decoded and checked (which may fail), the suffix is    *)
(* claimed and runs in the interpreter.                                    *)
Resume(t, rejected, raises) ==
    LET v == thread[t].variant
    IN  /\ thread[t].at = "resume"
        /\ IF rejected \/ boundary[t] # "committed"
           THEN Fails(t, Exit(v)) /\ UNCHANGED boundary
           ELSE /\ boundary' = [boundary EXCEPT ![t] = "suffix_claimed"]
                /\ thread' = [thread EXCEPT ![t].at = Exit(v), ![t].error = raises,
                                          ![t].loaded = t]
        /\ UNCHANGED <<registryVars, paired, life, shut>>

Load(t, fails) ==
    LET v == thread[t].variant
    IN  /\ thread[t].at = "load"
        /\ thread' = [thread EXCEPT ![t].at = Exit(v), ![t].error = fails,
                                    ![t].loaded = content[v]["out"]]
        /\ UNCHANGED <<registryVars, paired, life, shut, boundary>>

(* __exit__.  An end_borrow that raises still gives the slot back.         *)
ReturnSlots(t, sides, endFails) ==
    LET v == thread[t].variant
    IN  /\ thread[t].at = CASE sides = Sides   -> "return_pair"
                            [] sides = {"out"} -> "return_out"
                            [] sides = {"in"}  -> "return_in"
        /\ Return(v, sides)
        /\ thread' = [thread EXCEPT
                ![t].at = IF sides = {"out"} THEN "return_in" ELSE "ended",
                ![t].error = @ \/ endFails]
        /\ UNCHANGED <<paired, live, content, life, shut, boundary>>

(* execute_guarded ends: with a value, with the exception, or - when the   *)
(* exception came before the commit - with PreSemanticsExecutionError.     *)
(* Faulty: every exception is reported as if nothing had run.              *)
ConcludeRefused(t) ==
    /\ thread[t].at = "ended"
    /\ Goto(t, IF thread[t].error THEN "refused" ELSE "returned")
    /\ UNCHANGED <<registryVars, paired, life, shut, boundary>>

Conclude(t) ==
    /\ thread[t].at = "ended"
    /\ Goto(t, IF ~thread[t].error THEN "returned"
               ELSE IF boundary[t] = "pre_commit" THEN "refused" ELSE "raised")
    /\ UNCHANGED <<registryVars, paired, life, shut, boundary>>

(* The worker releases its lease. *)
ReleaseLease(t) ==
    /\ thread[t].at \in {"returned", "refused", "raised"}
    /\ thread' = [thread EXCEPT ![t] = Idle]
    /\ boundary' = [boundary EXCEPT ![t] = "pre_commit"]
    /\ UNCHANGED <<registryVars, paired, life, shut>>

-----------------------------------------------------------------------------
Execute(t) ==
    \/ \E fails \in BOOLEAN :
        \/ BeginPair(t, fails) \/ Write(t, fails) \/ Load(t, fails)
        \/ \E s \in Sides : BorrowSlot(t, s, fails)
        \/ \E sides \in {Sides, {"out"}, {"in"}} : ReturnSlots(t, sides, fails)
        \/ \E raises \in BOOLEAN : Resume(t, fails, raises)
    \/ CommitRow(t)
    \/ \E outcome \in {"stored", "side_exit", "raised"} : Region(t, outcome)
    \/ Conclude(t)

Next ==
    \/ \E t \in Threads :
        \/ \E v \in Variants : Call(t, v)
        \/ Execute(t)
        \/ ReleaseLease(t)
    \/ \E v \in Variants :
        \/ RegisterInput(v)
        \/ \E ok \in BOOLEAN : RegisterOutput(v, ok) \/ Publish(v, ok)
        \/ Evict(v)
        \/ \E s \in Sides : ReleaseSlot(v, s)
    \/ CloseManager

Spec == Init /\ [][Next]_vars
FairSpec == Spec /\ \A t \in Threads : WF_vars(Execute(t))

-----------------------------------------------------------------------------
Steps == {"idle", "begin", "borrow_in", "borrow_out", "write", "commit", "region",
          "resume", "load", "return_pair", "return_out", "return_in", "ended",
          "returned", "refused", "raised"}

TypeOK ==
    /\ live \in [Variants -> SUBSET Sides]
    /\ borrower \in [Variants -> [Sides -> Threads \cup {None}]]
    /\ native \in [Variants -> SUBSET Sides]
    /\ content \in [Variants -> [Sides -> Threads \cup {None}]]
    /\ active \in [Variants -> 0..2]
    /\ paired \in SUBSET Variants
    /\ life \in [Variants -> {"unbuilt", "input", "built", "cached", "close_out",
                              "close_in", "closed", "stuck"}]
    /\ shut \in BOOLEAN
    /\ thread \in [Threads -> [at : Steps, variant : Variants \cup {None},
                               error : BOOLEAN, loaded : Threads \cup {None}]]
    /\ boundary \in [Threads -> {"pre_commit", "committed", "suffix_claimed"}]

Inside(t) ==
    thread[t].at \in {"write", "commit", "region", "resume", "load",
                      "return_pair", "return_out"}

(* Registry, counter and native slots never disagree, whichever of the     *)
(* many exceptions was raised on the way, and no borrow outlives its call. *)
BorrowsAgree ==
    \A v \in Variants :
        /\ native[v] = {s \in Sides : borrower[v][s] # None}
        /\ active[v] = Cardinality(native[v])
        /\ \A s \in native[v] : thread[borrower[v][s]].variant = v

(* Rows do not mix: a call that ends with a value loaded the value its own *)
(* region stored, although all threads share the two slots of a variant.   *)
OwnRow ==
    \A t \in Threads :
        /\ thread[t].at = "returned" => thread[t].loaded = t
        /\ thread[t].at = "region" => content[thread[t].variant]["in"] = t

(* From the first borrow to the last return the slots are registered: no   *)
(* close, not even the manager's own, releases a slot under a running row. *)
NotReleasedInUse ==
    \A t \in Threads : Inside(t) =>
        /\ live[thread[t].variant] = Sides
        /\ \A s \in Sides : borrower[thread[t].variant][s] = t

(* A variant that is done with has released both slots, after a failed     *)
(* compilation, a refused publication or an eviction alike; only a manager *)
(* closed under a running row meets IN_USE and leaves slots behind.        *)
NoSlotLeaks ==
    \A v \in Variants :
        life[v] \in {"closed", "stuck"} /\ live[v] # {} => shut

-----------------------------------------------------------------------------
(* Executing a variant is a guarded call. *)
phase == [t \in Threads |->
    IF thread[t].at = "idle" THEN "out"
    ELSE IF thread[t].at \in {"returned", "refused", "raised"} THEN thread[t].at
    ELSE boundary[t]]

Guarded == INSTANCE GuardedCall

ImplementsGuardedCall == Guarded!GuardedCallSpec
=============================================================================

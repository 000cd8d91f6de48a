----------------------------- MODULE WorkerInvoke -----------------------------
(***************************************************************************)
(* integration/daft_ray/worker.py, WorkerScalarAdapter.invoke: how one row *)
(* is answered, by the compiled variant or by the original callable.       *)
(* Threads share the adapter without a lock: the first calls bind the      *)
(* artifact and the assumption about the callable field by field, later    *)
(* ones trust what they find.  The variant itself is a GuardedCall, the    *)
(* variant manager shows through the state of the adapter's one key.       *)
(***************************************************************************)
EXTENDS GuardedCall, Naturals

CONSTANTS
    Captured,           \* the code object the artifact was captured from
    Replacements,       \* other code objects the user may put in its place
    RacesBinding,       \* BOOLEAN: the user may do so while a call is binding
    MaxRedefinitions    \* bound of the model: how often the user does so

Codes == {Captured} \cup Replacements
None == "none"

InvokeAssumption ==
    /\ Captured \notin Replacements /\ None \notin Codes
    /\ RacesBinding \in BOOLEAN
    /\ MaxRedefinitions \in Nat

VARIABLES
    code,           \* the __code__ of the user's function
    redefinitions,  \* how often it was replaced
    binding,        \* _artifact, _callable_entry_assumption and _key
    cache,          \* the manager's state of the key
    thread          \* thread -> its call of invoke

vars == <<code, redefinitions, binding, cache, thread, phase>>

Unbound == [artifact |-> FALSE, assumption |-> None, key |-> FALSE]

Idle == [at |-> "idle", assumed |-> None, guarded |-> None,
         ran |-> 0, raised |-> 0, committed |-> FALSE]

Init ==
    /\ code = Captured
    /\ redefinitions = 0
    /\ binding = Unbound
    /\ cache = "absent"
    /\ thread = [t \in Threads |-> Idle]
    /\ GuardedCallInit

At(t, steps) == thread[t].at \in steps
Goto(t, step) == thread' = [thread EXCEPT ![t].at = step]

-----------------------------------------------------------------------------
(* A value that cannot be extracted is the original callable's business.   *)
Begin(t) ==
    /\ At(t, {"idle"})
    /\ \E step \in {"load", "fallback"} : Goto(t, step)
    /\ UNCHANGED <<code, redefinitions, binding, cache, phase>>

(* _load_and_reverify.  Every step that raises ends in invoke's handlers,  *)
(* which answer with the original callable.                                *)
Load(t) ==
    /\ At(t, {"load"})
    /\ IF binding.artifact /\ binding.key
       THEN Goto(t, "guard")
       ELSE \E step \in {"identify", "fallback"} : Goto(t, step)
    /\ UNCHANGED <<code, redefinitions, binding, cache, phase>>

(* The hash of the callable's code against the artifact's ...              *)
Identify(t) ==
    /\ At(t, {"identify"})
    /\ Goto(t, IF code = Captured THEN "assume" ELSE "fallback")
    /\ UNCHANGED <<code, redefinitions, binding, cache, phase>>

(* ... and then, read once more, the code object the fast guard will       *)
(* compare by identity.  The schema or the target may still be refused.    *)
Assume(t) ==
    /\ At(t, {"assume"})
    /\ \E step \in {"bind_artifact", "fallback"} :
        thread' = [thread EXCEPT ![t].assumed = code, ![t].at = step]
    /\ UNCHANGED <<code, redefinitions, binding, cache, phase>>

(* The key is the last field written: who finds it finds the others.       *)
Bind(t) ==
    /\ \/ /\ At(t, {"bind_artifact"})
          /\ binding' = [binding EXCEPT !.artifact = TRUE]
          /\ Goto(t, "bind_assumption")
       \/ /\ At(t, {"bind_assumption"})
          /\ binding' = [binding EXCEPT !.assumption = thread[t].assumed]
          /\ Goto(t, "bind_key")
       \/ /\ At(t, {"bind_key"})
          /\ binding' = [binding EXCEPT !.key = TRUE]
          /\ Goto(t, "guard")
    /\ UNCHANGED <<code, redefinitions, cache, phase>>

(* _observe_fast and guard_outer_entry, then the continuation, which may   *)
(* fail to be built.                                                       *)
Guard(t) ==
    /\ At(t, {"guard"})
    /\ \/ Goto(t, "fallback")
       \/ /\ code = binding.assumption
          /\ thread' = [thread EXCEPT ![t].guarded = code, ![t].at = "acquire"]
    /\ UNCHANGED <<code, redefinitions, binding, cache, phase>>

(* Faulty: a lost variant is resolved again.                               *)
AcquireAgain(t) ==
    /\ At(t, {"acquire", "reacquire"})
    /\ IF cache = "active"
       THEN Goto(t, "execute") /\ Enter(t)
       ELSE Goto(t, "resolve") /\ UNCHANGED phase
    /\ UNCHANGED <<code, redefinitions, binding, cache>>

(* The lease, before and after resolve; a variant lost between a HIT and   *)
(* the second acquire is a VARIANT_MISMATCH.                               *)
Acquire(t) ==
    /\ At(t, {"acquire", "reacquire"})
    /\ IF cache = "active"
       THEN Goto(t, "execute") /\ Enter(t)
       ELSE /\ Goto(t, IF At(t, {"acquire"}) THEN "resolve" ELSE "fallback")
            /\ UNCHANGED phase
    /\ UNCHANGED <<code, redefinitions, binding, cache>>

(* Anything but a HIT is answered inside the try whose handlers answer     *)
(* with the original callable too.                                         *)
Resolve(t) ==
    /\ At(t, {"resolve"})
    /\ IF cache = "active"
       THEN Goto(t, "reacquire") /\ UNCHANGED cache
       ELSE /\ Goto(t, "fallback_in_try")
            /\ cache' \in {cache, "compiling"}
    /\ UNCHANGED <<code, redefinitions, binding, phase>>

(* _fallback: the original callable runs, and may raise.                   *)
AfterOriginal(t, raises) ==
    CASE At(t, {"fallback_in_try"}) /\ raises -> "fallback"
      [] At(t, {"fallback_leased"})           -> "release"
      [] OTHER                                -> "answered"

Original(t, raises) ==
    /\ At(t, {"fallback", "fallback_in_try", "fallback_leased"})
    /\ thread' = [thread EXCEPT
            ![t].at = AfterOriginal(t, raises),
            ![t].ran = @ + 1,
            ![t].raised = IF raises THEN @ + 1 ELSE @]
    /\ UNCHANGED <<code, redefinitions, binding, cache, phase>>

-----------------------------------------------------------------------------
(* _execute_variant: the guarded call runs; refused before the commit it   *)
(* is answered by the original callable, afterwards its outcome stands.    *)
VariantRuns(t) ==
    /\ At(t, {"execute"})
    /\ Refuse(t) \/ Commit(t) \/ ClaimSuffix(t) \/ Return(t) \/ Raise(t)
    /\ thread' = [thread EXCEPT ![t].committed = @ \/ phase'[t] = "committed"]
    /\ UNCHANGED <<code, redefinitions, binding, cache>>

(* Faulty: an exception after the commit falls back too.                   *)
VariantEndsReplayed(t) ==
    /\ At(t, {"execute"})
    /\ Leave(t)
    /\ Goto(t, IF phase[t] = "returned" THEN "release" ELSE "fallback_leased")
    /\ UNCHANGED <<code, redefinitions, binding, cache>>

VariantEnds(t) ==
    /\ At(t, {"execute"})
    /\ Leave(t)
    /\ Goto(t, IF phase[t] = "refused" THEN "fallback_leased" ELSE "release")
    /\ UNCHANGED <<code, redefinitions, binding, cache>>

(* The finally clause returns the lease, and swallows what that raises.    *)
Release(t) ==
    /\ At(t, {"release"})
    /\ Goto(t, "answered")
    /\ UNCHANGED <<code, redefinitions, binding, cache, phase>>

Answer(t) ==
    /\ At(t, {"answered"})
    /\ thread' = [thread EXCEPT ![t] = Idle]
    /\ UNCHANGED <<code, redefinitions, binding, cache, phase>>

-----------------------------------------------------------------------------
(* The variant manager, as far as the adapter sees it: what it compiles    *)
(* becomes active or not, and it may evict the variant or be closed at any *)
(* time (VariantManager says what that means for the leases).              *)
ManagerStep ==
    /\ \/ cache = "compiling" /\ cache' \in {"active", "absent"}
       \/ cache = "active" /\ cache' = "absent"
    /\ UNCHANGED <<code, redefinitions, binding, thread, phase>>

(* The user replaces the function's __code__.                              *)
Binding(t) == At(t, {"assume"})

Redefine ==
    /\ redefinitions < MaxRedefinitions
    /\ RacesBinding \/ ~ \E t \in Threads : Binding(t)
    /\ code' \in Codes \ {code}
    /\ redefinitions' = redefinitions + 1
    /\ UNCHANGED <<binding, cache, thread, phase>>

Call(t) ==
    \/ Load(t) \/ Identify(t) \/ Assume(t) \/ Bind(t) \/ Guard(t)
    \/ Acquire(t) \/ Resolve(t)
    \/ \E raises \in BOOLEAN : Original(t, raises)
    \/ VariantRuns(t) \/ VariantEnds(t) \/ Release(t) \/ Answer(t)

Next ==
    \/ \E t \in Threads : Begin(t) \/ Call(t)
    \/ ManagerStep
    \/ Redefine

(* A thread inside a call keeps running; the user's function and the       *)
(* compiled region end.                                                    *)
Spec == Init /\ [][Next]_vars
FairSpec == Spec /\ \A t \in Threads : WF_vars(Call(t))

-----------------------------------------------------------------------------
Steps == {"idle", "load", "identify", "assume", "bind_artifact", "bind_assumption",
          "bind_key", "guard", "acquire", "resolve", "reacquire", "execute",
          "fallback", "fallback_in_try", "fallback_leased", "release", "answered"}

TypeOK ==
    /\ code \in Codes
    /\ redefinitions \in 0..MaxRedefinitions
    /\ binding \in [artifact : BOOLEAN, assumption : Codes \cup {None}, key : BOOLEAN]
    /\ cache \in {"absent", "compiling", "active"}
    /\ thread \in [Threads -> [at : Steps, assumed : Codes \cup {None},
                               guarded : Codes \cup {None}, ran : 0..2,
                               raised : 0..2, committed : BOOLEAN]]
    /\ phase \in [Threads -> {"out", "pre_commit", "committed", "suffix_claimed",
                              "refused", "returned", "raised"}]

(* A row is never replayed: once the variant has committed the original    *)
(* callable does not run for it, and it runs a second time only when its   *)
(* first run raised.  A call that ends was answered by one of the two.     *)
NoReplay ==
    \A t \in Threads :
        /\ thread[t].committed => thread[t].ran = 0
        /\ thread[t].ran > 1 => thread[t].raised >= thread[t].ran - 1
        /\ At(t, {"answered"}) => thread[t].committed \/ thread[t].ran > 0

(* The unlocked binding is safe to trust: whoever skips it because the     *)
(* artifact and the key are there finds the assumption it will compare.    *)
BindingComplete ==
    /\ binding.key => binding.artifact /\ binding.assumption # None
    /\ \A t \in Threads : At(t, {"guard"}) => binding.key

(* test_replacing_user_code_falls_back_before_provider_entry: compiled     *)
(* code only runs for the code it was captured from.                       *)
VariantRunsCapturedCode ==
    \A t \in Threads : phase[t] # "out" => thread[t].guarded = Captured

(* Plan 2026-07-21-001: a row that misses the guard or is not supported    *)
(* runs the original callable at most once.                                *)
OriginalAtMostOnce == \A t \in Threads : thread[t].ran <= 1

(* Every row is answered, however the manager's cache changes meanwhile.   *)
CallsConclude == \A t \in Threads : ~At(t, {"idle"}) ~> At(t, {"idle"})
=============================================================================

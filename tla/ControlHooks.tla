---------------------------- MODULE ControlHooks ----------------------------
(* The driver's hooks on the data frame library: install_daft_control_hooks   *)
(* wraps four methods one by one; a wrapped call of a function object on an    *)
(* expression swaps that object's method for the length of the library's own   *)
(* call.  One function object is shared by all threads; wrapper, marker and    *)
(* original of a hook are the number of layers around the library's method.    *)
EXTENDS Naturals, Sequences, FiniteSets

CONSTANTS Threads, MaxEntries

VARIABLES
  layers,        \* hooked method -> number of wrappers around the original
  report,        \* what the last installation answered
  lineageHooks,  \* how many of the lineage's hook groups are in place
  lineageActive, \* native_lineage_active of the installed closure
  bound,         \* a native candidate is bound in the lineage registry
  method,        \* func._method: the user's function or its replacement
  batched,       \* func.is_batch
  lock,          \* owner of _CALL_LOCK, or NoThread
  pc, kind,      \* of the call a thread is in
  original,      \* original_callable, read under the lock
  entries        \* calls begun

hookVars == <<layers, report, lineageHooks, lineageActive, bound>>
funcVars == <<method, batched, lock>>
callVars == <<pc, kind, original, entries>>
vars == <<layers, report, lineageHooks, lineageActive, bound,
          method, batched, lock, pc, kind, original, entries>>

NoThread == "no thread"
Order == <<"call", "where", "select", "with_columns">>
Hooked == {Order[i] : i \in 1..Len(Order)}
Groups == 3        \* preserving, terminal and force-fallback methods
Kinds == {"plain", "incompatible", "scalar", "columnar", "native"}
HooksAssumption == NoThread \notin Threads /\ MaxEntries \in Nat
Reports == {"none", "installed", "already", "partial", "incompatible", "failed"}

Init ==
  /\ layers = [m \in Hooked |-> 0] /\ report = "none"
  /\ lineageHooks = 0 /\ lineageActive = FALSE /\ bound = FALSE
  /\ method = "user" /\ batched = FALSE /\ lock = NoThread
  /\ pc = [t \in Threads |-> "idle"] /\ kind = [t \in Threads |-> "plain"]
  /\ original = [t \in Threads |-> "unread"] /\ entries = 0

Marked == {m \in Hooked : layers[m] > 0}

(* Under _INSTALL_LOCK.  The setattr after the first `reached` ones raises,     *)
(* unless all are reached; what was set stays.                                 *)
Install(compatible, reached) ==
  /\ layers' = IF Marked = {} /\ compatible
               THEN [m \in Hooked |-> IF \E i \in 1..reached : Order[i] = m
                                      THEN layers[m] + 1 ELSE layers[m]]
               ELSE layers
  /\ report' = CASE Marked = Hooked      -> "already"
                 [] Marked \notin {{}, Hooked} -> "partial"
                 [] ~compatible          -> "incompatible"
                 [] reached < Len(Order) -> "failed"
                 [] OTHER                -> "installed"
  /\ UNCHANGED <<lineageHooks, lineageActive, bound, funcVars, callVars>>

(* wrapped_func_call up to the lock; a call without expressions, or of an      *)
(* object that does not look as expected, goes to the library unlocked.        *)
Enter(t, k) ==
  /\ pc[t] = "idle" /\ layers["call"] > 0 /\ entries < MaxEntries
  /\ entries' = entries + 1
  /\ kind' = [kind EXCEPT ![t] = k]
  /\ pc' = [pc EXCEPT ![t] = IF k \in {"plain", "incompatible"} THEN "direct" ELSE "waiting"]
  /\ UNCHANGED <<hookVars, funcVars, original>>

(* Under _CALL_LOCK: the method is read, the native proof and the columnar     *)
(* eligibility are decided.  A nested call of the same object by this thread   *)
(* goes to the library without any change and is not shown.                    *)
Acquire(t) ==
  /\ pc[t] = "waiting" /\ lock = NoThread /\ lock' = t
  /\ original' = [original EXCEPT ![t] = method]
  /\ pc' = [pc EXCEPT ![t] = IF kind[t] = "native" THEN "proved" ELSE "eligible"]
  /\ UNCHANGED <<hookVars, method, batched, kind, entries>>

(* registry.register, the batch wrapper and the swap; a failure puts the       *)
(* original back and goes on without a candidate.                              *)
Register(t, fails) ==
  /\ pc[t] = "eligible"
  /\ IF fails
     THEN /\ method' = original[t] /\ UNCHANGED batched
          /\ pc' = [pc EXCEPT ![t] = "again"]
     ELSE /\ method' = IF kind[t] = "columnar" THEN "batch" ELSE "wrapper"
          /\ batched' = (kind[t] = "columnar")
          /\ pc' = [pc EXCEPT ![t] = "swapped"]
  /\ UNCHANGED <<hookVars, lock, kind, original, entries>>

Restored(t) == method' = original[t] /\ batched' = FALSE

(* The library's call under the swapped method, which may raise; `finally`     *)
(* restores in either case.  Only an expression is bound afterwards.           *)
FrameworkCall(t, raises) ==
  /\ pc[t] = "swapped"
  /\ Restored(t) /\ lock' = NoThread
  /\ pc' = [pc EXCEPT ![t] = IF raises THEN "idle" ELSE "binding"]
  /\ UNCHANGED <<hookVars, kind, original, entries>>

(* registry.bind_expression after the lock; its failure is swallowed.          *)
BindExpression(t) ==
  /\ pc[t] = "binding" /\ pc' = [pc EXCEPT ![t] = "idle"]
  /\ UNCHANGED <<hookVars, funcVars, kind, original, entries>>

(* The first native call installs the lineage's hooks; a setattr that raises   *)
(* leaves the groups before it in place and the lineage inactive.              *)
LineageInstall(t, reached) ==
  /\ pc[t] = "proved"
  /\ IF lineageActive
     THEN UNCHANGED <<lineageHooks, lineageActive>> /\ pc' = [pc EXCEPT ![t] = "lowering"]
     ELSE /\ lineageHooks' = IF reached > lineageHooks THEN reached ELSE lineageHooks
          /\ lineageActive' = (reached = Groups)
          /\ pc' = [pc EXCEPT ![t] = IF reached = Groups THEN "lowering" ELSE "again"]
  /\ UNCHANGED <<layers, report, bound, funcVars, kind, original, entries>>

(* The library builds the user's expression, which is bound to its native      *)
(* twin; any exception calls the library again.                                *)
NativeCall(t, raises) ==
  /\ pc[t] = "lowering"
  /\ IF raises
     THEN pc' = [pc EXCEPT ![t] = "again"] /\ UNCHANGED <<bound, lock>>
     ELSE pc' = [pc EXCEPT ![t] = "idle"] /\ bound' = TRUE /\ lock' = NoThread
  /\ UNCHANGED <<layers, report, lineageHooks, lineageActive, method, batched,
                 kind, original, entries>>

(* The library's call without a candidate, still under the lock.               *)
CallAgain(t) ==
  /\ pc[t] = "again" /\ lock' = NoThread /\ pc' = [pc EXCEPT ![t] = "idle"]
  /\ UNCHANGED <<hookVars, method, batched, kind, original, entries>>

(* ... and the one that takes no lock.                                         *)
DirectCall(t) ==
  /\ pc[t] = "direct" /\ pc' = [pc EXCEPT ![t] = "idle"]
  /\ UNCHANGED <<hookVars, funcVars, kind, original, entries>>

(* uninstall_daft_control_hooks is for tests and diagnostics: never with a     *)
(* call under way.                                                             *)
Uninstall ==
  /\ \A t \in Threads : pc[t] = "idle"
  /\ layers' = [m \in Hooked |-> IF layers[m] > 0 THEN layers[m] - 1 ELSE 0]
  /\ report' = "none" /\ lineageHooks' = 0 /\ lineageActive' = FALSE /\ bound' = FALSE
  /\ UNCHANGED <<funcVars, callVars>>

Next ==
  \/ \E compatible \in BOOLEAN, reached \in 0..Len(Order) : Install(compatible, reached)
  \/ Uninstall
  \/ \E t \in Threads :
       \/ \E k \in Kinds : Enter(t, k)
       \/ Acquire(t) \/ BindExpression(t) \/ CallAgain(t) \/ DirectCall(t)
       \/ \E b \in BOOLEAN : Register(t, b) \/ FrameworkCall(t, b) \/ NativeCall(t, b)
       \/ \E reached \in 0..Groups : LineageInstall(t, reached)

Spec == Init /\ [][Next]_vars

TypeOK ==
  /\ layers \in [Hooked -> 0..2] /\ report \in Reports
  /\ lineageHooks \in 0..Groups /\ lineageActive \in BOOLEAN /\ bound \in BOOLEAN
  /\ method \in {"user", "wrapper", "batch"} /\ batched \in BOOLEAN
  /\ lock \in Threads \cup {NoThread}
  /\ pc \in [Threads -> {"idle", "direct", "waiting", "eligible", "swapped", "binding",
                         "proved", "lowering", "again"}]
  /\ kind \in [Threads -> Kinds]
  /\ original \in [Threads -> {"unread", "user", "wrapper", "batch"}]
  /\ entries \in 0..MaxEntries

(* Whatever raises and whichever threads call, the function object has the     *)
(* user's method and batch option whenever no call holds the lock, and no      *)
(* wrapper is ever taken for the user's function (control.py:734-818).         *)
UserMethodKept ==
  /\ lock = NoThread => method = "user" /\ ~batched
  /\ \A t \in Threads : original[t] \in {"unread", "user"}

(* A native expression is bound only while every terminal of the library       *)
(* checks its guards first, although the hooks may fail half way, and no       *)
(* method of the library is wrapped twice (control.py:699-708, 750-757).       *)
NativePlansGuarded ==
  /\ bound => lineageHooks = Groups /\ lineageActive
  /\ \A m \in Hooked : layers[m] <= 1
=============================================================================

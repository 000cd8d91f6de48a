--------------------------- MODULE TypedLoopCalls ---------------------------
(* Rows of an exact-Unicode candidate on a worker: the wrapper finds or builds  *)
(* the adapter of its process, the adapter counts calls, compiles once under    *)
(* its lock and hands every thread a copy of what it has; guards are asked and  *)
(* the variant runs outside of the lock, while the user may change the          *)
(* function.  A fork leaves the child one thread and the parent's objects.      *)
EXTENDS Naturals, FiniteSets

CONSTANTS Threads, CallThreshold,
          Adapters, MaxRows, MaxVersion    \* bounds of the model

LoopAssumption ==
  IsFiniteSet(Threads) /\ "nobody" \notin Threads /\ MaxRows \in Nat /\ MaxVersion \in Nat

VARIABLES
  proc,        \* 1 in the parent, 2 in the child
  living,      \* threads of this process
  current,     \* adapter the wrapper holds, or NoAdapter
  bypass,      \* _typed_loop_terminal_bypass
  code,        \* version of the user's function
  owner, calls, mode, terminal, compiled, attempts, hits, fallbacks,   \* per adapter
  lock,        \* adapter -> thread, or Nobody
  pc, mine, copy, seen, ran, rows

adapterVars == <<owner, calls, mode, terminal, compiled, attempts, hits, fallbacks>>
wrapperVars == <<proc, living, current, bypass, code>>
vars == <<proc, living, current, bypass, code, owner, calls, mode, terminal, compiled,
          attempts, hits, fallbacks, lock, pc, mine, copy, seen, ran, rows>>

NoAdapter == 0
Nobody == "nobody"
Unrun == MaxVersion + 1
Versions == 0..MaxVersion
Modes == {"none", "variant", "cache"}    \* nothing, a typed region, a value-cached callee

Init ==
  /\ proc = 1 /\ living = Threads /\ current = NoAdapter /\ bypass = FALSE /\ code = 0
  /\ owner = [a \in Adapters |-> 0] /\ calls = [a \in Adapters |-> 0]
  /\ mode = [a \in Adapters |-> "none"] /\ terminal = [a \in Adapters |-> FALSE]
  /\ compiled = [a \in Adapters |-> 0] /\ attempts = [a \in Adapters |-> 0]
  /\ hits = [a \in Adapters |-> 0] /\ fallbacks = [a \in Adapters |-> 0]
  /\ lock = [a \in Adapters |-> Nobody]
  /\ pc = [t \in Threads |-> "idle"] /\ mine = [t \in Threads |-> NoAdapter]
  /\ copy = [t \in Threads |-> "none"] /\ seen = [t \in Threads |-> {}]
  /\ ran = [t \in Threads |-> Unrun] /\ rows = 0

To(t, where) == pc' = [pc EXCEPT ![t] = where]

StaleAdapterKept(t) ==  current     (* Faulty: an inherited adapter is used. *)
(* The adapter the wrapper offers: an inherited one is dropped.                 *)
OwnAdapter(t) ==
  IF current # NoAdapter /\ owner[current] # proc THEN NoAdapter ELSE current

(* FallbackOnlyWrapper.__call__ up to the adapter.                              *)
Row(t) ==
  /\ t \in living /\ pc[t] = "idle" /\ rows < MaxRows /\ rows' = rows + 1
  /\ seen' = [seen EXCEPT ![t] = {code}] /\ ran' = [ran EXCEPT ![t] = Unrun]
  /\ current' = IF bypass THEN current ELSE OwnAdapter(t)
  /\ mine' = [mine EXCEPT ![t] = IF bypass THEN NoAdapter ELSE OwnAdapter(t)]
  /\ To(t, IF bypass THEN "original" ELSE IF OwnAdapter(t) = NoAdapter THEN "building" ELSE "waiting")
  /\ UNCHANGED <<proc, living, bypass, code, adapterVars, lock, copy>>

(* Another thread may have built one meanwhile; the last one stays.  An epoch   *)
(* that does not match, or a failure, falls back to the user's function.        *)
Build(t, ok) ==
  /\ pc[t] = "building"
  /\ \/ /\ ~ok /\ To(t, "original") /\ UNCHANGED <<current, owner, mine>>
     \/ \E a \in Adapters : /\ ok /\ owner[a] = 0 /\ \A b \in Adapters : owner[b] = 0 => a <= b
                            /\ owner' = [owner EXCEPT ![a] = proc] /\ current' = a
                            /\ mine' = [mine EXCEPT ![t] = a] /\ To(t, "waiting")
  /\ UNCHANGED <<proc, living, bypass, code, calls, mode, terminal, compiled, attempts, hits,
                 fallbacks, lock, copy, seen, ran, rows>>

(* invoke, under the lock: a shape the provider does not take never counts.     *)
Misshapen(t) ==
  /\ pc[t] = "waiting" /\ To(t, "declined")
  /\ UNCHANGED <<wrapperVars, adapterVars, lock, mine, copy, seen, ran, rows>>

Idle(a) == mode[a] = "none" /\ ~terminal[a]

(* Below the threshold the call falls back; at it this thread compiles with the *)
(* lock held; otherwise it copies what there is and releases the lock.          *)
Enter(t) ==
  /\ pc[t] = "waiting" /\ lock[mine[t]] = Nobody
  /\ LET a == mine[t] IN
       /\ calls' = [calls EXCEPT ![a] = @ + 1]
       /\ IF Idle(a) /\ calls[a] + 1 >= CallThreshold
          THEN /\ lock' = [lock EXCEPT ![a] = t] /\ To(t, "capturing") /\ UNCHANGED <<copy, fallbacks>>
          ELSE /\ UNCHANGED lock /\ copy' = [copy EXCEPT ![t] = mode[a]]
               /\ IF Idle(a)
                  THEN fallbacks' = [fallbacks EXCEPT ![a] = @ + 1] /\ To(t, "original")
                  ELSE UNCHANGED fallbacks /\ To(t, IF mode[a] = "none" THEN "declined" ELSE "guarding")
  /\ UNCHANGED <<wrapperVars, owner, mode, terminal, compiled, attempts, hits, mine, seen, ran, rows>>

(* _compile_locked: the function is resolved and captured as it is now ...      *)
Capture(t) ==
  /\ pc[t] = "capturing" /\ To(t, "compiling")
  /\ compiled' = [compiled EXCEPT ![mine[t]] = code]
  /\ attempts' = [attempts EXCEPT ![mine[t]] = @ + 1]
  /\ UNCHANGED <<wrapperVars, owner, calls, mode, terminal, hits, fallbacks, lock, mine, copy,
                 seen, ran, rows>>

(* ... and compiled: a typed region whose runtime guard must still match, a     *)
(* value cache around the resolved callee, or nothing ever again.               *)
Compile(t, m) ==
  /\ pc[t] = "compiling"
  /\ LET a == mine[t]
         got == IF m = "variant" /\ code # compiled[a] THEN "none" ELSE m
     IN /\ mode' = [mode EXCEPT ![a] = got] /\ copy' = [copy EXCEPT ![t] = got]
        /\ terminal' = [terminal EXCEPT ![a] = (got = "none")]
        /\ lock' = [lock EXCEPT ![a] = Nobody]
        /\ To(t, IF got = "none" THEN "declined" ELSE "guarding")
  /\ UNCHANGED <<wrapperVars, owner, calls, compiled, attempts, hits, fallbacks, mine, seen, ran, rows>>

(* Outside of the lock: the wrapper's live bindings, the entry guard on the     *)
(* row and the region's dependencies.  A value-cached callee has only the first.*)
Guard(t, fits) ==
  /\ pc[t] = "guarding"
  /\ To(t, IF copy[t] = "cache" \/ (fits /\ code = compiled[mine[t]]) THEN "running" ELSE "declined")
  /\ UNCHANGED <<wrapperVars, adapterVars, lock, mine, copy, seen, ran, rows>>

(* The region runs what was captured, the cached callee what it is now; either  *)
(* may raise, which reaches the user and counts as nothing.                     *)
Run(t, raises) ==
  /\ pc[t] = "running" /\ lock[mine[t]] = Nobody
  /\ ran' = [ran EXCEPT ![t] = IF copy[t] = "cache" THEN code ELSE compiled[mine[t]]]
  /\ hits' = IF raises THEN hits ELSE [hits EXCEPT ![mine[t]] = @ + 1]
  /\ To(t, "idle")
  /\ UNCHANGED <<wrapperVars, owner, calls, mode, terminal, compiled, attempts, fallbacks, lock,
                 mine, copy, seen, rows>>

(* _fallback takes the lock again; a terminal adapter is bypassed for ever.     *)
Decline(t) ==
  /\ pc[t] = "declined" /\ lock[mine[t]] = Nobody
  /\ fallbacks' = [fallbacks EXCEPT ![mine[t]] = @ + 1]
  /\ bypass' = (bypass \/ (copy[t] = "none" /\ terminal[mine[t]]))
  /\ To(t, "original")
  /\ UNCHANGED <<proc, living, current, code, owner, calls, mode, terminal, compiled, attempts,
                 hits, lock, mine, copy, seen, ran, rows>>

Original(t) ==
  /\ pc[t] = "original" /\ To(t, "idle") /\ ran' = [ran EXCEPT ![t] = code]
  /\ UNCHANGED <<wrapperVars, adapterVars, lock, mine, copy, seen, rows>>

(* The user replaces code, a default or a binding the function reads.           *)
Replace ==
  /\ code < MaxVersion /\ code' = code + 1
  /\ seen' = [t \in Threads |-> IF pc[t] = "idle" THEN seen[t] ELSE seen[t] \cup {code'}]
  /\ UNCHANGED <<proc, living, current, bypass, adapterVars, lock, pc, mine, copy, ran, rows>>

(* The process is forked by an idle thread: the child has this thread only, and *)
(* the locks as they were.                                                      *)
Fork(t) ==
  /\ proc = 1 /\ pc[t] = "idle" /\ proc' = 2 /\ living' = {t}
  /\ pc' = [u \in Threads |-> "idle"]
  /\ UNCHANGED <<current, bypass, code, adapterVars, lock, mine, copy, seen, ran, rows>>

Next ==
  \/ Replace
  \/ \E t \in Threads :
       \/ Row(t) \/ Misshapen(t) \/ Enter(t) \/ Capture(t) \/ Decline(t) \/ Original(t) \/ Fork(t)
       \/ \E b \in BOOLEAN : Build(t, b) \/ Guard(t, b) \/ Run(t, b)
       \/ \E m \in Modes : Compile(t, m)

Spec == Init /\ [][Next]_vars

TypeOK ==
  /\ proc \in 1..2 /\ living \subseteq Threads /\ current \in Adapters \cup {NoAdapter}
  /\ bypass \in BOOLEAN /\ code \in Versions /\ owner \in [Adapters -> 0..2]
  /\ mode \in [Adapters -> Modes] /\ terminal \in [Adapters -> BOOLEAN]
  /\ compiled \in [Adapters -> Versions] /\ lock \in [Adapters -> Threads \cup {Nobody}]
  /\ \A a \in Adapters : attempts[a] <= 1 /\ hits[a] + fallbacks[a] <= MaxRows
  /\ mine \in [Threads -> Adapters \cup {NoAdapter}] /\ copy \in [Threads -> Modes]
  /\ seen \in [Threads -> SUBSET Versions] /\ ran \in [Threads -> 0..Unrun] /\ rows \in 0..MaxRows

(* Whatever the user replaces between the capture, the copy under the lock, the *)
(* guards and the run, a row is answered by a version of the function that was  *)
(* current at some time during its call (typed_loop_worker.py:878-915).         *)
RowRunsCurrentCode ==
  \A t \in Threads : ran[t] = Unrun \/ ran[t] \in seen[t]

(* No thread waits for a lock that nobody will release: a forked child never    *)
(* uses the adapter of its parent, whose lock may have been held at the fork    *)
(* (wrapper.py:167-173, typed_loop_worker.py:857).                              *)
LockHolderLives ==
  \A t \in living : pc[t] \in {"waiting", "running", "declined"} =>
    owner[mine[t]] = proc /\ lock[mine[t]] \in living \cup {Nobody}

=============================================================================

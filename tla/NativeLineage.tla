---------------------------- MODULE NativeLineage ---------------------------
(* Guarded native plans of the driver.  An operation builds its data frame      *)
(* with the native twins of its candidates and keeps the user's expressions;    *)
(* a terminal operation resolves the chain of frames from its root: a level     *)
(* whose guards match keeps its frame, a miss or a rebuilt parent rebuilds it.  *)
(* A plan is the set of functions it runs natively.                             *)
EXTENDS Naturals, Sequences, FiniteSets

CONSTANTS Funcs, MaxFrames, MaxChanges

LineageAssumption == MaxFrames \in Nat /\ MaxChanges \in Nat

VARIABLES
  frames,       \* frame -> [parent, candidates, lineage, plan, result]
  guard,        \* function -> its dependency guards match
  todo,         \* levels the running resolution has yet to visit, root first
  forced,       \* force_fallback of the running resolution
  resolved,     \* plan of the parent as resolved so far
  rebuilt,
  vouched,      \* (level, function) pairs whose guards matched in this resolution
  executed,     \* what the last terminal ran: [plan, of, rebuilt], or Nothing
  changes

vars == <<frames, guard, todo, forced, resolved, rebuilt, vouched, executed, changes>>

Nothing == [plan |-> {}, of |-> 0, rebuilt |-> FALSE]
Source == 0
Ids == 1..Len(frames)
PlanOf(i) == IF i = Source THEN {} ELSE frames[i].plan
HasLineage(i) == i # Source /\ frames[i].lineage

Init ==
  /\ frames = <<>> /\ guard = [f \in Funcs |-> TRUE]
  /\ todo = <<>> /\ forced = FALSE /\ resolved = {} /\ rebuilt = FALSE
  /\ vouched = {} /\ executed = Nothing /\ changes = 0

Frame(parent, candidates, lineage, plan) ==
  [parent |-> parent, candidates |-> candidates, lineage |-> lineage, plan |-> plan,
   result |-> FALSE]

(* where, select, with_columns and the preserving methods: the candidates whose *)
(* input the parent's schema holds are replaced by their native expressions; a  *)
(* lineage is kept when there is something to guard here or below.              *)
Operate(parent, candidates) ==
  /\ todo = <<>> /\ Len(frames) < MaxFrames /\ parent \in Ids \cup {Source}
  /\ frames' = Append(frames,
       Frame(parent, candidates, HasLineage(parent) \/ candidates # {},
             PlanOf(parent) \cup candidates))
  /\ UNCHANGED <<guard, todo, forced, resolved, rebuilt, vouched, executed, changes>>

(* The user's code, defaults, globals or the native registration change.        *)
Change(f) ==
  /\ changes < MaxChanges /\ changes' = changes + 1
  /\ guard' = [guard EXCEPT ![f] = ~@]
  /\ UNCHANGED <<frames, todo, forced, resolved, rebuilt, vouched, executed>>

Chain(i) ==
  LET chain[j \in 0..Len(frames)] ==
        IF HasLineage(j) THEN Append(chain[frames[j].parent], j) ELSE <<>>
  IN  chain[i]

(* A terminal method, or (force) one whose operands fall back to the user's     *)
(* functions.  A frame that holds its result is not resolved again.             *)
Terminal(i, force) ==
  /\ todo = <<>> /\ i \in Ids /\ HasLineage(i) /\ ~(frames[i].result /\ ~force)
  /\ todo' = Chain(i) /\ forced' = force /\ rebuilt' = FALSE /\ vouched' = {}
  /\ resolved' = {} /\ executed' = Nothing
  /\ UNCHANGED <<frames, guard, changes>>

Holds(f) == ~forced /\ guard[f]

LevelLocal(cached) ==     (* Faulty: a rebuilt parent does not reach its children. *)
  /\ todo # <<>>
  /\ LET i == Head(todo)
         matched == {f \in frames[i].candidates : Holds(f)}
         keep == ~forced /\ matched = frames[i].candidates
     IN /\ resolved' = IF keep THEN frames[i].plan ELSE resolved \cup matched
        /\ rebuilt' = ~keep
        /\ vouched' = vouched \cup ({i} \X matched)
        /\ executed' = IF Tail(todo) # <<>> THEN Nothing
                       ELSE [plan |-> resolved', of |-> i, rebuilt |-> rebuilt']
        /\ frames' = IF Tail(todo) = <<>> /\ keep /\ cached THEN [frames EXCEPT ![i].result = TRUE] ELSE frames
  /\ todo' = Tail(todo)
  /\ UNCHANGED <<guard, forced, changes>>
(* resolve, one level: every candidate is asked again; the frame is rebuilt     *)
(* from the resolved parent with the native twins of the candidates that hold.  *)
(* The last level is executed; collect leaves its result in the frame that ran.  *)
Level(cached) ==
  /\ todo # <<>>
  /\ LET i == Head(todo)
         matched == {f \in frames[i].candidates : Holds(f)}
         keep == ~forced /\ ~rebuilt /\ matched = frames[i].candidates
     IN /\ resolved' = IF keep THEN frames[i].plan ELSE resolved \cup matched
        /\ rebuilt' = ~keep
        /\ vouched' = vouched \cup ({i} \X matched)
        /\ executed' = IF Tail(todo) # <<>> THEN Nothing
                       ELSE [plan |-> resolved', of |-> i, rebuilt |-> rebuilt']
        /\ frames' = IF Tail(todo) = <<>> /\ keep /\ cached THEN [frames EXCEPT ![i].result = TRUE] ELSE frames
  /\ todo' = Tail(todo)
  /\ UNCHANGED <<guard, forced, changes>>

Next ==
  \/ \E p \in 0..MaxFrames, C \in SUBSET Funcs : Operate(p, C)
  \/ \E f \in Funcs : Change(f)
  \/ \E i \in 1..MaxFrames, b \in BOOLEAN : Terminal(i, b)
  \/ \E b \in BOOLEAN : Level(b)

Spec == Init /\ [][Next]_vars

TypeOK ==
  /\ \A i \in Ids : /\ frames[i].parent \in 0..(i - 1)
                    /\ frames[i].candidates \subseteq Funcs /\ frames[i].plan \subseteq Funcs
  /\ guard \in [Funcs -> BOOLEAN] /\ \A i \in 1..Len(todo) : todo[i] \in Ids
  /\ forced \in BOOLEAN /\ rebuilt \in BOOLEAN /\ resolved \subseteq Funcs
  /\ vouched \subseteq (Ids \X Funcs) /\ changes \in 0..MaxChanges

(* A terminal runs a function natively only if its guards matched, during this  *)
(* resolution, at every level that contributes it; a forced fallback runs none  *)
(* natively, and nothing is rebuilt when every guard matched                    *)
(* (native_expression.py:356-408).                                              *)
Ancestors(i) == {Chain(i)[n] : n \in 1..Len(Chain(i))}
ExecutedPlansWereChecked ==
  executed # Nothing =>
    LET uses == {u \in Ancestors(executed.of) \X Funcs : u[2] \in frames[u[1]].candidates}
    IN /\ executed.plan = {u[2] : u \in uses \cap vouched}
       /\ executed.rebuilt <=> (forced \/ uses # vouched)
       /\ forced => executed.plan = {}
=============================================================================

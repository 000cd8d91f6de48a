----------------------------- MODULE SemanticCore -----------------------------
(* compiler/verifier.py, region.py and reference.py: the semantic module of  *)
(* a function, what verify_semantic_module asks of it, the regions it is cut *)
(* into, and its execution by the reference interpreter, from the start and  *)
(* resumed after a Python region.  An operation is its position in the       *)
(* module, and so is its result; what a branch tests is left open.           *)
EXTENDS Naturals, Sequences, FiniteSets, SequencesExt, Collections
CONSTANT Modules  \* sequences of operations, with edges, types and regions
VARIABLES module, verdict, at, values,
          resumed, suffix   \* a continuation resumed after a Python region
vars == <<module, verdict, at, values, resumed, suffix>>

Ops == module.ops
Terminators == {"branch", "jump", "return"}
BlocksOf(m) == {m.ops[i].block : i \in DOMAIN m.ops}
PositionsOf(m, b) == {i \in DOMAIN m.ops : m.ops[i].block = b}
First(S) == CHOOSE i \in S : \A j \in S : i <= j
Final(S) == CHOOSE i \in S : \A j \in S : j <= i
TargetsOf(m, i) == ToSet(m.ops[i].to)

(* _verify_operation_schema of operation i, its operands being defined. *)
Schema(m, i) ==
  LET o == m.ops[i]
      types == [k \in DOMAIN o.args |-> m.ops[o.args[k]].type]
      nulls == {m.ops[v].null : v \in ToSet(o.args)}
      arity == Len(o.args)
      same == arity = 2 /\ types[1] = types[2]
      fails ==
        CASE o.op = "argument" -> arity # 0 \/ o.index \notin DOMAIN m.inputs
                                    \/ <<o.type, o.null>> # m.inputs[o.index]
          [] o.op = "binary.add" -> ~same \/ o.type # types[1] \/ o.type = "bool"
          [] o.op = "compare.eq" -> ~same \/ o.type # "bool" \/ o.null # "non_null"
          [] o.op = "null.is_null" -> arity # 1 \/ o.type # "bool" \/ o.null # "non_null"
          [] o.op = "select" -> arity # 3 \/ types[1] # "bool" \/ types[2] # types[3] \/ o.type # types[2]
          [] o.op = "python.region" -> o.effect # "python"
          [] o.op = "branch" -> arity # 1 \/ types[1] # "bool" \/ ~TargetsOf(m, i) \subseteq BlocksOf(m)
          [] o.op = "jump" -> arity # 0 \/ ~TargetsOf(m, i) \subseteq BlocksOf(m)
          [] o.op = "return" -> arity # 1
          [] OTHER -> TRUE
      code == CASE o.op \in {"branch", "jump"} -> "invalid_control_flow"
                [] o.op = "return" -> "invalid_return"
                [] o.op = "python.region" -> "invalid_python_region"
                [] OTHER -> "type_mismatch"
  IN IF fails THEN code
     ELSE IF /\ o.null = "non_null" /\ "known_null" \in nulls
             /\ o.op \notin {"null.is_null", "select", "python.region"}
       THEN "type_mismatch" ELSE ""

(* The loop over the operations: an operand is a result seen before. *)
Seen(m, i) == {j \in 1..(i - 1) : m.ops[j].op \notin Terminators}
RaisingBefore(m, i) == Cardinality({j \in 1..(i - 1) : m.ops[j].raises})
OperationVerdict(m, i) ==
  LET o == m.ops[i] IN
  IF ~ToSet(o.args) \subseteq Seen(m, i) THEN "invalid_operand"
  ELSE IF Schema(m, i) # "" THEN Schema(m, i)
  ELSE IF o.op = "argument" /\ o.effect # "pure" THEN "invalid_effect"
  ELSE ""

Expected(m) ==
  UNION {LET e == Final(PositionsOf(m, b)) IN
           CASE m.ops[e].op = "branch" ->
                  {<<b, m.ops[e].to[1], "branch_true">>, <<b, m.ops[e].to[2], "branch_false">>}
             [] m.ops[e].op = "jump" -> {<<b, m.ops[e].to[1], "jump">>}
             [] OTHER -> {}
         : b \in BlocksOf(m)}
ReachableBy(m, S) == Reached(m.edges, S)

(* A Python region's record agrees with its operation. *)
RegionAgrees(m, r) ==
  /\ m.ops[r.operation].op = "python.region"
  /\ r.live_in = m.ops[r.operation].args
  /\ r.handlers \subseteq BlocksOf(m)

Verify(m) ==
  LET n == Len(m.ops)
      bad == {i \in 1..n : OperationVerdict(m, i) # ""}
      returns == {i \in 1..n : m.ops[i].op = "return"}
      scattered == \E i, j, k \in 1..n : /\ i < j /\ j < k
                                         /\ m.ops[i].block = m.ops[k].block
                                         /\ m.ops[j].block # m.ops[i].block
  IN IF scattered THEN "invalid_module"
     ELSE IF \E b \in BlocksOf(m) : m.ops[Final(PositionsOf(m, b))].op \notin Terminators
       THEN "invalid_control_flow"
     ELSE IF \/ \E e \in m.edges : {e[1], e[2]} \ BlocksOf(m) # {}
             \/ {e \in m.edges : e[3] # "exception"} # Expected(m)
             \/ ReachableBy(m, {m.ops[1].block}) # BlocksOf(m)
       THEN "invalid_control_flow"
     ELSE IF bad # {} THEN OperationVerdict(m, First(bad))
     ELSE IF \E i \in 1..n : m.ops[i].raises /\ m.ops[i].order # RaisingBefore(m, i)
       THEN "invalid_exception_order"
     ELSE IF Cardinality(returns) # 1 \/ m.ops[m.ops[First(returns)].args[1]].type # m.output
       THEN "invalid_return"
     ELSE IF \/ {r.operation : r \in m.regions} # {i \in 1..n : m.ops[i].op = "python.region"}
             \/ \E r \in m.regions : ~RegionAgrees(m, r)
       THEN "invalid_python_region"
     ELSE ""

-----------------------------------------------------------------------------
(* _resume_plan of the Python region at operation i. *)
SuccessorsOf(m, b) == {e[2] : e \in {x \in m.edges : x[1] = b}}
Cyclic(m, i) == m.ops[i].block \in ReachableBy(m, SuccessorsOf(m, m.ops[i].block))
(* Faulty: the suffix begins with the region itself. *)
SuffixWithRegion(m, i) ==
  LET b == m.ops[i].block
  IN {j \in PositionsOf(m, b) : j >= i}
       \cup UNION {PositionsOf(m, c) : c \in ReachableBy(m, SuccessorsOf(m, b))}
Suffix(m, i) ==
  LET b == m.ops[i].block
  IN {j \in PositionsOf(m, b) : j > i}
       \cup UNION {PositionsOf(m, c) : c \in ReachableBy(m, SuccessorsOf(m, b))}
LiveNames(m, i) == (UNION {ToSet(m.ops[j].args) : j \in Suffix(m, i)}) \ Suffix(m, i)

(* form_semantic_region_graph: an operation that is a barrier is a region by *)
(* itself, the others of a block form regions between the barriers.          *)
Barrier(m, i) ==
  LET o == m.ops[i] IN o.effect # "pure" \/ o.raises \/ o.op \in {"python.region", "branch", "jump"}
RegionOf(m, i) ==
  IF Barrier(m, i) THEN {i}
  ELSE {j \in PositionsOf(m, m.ops[i].block) :
          \A k \in DOMAIN m.ops :
            (i <= k /\ k <= j) \/ (j <= k /\ k <= i) => ~Barrier(m, k)}
EntryValues(m, r) == (UNION {ToSet(m.ops[i].args) : i \in r}) \ r
ExitValues(m, r) ==
  {i \in r : \E j \in DOMAIN m.ops \ r : i \in ToSet(m.ops[j].args)}
    \cup UNION {ToSet(m.ops[i].args) : i \in {j \in r : m.ops[j].op = "return"}}

-----------------------------------------------------------------------------
(* Modules as the import builds them: a module without operations is refused *)
(* before anything else, a branch and a jump name their targets, and control *)
(* leaves a block at its end only, which verify_semantic_module does not ask.*)
OperationRecords ==
  [block : Nat, op : STRING, args : Seq(Nat), type : STRING, null : STRING, effect : STRING,
   raises : BOOLEAN, order : Nat, to : Seq(Nat), index : Nat]
CoreAssumption ==
  \A m \in Modules :
    /\ m.ops \in Seq(OperationRecords) /\ Len(m.ops) > 0
    /\ m.edges \in SUBSET (Nat \X Nat \X STRING) /\ IsFiniteSet(m.edges)
    /\ \A i \in DOMAIN m.ops :
         /\ m.ops[i].op = "branch" => Len(m.ops[i].to) = 2
         /\ m.ops[i].op = "jump" => Len(m.ops[i].to) > 0
         /\ m.ops[i].op \in Terminators => \A j \in PositionsOf(m, m.ops[i].block) : j <= i

-----------------------------------------------------------------------------
(* _execute_from_block.  A result executed again replaces the one before. *)
Running == at # 0
Op == Ops[at]
Have == \A k \in DOMAIN Op.args : Op.args[k] \in DOMAIN values
Goto(b) == at' = First(PositionsOf(module, b)) /\ UNCHANGED <<module, verdict, values, resumed, suffix>>

TypeOK ==
  /\ at \in 0..Len(Ops) /\ (Running => verdict = "")
  /\ DOMAIN values \subseteq DOMAIN Ops /\ DOMAIN suffix \subseteq DOMAIN Ops /\ resumed \in BOOLEAN

Init ==
  /\ module \in Modules /\ verdict = Verify(module)
  /\ at = (IF verdict = "" THEN 1 ELSE 0)
  /\ values = <<>> /\ resumed = FALSE /\ suffix = <<>>

Assigned(store) ==
  LET again == IF at \in DOMAIN values THEN 3 - values[at] ELSE 1
  IN [v \in DOMAIN store \cup {at} |-> IF v = at THEN again ELSE store[v]]
Execute ==
  /\ Running /\ Op.op \notin Terminators /\ Have
  /\ at' = at + 1 /\ values' = Assigned(values)
  /\ suffix' = (IF resumed THEN Assigned(suffix) ELSE suffix)
  /\ UNCHANGED <<module, verdict, resumed>>
(* reference_resume_semantic, after a region was executed elsewhere; from   *)
(* here the resumed suffix takes the same branches as the original.         *)
Resume ==
  /\ Running /\ ~resumed /\ at > 1
  /\ Ops[at - 1].op = "python.region" /\ Ops[at - 1].block = Op.block /\ at - 1 \in DOMAIN values
  /\ ~Cyclic(module, at - 1) /\ LiveNames(module, at - 1) \subseteq DOMAIN values
  /\ resumed' = TRUE /\ suffix' = [v \in LiveNames(module, at - 1) |-> values[v]]
  /\ UNCHANGED <<module, verdict, at, values>>
Branch == Running /\ Op.op = "branch" /\ Have /\ \E b \in ToSet(Op.to) : Goto(b)
Jump == Running /\ Op.op = "jump" /\ Goto(Op.to[1])
(* An operation raises: control leaves the module, or goes on in a handler. *)
Raise ==
  /\ Running /\ Op.raises /\ Have
  /\ LET handlers == {e[2] : e \in {x \in module.edges : x[1] = Op.block /\ x[3] = "exception"}}
     IN IF handlers = {} THEN at' = 0 /\ UNCHANGED <<module, verdict, values, resumed, suffix>>
        ELSE \E b \in handlers : Goto(b)
Return ==
  /\ Running /\ (Op.op = "return" \/ ~Have) /\ at' = 0
  /\ UNCHANGED <<module, verdict, values, resumed, suffix>>
Next == Execute \/ Resume \/ Branch \/ Jump \/ Raise \/ Return
Spec == Init /\ [][Next]_vars
-----------------------------------------------------------------------------
(* A suffix resumed with its live values computes what the whole execution  *)
(* computes: every operand is there and is the same.                        *)
ResumeAgrees ==
  Running /\ resumed =>
    \A v \in ToSet(Op.args) \cap DOMAIN values : v \in DOMAIN suffix /\ suffix[v] = values[v]

(* Executed apart, a region finds every value it reads among what the       *)
(* regions before it gave out.                                              *)
RegionsSuffice ==
  Running =>
    LET r == RegionOf(module, at) IN
    \A v \in ToSet(Op.args) \cap DOMAIN values :
      v \in r \/ (v \in EntryValues(module, r) /\ v \in ExitValues(module, RegionOf(module, v)))

(* A verified module never reads a value that was not computed. *)
VerifiedReadsDefined == Running => Have
=============================================================================

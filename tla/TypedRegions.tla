----------------------------- MODULE TypedRegions -----------------------------
(* compiler/typed_verifier.py, typed_analysis.py, typed_reference.py and the *)
(* lowering of provider/scalar_python/typed_loop.py: a typed semantic module *)
(* of blocks with arguments is verified, its loops and reductions are found, *)
(* and a canonical loop is turned into a Python function.  The reference     *)
(* interpreter executes the module, and the function beside it executes one  *)
(* statement for each operation.  A block is its position, values have       *)
(* names; what a character property says is left open.                       *)
EXTENDS Integers, Sequences, FiniteSets, SequencesExt, Collections
CONSTANTS
  TypedModules,   \* blocks of operations, with the edges between them
  Inputs,         \* the sequences a row may hold
  MaxInt,         \* the largest integer a 64-bit guard lets through
  MaxSteps        \* how many operations are executed
VARIABLES region, checked, loops, lowered, input,
          block, pos, computed, steps, outcome,   \* the reference interpreter
          came, before,                      \* the block it came from, what it held there
          line, names, heap                  \* the generated function
regionsVars == <<region, checked, loops, lowered, input, block, pos, computed, steps, outcome,
          came, before, line, names, heap>>

Terminators == {"branch", "jump", "return"}
BlockIds(m) == DOMAIN m.blocks
OpsAt(m, b) == m.blocks[b].ops
Positions(m) == UNION {{b} \X DOMAIN OpsAt(m, b) : b \in BlockIds(m)}
OpOf(m, x) == OpsAt(m, x[1])[x[2]]
Ending(m, b) == OpsAt(m, b)[Len(OpsAt(m, b))]
Into(m, b) == {e.from : e \in {x \in m.edges : x.to = b}}
Outof(m, b) == {e \in m.edges : e.from = b}
ArgNames(m, b) == {a[1] : a \in ToSet(m.blocks[b].args)}

(* What defines a value: an argument of a block before its operations, or an *)
(* operation.                                                                *)
Defined(m) ==
  (UNION {{<<a, b, 0>> : a \in ArgNames(m, b)} : b \in BlockIds(m)})
    \cup {<<OpOf(m, x).id, x[1], x[2]>> : x \in {y \in Positions(m) : OpOf(m, y).op \notin Terminators}}
Definition(m, v) == CHOOSE d \in Defined(m) : d[1] = v
TypeOf(m, v) ==
  LET d == Definition(m, v) IN
  IF d[3] = 0 THEN (CHOOSE a \in ToSet(m.blocks[d[2]].args) : a[1] = v)[2]
  ELSE OpsAt(m, d[2])[d[3]].type

-----------------------------------------------------------------------------
(* verify_typed_module *)
ReachedFrom(m, S) == Reached({<<e.from, e.to>> : e \in m.edges}, S)
(* _dominators: the sets shrink until nothing changes.  The entry block      *)
(* starts with itself, and once c was taken from the set of a block, it goes *)
(* from those of the blocks behind it, but for its own.                      *)
TakenOut(m) ==
  Reached({<<<<x[1].from, x[2]>>, <<x[1].to, x[2]>>>> : x \in {y \in m.edges \X BlockIds(m) : y[1].to \notin {1, y[2]}}},
          {<<1, c>> : c \in BlockIds(m) \ {1}})
DominatorsOf(m) ==
  LET out == TakenOut(m) IN [b \in BlockIds(m) |-> {c \in BlockIds(m) : <<b, c>> \notin out}]

(* Faulty: any earlier definition will do. *)
AvailableEarlier(m, dom, v, b, p) ==
  LET d == Definition(m, v) IN d[2] < b \/ (d[2] = b /\ d[3] < p)
Available(m, dom, v, b, p) ==
  LET d == Definition(m, v) IN IF d[2] = b THEN d[3] < p ELSE d[2] \in dom[b]

ExpectedEdges(m, b) ==
  LET o == Ending(m, b) IN
  CASE o.op = "branch" -> {<<o.to[1], "branch_true">>, <<o.to[2], "branch_false">>}
    [] o.op = "jump" -> {<<o.to[1], "jump">>}
    [] OTHER -> {}

(* _verify_operation_schema: operand and result types of an operation. *)
WellTyped(m, o) ==
  LET types == [i \in DOMAIN o.args |-> TypeOf(m, o.args[i])] IN
  CASE o.op = "argument" -> types = <<>> /\ o.type = "seq"
    [] o.op = "constant" -> types = <<>> /\ o.type = "int"
    [] o.op \in {"binary.add", "binary.mul"} -> types = <<"int", "int">> /\ o.type = "int"
    [] o.op = "compare.lt" -> Len(types) = 2 /\ types[1] = types[2] /\ o.type = "bool"
    [] o.op = "sequence.length" -> types = <<"seq">> /\ o.type = "int"
    [] o.op = "sequence.get" -> types = <<"seq", "int">> /\ o.type = "int"
    [] o.op = "unicode.property" -> types = <<"int">> /\ o.type = "bool"
    [] o.op = "sequence.builder.create" -> types = <<"int">> /\ o.type = "builder"
    [] o.op = "sequence.builder.append" -> types = <<"builder", "int">> /\ o.type = "builder"
    [] o.op = "sequence.builder.finish" -> types = <<"builder">> /\ o.type = "seq"
    [] o.op = "branch" -> types = <<"bool">> /\ ToSet(o.to) \subseteq BlockIds(m)
    [] o.op = "jump" -> types = <<>> /\ ToSet(o.to) \subseteq BlockIds(m)
    [] o.op = "return" -> Len(types) = 1
    [] OTHER -> FALSE

(* The values an edge hands over, beside what its target expects. *)
EdgeVerdict(m, dom, e) ==
  LET want == m.blocks[e.to].args
      given == {d[1] : d \in Defined(m)}
      known == {i \in DOMAIN e.args : e.args[i] \in given}
  IN IF Len(e.args) # Len(want) THEN "edge_argument_count_mismatch"
     ELSE IF known # DOMAIN e.args THEN "unknown_operand"
     ELSE IF \E i \in known : TypeOf(m, e.args[i]) # want[i][2] THEN "edge_argument_type_mismatch"
     ELSE IF \E i \in known : ~Available(m, dom, e.args[i], e.from, Len(OpsAt(m, e.from)))
       THEN "operand_not_available" ELSE ""
OperationVerdict(m, dom, x) ==
  LET o == OpOf(m, x) IN
  IF ~ToSet(o.args) \subseteq {d[1] : d \in Defined(m)} THEN "unknown_operand"
  ELSE IF \E v \in ToSet(o.args) : ~Available(m, dom, v, x[1], x[2]) THEN "operand_not_available"
  ELSE IF ~WellTyped(m, o) THEN "type_mismatch" ELSE ""

Repeats(m, b) ==
  \E i, j \in DOMAIN m.blocks[b].args : i # j /\ m.blocks[b].args[i][1] = m.blocks[b].args[j][1]

Verify(m) ==
  LET dom == DominatorsOf(m)
      edges == {EdgeVerdict(m, dom, e) : e \in m.edges} \ {""}
      ops == {OperationVerdict(m, dom, x) : x \in Positions(m)} \ {""}
      ofKind(k) == {x \in Positions(m) : OpOf(m, x).op = k}
  IN IF m.blocks[1].args # <<>> \/ \E b \in BlockIds(m) : Ending(m, b).op \notin Terminators
       THEN "invalid_control_flow"
     ELSE IF \/ \E e \in m.edges : {e.from, e.to} \ BlockIds(m) # {}
             \/ \E e, f \in m.edges : e # f /\ <<e.from, e.to, e.kind>> = <<f.from, f.to, f.kind>>
       THEN "invalid_control_flow"
     ELSE IF \E b \in BlockIds(m) : {<<e.to, e.kind>> : e \in Outof(m, b)} # ExpectedEdges(m, b)
       THEN "invalid_control_flow"
     ELSE IF ReachedFrom(m, {1}) # BlockIds(m) THEN "invalid_control_flow"
     ELSE IF \/ \E d, e \in Defined(m) : d # e /\ d[1] = e[1]
             \/ \E b \in BlockIds(m) : Repeats(m, b)
       THEN "duplicate_value"
     ELSE IF edges # {} THEN CHOOSE c \in edges : TRUE
     ELSE IF ops # {} THEN CHOOSE c \in ops : TRUE
     ELSE IF Cardinality(ofKind("argument")) # 1 THEN "invalid_argument_index"
     ELSE IF Cardinality(ofKind("return")) # 1 THEN "invalid_return"
     ELSE ""

-----------------------------------------------------------------------------
(* _loop_patterns and _reduction_patterns *)
NaturalLoop(m, header, latch) ==
  {header} \cup Reached({<<e.to, e.from>> : e \in {x \in m.edges : x.to # header \/ latch = header}}, {latch})

Backedges(m) == LET dom == DominatorsOf(m) IN {e \in m.edges : e.to \in dom[e.from]}

UpdateOf(m, e, i) ==
  LET d == Definition(m, e.args[i])
      acc == m.blocks[e.to].args[i][1]
  IN IF /\ d[3] # 0
        /\ OpsAt(m, d[2])[d[3]].op \in {"binary.add", "binary.mul", "compare.lt"}
        /\ acc \in ToSet(OpsAt(m, d[2])[d[3]].args)
     THEN {OpsAt(m, d[2])[d[3]]} ELSE {}
Induction(m, v) ==
  \E x \in Positions(m) : LET o == OpOf(m, x) IN o.op = "sequence.get" /\ o.args[2] = v
ReductionsOf(m, header) ==
  LET latches == {e \in Backedges(m) : e.to = header}
      args == m.blocks[header].args
  IN UNION {IF Induction(m, args[i][1]) \/ Cardinality(latches) # 1 THEN {}
            ELSE {[acc |-> args[i][1], update |-> u] : u \in UNION {UpdateOf(m, e, i) : e \in latches}}
              : i \in DOMAIN args}
LoopsOf(m) ==
  {[header |-> h,
    latches |-> {e.from : e \in {x \in Backedges(m) : x.to = h}},
    blocks |-> UNION {NaturalLoop(m, h, e.from) : e \in {x \in Backedges(m) : x.to = h}},
    reductions |-> ReductionsOf(m, h)]
    : h \in {e.to : e \in Backedges(m)}}

-----------------------------------------------------------------------------
(* _specialization_plan and _CanonicalLoopLowerer.build.  A statement of the *)
(* generated function stands for one operation: an assignment, a parallel    *)
(* assignment followed by a jump, the break out of the loop, or the return.  *)
Plannable(m, ls) ==
  /\ Cardinality(ls) = 1
  /\ \A l \in ls : \/ Cardinality(l.reductions) = 1
                   \/ /\ l.reductions = {}
                      /\ \E x \in Positions(m) : OpOf(m, x).type = "builder"
Ends(m, b) == <<b, Len(OpsAt(m, b))>>
Assign(x) == [at |-> x, to |-> 0, targets |-> <<>>, sources |-> <<>>]
Move(x, e, m, to) ==
  [at |-> x, to |-> to, sources |-> e.args, targets |-> [i \in DOMAIN m.blocks[e.to].args |-> m.blocks[e.to].args[i][1]]]
Lines(m, b, last) == [i \in DOMAIN OpsAt(m, b) |-> IF i = Len(OpsAt(m, b)) THEN last ELSE Assign(<<b, i>>)]

Refused == [code |-> <<>>]
Lower(m, ls) ==
  LET l == CHOOSE x \in ls : TRUE
      h == l.header
      latch == CHOOSE b \in l.latches : TRUE
      body == Ending(m, h).to[1]
      exit == Ending(m, h).to[2]
      entries == {e \in m.edges : e.to = h /\ e.from \notin l.blocks /\ e.kind = "jump"}
      canonical ==
        /\ Cardinality(l.latches) = 1 /\ Ending(m, h).op = "branch" /\ body \in l.blocks
        /\ Cardinality(entries) = 1 /\ Ending(m, latch).op = "jump"
        /\ Ending(m, 1).op = "jump" /\ Ending(m, body).op = "jump" /\ Ending(m, exit).op = "return"
      start == Len(OpsAt(m, 1)) + 1
      leave == start + Len(OpsAt(m, h)) + Len(OpsAt(m, body))
      the(kind, b) == CHOOSE e \in m.edges : e.from = b /\ e.kind = kind
      code == Lines(m, 1, Move(Ends(m, 1), CHOOSE e \in entries : TRUE, m, start))
                \o Lines(m, h, Move(Ends(m, h), the("branch_false", h), m, leave))
                \o Lines(m, body, Move(Ends(m, body), the("jump", latch), m, start))
                \o Lines(m, exit, Assign(Ends(m, exit)))
  IN IF ~Plannable(m, ls) THEN Refused
     ELSE IF ~canonical THEN Refused
     ELSE IF {code[i].at : i \in DOMAIN code} # Positions(m) THEN Refused
     ELSE [code |-> code]
Parallel(store, targets, sources) ==
  [v \in DOMAIN store \cup ToSet(targets) |->
     IF v \in ToSet(targets) THEN store[sources[CHOOSE i \in DOMAIN targets : targets[i] = v]] ELSE store[v]]
Bind(store, v, x) == [w \in DOMAIN store \cup {v} |-> IF w = v THEN x ELSE store[w]]

-----------------------------------------------------------------------------
(* _execute_operation; a builder is persistent here, and a list that the     *)
(* generated function appends to in place (_typed_builder_append).           *)
Running == outcome = "running"
Op == OpsAt(region, block)[pos]
Have == ToSet(Op.args) \subseteq DOMAIN computed
Compiled == lowered.code # <<>>
Statement == lowered.code[line]

Result(row, store, o) ==
  LET a == [i \in DOMAIN o.args |-> store[o.args[i]]] IN
  CASE o.op = "argument" -> row
    [] o.op = "constant" -> o.index
    [] o.op = "binary.add" -> a[1] + a[2]
    [] o.op = "binary.mul" -> a[1] * a[2]
    [] o.op = "compare.lt" -> a[1] < a[2]
    [] o.op = "sequence.length" -> Len(a[1])
    [] o.op = "sequence.get" -> a[1][a[2] + 1]
    [] o.op = "sequence.builder.create" -> <<>>
    [] o.op = "sequence.builder.append" -> Append(a[1], a[2])
    [] OTHER -> a[1]
Outside(store, o) == o.op = "sequence.get" /\ store[o.args[2]] + 1 \notin DOMAIN store[o.args[1]]
Guarded(o, v) == o.type = "int" /\ v > MaxInt

(* What the generated function computes, where builders are lists. *)
Content(v) == IF TypeOf(region, v) = "builder" THEN heap[names[v]] ELSE names[v]
Contents(o) == [v \in ToSet(o.args) |-> Content(v)]
Assigned(o, v) ==
  CASE o.op = "sequence.builder.create" ->
         heap' = Append(heap, <<>>) /\ names' = Bind(names, o.id, Len(heap) + 1)
    [] o.op = "sequence.builder.append" ->
         /\ heap' = [heap EXCEPT ![names[o.args[1]]] = Append(@, names[o.args[2]])]
         /\ names' = Bind(names, o.id, names[o.args[1]])
    [] o.op = "unicode.property" -> names' = Bind(names, o.id, v) /\ heap' = heap
    [] OTHER -> names' = Bind(names, o.id, Result(input, Contents(o), o)) /\ heap' = heap

(* Modules as the frontend builds them.  A module without blocks, or with an  *)
(* empty block, is refused before anything else; that control leaves a block *)
(* only at its end is not asked by verify_typed_module.                      *)
OperationRecords ==
  [op : STRING, args : Seq(STRING), id : STRING, type : STRING, index : Int, to : Seq(Nat)]
BlockRecords == [args : Seq(STRING \X STRING), ops : Seq(OperationRecords)]
EdgeRecords == [from : Nat, to : Nat, kind : STRING, args : Seq(STRING)]
RegionsAssumption ==
  /\ MaxInt \in Nat /\ MaxSteps \in Nat
  /\ \A m \in TypedModules :
       /\ m.blocks \in Seq(BlockRecords) /\ Len(m.blocks) > 0
       /\ m.edges \in SUBSET EdgeRecords /\ IsFiniteSet(m.edges)
       /\ \A b \in BlockIds(m) : Len(OpsAt(m, b)) > 0
       /\ \A x \in Positions(m) : OpOf(m, x).op \in Terminators => x = Ends(m, x[1])

RegionsInit ==
  /\ region \in TypedModules /\ checked = Verify(region)
  /\ loops = (IF checked = "" THEN LoopsOf(region) ELSE {})
  /\ lowered = (IF checked = "" THEN Lower(region, loops) ELSE Refused)
  /\ input \in Inputs
  /\ block = 1 /\ pos = 1 /\ computed = <<>> /\ steps = 0 /\ came = 0 /\ before = <<>>
  /\ outcome = (IF checked = "" THEN "running" ELSE "refused")
  /\ line = 1 /\ names = <<>> /\ heap = <<>>

Fixed == UNCHANGED <<region, checked, loops, lowered, input>>
Ends0(o) == outcome' = o /\ Fixed /\ UNCHANGED <<block, pos, computed, steps, came, before, line, names, heap>>
Execute ==
  /\ Running /\ Have /\ Op.op \notin Terminators /\ ~Outside(computed, Op) /\ steps < MaxSteps
  /\ \E v \in IF Op.op = "unicode.property" THEN BOOLEAN ELSE {Result(input, computed, Op)} :
       /\ ~Guarded(Op, v)
       /\ computed' = Bind(computed, Op.id, v)
       /\ IF Compiled THEN Assigned(Op, v) /\ line' = line + 1 ELSE UNCHANGED <<line, names, heap>>
  /\ pos' = pos + 1 /\ steps' = steps + 1
  /\ Fixed /\ UNCHANGED <<block, came, before, outcome>>
(* An index outside of the sequence, or a value the guard does not let pass: *)
(* the row is left to the original function.                                 *)
Miss ==
  /\ Running /\ Have /\ Op.op \notin Terminators
  /\ Outside(computed, Op) \/ (Op.type = "int" /\ Guarded(Op, Result(input, computed, Op)))
  /\ Ends0("missed")
Exhausted == Running /\ steps = MaxSteps /\ Ends0("exhausted")

(* _select_edge, and the arguments of the next block, all at once. *)
Taken ==
  IF Op.op = "jump" THEN {e \in region.edges : e.from = block}
  ELSE {e \in region.edges : e.from = block /\ e.kind = IF computed[Op.args[1]] THEN "branch_true" ELSE "branch_false"}
Follow ==
  /\ Running /\ Have /\ Op.op \in {"jump", "branch"} /\ steps < MaxSteps
  /\ \E e \in Taken :
       /\ ToSet(e.args) \subseteq DOMAIN computed
       /\ computed' = Parallel(computed, [i \in DOMAIN e.args |-> region.blocks[e.to].args[i][1]], e.args)
       /\ block' = e.to /\ pos' = 1 /\ came' = block
       /\ before' = IF \E l \in loops : l.header = e.to /\ block \in l.latches THEN computed ELSE <<>>
  /\ IF ~Compiled THEN UNCHANGED <<line, names>>
     ELSE IF Op.op = "branch" /\ names[Op.args[1]] THEN line' = line + 1 /\ names' = names
     ELSE line' = Statement.to /\ names' = Parallel(names, Statement.targets, Statement.sources)
  /\ steps' = steps + 1 /\ Fixed /\ UNCHANGED <<outcome, heap>>
Return == Running /\ Have /\ Op.op = "return" /\ Ends0("returned")
Unavailable == Running /\ ~Have /\ Ends0("unavailable")

RegionsNext == Execute \/ Miss \/ Exhausted \/ Follow \/ Return \/ Unavailable
RegionsSpec == RegionsInit /\ [][RegionsNext]_regionsVars
-----------------------------------------------------------------------------
TypeOK ==
  /\ block \in BlockIds(region) /\ pos \in 1..Len(OpsAt(region, block)) /\ steps \in 0..MaxSteps
  /\ outcome \in {"refused", "running", "missed", "exhausted", "returned", "unavailable"}
  /\ DOMAIN computed \subseteq {d[1] : d \in Defined(region)}

(* A verified module never reads a value that was not computed. *)
ReadsAreDefined == outcome # "unavailable"

(* A block of a loop is executed after another one, or is its header.  The   *)
(* walk of _natural_loop goes past a header that is its own latch, up to the *)
(* entry block: such loops are left out below.                               *)
HeaderComesFirst(S) ==
  \A l \in S : Running /\ block \in l.blocks => block = l.header \/ came \in l.blocks

Proper == {l \in loops : l.header \notin l.latches}
EnteredByHeader == HeaderComesFirst(Proper)

(* Around a loop an accumulator changes by its reduction and nothing else. *)
AccumulatorFolds ==
  Running /\ pos = 1 =>
    \A l \in loops : block = l.header /\ came \in l.latches =>
      \A r \in l.reductions : computed[r.acc] = Result(input, before, r.update)

(* The generated function computes what the reference does, operation by     *)
(* operation, as long as no builder is used after it was appended to.        *)
AheadWithout(m, S, d) == Reached({<<e.from, e.to>> : e \in {x \in m.edges : x.to # d}}, S)
Uses(m, v, B) ==
  {x \in Positions(m) : x[1] \in B /\ v \in ToSet(OpOf(m, x).args)}
    \cup {e \in m.edges : e.from \in B /\ v \in ToSet(e.args)}
Linear(m) ==
  \A v \in {d[1] : d \in {x \in Defined(m) : TypeOf(m, x[1]) = "builder"}} :
    LET d == Definition(m, v)[2] IN
    /\ \A x \in Positions(m) :
         OpOf(m, x).op = "sequence.builder.append" /\ OpOf(m, x).args[1] = v =>
           /\ Uses(m, v, AheadWithout(m, {e.to : e \in Outof(m, x[1])} \ {d}, d)) = {}
           /\ \A e \in Outof(m, x[1]) : v \notin ToSet(e.args)
           /\ \A y \in Positions(m) : y[1] = x[1] /\ y[2] > x[2] => v \notin ToSet(OpOf(m, y).args)
    /\ \A e \in m.edges :
         /\ Cardinality({i \in DOMAIN e.args : e.args[i] = v}) <= 1
         /\ v \in ToSet(e.args) => Uses(m, v, AheadWithout(m, {e.to} \ {d}, d)) = {}
(* The lowering binds no arguments of the block that a true branch leads to: *)
(* the frontend gives a loop's body none.                                    *)
BareBody(m) == \A e \in m.edges : e.kind = "branch_true" => m.blocks[e.to].args = <<>>
Agrees ==
  Running /\ Compiled =>
    /\ line \in DOMAIN lowered.code /\ Statement.at = <<block, pos>>
    /\ \A v \in DOMAIN computed : v \in ToSet(Op.args) => v \in DOMAIN names /\ Content(v) = computed[v]
LoweredAgrees == Linear(region) /\ BareBody(region) => Agrees
=============================================================================

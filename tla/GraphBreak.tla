------------------------------ MODULE GraphBreak ------------------------------
(* compiler/pipeline.py on a captured function (ControlFlow): either its     *)
(* bytecode is imported with one opaque call as a Python region, or all of   *)
(* it becomes one region.  A semantic value is named by the value of the     *)
(* execution it stands for, an operation by the instruction it comes from.   *)
EXTENDS ControlFlow
VARIABLE semantic   \* compile_semantic of the function

Straight(f) == Len(graph.blocks) = 1 /\ f.handlers = <<>>
               /\ \A i \in DOMAIN f.code : f.code[i].op \notin Jumps

(* What _import_scalar_graph_break asks of the only Python region.  The      *)
(* argument of constant.load is 1 for a constant that is not a float.        *)
CallShape(r) ==
  LET code == func.code
      lives == {i \in 1..func.locals : Names(Min(r)).locals[i] \in LiveIn(r)}
  IN /\ Cardinality(LiveIn(r)) = 1 /\ Cardinality(LiveOut(r)) = 1
     /\ code[Min(r)].op = "global.load" /\ code[Max(r)].op = "call.opaque"
     /\ \A i \in r : code[i].op \in {"global.load", "local.load", "constant.load", "call.opaque"}
     /\ \A op \in {"global.load", "call.opaque"} : Cardinality({i \in r : code[i].op = op}) = 1
     /\ Names(Min(r)).stack = <<>> /\ lives # {}
     /\ \A i \in r : /\ code[i].op = "local.load" => code[i].arg \in lives
                     /\ code[i].op = "constant.load" => code[i].arg = 0
     /\ Max(r) < Len(code) /\ code[Max(r) + 1].op = "stack.pop"

(* The import itself: a stack and locals of semantic values.                 *)
Fails(s) == [s EXCEPT !.fail = TRUE]
Appended(s, op, i, args) == [s EXCEPT !.ops = Append(@, [op |-> op, at |-> i, args |-> args])]
Onto(s, kept, value) == [s EXCEPT !.stack = Append(SubSeq(@, 1, kept), value)]
(* resolve_abstract_value: a local that is named as the live-in and was      *)
(* imported already.                                                         *)
Sources(s, r) ==
  {i \in 1..func.locals : Names(Min(r)).locals[i] \in LiveIn(r) /\ s.locals[i] # None}
ImportRegion(s, r) ==
  IF Sources(s, r) = {} THEN Fails(s)
  ELSE Onto(Appended(s, "python.region", Min(r), <<s.locals[Min(Sources(s, r))]>>),
            Len(s.stack), Result(Max(r), 0))
ImportLoad(s, i) ==
  LET l == func.code[i].arg
      argued == IF l = 1 /\ s.locals[1] = None
                  THEN Appended([s EXCEPT !.locals[1] = Arg(1)], "argument", i, <<>>) ELSE s
  IN IF argued.locals[l] = None THEN Fails(s) ELSE Onto(argued, Len(s.stack), argued.locals[l])
(* Faulty: the operands as they are popped. *)
ImportBinaryPopped(s, i) ==
  LET n == Len(s.stack) IN
  IF n < 2 THEN Fails(s)
  ELSE Onto(Appended(s, func.code[i].op, i, <<s.stack[n], s.stack[n - 1]>>), n - 2, Result(i, 0))
ImportBinary(s, i) ==
  LET n == Len(s.stack) IN
  IF n < 2 THEN Fails(s)
  ELSE Onto(Appended(s, func.code[i].op, i, <<s.stack[n - 1], s.stack[n]>>), n - 2, Result(i, 0))
Import(s, i, r) ==
  LET ins == func.code[i]
      n == Len(s.stack)
  IN CASE s.fail \/ (i \in r /\ i # Min(r)) -> s
       [] i = Min(r) -> ImportRegion(s, r)
       [] ins.op = "local.load" -> ImportLoad(s, i)
       [] ins.op = "local.store" /\ n > 0 ->
            [s EXCEPT !.locals[ins.arg] = s.stack[n], !.stack = SubSeq(@, 1, n - 1)]
       [] ins.op = "constant.load" /\ ins.arg = 0 ->
            Onto(Appended(s, "constant", i, <<>>), n, Result(i, 0))
       [] ins.op \in {"binary.add", "binary.subtract"} -> ImportBinary(s, i)
       [] ins.op = "stack.pop" /\ n > 0 -> [s EXCEPT !.stack = SubSeq(@, 1, n - 1)]
       [] ins.op = "return.value" /\ n = 1 ->
            [Appended(s, "return", i, s.stack) EXCEPT !.stack = <<>>]
       [] OTHER -> Fails(s)
Refused == [fail |-> TRUE, ops |-> <<>>, stack |-> <<>>, locals |-> <<>>]
GraphBroken ==
  IF ~(Accepted /\ func.args = 1 /\ Straight(func) /\ Cardinality(graph.regions) = 1) THEN Refused
  ELSE LET r == CHOOSE x \in graph.regions : TRUE
           s == FoldLeft(LAMBDA acc, i : Import(acc, i, r),
                         [fail |-> FALSE, ops |-> <<>>, stack |-> <<>>, locals |-> [i \in 1..func.locals |-> None]],
                         [i \in DOMAIN func.code |-> i])
           ops == ToSet(s.ops)
       IN IF \/ ~CallShape(r) \/ s.fail \/ s.stack # <<>>
             \/ \A o \in ops : o.op # "argument"
             \/ \E o \in ops : Result(Max(r), 0) \in ToSet(o.args)
            THEN Refused ELSE s

(* compile_semantic of a captured program: the import above, or the whole    *)
(* function as one Python region of its arguments.                           *)
Whole ==
  [op |-> "python.region", at |-> 1, args |-> [i \in 1..func.args |-> Arg(i)]]
Compiled ==
  LET broken == GraphBroken
  IN IF ~Accepted \/ func.args = 0 THEN [status |-> "rejected", ops |-> <<>>]
     ELSE IF broken.fail THEN [status |-> "python_fallback", ops |-> <<Whole>>]
     ELSE [status |-> "compiled", ops |-> broken.ops]

CompileInit == Init /\ semantic = Compiled
CompileNext == Next /\ UNCHANGED semantic
CompileSpec == CompileInit /\ [][CompileNext]_<<vars, semantic>>
-----------------------------------------------------------------------------
(* What is imported is what runs: the instruction CPython executes is in     *)
(* the semantic module, in its place and with the values it is given, or it  *)
(* only moves values about, or a Python region executes it and was given     *)
(* what it loads.                                                            *)
Computes == {"binary.add", "binary.subtract", "return.value"}
ImportFollowsExecution ==
  Running /\ semantic.status = "compiled" =>
    LET here == SelectSeq(semantic.ops, LAMBDA o : o.at = pc)
        region == SelectSeq(semantic.ops, LAMBDA o : o.op = "python.region")[1]
    IN /\ Instruction.op \in Computes /\ RegionAt(pc) = {} =>
            Len(here) = 1 /\ here[1].args = Top(Takes(Instruction))
       /\ RegionAt(pc) # {} /\ Instruction.op = "local.load" => region.args = <<locals[Instruction.arg]>>
       /\ \A k \in 1..(Len(semantic.ops) - 1) : semantic.ops[k].at < semantic.ops[k + 1].at
=============================================================================

----------------------------- MODULE ControlFlow -----------------------------
(* compiler/cfg.py and abstract_interpreter.py: the blocks and edges of a   *)
(* function's bytecode, the names its stack and locals have before every    *)
(* instruction, and the Python regions cut out of it.  The names are worked *)
(* out once, by simulation; here a function is also executed, as CPython    *)
(* executes it, along any path, and the names are compared with the values. *)
(* Offsets are positions, so an instruction is followed by the next one.    *)
EXTENDS Naturals, Sequences, FiniteSets, SequencesExt, FiniteSetsExt
CONSTANTS Codes,     \* functions: [code, handlers], of decoded bytecode
          StackSize  \* decoded.stack_size
VARIABLES func,      \* the function
          graph,     \* build_control_flow_graph of it
          pc, stack, locals,   \* the interpreter executing it
          env        \* what the block parameters passed on the way stand for
vars == <<func, graph, pc, stack, locals, env>>

(* A value, and the name of one, is a tuple: an argument, a result of an    *)
(* instruction, the parameter of a block for a stack slot (0) or a local    *)
(* (1), what a handler finds on the stack, an unbound local, or nothing.    *)
None == <<0, 0, 0, 0>>
Arg(i) == <<1, i, 0, 0>>
Result(offset, i) == <<2, offset, i, 0>>
Param(block, sort, slot) == <<3, block, sort, slot>>
Exc(from, to, slot) == <<4, from, to, slot>>
Unbound(i) == <<5, i, 0, 0>>

Terminal == {"return.value", "exception.raise", "exception.reraise"}
Jumps == {"branch.always", "branch.if_true"}
Raising == {"call.opaque", "global.load", "binary.add", "binary.subtract", "exception.raise", "exception.reraise"}
(* How many values an instruction takes and leaves, copies and swaps apart. *)
Takes(ins) ==
  CASE ins.op \in {"local.store", "stack.pop", "branch.if_true", "return.value",
                   "exception.pop", "exception.reraise", "exception.raise"} -> 1
    [] ins.op \in {"binary.add", "binary.subtract", "exception.match", "store.pair"} -> 2
    [] ins.op = "call.opaque" -> ins.arg
    [] OTHER -> 0
Leaves(ins) ==
  CASE ins.op \in {"constant.load", "global.load", "binary.add", "binary.subtract",
                   "call.opaque", "exception.push"} -> 1
    [] ins.op = "exception.match" -> 2
    [] OTHER -> 0

-----------------------------------------------------------------------------
(* _make_blocks: every instruction a handler covers is a block of its own. *)
Covers(h, i) == h.start <= i /\ i < h.end
Leaders(f) ==
  LET n == Len(f.code)
      after(i) == {i + 1} \cap 1..n
  IN {1} \cup (UNION {{f.code[i].to} \cup after(i) : i \in {j \in 1..n : f.code[j].op \in Jumps}})
         \cup (UNION {after(i) : i \in {j \in 1..n : f.code[j].op \in Terminal}})
         \cup UNION {{h.target} \cup ({h.end} \cap 1..n)
                       \cup UNION {{i} \cup after(i) : i \in {j \in 1..n : Covers(h, j)}}
                     : h \in ToSet(f.handlers)}
Blocks(f) == 1..Cardinality(Leaders(f))
BlockAt(f, i) == Cardinality({l \in Leaders(f) : l <= i})
Span(f, b) == {i \in DOMAIN f.code : BlockAt(f, i) = b}

(* _make_edges: where a block's last instruction leads, and every block     *)
(* a handler covers leads to the handler.                                   *)
Edges(f) ==
  LET blocks == Blocks(f)
      at == [i \in DOMAIN f.code |-> BlockAt(f, i)]
      first(b) == CHOOSE i \in DOMAIN f.code : at[i] = b /\ (i = 1 \/ at[i - 1] # b)
      last(b) == f.code[CHOOSE i \in DOMAIN f.code : at[i] = b /\ (i = Len(f.code) \/ at[i + 1] # b)]
      edge(b, to, kind, h) == [from |-> b, to |-> to, kind |-> kind, handler |-> h]
  IN {edge(b, at[last(b).to], "jump", 0) : b \in {c \in blocks : last(c).op \in Jumps}}
     \cup {edge(b, b + 1, "fall", 0) :
             b \in {c \in blocks : c + 1 \in blocks /\ last(c).op \notin Terminal \cup {"branch.always"}}}
     \cup {edge(x[1], at[f.handlers[x[2]].target], "exception", x[2]) :
             x \in {y \in blocks \X DOMAIN f.handlers : Covers(f.handlers[y[2]], first(y[1]))}}

-----------------------------------------------------------------------------
(* _simulate_instruction on names; `fail` is the first rejection. *)
Rejects(s, code) == [s EXCEPT !.fail = code]
Popped(s, n) == [s EXCEPT !.stack = SubSeq(@, 1, Len(@) - n)]
Pushed(s, names) == [s EXCEPT !.stack = @ \o names]
Results(offset, n) == [i \in 1..n |-> Result(offset, i - 1)]
Simulated(s, ins, offset) ==
  LET depth == Len(s.stack) IN
  CASE s.fail # "" -> s
    [] ins.op \in {"local.load", "local.store", "local.delete"} /\ ins.arg \notin DOMAIN s.locals ->
         Rejects(s, "invalid_local")
    [] ins.op = "local.load" ->
         Pushed(s, <<IF s.locals[ins.arg] = None THEN Unbound(ins.arg) ELSE s.locals[ins.arg]>>)
    [] ins.op = "local.delete" -> [s EXCEPT !.locals[ins.arg] = None]
    [] ins.op \in {"stack.copy", "stack.swap"} /\ ins.arg > depth -> Rejects(s, "stack_underflow")
    [] ins.op = "stack.copy" -> Pushed(s, <<s.stack[depth + 1 - ins.arg]>>)
    [] ins.op = "stack.swap" ->
         [s EXCEPT !.stack[depth] = s.stack[depth + 1 - ins.arg],
                   !.stack[depth + 1 - ins.arg] = s.stack[depth]]
    [] Takes(ins) > depth -> Rejects(s, "stack_underflow")
    [] ins.op = "local.store" -> Popped([s EXCEPT !.locals[ins.arg] = s.stack[depth]], 1)
    [] OTHER -> Pushed(Popped(s, Takes(ins)), Results(offset, Leaves(ins)))
(* The names before each instruction of a block, and after the last. *)
Through(f, b, entry) ==
  FoldLeft(LAMBDA acc, i :
             LET s == Simulated(acc[Len(acc)], f.code[i], i)
             IN Append(acc, IF s.fail = "" /\ Len(s.stack) > StackSize
                              THEN Rejects(s, "stack_overflow") ELSE s),
           <<entry>>, [k \in 1..Cardinality(Span(f, b)) |-> Min(Span(f, b)) - 1 + k])

(* Faulty: the stack of an exception edge is the one after the block. *)
ComingLate(f, e, done) ==
  [from |-> e.from, stack |-> done[e.from].exit.stack, locals |-> done[e.from].exit.locals]
(* _incoming_stack and the locals that come with an edge. *)
Coming(f, e, done) ==
  LET src == done[e.from]
      kept == f.handlers[e.handler].depth
  IN IF e.kind # "exception"
       THEN [from |-> e.from, stack |-> src.exit.stack, locals |-> src.exit.locals]
       ELSE [from |-> e.from, locals |-> src.entry.locals,
             stack |-> SubSeq(src.entry.stack, 1, kept)
                         \o [k \in 1..(IF f.handlers[e.handler].lasti THEN 2 ELSE 1)
                               |-> Exc(e.from, e.to, kept + k)]]

(* _merge_values: a slot that all predecessors name alike keeps its name,   *)
(* another becomes a parameter with the name it has at each predecessor.    *)
Merged(b, coming) ==
  LET some == CHOOSE c \in coming : TRUE
      name(v, i) == IF v = None THEN Unbound(i) ELSE v
      onStack(k) == {c.stack[k] : c \in coming}
      inLocal(i) == {c.locals[i] : c \in coming}
  IN IF Cardinality({Len(c.stack) : c \in coming}) # 1
       THEN [entry |-> [stack |-> <<>>, locals |-> some.locals, fail |-> "stack_imbalance"],
             params |-> {}]
       ELSE [entry |->
               [stack |-> [k \in DOMAIN some.stack |->
                             IF Cardinality(onStack(k)) = 1 THEN some.stack[k] ELSE Param(b, 0, k)],
                locals |-> [i \in DOMAIN some.locals |->
                             IF Cardinality(inLocal(i)) = 1 THEN some.locals[i] ELSE Param(b, 1, i)],
                fail |-> IF Len(some.stack) > StackSize THEN "stack_overflow" ELSE ""],
             params |->
               {[id |-> Param(b, 0, k), incoming |-> {<<c.from, c.stack[k]>> : c \in coming}]
                  : k \in {j \in DOMAIN some.stack : Cardinality(onStack(j)) > 1}}
               \cup
               {[id |-> Param(b, 1, i), incoming |-> {<<c.from, name(c.locals[i], i)>> : c \in coming}]
                  : i \in {j \in DOMAIN some.locals : Cardinality(inLocal(j)) > 1}}]

Locals(f) == [i \in 1..f.locals |-> IF i <= f.args THEN Arg(i) ELSE None]
NewBlock(f, b, edges, done) ==
  LET into == {e \in edges : e.to = b}
      coming == {Coming(f, e, done) : e \in into}
      short == \E e \in into : /\ e.kind = "exception"
                               /\ Len(done[e.from].entry.stack) < f.handlers[e.handler].depth
      m == IF b = 1 THEN [entry |-> [stack |-> <<>>, locals |-> Locals(f), fail |-> ""], params |-> {}]
           ELSE Merged(b, coming)
      t == Through(f, b, m.entry)
  IN [entry |-> m.entry, exit |-> t[Len(t)], params |-> m.params, names |-> t,
      fail |-> IF short THEN "stack_underflow" ELSE t[Len(t)].fail]

(* _region_indexes and _build_regions: what Python executes itself, and     *)
(* before a call what only prepares it, in runs within a block.             *)
InPython == {"call.opaque", "global.load", "exception.push", "exception.match", "exception.pop",
             "exception.raise", "exception.reraise", "store.pair"}
Prepares == {"constant.load", "global.load", "local.load", "stack.copy"}
Marked(f, at) ==
  {i \in DOMAIN f.code :
     \/ f.code[i].op \in InPython
     \/ \E c \in i..Len(f.code) :
          /\ f.code[c].op = "call.opaque" /\ at[c] = at[i]
          /\ \A j \in i..(c - 1) : f.code[j].op \in Prepares}
Regions(f, at) ==
  LET marked == Marked(f, at)
      run(i) == {j \in marked : /\ at[j] = at[i]
                               /\ Min({i, j})..Max({i, j}) \subseteq marked}
  IN {run(i) : i \in marked}

(* build_control_flow_graph.  Only forward edges are accepted, so the       *)
(* blocks in their order are in topological order.                          *)
Rejected(code) == [fail |-> code, blocks |-> <<>>, edges |-> {}, at |-> <<>>, regions |-> {}]
Build(f) ==
  LET edges == Edges(f)
      at == [i \in DOMAIN f.code |-> BlockAt(f, i)]
      build(done, b) ==
        IF b # 1 /\ ~\E e \in edges : e.to = b
          THEN [done EXCEPT !.fail = IF @ = "" THEN "unreachable_block" ELSE @]
        ELSE IF done.fail # "" THEN done
        ELSE LET new == NewBlock(f, b, edges, done.blocks)
             IN [done EXCEPT !.fail = new.fail, !.blocks = Append(@, new)]
  IN IF \E e \in edges : e.to <= e.from THEN Rejected("unsupported_backward_edge")
     ELSE LET g == FoldLeft(build, Rejected(""), [b \in Blocks(f) |-> b])
          IN IF g.fail # "" THEN Rejected(g.fail)
             ELSE [g EXCEPT !.edges = edges, !.at = at, !.regions = Regions(f, at)]
Accepted == graph.fail = ""
Names(i) ==
  graph.blocks[graph.at[i]].names[1 + Cardinality({j \in 1..(i - 1) : graph.at[j] = graph.at[i]})]

-----------------------------------------------------------------------------
(* What a Python region is given, and what of its results is used later. *)
RegionAt(i) == {r \in graph.regions : i \in r}
LiveIn(r) ==
  ToSet(Names(Min(r)).stack)
    \cup ({Names(i).locals[func.code[i].arg] : i \in {j \in r : func.code[j].op = "local.load"}} \ {None})
LiveOut(r) ==
  LET before == Names(Min(r))
      after == Simulated(Names(Max(r)), func.code[Max(r)], Max(r))
      later == UNION {ToSet(Names(i).stack) \cup ToSet(Names(i).locals) : i \in (Max(r) + 1)..Len(func.code)}
  IN (ToSet(after.stack) \cup {after.locals[i] : i \in {j \in DOMAIN after.locals :
                                                  after.locals[j] \notin {None, before.locals[j]}}}) \cap later

-----------------------------------------------------------------------------
(* CPython executing the function: what each instruction does to values. *)
Denotes(name) ==
  IF name[1] = 3 THEN env[name] ELSE IF name[1] = 5 THEN None ELSE name

TypeOK ==
  /\ pc \in 0..Len(func.code)
  /\ Accepted => Len(graph.blocks) = Cardinality(Blocks(func)) /\ Len(stack) <= StackSize
  /\ DOMAIN env \subseteq UNION {{p.id : p \in graph.blocks[b].params} : b \in DOMAIN graph.blocks}

Init ==
  /\ func \in Codes /\ graph = Build(func)
  /\ pc = (IF Accepted THEN 1 ELSE 0)
  /\ stack = <<>> /\ locals = Locals(func) /\ env = <<>>

(* Control reaches instruction `to`: the parameters of a new block stand    *)
(* for what their names at the block left stand for.                        *)
Arrives(to) ==
  LET a == graph.at[pc]
      b == graph.at[to]
      params == graph.blocks[b].params
      named(id) == LET p == CHOOSE q \in params : q.id = id
                   IN CHOOSE v \in {q[2] : q \in {x \in p.incoming : x[1] = a}} : TRUE
  IN /\ pc' = to
     /\ env' = IF to = 1 \/ graph.at[to - 1] # b
                 THEN [id \in DOMAIN env \cup {p.id : p \in params} |->
                         IF id \in {p.id : p \in params} THEN Denotes(named(id)) ELSE env[id]]
                 ELSE env

Depth == Len(stack)
Top(n) == SubSeq(stack, Depth + 1 - n, Depth)
Without(n) == SubSeq(stack, 1, Depth - n)
Instruction == func.code[pc]
Unloadable == Instruction.op = "local.load" /\ locals[Instruction.arg] = None

(* What an instruction that completes leaves on the stack and in the locals. *)
Stacked ==
  LET ins == Instruction IN
  CASE ins.op = "local.load" -> Append(stack, locals[ins.arg])
    [] ins.op = "stack.copy" -> Append(stack, stack[Depth + 1 - ins.arg])
    [] ins.op = "stack.swap" -> [stack EXCEPT ![Depth] = stack[Depth + 1 - ins.arg],
                                              ![Depth + 1 - ins.arg] = stack[Depth]]
    [] OTHER -> Without(Takes(ins)) \o Results(pc, Leaves(ins))
Stored ==
  LET ins == Instruction IN
  CASE ins.op = "local.store" -> [locals EXCEPT ![ins.arg] = stack[Depth]]
    [] ins.op = "local.delete" -> [locals EXCEPT ![ins.arg] = None]
    [] ins.op = "store.pair" -> [locals EXCEPT ![1] = stack[Depth], ![2] = stack[Depth - 1]]
    [] OTHER -> locals
Running == pc # 0
Completes(to) ==
  /\ Running /\ Instruction.op \notin Terminal /\ ~Unloadable
  /\ stack' = Stacked /\ locals' = Stored
  /\ Arrives(to) /\ UNCHANGED <<func, graph>>
Fall == Instruction.op # "branch.always" /\ pc < Len(func.code) /\ Completes(pc + 1)
Jump == Instruction.op \in Jumps /\ Completes(Instruction.to)

(* An instruction raises: the stack is cut and the exception pushed. *)
Raise ==
  /\ Running /\ (Instruction.op \in Raising \/ Unloadable)
  /\ LET hs == {h \in DOMAIN func.handlers : Covers(func.handlers[h], pc)} IN
     IF hs = {} THEN pc' = 0 /\ UNCHANGED <<stack, locals, env>>
     ELSE LET h == func.handlers[Min(hs)]
              a == graph.at[pc]
              b == graph.at[h.target]
          IN /\ stack' = SubSeq(stack, 1, h.depth)
                           \o [k \in 1..(IF h.lasti THEN 2 ELSE 1) |-> Exc(a, b, h.depth + k)]
             /\ UNCHANGED locals /\ Arrives(h.target)
  /\ UNCHANGED <<func, graph>>
Return ==
  /\ Running /\ Instruction.op = "return.value" /\ pc' = 0
  /\ UNCHANGED <<func, graph, stack, locals, env>>

Next == Running /\ (Fall \/ Jump \/ Raise \/ Return)
Spec == Init /\ [][Next]_vars
-----------------------------------------------------------------------------
(* Along every path the names an instruction's operands were given stand    *)
(* for the values it finds: nothing is missing on the stack, and no merge   *)
(* or handler confuses two of them.  What an exception handler keeps of the *)
(* exception handled before is not looked at.                               *)
Operands == IF Instruction.op \in {"exception.pop", "exception.match", "exception.reraise"} THEN 0
            ELSE Takes(Instruction)
NamesDenoteOperands ==
  Running =>
    LET s == Names(pc) IN
    /\ Len(s.stack) = Depth
    /\ \A k \in 1..Operands : Denotes(s.stack[Depth + 1 - k]) = stack[Depth + 1 - k]
    /\ Instruction.op = "local.load" => Denotes(s.locals[Instruction.arg]) = locals[Instruction.arg]

(* A Python region is given every value it reads and does not make itself. *)
LiveInSuffices ==
  Running =>
    \A r \in RegionAt(pc) : \A k \in 1..Operands :
      LET name == Names(pc).stack[Depth + 1 - k]
      IN name \in LiveIn(r) \/ (name[1] = 2 /\ name[2] \in r) \/ name[1] = 5
=============================================================================

----------------------------- MODULE MCCompiler -----------------------------
(* The compiler's passes on small programs: each initial state is a program  *)
(* that one part compiles and then executes beside what it compiled.           *)
EXTENDS TypedRegions

CONSTANT Parts   \* the parts a run looks at

CONSTANTS Codes, StackSize, Modules, PassModules, Claims, Needs, MaxNodes,
          MaxIterations, Functions, Rows, Decoded, Changes, MaxChanges,
          CacheCapacity

VARIABLE part    \* the part that takes the steps

VARIABLES func, graph, pc, stack, locals, env, semantic
VARIABLES module, verdict, at, values, resumed, suffix
VARIABLES source, working, records, promised, passes, status
VARIABLES function, plan, cells, compiled, reuse, changes, answered

Break == INSTANCE GraphBreak
Core == INSTANCE SemanticCore
Passes == INSTANCE SemanticPasses
Reuse == INSTANCE InvariantCalls

NoProgram == [code |-> <<>>, handlers |-> <<>>, locals |-> 0, args |-> 0]
NoGraph == [fail |-> TRUE]
NoModule == [ops |-> <<>>]

-----------------------------------------------------------------------------
(* Functions of decoded bytecode: straight lines around a graph break, arms    *)
(* that meet, and an exception handler over part of a branch.                  *)
I(op, arg) == [op |-> op, arg |-> arg, to |-> 0]
J(op, to) == [op |-> op, arg |-> 0, to |-> to]
Code(code, handlers) == [code |-> code, handlers |-> handlers, locals |-> 2, args |-> 1]
Load1 == I("local.load", 1)
Load2 == I("local.load", 2)
Const == I("constant.load", 0)
Store2 == I("local.store", 2)
Store1 == I("local.store", 1)
Call == I("call.opaque", 2)
Straights ==
  {Code(a \o <<I("global.load", 0)>> \o c \o <<I("stack.pop", 0)>> \o <<p, q, r>> \o <<J("return.value", 0)>>, <<>>)
    : a \in {<<Load1, Store2>>, <<Load1, Const, I("binary.subtract", 0), Store1>>, <<Const, Store2>>, <<Load1>>, <<>>, <<Load1, Store1>>},
      c \in {<<Load1, Call>>, <<Load2, Call>>, <<Const, Call>>, <<I("constant.load", 1), Call>>, <<Load1, Load2, I("call.opaque", 3)>>, <<Const, Load2, I("call.opaque", 3)>>},
      p \in {Load1, Load2, Const}, q \in {Load1, Load2, Const, Store2}, r \in {I("binary.subtract", 0), I("binary.add", 0), I("stack.pop", 0), Load1}}
Arms == {<<Load1, Store2>>, <<Const, Store2>>, <<Load2, Store2>>, <<Load1, Load2>>, <<Const, Load1>>,
         <<Load1, I("stack.copy", 1)>>, <<Load1, I("call.opaque", 1)>>,
         <<Load1, J("return.value", 0)>>, <<I("local.delete", 2), Load1>>}
Joined == {I("stack.swap", 2), I("binary.add", 0), I("call.opaque", 1), I("stack.pop", 0), Load2,
           I("local.delete", 2), I("call.opaque", 2)}
Diamonds ==
  {Code(<<Load1, J("branch.if_true", 6)>> \o a \o <<J("branch.always", 8)>> \o b
          \o <<j, Load2, J("return.value", 0)>>, <<>>) : a \in Arms, b \in Arms, j \in Joined}
Handled ==
  {Code(<<Const>> \o a \o <<j, J("branch.always", 9), I("exception.push", 0), I("stack.pop", 0), I("exception.pop", 0)>>
          \o <<Load2, J("return.value", 0)>>,
        <<[start |-> s, end |-> e, target |-> 6, depth |-> d, lasti |-> x]>>)
     : a \in Arms, j \in Joined, s \in {2, 3}, e \in {4, 5}, d \in {0, 1}, x \in BOOLEAN}
MCCodes == Straights \cup Diamonds \cup Handled

-----------------------------------------------------------------------------
(* Semantic modules of four blocks around a Python region.                     *)
O(b, op, args, type) == [block |-> b, op |-> op, args |-> args, type |-> type, null |-> "non_null",
   effect |-> IF op = "python.region" THEN "python" ELSE "pure", raises |-> op = "python.region", order |-> 0,
   to |-> <<>>, index |-> 1]
To(o, t) == [o EXCEPT !.to = t]
Shapes ==
  {<<O(1, "argument", <<>>, "int"), O(1, "null.is_null", <<1>>, "bool"), To(O(1, "branch", <<2>>, "bool"), b),
     O(2, "python.region", <<1>>, "int"), O(2, "binary.add", <<4, x>>, "int"), To(O(2, e, IF e = "jump" THEN <<>> ELSE <<2>>, "bool"), f),
     O(3, "binary.add", <<1, y>>, "int"), To(O(3, "jump", <<>>, "bool"), <<g>>),
     O(4, "binary.add", <<z, z>>, "int"), O(4, "return", <<w>>, "int")>>
    : b \in {<<2, 3>>, <<3, 4>>}, x \in {1,4}, y \in {1,4,5}, z \in {4,5,7}, w \in {1, 9},
      e \in {"jump", "branch"}, f \in {<<3, 4>>, <<2, 4>>, <<4, 1>>}, g \in {2, 4}}
Edges(ops, h) ==
  LET last == {i \in DOMAIN ops : ops[i].op \in {"branch", "jump"}}
  IN {<<ops[i].block, ops[i].to[1], IF ops[i].op = "jump" THEN "jump" ELSE "branch_true">> : i \in last}
    \cup {<<ops[i].block, ops[i].to[2], "branch_false">> : i \in {j \in last : ops[j].op = "branch"}}
    \cup {<<2, b, "exception">> : b \in h}
MCModules == {[ops |-> s, edges |-> Edges(s, h), inputs |-> <<<<"int", "non_null">>>>, output |-> "int",
   regions |-> {[operation |-> 4, live_in |-> <<1>>, handlers |-> h]}] : s \in Shapes, h \in {{}, {4}}}
NoRegion == [blocks |-> <<[args |-> <<>>, ops |-> <<>>]>>, edges |-> {}]

-----------------------------------------------------------------------------
(* Typed modules: a loop over a sequence whose accumulator and builder are     *)
(* updated in all sorts of ways, and graphs of four blocks with open branches. *)
V(id, op, args, type) == [op |-> op, args |-> args, id |-> id, type |-> type, index |-> 0, to |-> <<>>]
C(id, n) == [V(id, "constant", <<>>, "int") EXCEPT !.index = n]
End(op, args, to) == [V("", op, args, "") EXCEPT !.to = to]
Block(args, ops) == [args |-> args, ops |-> ops]
Edge(from, to, kind, args) == [from |-> from, to |-> to, kind |-> kind, args |-> args]
Entry == <<V("s", "argument", <<>>, "seq"), C("zero", 0), C("one", 1), V("n", "sequence.length", <<"s">>, "int")>>
LoopModules ==
  {[blocks |->
      <<Block(<<>>, Entry \o <<V("b0", "sequence.builder.create", <<"n">>, "builder"), End("jump", <<>>, <<2>>)>>),
        Block(<<<<"i", "int">>, <<"acc", "int">>, <<"b", "builder">>>>,
              <<V("c", "compare.lt", <<"i", "n">>, "bool"), End("branch", <<"c">>, <<3, 4>>)>>),
        Block(<<>>, <<V("e", "sequence.get", <<"s", "i">>, "int"), V("u", f, <<"acc", x>>, "int"),
                      V("b2", "sequence.builder.append", <<d, "u">>, "builder"),
                      V("j", "binary.add", <<"i", "one">>, "int"), End("jump", <<>>, <<2>>)>>),
        Block(<<<<"t", "builder">>>>, <<V("f", "sequence.builder.finish", <<g>>, "seq"), End("return", <<"f">>, <<>>)>>)>>,
    edges |-> {Edge(1, 2, "jump", <<"zero", a, "b0">>), Edge(2, 3, "branch_true", <<>>),
               Edge(2, 4, "branch_false", <<"b">>), Edge(3, 2, "jump", <<"j", y, z>>)}]
    : f \in {"binary.add", "binary.mul"}, x \in {"e", "i", "acc"}, d \in {"b", "b0"}, g \in {"t", "b", "b2"},
      a \in {"zero", "one"}, y \in {"u", "acc", "i", "e"}, z \in {"b", "b2"}}
Exits == {<<2>>, <<3>>, <<4>>, <<2, 3>>, <<2, 4>>, <<3, 4>>}
Leaving(c, to) == IF Len(to) = 1 THEN End("jump", <<>>, to) ELSE End("branch", <<c>>, to)
LeavingEdges(b, to, args) ==
  IF Len(to) = 1 THEN {Edge(b, to[1], "jump", args[to[1]])}
  ELSE {Edge(b, to[1], "branch_true", args[to[1]]), Edge(b, to[2], "branch_false", args[to[2]])}
GraphModules ==
  {[blocks |->
      <<Block(<<>>, <<V("s", "argument", <<>>, "seq"), C("one", 1), V("p", "unicode.property", <<"one">>, "bool"), Leaving("p", x)>>),
        Block(<<<<"k", "int">>>>, <<V("v", f, <<"one", "k">>, "int"), V("q", "unicode.property", <<"v">>, "bool"), Leaving("q", y)>>),
        Block(<<>>, <<V("w", "binary.add", <<"one", u>>, "int"), V("r", "unicode.property", <<"w">>, "bool"), Leaving("r", z)>>),
        Block(<<>>, <<End("return", <<"one">>, <<>>)>>)>>,
    edges |-> LeavingEdges(1, x, <<<<>>, <<"one">>, <<>>, <<>>>>)
                \cup LeavingEdges(2, y, <<<<>>, <<"v">>, <<>>, <<>>>>)
                \cup LeavingEdges(3, z, <<<<>>, <<u>>, <<>>, <<>>>>)]
    : x \in Exits, y \in Exits, z \in Exits, u \in {"one", "v"}, f \in {"binary.add"}}
MCTypedModules == LoopModules \cup GraphModules
MCInputs == {<<>>, <<1>>, <<1, 2>>, <<2, 1>>}

-----------------------------------------------------------------------------
(* Semantic modules that passes turn into one another, and what they claim.    *)
PassKinds == {"type", "null", "effect", "exception_order", "liveness", "alias", "determinism"}
PO(op, result, operands, type, null) == [op |-> op, result |-> result, operands |-> operands, type |-> type, null |-> null,
   effect |-> IF op = "modeled.call" THEN "python" ELSE "pure", raises |-> op \in {"modeled.call", "binary.add"}, stable |-> op # "modeled.call"]
PArg == PO("argument", "a", {}, "int", "nullable")
PRet(v) == PO("return", "", {v}, "", "")
MCPassModules ==
  {<<PArg, PO(op, "b", IF op = "constant" THEN {} ELSE {"a"}, t, "non_null"), PRet(v)>> :
      op \in {"constant", "binary.add", "modeled.call"}, t \in {"int"}, v \in {"a", "b"}}
  \cup {<<PArg, PRet("a")>>, <<PArg, PRet("b")>>, <<PArg, PO("tuple.make", "b", {"a"}, "tuple", "non_null"), PRet("b")>>,
        <<PArg, PO("binary.add", "b", {"a"}, "int", "nullable"), PRet("b")>>,
        <<PArg, PArg, PRet("a")>>, <<PArg, PO("constant", "b", {}, "int", "non_null"), PO("binary.add", "c", {"a", "b"}, "int", "non_null"), PRet("c")>>}
MCClaims == {{}, PassKinds} \cup {{k} : k \in PassKinds} \cup {PassKinds \ {"alias", "type"}}
MCNeeds == {{}, {"type", "null", "effect", "exception_order"}}

(* Functions whose results are reused: helpers that read the environment,      *)
(* functions that look a row up, and functions that ask whether a file exists. *)
Leaf(op, x) == <<[op |-> op, x |-> x, args |-> <<>>]>>
Of(op, x, a) == a \o <<[op |-> op, x |-> x, args |-> <<Len(a)>>]>>
JoinOf(a, b) ==
  LET moved == [i \in DOMAIN b |-> [b[i] EXCEPT !.args = [j \in DOMAIN @ |-> @[j] + Len(a)]]]
  IN a \o moved \o <<[op |-> "join", x |-> "", args |-> <<Len(a), Len(a) + Len(b)>>]>>
Par == Leaf("local", "p")
Var == Leaf("local", "a")
GetEnv == Of("get", "HOME", Leaf("const", "d"))
Set(x, e) == [s |-> "assign", x |-> x, e |-> e, body |-> <<>>, orelse |-> <<>>]
Ret(e) == [s |-> "return", x |-> "", e |-> e, body |-> <<>>, orelse |-> <<>>]
Cond(e, b, o) == [s |-> "if", x |-> "", e |-> e, body |-> b, orelse |-> o]
Exprs == {Par, Var, GetEnv, Leaf("get", "HOME"), Of("strip", "", GetEnv), Leaf("state", "s"),
          Of("str", "", JoinOf(Of("path", "", Par), GetEnv))}
Helpers ==
  {<<Set("a", e), Ret(f)>> : e \in Exprs, f \in {Var, GetEnv, Of("strip", "", Var)}}
    \cup {<<Cond(t, <<Ret(e)>>, <<>>), Ret(f)>> : t \in {Par, Leaf("get", "HOME")}, e \in {Par, GetEnv}, f \in Exprs \ {Var}}
    \cup {<<Set("a", GetEnv), Cond(Var, <<Set("a", e)>>, <<Ret(f)>>), Ret(Var)>> : e \in {Par, Leaf("none", "")}, f \in Exprs}
Fn(kind, helper, given, body, result) ==
  [kind |-> kind, helper |-> helper, given |-> given, body |-> body, result |-> result]
Str(s) == [t |-> "str", v |-> s]
GivenText == {Str(<<"k">>), [t |-> "none", v |-> <<>>]}
HelperFns == {Fn("helper", h, g, <<>>, "a") : h \in Helpers, g \in GivenText}
Do(x, op, a) == [x |-> x, op |-> op, a |-> a]
ValueFns ==
  {Fn("value", <<Ret(e)>>, Str(<<"k">>), <<Do("a", "helper", "default"), Do("b", l, "a"), Do("p", m, "b")>>, r)
     : e \in Exprs, l \in {"lru", "basename"}, m \in {"lookup", "basename", "other"}, r \in {"p", "b", "a"}}
GuardedFns ==
  {Fn("guarded", <<>>, Str(<<>>), <<Do("b", l, "other"), Do("p", "key", k), Do("a", "observe", "p"), Do("a", "put", "exists"), s>>, "a")
     : l \in {"loads", "key"}, k \in {"path", "other"}, s \in {Do("a", "put", "more"), Do("b", "key", "other"), Do("p", "put", "more"), Do("b", "state", "s")}}
MCFunctions == HelperFns \cup ValueFns \cup GuardedFns
MCDecoded == [given |-> <<>>, r1 |-> [path |-> "f", other |-> "g"], r2 |-> [path |-> "g", other |-> "f"]]
MCChanges == {<<c, "changed">> : c \in {<<"code", "helper">>, <<"code", "value">>, 
     <<"item", "environ">>, <<"item", "basename">>, <<"attr", "Path">>, <<"lru", <<"d">>>>, <<"lru", <<"k">>>>,
     <<"file", "f">>, <<"file", "g">>, <<"state", "s">>}}
  \cup {<<<<"env", "HOME">>, "h">>, <<<<"env", "HOME">>, "original">>}
NoFunction == [kind |-> ""]

-----------------------------------------------------------------------------
ASSUME CompilerAssumption == RegionsAssumption /\ Core!CoreAssumption /\ Passes!PassesAssumption

breakVars == <<func, graph, pc, stack, locals, env, semantic>>
coreVars == <<module, verdict, at, values, resumed, suffix>>
passesVars == <<source, working, records, promised, passes, status>>
reuseVars == <<function, plan, cells, compiled, reuse, changes, answered>>
vars == <<part, breakVars, coreVars, passesVars, regionsVars, reuseVars>>

BreakStep == part = "break" /\ UNCHANGED <<part, coreVars, passesVars,
                                           regionsVars, reuseVars>>
CoreStep == part = "core" /\ UNCHANGED <<part, breakVars, passesVars,
                                         regionsVars, reuseVars>>
PassesStep == part = "passes" /\ UNCHANGED <<part, breakVars, coreVars,
                                             regionsVars, reuseVars>>
RegionsStep == part = "regions" /\ UNCHANGED <<part, breakVars, coreVars,
                                               passesVars, reuseVars>>
ReuseStep == part = "reuse" /\ UNCHANGED <<part, breakVars, coreVars,
                                           passesVars, regionsVars>>

Init ==
  /\ part \in Parts
  /\ IF part = "break" THEN Break!CompileInit
     ELSE func = NoProgram /\ graph = NoGraph /\ pc = 0 /\ stack = <<>> /\ locals = <<>>
          /\ env = <<>> /\ semantic = NoGraph
  /\ IF part = "core" THEN Core!Init
     ELSE module = NoModule /\ verdict = "" /\ at = 0 /\ values = <<>>
          /\ resumed = FALSE /\ suffix = <<>>
  /\ IF part = "passes" THEN Passes!Init
     ELSE source = <<>> /\ working = <<>> /\ records = {} /\ promised = {} /\ passes = 0
          /\ status = ""
  /\ IF part = "regions" THEN RegionsInit
     ELSE region = NoRegion /\ checked = "" /\ loops = {} /\ lowered = NoModule /\ input = <<>>
          /\ block = 1 /\ pos = 1 /\ computed = <<>> /\ steps = 0 /\ outcome = ""
          /\ came = 0 /\ before = <<>> /\ line = 1 /\ names = <<>> /\ heap = <<>>
  /\ IF part = "reuse" THEN Reuse!Init
     ELSE function = NoFunction /\ plan = [ok |-> FALSE, watch |-> {}, guard |-> ""] /\ cells = <<>> /\ changes = 0
          /\ compiled = "" /\ reuse = <<>> /\ answered = <<>>

Next ==
  \/ BreakStep /\ Break!CompileNext
  \/ CoreStep /\ Core!Next
  \/ PassesStep /\ Passes!Next
  \/ RegionsStep /\ RegionsNext
  \/ ReuseStep /\ Reuse!Next

Spec == Init /\ [][Next]_vars

-----------------------------------------------------------------------------
(* The graph's names stand for what CPython's stack and locals hold, along     *)
(* every path, and a Python region is given all it reads (cfg.py:685,          *)
(* abstract_interpreter.py, pipeline.py).                                      *)
NamesAgree ==
  part = "break" => Break!TypeOK /\ Break!NamesDenoteOperands /\ Break!LiveInSuffices

(* What a graph break imports is what CPython executes (pipeline.py:541).      *)
ImportFollowsExecution == part = "break" => Break!ImportFollowsExecution

(* A suffix resumed after a region computes what the whole execution does, and *)
(* regions hand on every value another reads (reference.py:268, region.py).    *)
(* The analyses they are cut by are those of the module in hand, whatever the  *)
(* passes before rewrote and claimed to preserve (analyses.py:308-360).        *)
RegionsAgree ==
  /\ part = "core" => Core!TypeOK /\ Core!ResumeAgrees /\ Core!RegionsSuffice
  /\ part = "passes" => /\ Passes!TypeOK /\ Passes!AnalysesAreCurrent
                        /\ Passes!PromisesKept /\ Passes!LiveIsUsedLater

(* A verified module never reads a value that was not computed                 *)
(* (verifier.py:528).                                                          *)
VerifiedReadsDefined == part = "core" => Core!VerifiedReadsDefined

(* A verified module reads only what it computed, a loop is entered through    *)
(* its header, an accumulator changes by its reduction alone, and the function *)
(* generated for a canonical loop computes what the reference does             *)
(* (typed_verifier.py:438, typed_analysis.py:572, typed_loop.py:797).          *)
TypedRegionsAgree ==
  part = "regions" =>
    /\ TypeOK /\ ReadsAreDefined /\ EnteredByHeader /\ AccumulatorFolds /\ LoweredAgrees

(* A result that is reused is the one the call would compute now, whatever was *)
(* bound, set, created or removed since (invariant_calls.py:1189).             *)
ReusedIsCurrent == part = "reuse" => Reuse!TypeOK /\ Reuse!ReusedIsCurrent
=============================================================================

---------------------------- MODULE InvariantCalls ----------------------------
(* compiler/invariant_calls.py and provider/scalar_python/invariant_calls.py: *)
(* functions whose results are reused.  Three analysers read a function's     *)
(* source and list the cells of process state its result depends on; CinderX  *)
(* keeps the results and looks at those cells before it reuses one.  A cell   *)
(* is a binding, a function's code, a method of a type, an environment        *)
(* variable, the mapping an lru_cache returns, or a file that may exist.      *)
(* Texts are sequences of characters.                                         *)
EXTENDS Integers, Sequences, FiniteSets, SequencesExt
CONSTANTS
  Functions,      \* the functions that are analysed
  Rows,           \* the rows they are called with
  Decoded,        \* row -> what json.loads makes of it: a path and another one
  Changes,        \* the cells that other code may set, with their values
  MaxChanges,     \* how often it does so
  CacheCapacity   \* capacity
VARIABLES function, plan, cells, compiled, reuse, changes, answered
vars == <<function, plan, cells, compiled, reuse, changes, answered>>

Item(n) == <<"item", n>>
Cells == {c[1] : c \in Changes}
InitialCells == [c \in Cells |-> "original"]
Holds(c, now) == IF c \in Cells THEN now[c] ELSE "original"
Text(s) == [t |-> "str", v |-> s]
Nothing == [t |-> "none", v |-> <<>>]
Odd(s) == [t |-> "odd", v |-> s]              \* what replaced code returns
Raised == [t |-> "raised", v |-> <<>>]
Trimmed(s) == SelectSeq(s, LAMBDA c : c # " ")

-----------------------------------------------------------------------------
(* What a helper's expression evaluates to, L holding the locals.  An        *)
(* expression is its operations in the order they are evaluated, with the    *)
(* positions of their operands; an arm of an if holds no other if.           *)
Touched(need, now) == {c \in need : Holds(c, now) # "original"}
EnvironItems == {Item("environ"), <<"attr", "environ.get">>}
PathItems == {Item("Path"), <<"attr", "Path">>}
Top(e) == e[Len(e)]
Eval(e, L, now) ==
  LET value[i \in DOMAIN e] ==
        LET o == e[i]
            a == IF o.args = <<>> THEN Nothing ELSE value[o.args[1]]
            b == IF Len(o.args) < 2 THEN Nothing ELSE value[o.args[2]]
            need == CASE o.op = "get" -> EnvironItems [] o.op = "path" -> PathItems
                      [] o.op = "str" -> {Item("str")} [] OTHER -> {}
            set == Holds(<<"env", o.x>>, now)
        IN CASE a = Raised \/ b = Raised -> Raised
             [] Touched(need, now) # {} -> Odd(<<o.op>>)
             [] o.op = "const" -> Text(<<o.x>>)
             [] o.op = "none" -> Nothing
             [] o.op = "local" -> L[o.x]
             [] o.op = "get" -> (IF set # "original" THEN Text(<<" ", set>>)
                                 ELSE IF o.args = <<>> THEN Nothing ELSE a)
             [] o.op = "state" -> Text(<<Holds(<<"state", o.x>>, now)>>)
             [] o.op = "strip" -> IF a.t = "str" THEN Text(Trimmed(a.v)) ELSE Raised
             [] o.op = "str" -> Text(a.v)
             [] o.op = "path" -> IF a.t = "str" THEN [t |-> "path", v |-> a.v] ELSE Raised
             [] o.op = "join" -> IF a.t = "path" /\ b.t = "str" THEN [t |-> "path", v |-> a.v \o b.v] ELSE Raised
  IN value[Len(e)]
Truth(v) == v.t \in {"path", "odd"} \/ (v.t = "str" /\ v.v # <<>>)
(* Runs statements: [done, value, L].                                        *)
Outcome(done, value, L) == [done |-> done, value |-> value, L |-> L]
RunWith(Arm(_, _), body, L, now) ==
  FoldLeft(LAMBDA r, s :
             LET v == Eval(s.e, r.L, now) IN
             CASE r.done -> r
               [] v = Raised -> Outcome(TRUE, Raised, r.L)
               [] s.s = "return" -> Outcome(TRUE, v, r.L)
               [] s.s = "assign" -> Outcome(FALSE, Nothing, [r.L EXCEPT ![s.x] = v])
               [] s.s = "if" -> Arm(IF Truth(v) THEN s.body ELSE s.orelse, r.L),
           Outcome(FALSE, Nothing, L), body)
Run(body, L, now) ==
  RunWith(LAMBDA arm, M : RunWith(LAMBDA inner, N : Outcome(FALSE, Nothing, N), arm, M, now), body, L, now)
Unbound == [x \in {"p", "a", "b"} |-> Nothing]
CallHelper(f, argument, now) ==
  IF Holds(<<"code", "helper">>, now) # "original" THEN Odd(<<"helper">>)
  ELSE Run(f.helper, [Unbound EXCEPT !["p"] = argument], now).value

-----------------------------------------------------------------------------
(* _HelperAnalyzer: the type of an expression and the cells it reads.        *)
Typed(type, watch) == [type |-> type, watch |-> watch]
Unsupported == Typed("unsupported", {})
(* Faulty: the variable that is read is not watched. *)
EnvironmentGetLoose(e, o) ==
  IF \A i \in ToSet(o.args) : e[i].op = "const" THEN Typed("exact_unicode", EnvironItems) ELSE Unsupported
EnvironmentGet(e, o) ==
  IF \A i \in ToSet(o.args) : e[i].op = "const"
  THEN Typed("exact_unicode", EnvironItems \cup {<<"env", o.x>>}) ELSE Unsupported
ExpressionType(e, T) ==
  LET typed[i \in DOMAIN e] ==
        LET o == e[i]
            a == IF o.args = <<>> THEN Unsupported ELSE typed[o.args[1]]
            b == IF Len(o.args) < 2 THEN Unsupported ELSE typed[o.args[2]]
        IN CASE o.op = "const" -> Typed("exact_unicode", {})
             [] o.op = "none" -> Typed("optional_unicode", {})
             [] o.op = "local" -> Typed(T[o.x], {})
             [] o.op = "get" -> EnvironmentGet(e, o)
             [] o.op = "state" -> Unsupported
             [] o.op = "strip" -> IF a.type = "exact_unicode" THEN a ELSE Unsupported
             [] o.op = "str" -> (IF a.type \in {"exact_unicode", "immutable_path"}
                                 THEN Typed("exact_unicode", a.watch \cup {Item("str")}) ELSE Unsupported)
             [] o.op = "path" -> (IF a.type = "exact_unicode"
                                  THEN Typed("immutable_path", a.watch \cup PathItems) ELSE Unsupported)
             [] o.op = "join" -> (IF a.type = "immutable_path" /\ b.type = "exact_unicode"
                                  THEN Typed("immutable_path", a.watch \cup b.watch) ELSE Unsupported)
  IN typed[Len(e)]
(* _analyze_statements: a branch is looked at with a copy of the types, and  *)
(* a statement that is not reached is refused.                               *)
Analysed(ok, returns, falls, watch) == [ok |-> ok, returns |-> returns, falls |-> falls, watch |-> watch]
Then(first, rest) ==
  Analysed(first.ok /\ rest.ok, first.returns \cup rest.returns, rest.falls, first.watch \cup rest.watch)
AnalyzeWith(Arm(_, _), body, types) ==
  FoldLeft(LAMBDA r, s :
             LET T == r.types
                 t == ExpressionType(s.e, T)
                 narrowed == IF t.type = "optional_unicode" /\ Top(s.e).op = "local"
                             THEN [T EXCEPT ![Top(s.e).x] = "exact_unicode"] ELSE T
                 body1 == Arm(s.body, narrowed)
                 orelse == Arm(s.orelse, T)
                 step ==
                   CASE s.s = "assign" -> Analysed(t.type # "unsupported", {}, TRUE, t.watch)
                     [] s.s = "return" -> Analysed(t.type # "unsupported", {t.type}, FALSE, t.watch)
                     [] s.s = "if" -> Analysed(/\ t.type \in {"exact_unicode", "optional_unicode"}
                                               /\ body1.ok /\ orelse.ok,
                                               body1.returns \cup orelse.returns, body1.falls \/ orelse.falls,
                                               t.watch \cup body1.watch \cup orelse.watch)
             IN [types |-> IF s.s = "assign" THEN [T EXCEPT ![s.x] = t.type] ELSE T,
                 so |-> IF r.so.falls THEN Then(r.so, step) ELSE Analysed(FALSE, {}, FALSE, {})],
           [types |-> types, so |-> Analysed(TRUE, {}, TRUE, {})], body).so
AnalyzeStatements(body, types) ==
  AnalyzeWith(LAMBDA arm, T : AnalyzeWith(LAMBDA inner, U : Analysed(FALSE, {}, FALSE, {}), arm, T), body, types)

NoPlan == [ok |-> FALSE, watch |-> {}, guard |-> ""]
HelperPlan(f, argument) ==
  LET types == [x \in DOMAIN Unbound |-> IF x # "p" THEN "unsupported"
                 ELSE IF argument.t = "none" THEN "optional_unicode" ELSE "exact_unicode"]
      a == AnalyzeStatements(f.helper, types)
  IN IF a.ok /\ ~a.falls /\ a.returns = {"exact_unicode"}
     THEN [ok |-> TRUE, watch |-> a.watch \cup {<<"code", "helper">>}, guard |-> ""] ELSE NoPlan

-----------------------------------------------------------------------------
(* A function that calls the helper, looks its row up in the mapping an      *)
(* lru_cache keeps for the helper's result, and returns json.dumps(...).  A  *)
(* statement sets x to op of a.                                              *)
MappingOf(text, now) == <<"mapping", Holds(<<"lru", text>>, now)>> \o text
Assign(f, row, now) ==
  FoldLeft(LAMBDA L, s :
             [L EXCEPT ![s.x] =
                CASE s.op = "helper" -> CallHelper(f, IF s.a = "row" THEN Text(<<row>>) ELSE f.given, now)
                  [] s.op = "lru" -> IF L[s.a].t = "str" THEN Text(MappingOf(L[s.a].v, now)) ELSE Odd(<<"lru">>)
                  [] s.op = "lookup" -> Text(<<row>> \o L[s.a].v)
                  [] s.op = "basename" -> Text(<<row, Holds(Item("basename"), now)>>)
                  [] s.op \in {"state", "other"} -> Text(<<Holds(<<"state", s.a>>, now)>>)],
           Unbound, f.body)
CallValue(f, row, now) ==
  IF Touched({<<"code", "value">>, Item("dumps")}, now) # {} THEN Odd(<<"value">>)
  ELSE Text(Assign(f, row, now)[f.result].v)

(* _ValueCacheAnalyzer.  A helper counts as invariant when any of its calls  *)
(* passes the default; the mapping is taken for the text it returns now.     *)
ValueWatchers(f, helper, text) ==
  {<<"code", "value">>, Item("dumps"), <<"lru", text>>} \cup helper.watch
    \cup {Item(s.op) : s \in {x \in ToSet(f.body) : x.op \in {"helper", "lru", "basename"}}}
InvariantHelper(f) ==
  IF \E s \in ToSet(f.body) : s.op = "helper" /\ s.a = "default" THEN HelperPlan(f, f.given) ELSE NoPlan
Mappings(f) == {s \in ToSet(f.body) : s.op = "lru"}
Before(f, s) == {x \in ToSet(f.body) : \E i, j \in DOMAIN f.body : i < j /\ f.body[i] = x /\ f.body[j] = s}
TopLevelDependencies(f, resolved) ==
  /\ resolved.t = "str"
  /\ \A s \in Mappings(f) : \E x \in Before(f, s) : x.op = "helper" /\ x.x = s.a
SupportedCall(s) == s.op \in {"helper", "lru", "lookup", "basename", "state"}
ValuePlan(f, now) ==
  LET helper == InvariantHelper(f)
      resolved == CallHelper(f, f.given, now)
  IN IF /\ helper.ok /\ TopLevelDependencies(f, resolved) /\ Mappings(f) # {}
        /\ \A s \in ToSet(f.body) : SupportedCall(s)
     THEN [ok |-> TRUE, watch |-> ValueWatchers(f, helper, resolved.v), guard |-> ""] ELSE NoPlan

-----------------------------------------------------------------------------
(* A function that decodes its row, asks whether the file it names exists,   *)
(* stores the answer in the mapping and returns json.dumps(mapping).         *)
Exists(p, now) == p # "" /\ Holds(<<"file", p>>, now) = "original"
Flag(b) == IF b THEN "true" ELSE "false"
Fields == {"path", "other", "exists", "more"}
Empty == [k \in Fields |-> ""]
Fresh(row) == [k \in Fields |-> IF k \in DOMAIN Decoded[row] THEN Decoded[row][k] ELSE ""]
Store(body, row, now) ==
  FoldLeft(LAMBDA r, s :
             LET local(v) == [r EXCEPT !.L = [@ EXCEPT ![s.x] = v]] IN
             CASE s.op = "loads" -> [r EXCEPT !.m = Fresh(row)]
               [] s.op = "key" -> local(r.m[s.a])
               [] s.op \in {"observe", "call"} -> local(Flag(Exists(r.L[s.a], now)))
               [] s.op \in {"state", "other"} -> local(Holds(<<"state", s.a>>, now))
               [] s.op = "put" -> [r EXCEPT !.m = [@ EXCEPT ![s.a] = r.L[s.x]]],
           [L |-> [x \in DOMAIN Unbound |-> ""], m |-> Empty], body).m
CallGuarded(f, row, now) ==
  LET m == Store(f.body, row, now)
  IN IF Touched({<<"code", "guarded">>, Item("dumps"), Item("loads"), Item("exists")}, now) # {}
     THEN Odd(<<"guarded">>)
     ELSE Text(<<m["path"], m["other"], m["exists"], m["more"]>>)

(* _GuardedJsonValueCacheAnalyzer: one local is bool(p and exists(p)), p read *)
(* from a constant key and the local stored under another; a call of          *)
(* os.path.exists is not rejected elsewhere.                                  *)
LoadsRow(f) == \E s \in ToSet(f.body) : s.op = "loads"
GuardShape(f) ==
  LET steps == ToSet(f.body)
      keyOf == {<<s.x, s.a>> : s \in {x \in steps : x.op = "key"}}
      stored == {<<s.x, s.a>> : s \in {x \in steps : x.op = "put"}}
  IN {x \in {s \in steps : s.op = "observe"} \X keyOf \X stored : x[1].a = x[2][1] /\ x[1].x = x[3][1]}
EffectsAllowed(f) == \A s \in ToSet(f.body) : s.op \notin {"state", "other"}
GuardPlan(f) ==
  IF LoadsRow(f) /\ EffectsAllowed(f) /\ Cardinality(GuardShape(f)) = 1
  THEN [ok |-> TRUE, guard |-> (CHOOSE x \in GuardShape(f) : TRUE)[2][2],
        watch |-> {Item("dumps"), Item("loads"), Item("exists"), <<"code", "guarded">>}]
  ELSE NoPlan

-----------------------------------------------------------------------------
(* What a call computes, and which analyser takes the function.              *)
Computed(f, row, now) ==
  CASE f.kind = "helper" -> CallHelper(f, IF row = "given" THEN f.given ELSE Text(<<row>>), now)
    [] f.kind = "value" -> CallValue(f, row, now)
    [] f.kind = "guarded" -> CallGuarded(f, row, now)
PlanFor(f, now) ==
  CASE f.kind = "helper" -> HelperPlan(f, f.given)
    [] f.kind = "value" -> ValuePlan(f, now)
    [] f.kind = "guarded" -> GuardPlan(f)

(* CinderX: results by row, what the watched cells held, and whether the     *)
(* value cache was given up.                                                 *)
EmptyReuse == [entries |-> <<>>, seen |-> <<>>, valid |-> FALSE, disabled |-> FALSE]
Snapshot(now) == [c \in plan.watch |-> Holds(c, now)]
NoAnswer == [value |-> Nothing, now |-> Nothing, reused |-> FALSE]

Init ==
  /\ function \in Functions
  /\ cells = InitialCells /\ changes = 0
  /\ plan = PlanFor(function, cells)
  /\ compiled = "" /\ reuse = EmptyReuse /\ answered = NoAnswer

(* compile: force_compile may fail, or CinderX may lack the instructions.    *)
Compile ==
  /\ compiled = "" /\ plan.ok
  /\ compiled' \in {"jit", "unavailable", "compile_failed"}
  /\ UNCHANGED <<function, plan, cells, reuse, changes, answered>>

(* Other code binds a name, sets a variable, creates or removes a file.      *)
Change ==
  /\ changes < MaxChanges
  /\ \E c \in Changes :
       /\ cells[c[1]] # c[2]
       /\ cells' = [cells EXCEPT ![c[1]] = c[2]]
  /\ changes' = changes + 1
  /\ UNCHANGED <<function, plan, compiled, reuse, answered>>

Has(row) == row \in DOMAIN reuse.entries
Matches == reuse.valid /\ reuse.seen = Snapshot(cells)
(* The entry's guard: the file named in the result is asked for again.       *)
GuardMatches(row) ==
  plan.guard # "" =>
  LET v == reuse.entries[row].v
  IN v[3] = Flag(Exists(IF plan.guard = "path" THEN v[1] ELSE v[2], cells))
(* A result without a file name makes os.path.exists raise.                  *)
GuardFails(row) == plan.guard # "" /\ reuse.entries[row].v[IF plan.guard = "path" THEN 1 ELSE 2] = ""

Hit(row) ==
  /\ compiled = "jit" /\ ~reuse.disabled /\ Matches /\ Has(row)
  /\ ~GuardFails(row) /\ GuardMatches(row)
  /\ answered' = [value |-> reuse.entries[row], now |-> Computed(function, row, cells), reused |-> TRUE]
  /\ UNCHANGED <<function, plan, cells, compiled, reuse, changes>>

Without(row) == [r \in DOMAIN reuse.entries \ {row} |-> reuse.entries[r]]
With(row, v) ==
  IF v.t # "str" \/ (~Has(row) /\ Cardinality(DOMAIN reuse.entries) >= CacheCapacity) THEN reuse.entries
  ELSE [r \in DOMAIN reuse.entries \cup {row} |-> IF r = row THEN v ELSE reuse.entries[r]]
Miss(row) ==
  LET v == Computed(function, row, cells)
      jit == compiled = "jit"
      stale == reuse.valid /\ ~Matches
      guarded == ~stale /\ Has(row) /\ plan.guard # ""
      gone == guarded /\ ~GuardFails(row)
  IN /\ compiled \in {"jit", "unavailable", "compile_failed"}
     /\ ~(jit /\ ~reuse.disabled /\ Matches /\ Has(row) /\ ~GuardFails(row) /\ GuardMatches(row))
     /\ answered' = [value |-> v, now |-> v, reused |-> FALSE]
     /\ reuse' = CASE ~jit \/ v = Raised \/ reuse.disabled -> reuse
                   [] function.kind = "helper" ->
                        [entries |-> [r \in {row} |-> v], seen |-> Snapshot(cells), valid |-> TRUE, disabled |-> FALSE]
                   [] stale \/ (guarded /\ GuardFails(row)) -> [EmptyReuse EXCEPT !.disabled = TRUE]
                   [] v.t # "str" -> IF gone THEN [reuse EXCEPT !.entries = Without(row)] ELSE reuse
                   [] OTHER -> [reuse EXCEPT !.entries = With(row, v), !.seen = Snapshot(cells), !.valid = TRUE]
     /\ UNCHANGED <<function, plan, cells, compiled, changes>>

Next == Compile \/ Change \/ \E row \in Rows : Hit(row) \/ Miss(row)
Spec == Init /\ [][Next]_vars

-----------------------------------------------------------------------------
TypeOK ==
  /\ function \in Functions /\ plan.ok \in BOOLEAN
  /\ compiled \in {"", "jit", "unavailable", "compile_failed"}
  /\ DOMAIN reuse.entries \subseteq Rows
  /\ Cardinality(DOMAIN reuse.entries) <= CacheCapacity

(* A reused result is what the call would compute now: the watched cells and *)
(* the entry's guard are all it depends on (invariant_calls.py:1189).        *)
ReusedIsCurrent == answered.reused => answered.value = answered.now
=============================================================================

---------------------------- MODULE SemanticPasses ----------------------------
(* compiler/passes.py, analyses.py and the second half of pipeline.py's       *)
(* compile_semantic: passes rewrite a semantic module under a budget, and an  *)
(* analysis one of them claims to preserve is kept for the next.  A pass may  *)
(* return any module and claim anything.                                      *)
EXTENDS Naturals, Sequences, FiniteSets

CONSTANTS
    PassModules,     \* the modules a pass may be given or return
    Claims,          \* sets of analyses a pass may say it preserves
    Needs,           \* sets of analyses a pass may require
    MaxNodes, MaxIterations

VARIABLES
    source,     \* the module that was imported
    working,    \* AnalysisManager._module
    records,    \* AnalysisManager._cache: the analyses held, with their entries
    promised,   \* the analyses every pass executed so far claims to preserve
    passes,     \* how many passes are left to run
    status      \* "running", what compile_semantic returns, or why it rejects

vars == <<source, working, records, promised, passes, status>>

AnalysisKind ==
    {"type", "null", "effect", "exception_order", "liveness", "alias", "determinism"}

-----------------------------------------------------------------------------
(* The analyses.  An operation is its position.                             *)
Results(m) == {i \in DOMAIN m : m[i].result # ""}

(* _liveness_analysis walks backwards.                                      *)
Liveness(m) ==
    LET live[i \in 1..(Len(m) + 1)] ==
            IF i > Len(m) THEN {} ELSE (live[i + 1] \ {m[i].result}) \cup m[i].operands
    IN [i \in DOMAIN m |-> live[i]]

Classification(op) ==
    CASE op = "argument" -> "borrowed"
      [] op = "tuple.make" -> "fresh_identity"
      [] op = "constant" -> "immutable"
      [] op \in {"modeled.call", "python.region"} -> "unknown"
      [] OTHER -> "value"

Compute(kind, m) ==
    CASE kind = "type" -> {<<m[i].result, m[i].type>> : i \in Results(m)}
      [] kind = "null" -> {<<m[i].result, m[i].null>> : i \in Results(m)}
      [] kind = "effect" -> [i \in DOMAIN m |-> m[i].effect]
      [] kind = "exception_order" -> {i \in DOMAIN m : m[i].raises}
      [] kind = "liveness" -> Liveness(m)
      [] kind = "alias" -> {<<m[i].result, Classification(m[i].op)>> : i \in Results(m)}
      [] kind = "determinism" -> [i \in DOMAIN m |-> m[i].stable]

(* What verify_semantic_module asks that the analyses rest on.              *)
VerifyModule(m) ==
    /\ m # <<>> /\ m[Len(m)].op = "return"
    /\ \A i, j \in Results(m) : m[i].result = m[j].result => i = j
    /\ \A i \in DOMAIN m : m[i].operands \subseteq {m[j].result : j \in 1..(i - 1)} \ {""}

-----------------------------------------------------------------------------
(* AnalysisManager.  A record is as the module it was computed from.        *)
Require(held, m, kinds) ==
    {r \in held : r.kind \notin kinds}
    \cup {IF \E r \in held : r.kind = k /\ r.of = m THEN CHOOSE r \in held : r.kind = k /\ r.of = m
           ELSE [kind |-> k, of |-> m, entries |-> Compute(k, m)] : k \in kinds}

Entries(held, kind) == (CHOOSE r \in held : r.kind = kind).entries

Stale(held, m, claimed) ==
    \E k \in claimed : Entries(held, k) # Compute(k, m)

Carried(held, m, claimed) ==
    {[r EXCEPT !.of = m] : r \in {x \in held : x.kind \in claimed}}

-----------------------------------------------------------------------------
PassOperations ==
    [op : STRING, result : STRING, operands : SUBSET STRING, type : STRING, null : STRING,
     effect : STRING, raises : BOOLEAN, stable : BOOLEAN]
PassesAssumption ==
    /\ \A m \in PassModules : m \in Seq(PassOperations)
    /\ \A c \in Claims \cup Needs : c \subseteq AnalysisKind
    /\ MaxNodes \in Nat /\ MaxIterations \in Nat

-----------------------------------------------------------------------------
Init ==
    /\ source \in PassModules
    /\ working = source
    /\ records = {}
    /\ promised = AnalysisKind
    /\ passes \in 0..(MaxIterations + 1)
    /\ status = IF Len(source) > MaxNodes THEN "budget_exceeded"
                ELSE IF ~VerifyModule(source) THEN "verify_failed"
                ELSE IF passes > MaxIterations THEN "budget_exceeded" ELSE "running"

Rejects(why) ==
    /\ status' = why
    /\ UNCHANGED <<source, working, promised, passes>>

(* PassManager.run: the clock is read before and after every pass.          *)
OutOfTime ==
    /\ status = "running" /\ passes > 0
    /\ Rejects("budget_exceeded")
    /\ UNCHANGED records

Pass(result, needed, claimed) ==
    /\ status = "running" /\ passes > 0
    /\ LET held == Require(records, working, needed)
           all == Require(held, working, claimed) IN
       IF Len(result) > MaxNodes THEN Rejects("budget_exceeded") /\ records' = held
       ELSE IF ~VerifyModule(result) THEN Rejects("verify_failed") /\ records' = held
       ELSE IF result = working
       THEN /\ records' = held /\ promised' = promised \cap claimed /\ passes' = passes - 1
            /\ UNCHANGED <<source, working, status>>
       ELSE IF Stale(all, result, claimed) THEN Rejects("analysis_conflict") /\ records' = all
       ELSE /\ working' = result
            /\ records' = Carried(all, result, claimed)
            /\ promised' = promised \cap claimed /\ passes' = passes - 1
            /\ UNCHANGED <<source, status>>

(* The summary of all analyses, and the module, are returned.               *)
Summarise ==
    /\ status = "running" /\ passes = 0
    /\ records' = Require(records, working, AnalysisKind)
    /\ status' = "compiled"
    /\ UNCHANGED <<source, working, promised, passes>>

Next ==
    \/ OutOfTime \/ Summarise
    \/ \E m \in PassModules, n \in Needs, c \in Claims : Pass(m, n, c)

-----------------------------------------------------------------------------
TypeOK ==
    /\ promised \subseteq AnalysisKind /\ passes \in 0..(MaxIterations + 1)
    /\ \A r, s \in records : r.kind = s.kind => r = s

(* Whatever passes return and claim, the analyses held are those of the     *)
(* module in hand, and what is returned is a verified module within the     *)
(* budget, with all of its analyses (analyses.py:308-360, passes.py:104).   *)
AnalysesAreCurrent ==
    /\ \A r \in records : r.of = working /\ r.entries = Compute(r.kind, working)
    /\ status = "compiled" => /\ VerifyModule(working) /\ Len(working) <= MaxNodes
                              /\ {r.kind : r \in records} = AnalysisKind

(* What every pass promised to preserve is as it was in the source, however *)
(* many passes rewrote the module (analyses.py:332-352).                    *)
PromisesKept ==
    status \in {"running", "compiled"} =>
        \A k \in promised : Compute(k, working) = Compute(k, source)

(* A value is live where it was computed before and is used from there on.  *)
LiveIsUsedLater ==
    \A i \in DOMAIN working :
        VerifyModule(working) =>
            Liveness(working)[i] =
                {working[j].result : j \in 1..(i - 1)}
                \cap UNION {working[j].operands : j \in i..Len(working)}
=============================================================================

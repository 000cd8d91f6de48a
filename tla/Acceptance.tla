------------------------------ MODULE Acceptance ------------------------------
(* diagnostics/acceptance.py and test_evidence.py: from the evidence of a run *)
(* to the verdict of its gates.  Evidence begins complete; some of it is then *)
(* lost, left over from an earlier run, edited, or tells of a failure.  Of    *)
(* every kind of gate there is one or two: receipts of test suites, scenarios *)
(* executed with the JIT off and in auto, checks of the base report, the      *)
(* source's identity, gates judged by a suite, and gates of a release.        *)
EXTENDS Naturals, FiniteSets

CONSTANTS
    ExpectedTests,   \* expected_test_count of a suite
    Lenient,         \* the suites that allow skips
    Defects          \* how much of the evidence is defective

AcceptanceAssumption == Defects \in Nat

VARIABLES
    profile,    \* the contract: does it separate the unit's lifecycle, has it
                \* a gate of the release
    evidence,   \* logs and receipts of suites, scenarios, base checks, source
    defects,    \* how much of it was tampered with by circumstances
    verdict     \* the report, once aggregated

vars == <<profile, evidence, defects, verdict>>

Suites == {"unit", "integration", "live"}
Checks == {"guard_miss", "unsupported", "zero_row"}
Scenarios == {"with_column", "unsupported", "zero_row", "exception"}
Statuses == {"pass", "fail", "inconclusive", "incomplete", "stop"}
Paths == {"owner", "reservation_id", "deadline"}
None == [none |-> TRUE]
NoVerdict == "none"

-----------------------------------------------------------------------------
(* build_unittest_evidence reads a log; the proof hashes what it found.     *)
Bound(r) == [run |-> r.run, commit |-> r.commit, named |-> r.named,
             count |-> r.count, skipped |-> r.skipped]
GoodLog == [ok |-> TRUE, count |-> ExpectedTests, skipped |-> 0, named |-> TRUE]

LogProves(s, log) ==
    /\ log.ok /\ log.named /\ log.count = ExpectedTests
    /\ s \notin Lenient => log.skipped = 0

Receipt(s, log, run, commit) ==
    IF ~LogProves(s, log) THEN None
    ELSE [none |-> FALSE, run |-> run, commit |-> commit, named |-> log.named,
          count |-> log.count, skipped |-> log.skipped,
          proof |-> [run |-> run, commit |-> commit, named |-> log.named,
                     count |-> log.count, skipped |-> log.skipped]]

(* validate_unittest_evidence.                                              *)
SuiteStatusUnbound(s, e) ==   (* Faulty: the proof's hash is not compared. *)
    LET r == e.receipts[s] IN
    IF r.none THEN "incomplete"
    ELSE IF /\ r.run = "this_run" /\ r.commit = e.source.commit /\ r.named
            /\ r.count = ExpectedTests
            /\ s \notin Lenient => r.skipped = 0
         THEN "pass" ELSE "fail"
SuiteStatus(s, e) ==
    LET r == e.receipts[s] IN
    IF r.none THEN "incomplete"
    ELSE IF /\ r.run = "this_run" /\ r.commit = e.source.commit /\ r.named
            /\ r.count = ExpectedTests
            /\ s \notin Lenient => r.skipped = 0
            /\ r.proof = Bound(r)
         THEN "pass" ELSE "fail"

-----------------------------------------------------------------------------
(* An observation of a scenario in one mode.                                *)
Seen(rows, calls) == [none |-> FALSE, completed |-> TRUE, result |-> "r", rows |-> rows,
                      calls |-> calls, effects |-> calls, raised |-> TRUE]
Usual(n) == CASE n = "zero_row" -> Seen(0, 0)
              [] n = "exception" -> Seen(0, 1)
              [] OTHER -> Seen(2, 2)

Equivalent(off, auto, nonempty) ==
    IF off.none \/ auto.none THEN "incomplete"
    ELSE IF /\ off.completed /\ auto.completed
            /\ off.result = auto.result /\ off.rows = auto.rows
            /\ off.calls = auto.calls /\ off.effects = auto.effects
            /\ nonempty => off.rows > 0
         THEN "pass" ELSE "fail"

And(status, ok) == IF status # "pass" THEN status ELSE IF ok THEN "pass" ELSE "fail"

ScenarioStatus(n, e) ==
    LET off == e.off[n]
        auto == e.auto[n]
    IN CASE n = "with_column" -> Equivalent(off, auto, TRUE)
         [] n = "unsupported" ->
              And(Equivalent(off, auto, TRUE), auto.calls = auto.rows /\ auto.effects = auto.rows)
         [] n = "zero_row" ->
              And(Equivalent(off, auto, FALSE), auto.rows = 0 /\ auto.calls = 0 /\ auto.effects = 0)
         [] n = "exception" ->
              IF off.none \/ auto.none THEN "incomplete"
              ELSE IF /\ off.completed /\ auto.completed /\ off.raised /\ auto.raised
                      /\ off.calls = 1 /\ auto.calls = 1 /\ off.effects = 1 /\ auto.effects = 1
                   THEN "pass" ELSE "fail"

-----------------------------------------------------------------------------
Combine(S) ==
    IF "stop" \in S THEN "stop"
    ELSE IF "fail" \in S THEN "fail"
    ELSE IF "inconclusive" \in S THEN "inconclusive"
    ELSE IF "incomplete" \in S THEN "incomplete"
    ELSE "pass"

BaseCheck(c, e) == IF e.base[c] \in Statuses THEN e.base[c] ELSE "incomplete"

SourceStatus(e) ==
    [clean |-> IF e.source.dirty THEN "fail" ELSE "pass",
     image |-> IF ~e.source.manifest THEN "incomplete"
               ELSE IF e.source.image = "this_image" THEN "pass" ELSE "fail"]

(* _gate_statuses refuses the reports of another run, then tells the gates  *)
(* by their evidence and, of the others, those a suite judges.              *)
SameRun(e) == e.from.base = "this_run" /\ e.from.scenarios = "this_run"

Gates ==
    {"tests.unit", "tests.integration", "tests.live", "clean_source", "image_identity",
     "guard_miss", "with_column", "unsupported", "zero_row", "exception",
     "base_verdict", "judged.named", "judged.unnamed"}
    \cup IF profile.release THEN {"release"} ELSE {}

GateStatus(g, e) ==
    CASE g = "tests.unit" -> SuiteStatus("unit", e)
      [] g = "tests.integration" -> SuiteStatus("integration", e)
      [] g = "tests.live" -> SuiteStatus("live", e)
      [] g = "clean_source" -> SourceStatus(e).clean
      [] g = "image_identity" -> SourceStatus(e).image
      [] g = "guard_miss" -> BaseCheck("guard_miss", e)
      [] g \in {"unsupported", "zero_row"} -> Combine({BaseCheck(g, e), ScenarioStatus(g, e)})
      [] g \in {"with_column", "exception"} -> ScenarioStatus(g, e)
      [] g = "base_verdict" -> e.base_verdict
      [] g = "release" -> "incomplete"
      [] g = "judged.named" -> SuiteStatus("unit", e)
      [] g = "judged.unnamed" -> IF e.covered THEN SuiteStatus("integration", e) ELSE "incomplete"

(* What a requirement asks for.                                             *)
Requirements == [R1 |-> {"tests.unit", "with_column"}, R2 |-> {"unsupported", "exception"},
                 R3 |-> {"judged.unnamed", "clean_source"}]

Refused == [verdict |-> "refused", passed |-> {}, missing |-> {}, ready |-> FALSE]

(* aggregate_formal_acceptance of a profile without a lifecycle.            *)
Formal(e) ==
    [verdict |-> Combine({GateStatus(g, e) : g \in Gates}),
     passed |-> {r \in DOMAIN Requirements : Combine({GateStatus(g, e) : g \in Requirements[r]}) = "pass"},
     missing |-> {}, ready |-> FALSE]

(* aggregate_profile_outcomes: what was not executed is missing.            *)
Profile(e) ==
    LET executed == {g \in Gates : GateStatus(g, e) # "incomplete"}
        missing == Gates \ executed
        worst == Combine({GateStatus(g, e) : g \in executed})
    IN [verdict |-> IF missing # {} THEN NoVerdict ELSE worst,
        passed |-> {r \in DOMAIN Requirements :
                      /\ Requirements[r] \cap missing = {}
                      /\ Combine({GateStatus(g, e) : g \in Requirements[r]}) = "pass"},
        missing |-> missing,
        ready |-> e.completed /\ missing = {} /\ worst = "pass"]

(* evaluate_mainline_prerequisites: a section may not claim what it lacks.  *)
Prerequisite(e) ==
    LET expected == IF Paths \subseteq e.section.present THEN "complete" ELSE "incomplete"
    IN IF e.section.status # expected THEN "false_claim"
       ELSE IF expected = "complete" THEN "pass" ELSE "stop"

(* The report that is written: the outcome and the prerequisite beside it.  *)
Aggregated(e) ==
    LET outcome == IF ~SameRun(e) THEN Refused ELSE IF profile.separate THEN Profile(e) ELSE Formal(e)
    IN [none |-> FALSE, verdict |-> outcome.verdict, passed |-> outcome.passed,
        missing |-> outcome.missing, ready |-> outcome.ready, prerequisite |-> Prerequisite(e)]

-----------------------------------------------------------------------------
Init ==
    /\ profile \in [separate : BOOLEAN, release : BOOLEAN]
    /\ evidence =
        [logs |-> [s \in Suites |-> GoodLog],
         receipts |-> [s \in Suites |-> Receipt(s, GoodLog, "this_run", "this_commit")],
         off |-> [n \in Scenarios |-> Usual(n)], auto |-> [n \in Scenarios |-> Usual(n)],
         base |-> [c \in Checks |-> "pass"], base_verdict |-> "pass",
         from |-> [base |-> "this_run", scenarios |-> "this_run"],
         source |-> [commit |-> "this_commit", dirty |-> FALSE, manifest |-> TRUE, image |-> "this_image"],
         covered |-> TRUE, completed |-> TRUE,
         section |-> [present |-> Paths, status |-> "complete"]]
    /\ defects = 0
    /\ verdict = None

Becomes(e) ==
    /\ verdict = None /\ defects < Defects /\ e # evidence
    /\ evidence' = e /\ defects' = defects + 1
    /\ UNCHANGED <<profile, verdict>>

(* A suite ran otherwise, or its receipt was lost, left over or edited.  A   *)
(* receipt left over is of a commit that is not the run's, whichever it is.  *)
Logs(s) ==
    \E log \in {[GoodLog EXCEPT !.ok = FALSE], [GoodLog EXCEPT !.named = FALSE],
                [GoodLog EXCEPT !.count = ExpectedTests - 1], [GoodLog EXCEPT !.skipped = 1]} :
        Becomes([evidence EXCEPT !.logs[s] = log,
                                 !.receipts[s] = Receipt(s, log, "this_run", "this_commit")])

Receipts(s) ==
    \E r \in {None, Receipt(s, GoodLog, "earlier_run", "this_commit"),
              Receipt(s, GoodLog, "this_run", "earlier_commit")} :
        Becomes([evidence EXCEPT !.receipts[s] = r])

Edits(s) ==
    /\ ~evidence.receipts[s].none
    /\ \/ Becomes([evidence EXCEPT !.receipts[s].run = "this_run", !.receipts[s].commit = "this_commit"])
       \/ Becomes([evidence EXCEPT !.receipts[s].count = ExpectedTests, !.receipts[s].skipped = 0])

(* The program behaved otherwise in a scenario, or nobody looked.           *)
Behaves(n) ==
    \E mode \in {"off", "auto"} :
        LET seen == evidence[mode][n] IN
        ~seen.none /\ \E other \in {None, [seen EXCEPT !.calls = @ + 1], [seen EXCEPT !.effects = @ + 1],
                      [seen EXCEPT !.result = "other"], [seen EXCEPT !.completed = FALSE],
                      [seen EXCEPT !.raised = FALSE], [seen EXCEPT !.rows = 0]} :
            Becomes([evidence EXCEPT ![mode][n] = other])

Circumstances ==
    \/ \E c \in Checks, s \in Statuses \cup {"unknown"} : Becomes([evidence EXCEPT !.base[c] = s])
    \/ \E s \in Statuses \ {"incomplete"} : Becomes([evidence EXCEPT !.base_verdict = s])
    \/ \E of \in {"base", "scenarios"} : Becomes([evidence EXCEPT !.from[of] = "earlier_run"])
    \/ Becomes([evidence EXCEPT !.source.dirty = TRUE])
    \/ Becomes([evidence EXCEPT !.source.commit = "other_commit"])
    \/ Becomes([evidence EXCEPT !.source.manifest = FALSE])
    \/ Becomes([evidence EXCEPT !.source.image = "other_image"])
    \/ Becomes([evidence EXCEPT !.covered = FALSE])
    \/ Becomes([evidence EXCEPT !.completed = FALSE])
    \/ \E p \in Paths : Becomes([evidence EXCEPT !.section.present = @ \ {p}])
    \/ \E x \in {"complete", "incomplete"} : Becomes([evidence EXCEPT !.section.status = x])

Aggregate ==
    /\ verdict = None
    /\ verdict' = Aggregated(evidence)
    /\ UNCHANGED <<profile, evidence, defects>>

Next ==
    \/ Aggregate \/ Circumstances
    \/ \E s \in Suites : Logs(s) \/ Receipts(s) \/ Edits(s)
    \/ \E n \in Scenarios : Behaves(n)

-----------------------------------------------------------------------------
TypeOK == defects \in 0..Defects /\ DOMAIN evidence.receipts = Suites

(* What happened in this run, whatever the receipts say.                    *)
SuiteProven(s) ==
    /\ ~evidence.receipts[s].none /\ LogProves(s, evidence.logs[s])
    /\ evidence.receipts[s] = Receipt(s, evidence.logs[s], "this_run", evidence.source.commit)

SameBehaviour(n) ==
    LET off == evidence.off[n]
        auto == evidence.auto[n]
    IN /\ ~off.none /\ ~auto.none /\ off.completed /\ auto.completed
       /\ off.calls = auto.calls /\ off.effects = auto.effects
       /\ n # "exception" => off.rows = auto.rows /\ off.result = auto.result
       /\ n = "exception" => off.raised /\ auto.raised

(* A run passes only if every suite's log of this run and commit proves it, *)
(* every scenario behaved the same with the JIT as without, and no check is *)
(* anything but pass; absent proof is never a pass (acceptance.py:1206-1375,*)
(* 1506-1604, test_evidence.py:170-272).                                    *)
PassMeansProven ==
    (~verdict.none /\ verdict.verdict = "pass") =>
        /\ \A s \in Suites : SuiteProven(s)
        /\ \A n \in Scenarios : SameBehaviour(n)
        /\ \A c \in Checks : evidence.base[c] = "pass"
        /\ evidence.base_verdict = "pass" /\ ~profile.release
        /\ evidence.from = [base |-> "this_run", scenarios |-> "this_run"]
        /\ ~evidence.source.dirty /\ evidence.source.manifest
        /\ evidence.source.image = "this_image" /\ evidence.covered

(* Nothing is ready for release with a gate missing or the unit unfinished, *)
(* a requirement passes on what its gates proved, and a prerequisite passes *)
(* or stops as its fields say (acceptance.py:623-698, 1398-1503).           *)
ReadyMeansComplete ==
    ~verdict.none =>
        /\ verdict.ready => evidence.completed /\ verdict.missing = {} /\ verdict.verdict = "pass"
        /\ "R1" \in verdict.passed => SuiteProven("unit") /\ SameBehaviour("with_column")
        /\ "R3" \in verdict.passed => SuiteProven("integration") /\ evidence.covered
        /\ verdict.prerequisite # "false_claim" =>
             /\ (verdict.prerequisite = "pass") = (evidence.section.present = Paths)
             /\ (evidence.section.status = "complete") = (evidence.section.present = Paths)
=============================================================================

-------------------------- MODULE WorkerDiagnostics -------------------------
(* diagnostics/worker_runtime.py: what one adapter of a worker records of   *)
(* its compilations.  Compiling threads record chains of artifacts, one     *)
(* after the other, into one bundle, by paths that do not name what was     *)
(* compiled; another thread finalizes the bundle meanwhile.  The bundle     *)
(* itself (DiagnosticBundle) is a set of paths here.                        *)
EXTENDS Naturals, FiniteSets
CONSTANTS Recordings,   \* calls that compile something and record it
          RecKinds,     \* of "compile", "typed" and "cache"
          Subjects,     \* variant keys, regions or functions compiled
          ChainLength,  \* artifacts of a chain; the last one is CinderX's
          MaxFailures   \* bound: calls that fail
VARIABLES recKind, recSubject,   \* of each recording
          selector,  \* kind of the policy's selector
          matching,  \* the subjects it selects
          selected,  \* _selected
          progress,  \* of each recording
          instance,  \* whether it has a compile_instance_id
          at,        \* the artifact it writes next
          emitted,   \* all it wrote so far was accepted
          sinks,     \* _states
          claimed,   \* _typed_regions_recording
          recorded,  \* _typed_regions_recorded
          written,   \* the bundle: whose artifact each path holds
          marked,    \* _partial of the runtime
          degraded,  \* failures of the session, spans that failed
          perf,      \* "off", "due", "recorded" or "lost": _perf_recorded
          fin,       \* "open", "choosing" (finalize holds the lock), "published"
          chosen,    \* status of the bundle
          ended,     \* recordings whose chain was over when finalize began
          failures
vars == <<recKind, recSubject, selector, matching, selected, progress, instance, at,
          emitted, sinks, claimed, recorded, written, marked, degraded, perf, fin, chosen,
          ended, failures>>

Nobody == "nobody"
RecorderAssumption ==
  /\ "compile" \in RecKinds /\ Nobody \notin Subjects
  /\ ChainLength \in Nat \ {0} /\ MaxFailures \in Nat
Paths == RecKinds \X (1..ChainLength)
(* Without an instance id CinderX is not asked: the chain ends earlier. *)
Length(r) == IF instance[r] THEN ChainLength ELSE ChainLength - 1
PathsOf(r) == {recKind[r]} \X (1..Length(r))
Start(r) == IF recKind[r] = "compile" THEN "sink" ELSE "prepare"
Writing == {"writing", "mark"}

TypeOK ==
  /\ recKind \in [Recordings -> RecKinds] /\ recSubject \in [Recordings -> Subjects]
  /\ selector \in {"candidate", "udf", "region"} /\ matching \subseteq Subjects
  /\ progress \in [Recordings -> Writing \cup {"sink", "prepare", "build", "decide", "over"}]
  /\ instance \in [Recordings -> BOOLEAN] /\ at \in [Recordings -> 1..(ChainLength + 1)]
  /\ emitted \in [Recordings -> BOOLEAN] /\ sinks \subseteq Subjects
  /\ claimed \subseteq Subjects /\ recorded \subseteq Subjects
  /\ written \in [Paths -> Subjects \cup {Nobody}]
  /\ {selected, marked, degraded} \subseteq BOOLEAN
  /\ perf \in {"off", "due", "recorded", "lost"}
  /\ fin \in {"open", "choosing", "published"} /\ chosen \in {"COMPLETE", "PARTIAL"}
  /\ ended \subseteq Recordings /\ failures \in 0..MaxFailures

(* The scalar adapter compiles variants and is given a perf profile, the     *)
(* typed-loop adapter compiles regions and caches.  A udf or candidate       *)
(* selector opens a runtime only if it matches.                             *)
Scalar == \A r \in Recordings : recKind[r] = "compile"
Init ==
  /\ recKind \in [Recordings -> RecKinds \ {"compile"}] \cup [Recordings -> {"compile"}]
  /\ recSubject \in [Recordings -> Subjects]
  /\ selector \in {"candidate", "udf", "region"}
  /\ matching \in IF selector = "candidate" THEN {Subjects} ELSE SUBSET Subjects
  /\ selected = (selector # "region")
  /\ progress = [r \in Recordings |-> Start(r)]
  /\ instance = [r \in Recordings |-> FALSE] /\ at = [r \in Recordings |-> 1]
  /\ emitted = [r \in Recordings |-> TRUE]
  /\ sinks = {} /\ claimed = {} /\ recorded = {}
  /\ written = [p \in Paths |-> Nobody]
  /\ marked = FALSE /\ degraded = FALSE /\ perf = IF Scalar THEN "due" ELSE "off"
  /\ fin = "open" /\ chosen = "COMPLETE" /\ ended = {} /\ failures = 0

Fails == failures < MaxFailures /\ failures' = failures + 1
Goes(r, p) == progress' = [progress EXCEPT ![r] = p]
LockFree == fin # "choosing"
MarkPartial == LockFree /\ marked' = TRUE
Call == <<recKind, recSubject, selector, matching>>
Final == <<perf, fin, chosen, ended>>
Chain == <<instance, at, emitted, written>>

(* provenance_sink: the lowering of the subject is observed. *)
Sink(r) ==
  /\ progress[r] = "sink" /\ Goes(r, "prepare")
  /\ selected' = IF selector = "candidate" THEN selected ELSE recSubject[r] \in matching
  /\ \/ ~selected' /\ UNCHANGED <<sinks, marked, failures>>
     \/ /\ selected' /\ LockFree /\ sinks' = sinks \cup {recSubject[r]}
        /\ UNCHANGED <<marked, failures>>
     \/ selected' /\ Fails /\ MarkPartial /\ UNCHANGED sinks
  /\ UNCHANGED Call /\ UNCHANGED <<claimed, recorded, degraded>> /\ UNCHANGED Chain
  /\ UNCHANGED Final

(* prepare_compilation, prepare_typed_compilation: before CinderX compiles. *)
Prepare(r) ==
  /\ progress[r] = "prepare" /\ Goes(r, "build")
  /\ \/ instance' = [instance EXCEPT ![r] = selected] /\ UNCHANGED <<marked, failures>>
     \/ recKind[r] = "compile" /\ selected /\ Fails /\ MarkPartial /\ UNCHANGED instance
  /\ UNCHANGED Call /\ UNCHANGED <<selected, at, emitted, sinks, claimed, recorded,
                 written, degraded>> /\ UNCHANGED Final

(* The compilation; what has no instance id is not recorded, typed regions  *)
(* excepted.  A span of a variant's compilation that raises has failed.     *)
Build(r) ==
  /\ progress[r] = "build"
  /\ \/ /\ Goes(r, IF instance[r] \/ recKind[r] = "typed" THEN "decide" ELSE "over")
        /\ UNCHANGED <<degraded, failures>>
     \/ /\ recKind[r] # "typed" /\ Fails /\ Goes(r, "over")
        /\ degraded' = (degraded \/ recKind[r] = "compile")
  /\ UNCHANGED Call /\ UNCHANGED <<selected, sinks, claimed, recorded, marked>>
  /\ UNCHANGED Chain /\ UNCHANGED Final

(* record_compilation, record_cache_compilation up to their first artifact. *)
Collect(r) ==
  /\ progress[r] = "decide" /\ recKind[r] # "typed"
  /\ \/ recKind[r] = "cache" /\ ~selected /\ Goes(r, "over") /\ UNCHANGED <<marked, failures>>
     \/ /\ recKind[r] = "compile" /\ recSubject[r] \notin sinks
        /\ MarkPartial /\ Goes(r, "over") /\ UNCHANGED failures
     \/ Fails /\ MarkPartial /\ Goes(r, "over")
     \/ /\ IF recKind[r] = "compile" THEN recSubject[r] \in sinks ELSE selected
        /\ LockFree /\ Goes(r, "writing") /\ UNCHANGED <<marked, failures>>
  /\ UNCHANGED Call /\ UNCHANGED <<selected, sinks, claimed, recorded, degraded>>
  /\ UNCHANGED Chain /\ UNCHANGED Final

(* record_typed_region_decision up to its first artifact: a region that is  *)
(* recorded, or being recorded, is not recorded again.  Decisions that are  *)
(* neither compiled nor unsupported are not recorded.                       *)
Decide(r) ==
  /\ progress[r] = "decide" /\ recKind[r] = "typed"
  /\ selected' = IF selector = "region" THEN recSubject[r] \in matching ELSE selected
  /\ \/ Goes(r, "over") /\ UNCHANGED <<claimed, marked, failures>>
     \/ selected' /\ Fails /\ MarkPartial /\ Goes(r, "over") /\ UNCHANGED claimed
     \/ /\ selected' /\ LockFree /\ recSubject[r] \notin recorded \cup claimed
        /\ claimed' = claimed \cup {recSubject[r]} /\ Goes(r, "writing")
        /\ UNCHANGED <<marked, failures>>
  /\ UNCHANGED Call /\ UNCHANGED <<sinks, recorded, degraded>> /\ UNCHANGED Chain
  /\ UNCHANGED Final

(* _artifact: a path that exists, a bundle that is published or a file that *)
(* cannot be written fails the session first and marks the runtime then.    *)
WriteOver(r) ==   (* Faulty: a path that exists counts as written. *)
  /\ progress[r] = "writing" /\ at[r] <= Length(r) /\ at' = [at EXCEPT ![r] = @ + 1]
  /\ LET p == <<recKind[r], at[r]>> IN
       \/ /\ fin # "published" /\ UNCHANGED <<progress, emitted, degraded, failures>>
          /\ written' = [written EXCEPT ![p] = recSubject[r]]
       \/ /\ fin = "published" /\ UNCHANGED failures
          /\ degraded' = TRUE /\ emitted' = [emitted EXCEPT ![r] = FALSE] /\ Goes(r, "mark")
          /\ UNCHANGED written
  /\ UNCHANGED Call /\ UNCHANGED <<selected, instance, sinks, claimed, recorded, marked>>
  /\ UNCHANGED Final
Write(r) ==
  /\ progress[r] = "writing" /\ at[r] <= Length(r) /\ at' = [at EXCEPT ![r] = @ + 1]
  /\ LET p == <<recKind[r], at[r]>> IN
       \/ /\ written[p] = Nobody /\ fin # "published"
          /\ written' = [written EXCEPT ![p] = recSubject[r]]
          /\ UNCHANGED <<progress, emitted, degraded, failures>>
       \/ /\ \/ (written[p] # Nobody \/ fin = "published") /\ UNCHANGED failures
             \/ Fails
          /\ degraded' = TRUE /\ emitted' = [emitted EXCEPT ![r] = FALSE] /\ Goes(r, "mark")
          /\ UNCHANGED written
  /\ UNCHANGED Call /\ UNCHANGED <<selected, instance, sinks, claimed, recorded, marked>>
  /\ UNCHANGED Final
Mark(r) ==
  /\ progress[r] = "mark" /\ MarkPartial /\ Goes(r, "writing")
  /\ UNCHANGED Call /\ UNCHANGED <<selected, sinks, claimed, recorded, degraded, failures>>
  /\ UNCHANGED Chain /\ UNCHANGED Final

(* The chain is over; a region counts as recorded if all of it was written. *)
Conclude(r) ==
  /\ progress[r] = "writing" /\ at[r] > Length(r) /\ LockFree /\ Goes(r, "over")
  /\ IF recKind[r] = "typed"
       THEN /\ recorded' = IF emitted[r] THEN recorded \cup {recSubject[r]} ELSE recorded
            /\ claimed' = claimed \ {recSubject[r]}
       ELSE UNCHANGED <<recorded, claimed>>
  /\ UNCHANGED Call /\ UNCHANGED <<selected, sinks, marked, degraded, failures>>
  /\ UNCHANGED Chain /\ UNCHANGED Final

(* record_perf_profile: a profile of another run, or one that cannot be       *)
(* written, marks the runtime.                                              *)
Perf ==
  /\ fin = "open" /\ perf = "due"
  /\ \/ perf' = "recorded" /\ UNCHANGED <<marked, degraded, failures>>
     \/ /\ Fails /\ MarkPartial
        /\ perf' \in {"due", "lost"} /\ degraded' = (degraded \/ perf' = "lost")
  /\ UNCHANGED Call /\ UNCHANGED <<selected, progress, sinks, claimed, recorded, fin, chosen,
                 ended>> /\ UNCHANGED Chain

(* finalize: the runtime's marks are read first, then the session's, which   *)
(* publishes, or fails and may be tried again.                              *)
Finalize ==
  /\ fin = "open" /\ fin' = "choosing"
  /\ chosen' = IF marked \/ perf \in {"due", "lost"} THEN "PARTIAL" ELSE "COMPLETE"
  /\ ended' = {r \in Recordings : progress[r] = "over" /\ at[r] > 1}
  /\ UNCHANGED Call /\ UNCHANGED <<selected, progress, sinks, claimed, recorded, marked,
                 degraded, perf, failures>> /\ UNCHANGED Chain
Publish ==
  /\ fin = "choosing"
  /\ \/ /\ fin' = "published" /\ UNCHANGED <<marked, degraded, failures>>
        /\ chosen' = IF degraded THEN "PARTIAL" ELSE chosen
     \/ fin' = "open" /\ Fails /\ degraded' = TRUE /\ marked' = TRUE /\ UNCHANGED chosen
  /\ UNCHANGED Call /\ UNCHANGED <<selected, progress, sinks, claimed, recorded, perf, ended>>
  /\ UNCHANGED Chain

Next ==
  \/ \E r \in Recordings : Sink(r) \/ Prepare(r) \/ Build(r) \/ Collect(r) \/ Decide(r)
                           \/ Write(r) \/ Mark(r) \/ Conclude(r)
  \/ Perf \/ Finalize \/ Publish
Spec == Init /\ [][Next]_vars
-----------------------------------------------------------------------------
(* A bundle that says COMPLETE holds, whole, every chain that was over when *)
(* it was finalized, and no chain mixes two compilations: although paths    *)
(* are shared and threads write them one by one (worker_runtime.py:268-1393).*)
CompleteChainsAreWhole ==
  fin = "published" /\ chosen = "COMPLETE" =>
    \A r \in ended : \A p \in PathsOf(r) : written[p] = recSubject[r]

(* A typed region is being recorded by one call at a time, its claim ends   *)
(* with the call, and it counts as recorded only when all of it was written *)
(* (worker_runtime.py:452-463, 833-844).                                    *)
TypedIn(s, P) == {r \in Recordings : recKind[r] = "typed" /\ recSubject[r] = s
                                       /\ progress[r] \in P}
RegionsClaimedOnce ==
  \A s \in Subjects :
    /\ Cardinality(TypedIn(s, Writing)) = IF s \in claimed THEN 1 ELSE 0
    /\ s \in recorded => \E r \in TypedIn(s, {"over"}) : \A p \in PathsOf(r) : written[p] = s
=============================================================================

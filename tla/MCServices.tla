----------------------------- MODULE MCServices -----------------------------
(* The tables, caches, hooks and files that driver, scheduler and worker keep. *)
(* They share no state: a run takes each part through all its behaviours.      *)
EXTENDS Naturals, Sequences, FiniteSets

CONSTANT Parts   \* the parts a run looks at

CONSTANTS Adapters, Namespaces, Policies, NamespaceLimit, CyclicAdapters,
          MaxManagers, Amounts, MaxAmount, DefaultBudgets, ReportKeys,
          MaxCount, MaxOffered, ExpectedTests, Lenient, Defects, Exprs,
          Hashes, HashOf, MaxCandidates, TTL, MaxRecords, MaxTime, MaxCallers,
          CacheKeys, Jobs, JobOf, CacheLimit, CacheTTL, CacheTime, Threads,
          MaxCalls, Funcs, MaxFrames, MaxChanges, Plans, ArtifactIds,
          Published, Unacceptable, Uses, MaxArtifacts, MaxPlans, Recorded,
          MaxBytes, MaxFaults, MaxAttempts, Recordings, RecKinds, Subjects,
          ChainLength, MaxFailures

VARIABLE part    \* the part that takes the steps

VARIABLES managerEntries, used, governors, managers, managerLock, opening,
          adapter
VARIABLES root, policy
VARIABLES offered, explainedReport
VARIABLES profile, evidence, defects, acceptedVerdict
VARIABLES order, registryListed, hashed, expires, finalized, schema, carrier,
          byExpr, byHash, hashOf, refs, alive, unbound, pending, last, now,
          closed
VARIABLES captureEntries, until, clock, served
VARIABLES layers, hookReport, lineageHooks, lineageActive, bound, method,
          batched, hookLock, pc, kind, original, hookEntries
VARIABLES frames, guard, todo, forced, resolved, rebuilt, vouched, executed,
          changes
VARIABLES driver, scheduler, plan, payloads, positive, negative, missed
VARIABLES artifact, payload, fault, codecAt, offset, documents, codecVerdict
VARIABLES place, file, bundleListed, exhausted, partial, rec, pub, status,
          doc, bundleEnded, faults, attempts, hurt
VARIABLES recKind, recSubject, selector, matching, selected, progress,
          instance, recorderAt, emitted, sinks, claimed, recorded, written,
          marked, degraded, perf, fin, chosen, recorderEnded, failures
VARIABLES rejection, doing, contents, missing, textMissing, says, outcome,
          bundleStatus

Managers == INSTANCE ProcessManagers WITH entries <- managerEntries,
                                          lock <- managerLock
Governed == INSTANCE GovernancePolicy
Explained == INSTANCE ExplainReport WITH report <- explainedReport
Accepted == INSTANCE Acceptance WITH verdict <- acceptedVerdict
Registry == INSTANCE CandidateRegistry WITH listed <- registryListed
Captures == INSTANCE CaptureCache WITH entries <- captureEntries
Hooks == INSTANCE ControlHooks WITH report <- hookReport, lock <- hookLock,
                                    entries <- hookEntries,
                                    MaxEntries <- MaxCalls
Lineage == INSTANCE NativeLineage
Delivery == INSTANCE ArtifactDelivery
Codec == INSTANCE ArtifactCodec WITH at <- codecAt, verdict <- codecVerdict
Bundle == INSTANCE DiagnosticBundle WITH listed <- bundleListed,
                                         ended <- bundleEnded
Recorders == INSTANCE WorkerDiagnostics WITH at <- recorderAt,
                                             ended <- recorderEnded
Rejections == INSTANCE DriverDiagnostics

MCDefaultBudgets == [namespace |-> 2, process |-> 3]
MCHashOf == [e \in Exprs |-> "h1"]
MCJobOf == [k \in CacheKeys |-> IF k = "z" THEN "j2" ELSE "j1"]
MCUses == [p \in Plans |-> IF p = "p" THEN "a" ELSE "c"]

managersVars == <<managerEntries, used, governors, managers, managerLock,
                  opening, adapter>>
policiesVars == <<root, policy>>
reportVars == <<offered, explainedReport>>
acceptanceVars == <<profile, evidence, defects, acceptedVerdict>>
registryVars == <<order, registryListed, hashed, expires, finalized, schema,
                  carrier, byExpr, byHash, hashOf, refs, alive, unbound,
                  pending, last, now, closed>>
capturesVars == <<captureEntries, until, clock, served>>
hooksVars == <<layers, hookReport, lineageHooks, lineageActive, bound, method,
               batched, hookLock, pc, kind, original, hookEntries>>
lineageVars == <<frames, guard, todo, forced, resolved, rebuilt, vouched,
                 executed, changes>>
deliveryVars == <<driver, scheduler, plan, payloads, positive, negative,
                  missed>>
codecVars == <<artifact, payload, fault, codecAt, offset, documents,
               codecVerdict>>
bundleVars == <<place, file, bundleListed, exhausted, partial, rec, pub,
                status, doc, bundleEnded, faults, attempts, hurt>>
recordersVars == <<recKind, recSubject, selector, matching, selected,
                   progress, instance, recorderAt, emitted, sinks, claimed,
                   recorded, written, marked, degraded, perf, fin, chosen,
                   recorderEnded, failures>>
rejectionsVars == <<rejection, doing, contents, missing, textMissing, says,
                    outcome, bundleStatus>>
vars == <<part, managersVars, policiesVars, reportVars, acceptanceVars,
          registryVars, capturesVars, hooksVars, lineageVars, deliveryVars,
          codecVars, bundleVars, recordersVars, rejectionsVars>>

ManagersStep == part = "managers" /\ UNCHANGED <<part, policiesVars,
                                                 reportVars, acceptanceVars,
                                                 registryVars, capturesVars,
                                                 hooksVars, lineageVars,
                                                 deliveryVars, codecVars,
                                                 bundleVars, recordersVars,
                                                 rejectionsVars>>
GovernedStep == part = "policies" /\ UNCHANGED <<part, managersVars,
                                                 reportVars, acceptanceVars,
                                                 registryVars, capturesVars,
                                                 hooksVars, lineageVars,
                                                 deliveryVars, codecVars,
                                                 bundleVars, recordersVars,
                                                 rejectionsVars>>
ExplainedStep == part = "report" /\ UNCHANGED <<part, managersVars,
                                                policiesVars, acceptanceVars,
                                                registryVars, capturesVars,
                                                hooksVars, lineageVars,
                                                deliveryVars, codecVars,
                                                bundleVars, recordersVars,
                                                rejectionsVars>>
AcceptedStep == part = "acceptance" /\ UNCHANGED <<part, managersVars,
                                                   policiesVars, reportVars,
                                                   registryVars, capturesVars,
                                                   hooksVars, lineageVars,
                                                   deliveryVars, codecVars,
                                                   bundleVars, recordersVars,
                                                   rejectionsVars>>
RegistryStep == part = "registry" /\ UNCHANGED <<part, managersVars,
                                                 policiesVars, reportVars,
                                                 acceptanceVars, capturesVars,
                                                 hooksVars, lineageVars,
                                                 deliveryVars, codecVars,
                                                 bundleVars, recordersVars,
                                                 rejectionsVars>>
CapturesStep == part = "captures" /\ UNCHANGED <<part, managersVars,
                                                 policiesVars, reportVars,
                                                 acceptanceVars, registryVars,
                                                 hooksVars, lineageVars,
                                                 deliveryVars, codecVars,
                                                 bundleVars, recordersVars,
                                                 rejectionsVars>>
HooksStep == part = "hooks" /\ UNCHANGED <<part, managersVars, policiesVars,
                                           reportVars, acceptanceVars,
                                           registryVars, capturesVars,
                                           lineageVars, deliveryVars,
                                           codecVars, bundleVars,
                                           recordersVars, rejectionsVars>>
LineageStep == part = "lineage" /\ UNCHANGED <<part, managersVars,
                                               policiesVars, reportVars,
                                               acceptanceVars, registryVars,
                                               capturesVars, hooksVars,
                                               deliveryVars, codecVars,
                                               bundleVars, recordersVars,
                                               rejectionsVars>>
DeliveryStep == part = "delivery" /\ UNCHANGED <<part, managersVars,
                                                 policiesVars, reportVars,
                                                 acceptanceVars, registryVars,
                                                 capturesVars, hooksVars,
                                                 lineageVars, codecVars,
                                                 bundleVars, recordersVars,
                                                 rejectionsVars>>
CodecStep == part = "codec" /\ UNCHANGED <<part, managersVars, policiesVars,
                                           reportVars, acceptanceVars,
                                           registryVars, capturesVars,
                                           hooksVars, lineageVars,
                                           deliveryVars, bundleVars,
                                           recordersVars, rejectionsVars>>
BundleStep == part = "bundle" /\ UNCHANGED <<part, managersVars, policiesVars,
                                             reportVars, acceptanceVars,
                                             registryVars, capturesVars,
                                             hooksVars, lineageVars,
                                             deliveryVars, codecVars,
                                             recordersVars, rejectionsVars>>
RecordersStep == part = "recorders" /\ UNCHANGED <<part, managersVars,
                                                   policiesVars, reportVars,
                                                   acceptanceVars,
                                                   registryVars, capturesVars,
                                                   hooksVars, lineageVars,
                                                   deliveryVars, codecVars,
                                                   bundleVars,
                                                   rejectionsVars>>
RejectionsStep == part = "rejections" /\ UNCHANGED <<part, managersVars,
                                                     policiesVars, reportVars,
                                                     acceptanceVars,
                                                     registryVars,
                                                     capturesVars, hooksVars,
                                                     lineageVars,
                                                     deliveryVars, codecVars,
                                                     bundleVars,
                                                     recordersVars>>

Init ==
  /\ part \in Parts
  /\ Managers!Init
  /\ IF part = "policies" THEN Governed!Init
     ELSE root = <<>> /\ policy = <<>>
  /\ Explained!Init
  /\ IF part = "acceptance" THEN Accepted!Init
     ELSE profile = <<>> /\ evidence = <<>> /\ defects = 0 /\ acceptedVerdict = <<>>
  /\ Registry!Init
  /\ Captures!Init
  /\ Hooks!Init
  /\ Lineage!Init
  /\ Delivery!Init
  /\ Codec!Init
  /\ Bundle!Init
  /\ IF part = "recorders" THEN Recorders!Init
     ELSE recKind = [r \in Recordings |-> "compile"] /\ selector = "candidate"
          /\ recSubject = [r \in Recordings |-> CHOOSE s \in Subjects : TRUE]
          /\ Recorders!Init
  /\ IF part = "rejections" THEN Rejections!Init
     ELSE rejection = [stage |-> "adapter", capture |-> FALSE, text |-> FALSE, found |-> FALSE]
          /\ Rejections!Init

Next ==
  \/ ManagersStep /\ Managers!Next
  \/ GovernedStep /\ Governed!Next
  \/ ExplainedStep /\ Explained!Next
  \/ AcceptedStep /\ Accepted!Next
  \/ RegistryStep /\ Registry!Next
  \/ CapturesStep /\ Captures!Next
  \/ HooksStep /\ Hooks!Next
  \/ LineageStep /\ Lineage!Next
  \/ DeliveryStep /\ Delivery!Next
  \/ CodecStep /\ Codec!Next
  \/ BundleStep /\ Bundle!Next
  \/ RecordersStep /\ Recorders!Next
  \/ RejectionsStep /\ Rejections!Next

Spec == Init /\ [][Next]_vars

ASSUME ServicesAssumption ==
  /\ Managers!ProcessAssumption /\ Governed!PolicyAssumption
  /\ Hooks!HooksAssumption /\ Lineage!LineageAssumption
  /\ Delivery!DeliveryAssumption
  /\ Registry!RegistryAssumption /\ Captures!CaptureAssumption
  /\ Bundle!BundleAssumption /\ Recorders!RecorderAssumption
  /\ Accepted!AcceptanceAssumption

-----------------------------------------------------------------------------
(* Adapters open, call and die: each keeps the manager it was given, no two    *)
(* policies serve one namespace, a policy has one governor and no more         *)
(* managers than allowed, none of them closed in use (worker.py:126-330).      *)
(* However often a policy is tightened, no mode, capture, compilation or       *)
(* budget is allowed that the published one forbids (policy.py:159-216,        *)
(* modes.py:46-92).                                                            *)
ManagersSafe ==
  /\ part = "managers" =>
       /\ Managers!TypeOK /\ Managers!ClientsKeepTheirManager /\ Managers!NoPolicyDrift
       /\ Managers!OneGovernor /\ Managers!NotReclaimedInUse
  /\ part = "policies" =>
       /\ Governed!TypeOK /\ Governed!AuthorityNeverGrows /\ Governed!WithdrawalOnlyTightens

(* The registry's tables lead from living expressions to their own live record *)
(* (registry.py:201-315).                                                      *)
IndexesAgree == part = "registry" => Registry!TypeOK /\ Registry!IndexesAgree

(* A carrier is settled once, and a record leaves the registry only for its    *)
(* age, for room, with its last expression or at the end (registry.py:217-710, *)
(* wrapper.py:64-67).                                                          *)
CarrierSettledOnce == Registry!CarrierSettledOnce /\ Registry!DroppedForAReason

(* No expired capture is served, no fresh one dropped for nothing              *)
(* (capture_cache.py:83-138).                                                  *)
KeptWhileFresh == Captures!KeptWhileFresh /\ []Captures!TypeOK

(* Whatever raises half way, the user's method is back when the call lock is   *)
(* free, native expressions are bound only while every terminal checks their   *)
(* guards, and a terminal runs natively only what was checked in the same      *)
(* resolution (control.py:699-818, native_expression.py:356-408).              *)
HooksSafe ==
  /\ part = "hooks" => Hooks!TypeOK /\ Hooks!UserMethodKept /\ Hooks!NativePlansGuarded
  /\ part = "lineage" => Lineage!TypeOK /\ Lineage!ExecutedPlansWereChecked

(* A worker holds the payloads of running tasks only, and a task's context     *)
(* crosses scheduler and worker unchanged (objectref_bridge.py:300-560).       *)
DeliverySafe == part = "delivery" =>
  /\ Delivery!TypeOK /\ Delivery!PayloadsOfRunningTasks /\ Delivery!ContextRestored /\ Delivery!OneVerdict

(* An artifact arrives whole or is refused (codec.py, manifest.py); an explain *)
(* report counts the events of its own run, and no other document is taken for *)
(* one (explain.py:18-173).                                                    *)
DecodesWhatWasEncoded ==
  /\ part = "codec" => Codec!TypeOK /\ Codec!DecodesWhatWasEncoded
  /\ part = "report" => Explained!TypeOK /\ Explained!ReportAddsUp

(* A bundle that says COMPLETE lacks nothing that was recorded, and its marker *)
(* stands beside whole files wherever the process died (bundle.py:380-560); a  *)
(* chain status in a driver's bundle is true (driver_runtime.py:219-517).  The *)
(* chains in it that were over are whole and each of one compilation, and a    *)
(* typed region is recorded by one call at a time (worker_runtime.py:268-1393).*)
BundleSafe ==
  /\ part = "bundle" => Bundle!TypeOK /\ Bundle!CompleteLacksNothing /\ Bundle!MarkerMeansWhole
  /\ part = "rejections" => Rejections!TypeOK /\ Rejections!ChainStatusIsTrue
  /\ part = "recorders" =>
       Recorders!TypeOK /\ Recorders!CompleteChainsAreWhole /\ Recorders!RegionsClaimedOnce

(* A run is accepted only on proof of its own: no lost, stale, edited or failed *)
(* evidence passes (acceptance.py:1206-1604).                                  *)
VerdictsAreProven ==
  part = "acceptance" =>
    Accepted!TypeOK /\ Accepted!PassMeansProven /\ Accepted!ReadyMeansComplete

(* A task whose worker prefetched its artifact can load it                     *)
(* (test_objectref_bridge.py: prefetches for sync udf).                        *)
PrefetchedIsFound == Delivery!PrefetchedIsFound
=============================================================================

-------------------------- MODULE ArtifactDelivery --------------------------
(***************************************************************************)
(* How an artifact that is too large to travel inside its carrier reaches  *)
(* the worker that runs its rows (integration/daft_ray/objectref_bridge.py *)
(* and protocol/loader.py).                                                *)
(*                                                                         *)
(* The driver registers the reference of each published artifact.  The     *)
(* wrapped stream_plan hands a plan all registered references; the         *)
(* scheduler keeps them per active plan and the wrapped submit_task adds   *)
(* those of all active plans to the task's context; the wrapped run_plan   *)
(* of the worker takes them out again, resolves them and stores the        *)
(* payloads where the loader finds them, until the task ends.  The loader  *)
(* remembers per process what it accepted and what it rejected.            *)
(*                                                                         *)
(* Driver and scheduler are processes of their own, so each sees only its  *)
(* own half of driver_artifact_references.  A plan has one task at a time. *)
(* An artifact stands for its content hash.                                *)
(***************************************************************************)
EXTENDS Naturals, Sequences, FiniteSets, Functions

CONSTANTS
    Plans,
    ArtifactIds,
    Published,      \* artifacts above the inline threshold: sent as references
    Unacceptable,   \* artifacts the decoder or the dependency check rejects
    Uses,           \* the artifact each plan's rows load
    MaxArtifacts,   \* _MAX_DRIVER_ARTIFACTS
    MaxPlans        \* _MAX_SCHEDULER_PLANS

DeliveryAssumption ==
    MaxArtifacts \in Nat /\ MaxPlans \in Nat /\ Uses \in [Plans -> ArtifactIds]

VARIABLES
    driver,      \* _DRIVER_ARTIFACTS, oldest first
    scheduler,   \* _SCHEDULER_PLAN_ARTIFACTS: references of the active plans
    plan,        \* where each plan and its task are
    payloads,    \* _PREFETCHED_PAYLOADS of the worker process
    positive,    \* ArtifactLoader._positive
    negative,    \* ArtifactLoader._negative
    missed       \* loads rejected although the task had prefetched its payload

vars == <<driver, scheduler, plan, payloads, positive, negative, missed>>

Contexts == {"none", "empty", "own"}
Stages == {"new", "streamed", "active", "submitted", "running", "ended"}

PlanRecord ==
    [stage: Stages,
     references: SUBSET Published,   \* what travels with the plan or its task
     bridged: BOOLEAN,               \* the context holds the bridge's key
     context: Contexts,              \* the task's own context
     seen: Contexts,                 \* the context the original run_plan gets
     prefetched: SUBSET Published]   \* the local list of wrapped_run_plan

TypeOK ==
    /\ driver \in Seq(Published) /\ Len(driver) <= MaxArtifacts
    /\ DOMAIN scheduler \subseteq Plans
    /\ \A p \in DOMAIN scheduler : scheduler[p] \in SUBSET Published
    /\ Cardinality(DOMAIN scheduler) <= MaxPlans
    /\ plan \in [Plans -> PlanRecord]
    /\ payloads \subseteq Published
    /\ positive \subseteq ArtifactIds
    /\ negative \subseteq ArtifactIds
    /\ missed \subseteq Plans

Init ==
    /\ driver = <<>>
    /\ scheduler = [p \in {} |-> {}]
    /\ plan = [p \in Plans |-> [stage |-> "new", references |-> {}, bridged |-> FALSE,
                                context |-> "none", seen |-> "none", prefetched |-> {}]]
    /\ payloads = {}
    /\ positive = {}
    /\ negative = {}
    /\ missed = {}

-----------------------------------------------------------------------------
(* The driver *)

(* Registering again replaces the record where it is; the oldest records go  *)
(* when there are too many.                                                  *)
Registered(a) ==
    LET known == IF a \in Range(driver) THEN driver ELSE Append(driver, a)
    IN  SubSeq(known, 1 + (IF Len(known) > MaxArtifacts THEN Len(known) - MaxArtifacts ELSE 0),
               Len(known))

Register(a) ==
    /\ a \in Published
    /\ driver' = Registered(a)
    /\ UNCHANGED <<scheduler, plan, payloads, positive, negative, missed>>

(* wrapped_stream_plan: the references registered so far travel with the     *)
(* plan, unless there are none or the plan has no usable id.                 *)
StreamPlan(p) ==
    /\ plan[p].stage = "new"
    /\ \E identified \in BOOLEAN :
         plan' = [plan EXCEPT ![p].stage = "streamed",
                              ![p].references = IF identified THEN Range(driver) ELSE {}]
    /\ UNCHANGED <<driver, scheduler, payloads, positive, negative, missed>>

-----------------------------------------------------------------------------
(* The scheduler *)

WithPlan(p, references) ==
    [q \in DOMAIN scheduler \cup {p} |-> IF q = p THEN references ELSE scheduler[q]]

WithoutPlan(p) == [q \in DOMAIN scheduler \ {p} |-> scheduler[q]]

(* _register_scheduler_plan_artifacts has room for this plan. *)
Capacity(p) == p \in DOMAIN scheduler \/ Cardinality(DOMAIN scheduler) < MaxPlans

(* wrapped_scheduler_run_plan: the references are registered first; without  *)
(* room the plan fails there, and when the original raises they go again.    *)
ScheduleRun(p) ==
    /\ plan[p].stage = "streamed"
    /\ \/ /\ plan[p].references = {}
          /\ UNCHANGED scheduler
          /\ \E stage \in {"active", "ended"} : plan' = [plan EXCEPT ![p].stage = stage]
       \/ /\ plan[p].references # {}
          /\ Capacity(p)
          /\ scheduler' = WithPlan(p, plan[p].references)
          /\ plan' = [plan EXCEPT ![p].stage = "active"]
       \/ /\ plan[p].references # {}
          /\ plan' = [plan EXCEPT ![p].stage = "ended"]
          /\ UNCHANGED scheduler
    /\ UNCHANGED <<driver, payloads, positive, negative, missed>>

(* wrapped_submit_task: the references of all active plans join the context. *)
SubmitTask(p) ==
    /\ plan[p].stage = "active"
    /\ LET references == UNION {scheduler[q] : q \in DOMAIN scheduler}
       IN  \E context \in Contexts :
             plan' = [plan EXCEPT ![p] =
                        [@ EXCEPT !.stage = "submitted", !.context = context,
                                  !.references = references, !.bridged = references # {}]]
    /\ UNCHANGED <<driver, scheduler, payloads, positive, negative, missed>>

(* wrapped_scheduler_get_next: no partition is left, or the original raised. *)
GetNextEnds(p) ==
    /\ plan[p].stage = "active"
    /\ scheduler' = WithoutPlan(p)
    /\ plan' = [plan EXCEPT ![p].stage = "ended"]
    /\ UNCHANGED <<driver, payloads, positive, negative, missed>>

(* The consumer of a plan's partitions goes away: nobody calls again. *)
Abandon(p) ==
    /\ plan[p].stage = "active"
    /\ plan' = [plan EXCEPT ![p].stage = "ended"]
    /\ UNCHANGED <<driver, scheduler, payloads, positive, negative, missed>>

-----------------------------------------------------------------------------
(* The worker *)

(* The context without the bridge's key; one that was None is None again.    *)
ExecutionContext(t) ==
    IF t.bridged /\ t.context = "none" THEN "none" ELSE t.context

(* wrapped_run_plan: lost references stay unresolved, the others are stored. *)
RunPlan(p) ==
    /\ plan[p].stage = "submitted"
    /\ \E lost \in SUBSET plan[p].references :
         LET found == plan[p].references \ lost
         IN  /\ payloads' = payloads \cup found
             /\ plan' = [plan EXCEPT ![p] =
                           [@ EXCEPT !.stage = "running", !.prefetched = found,
                                     !.seen = ExecutionContext(plan[p])]]
    /\ UNCHANGED <<driver, scheduler, positive, negative, missed>>

(* What _ray_get makes of a reference: bytes that Ray put in its place, a    *)
(* refusal inside an actor or beside a running loop, or a blocking get.      *)
Reaches == {"dereferenced", "actor", "loop", "fetched", "unreachable"}
Resolves(reach) == reach \in {"dereferenced", "fetched"}

(* _load_uncached finds the bytes of artifact a. *)
PayloadFound(a, reach) ==
    \/ a \notin Published
    \/ a \in payloads
    \/ Resolves(reach)

(* ArtifactLoader.load: what was decided for this content is decided; a      *)
(* rejection is kept like an acceptance, whatever its cause.                 *)
Load(p, reach) ==
    LET a == Uses[p]
        accepted == PayloadFound(a, reach) /\ a \notin Unacceptable
    IN  /\ plan[p].stage = "running"
        /\ a \notin positive \cup negative
        /\ positive' = IF accepted THEN positive \cup {a} ELSE positive
        /\ negative' = IF accepted THEN negative ELSE negative \cup {a}
        /\ missed' = IF a \in plan[p].prefetched /\ ~PayloadFound(a, reach)
                     THEN missed \cup {p} ELSE missed
        /\ UNCHANGED <<driver, scheduler, plan, payloads>>

EndTaskKeeping(p) ==   (* Faulty: the payloads stay when the task ends. *)
    /\ plan[p].stage = "running"
    /\ plan' = [plan EXCEPT ![p].stage = "active", ![p].prefetched = {}]
    /\ UNCHANGED <<driver, scheduler, payloads, positive, negative, missed>>
(* The finally clause of wrapped_run_plan pops what this task stored. *)
EndTask(p) ==
    /\ plan[p].stage = "running"
    /\ payloads' = payloads \ plan[p].prefetched
    /\ plan' = [plan EXCEPT ![p].stage = "active", ![p].prefetched = {}]
    /\ UNCHANGED <<driver, scheduler, positive, negative, missed>>

(* The worker process dies; Ray submits its tasks again elsewhere, where the *)
(* process generation, and with it the loader's namespace, is another.       *)
Restart ==
    /\ payloads \cup positive \cup negative # {}
    /\ payloads' = {} /\ positive' = {} /\ negative' = {} /\ missed' = {}
    /\ plan' = [p \in Plans |->
                  IF plan[p].stage = "running"
                  THEN [plan[p] EXCEPT !.stage = "submitted", !.prefetched = {}]
                  ELSE plan[p]]
    /\ UNCHANGED <<driver, scheduler>>

Next ==
    \/ \E a \in ArtifactIds : Register(a)
    \/ \E p \in Plans : StreamPlan(p) \/ ScheduleRun(p) \/ SubmitTask(p)
                        \/ GetNextEnds(p) \/ Abandon(p) \/ RunPlan(p) \/ EndTask(p)
    \/ \E p \in Plans, reach \in Reaches : Load(p, reach)
    \/ Restart

Spec == Init /\ [][Next]_vars

-----------------------------------------------------------------------------
(* Properties *)

(* A payload is kept in the worker only while a task that stored it runs:    *)
(* concurrent tasks that store and clear the same artifact leak nothing.     *)
PayloadsOfRunningTasks ==
    payloads \subseteq UNION {plan[p].prefetched : p \in {q \in Plans : plan[q].stage = "running"}}

(* Crossing scheduler and worker leaves no trace: the original run_plan is   *)
(* called with the context of the task, None, empty or not.                  *)
ContextRestored ==
    \A p \in Plans : plan[p].stage = "running" => plan[p].seen = plan[p].context

(* A process decides once per content: nothing is accepted and rejected.     *)
OneVerdict == positive \cap negative = {}

(* What the tests promise (test_objectref_bridge.py, "prefetches for sync    *)
(* UDFs"): a task whose worker prefetched its artifact can load it.          *)
PrefetchedIsFound == missed = {}
=============================================================================

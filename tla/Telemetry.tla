------------------------------ MODULE Telemetry -----------------------------
(* The bounded telemetry queue: emitters put without blocking under the lock,   *)
(* one consumer calls a backend that may raise, any thread may flush or close.  *)
EXTENDS Naturals, Sequences, FiniteSets

CONSTANTS Threads, Capacity, MaxEvents

TelemetryAssumption ==
  "nobody" \notin Threads /\ Capacity \in Nat \ {0} /\ MaxEvents \in Nat

VARIABLES queue, unfinished, accepted, delivered, dropped, failures, closed,
          lock, consumer, tpc, emitted

vars == <<queue, unfinished, accepted, delivered, dropped, failures, closed,
          lock, consumer, tpc, emitted>>
counters == <<accepted, delivered, dropped, failures>>

Nobody == "nobody"

Init ==
  /\ queue = <<>> /\ unfinished = 0 /\ closed = FALSE /\ lock = Nobody
  /\ accepted = 0 /\ delivered = 0 /\ dropped = 0 /\ failures = 0
  /\ consumer = "getting" /\ tpc = [t \in Threads |-> "idle"] /\ emitted = 0

To(t, where) == tpc' = [tpc EXCEPT ![t] = where]

(* try_emit: closed or full drops the event; a put is counted before the lock   *)
(* is released, though the consumer may have the event by then.                 *)
TryEmit(t) ==
  /\ tpc[t] = "idle" /\ lock = Nobody /\ emitted < MaxEvents /\ emitted' = emitted + 1
  /\ IF closed \/ Len(queue) = Capacity
     THEN dropped' = dropped + 1 /\ UNCHANGED <<queue, unfinished, lock, tpc>>
     ELSE /\ queue' = Append(queue, "event") /\ unfinished' = unfinished + 1
          /\ lock' = t /\ To(t, "counting") /\ UNCHANGED dropped
  /\ UNCHANGED <<accepted, delivered, failures, closed, consumer>>

Count(t) ==
  /\ tpc[t] = "counting" /\ accepted' = accepted + 1 /\ lock' = Nobody /\ To(t, "idle")
  /\ UNCHANGED <<queue, unfinished, delivered, dropped, failures, closed, consumer, emitted>>

Get ==
  /\ consumer = "getting" /\ queue # <<>>
  /\ consumer' = IF Head(queue) = "event" THEN "calling" ELSE "leaving"
  /\ queue' = Tail(queue)
  /\ UNCHANGED <<unfinished, counters, closed, lock, tpc, emitted>>

BackendUncounted(raises) ==       (* Faulty: an event that raised is not counted. *)
  /\ consumer = "calling" /\ lock = Nobody
  /\ delivered' = delivered + (IF raises THEN 0 ELSE 1)
  /\ unfinished' = unfinished - 1 /\ consumer' = "getting"
  /\ UNCHANGED <<queue, accepted, failures, dropped, closed, lock, tpc, emitted>>
BackendUnfinished(raises) ==      (* Faulty: an event that raised is not finished. *)
  /\ consumer = "calling" /\ lock = Nobody
  /\ IF raises THEN failures' = failures + 1 /\ UNCHANGED <<delivered, unfinished>>
               ELSE delivered' = delivered + 1 /\ unfinished' = unfinished - 1 /\ UNCHANGED failures
  /\ consumer' = "getting"
  /\ UNCHANGED <<queue, accepted, dropped, closed, lock, tpc, emitted>>
(* The backend answers or raises anything; the outcome is counted under the     *)
(* lock and the task is done in either case.                                    *)
Backend(raises) ==
  /\ consumer = "calling" /\ lock = Nobody
  /\ IF raises THEN failures' = failures + 1 /\ UNCHANGED delivered
               ELSE delivered' = delivered + 1 /\ UNCHANGED failures
  /\ unfinished' = unfinished - 1 /\ consumer' = "getting"
  /\ UNCHANGED <<queue, accepted, dropped, closed, lock, tpc, emitted>>

Leave ==
  /\ consumer = "leaving" /\ consumer' = "gone" /\ unfinished' = unfinished - 1
  /\ UNCHANGED <<queue, counters, closed, lock, tpc, emitted>>

Flush(t) ==
  /\ tpc[t] = "idle" /\ To(t, "flushing")
  /\ UNCHANGED <<queue, unfinished, counters, closed, lock, consumer, emitted>>

Flushed(t) ==
  /\ tpc[t] = "flushing" /\ unfinished = 0 /\ To(t, "idle")
  /\ UNCHANGED <<queue, unfinished, counters, closed, lock, consumer, emitted>>

(* close: only the first caller goes on; the sentinel waits for room.           *)
Close(t) ==
  /\ tpc[t] = "idle" /\ lock = Nobody
  /\ IF closed THEN UNCHANGED <<closed, tpc>> ELSE closed' = TRUE /\ To(t, "sentinel")
  /\ UNCHANGED <<queue, unfinished, counters, lock, consumer, emitted>>

Sentinel(t) ==
  /\ tpc[t] = "sentinel" /\ Len(queue) < Capacity
  /\ queue' = Append(queue, "end") /\ unfinished' = unfinished + 1 /\ To(t, "joining")
  /\ UNCHANGED <<counters, closed, lock, consumer, emitted>>

(* ... and joins the queue, then the consumer.                                  *)
Joined(t) ==
  /\ tpc[t] = "joining" /\ unfinished = 0 /\ consumer = "gone" /\ To(t, "done")
  /\ UNCHANGED <<queue, unfinished, counters, closed, lock, consumer, emitted>>

Next ==
  \/ Get \/ Leave \/ \E b \in BOOLEAN : Backend(b)
  \/ \E t \in Threads : TryEmit(t) \/ Count(t) \/ Flush(t) \/ Flushed(t)
                        \/ Close(t) \/ Sentinel(t) \/ Joined(t)

(* The consumer thread runs, its backend returns, and a thread in a call goes   *)
(* on when it can.                                                              *)
Fairness ==
  /\ WF_vars(Get) /\ WF_vars(Leave) /\ WF_vars(\E b \in BOOLEAN : Backend(b))
  /\ \A t \in Threads : WF_vars(Count(t)) /\ WF_vars(Sentinel(t)) /\ WF_vars(Joined(t))

Spec == Init /\ [][Next]_vars
LiveSpec == Spec /\ Fairness

Waiting(q) == {i \in DOMAIN q : q[i] = "event"}
WithBackend == IF consumer = "calling" THEN 1 ELSE 0

TypeOK ==
  /\ Len(queue) <= Capacity /\ unfinished \in 0..(Capacity + 1)
  /\ accepted + dropped <= emitted /\ emitted \in 0..MaxEvents
  /\ closed \in BOOLEAN /\ lock \in Threads \cup {Nobody}
  /\ consumer \in {"getting", "calling", "leaving", "gone"}
  /\ tpc \in [Threads -> {"idle", "counting", "flushing", "sentinel", "joining", "done"}]

(* The counters of a reader that takes the lock add up: every event offered was *)
(* accepted or dropped, and every accepted one is delivered, failed, queued or  *)
(* with the backend; none is left when close() returns (telemetry.py:178-208,   *)
(* 222-229).                                                                    *)
Accounted ==
  lock = Nobody =>
    /\ accepted + dropped = emitted
    /\ accepted = delivered + failures + WithBackend + Cardinality(Waiting(queue))
    /\ (\E t \in Threads : tpc[t] = "done") => accepted = delivered + failures

(* close() ends although emitters fill the queue and the backend raises         *)
(* (telemetry.py:193-208, 222-229).                                             *)
CloseEnds == \A t \in Threads : tpc[t] \in {"sentinel", "joining"} ~> tpc[t] = "done"
=============================================================================

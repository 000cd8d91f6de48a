----------------------------- MODULE ExplainReport -----------------------------
(* governance/explain.py: the report built from governance events, and how a  *)
(* report is decoded again.  A key is the stage, decision, reason and         *)
(* identities of an event as one number, in the order of the stages and then  *)
(* of sorted(); stages are kept apart by the keys.                            *)
EXTENDS Naturals, Sequences, FiniteSets

CONSTANTS
    ReportKeys,   \* a set of numbers
    MaxCount,     \* the largest count of an event
    MaxOffered    \* events offered to a report

VARIABLES
    offered,    \* the events: [own |-> of the reported run, key, count]
    report      \* the document, or what tampering made of it

vars == <<offered, report>>

NoReport == <<>>
Events == [own : BOOLEAN, key : ReportKeys, count : 0..MaxCount]

(* build_explain_report: the Counter of the scope's events, key by key.     *)
CountOfAll(events, k) ==   (* Faulty: events of other runs are counted too. *)
    LET sum[i \in 0..Len(events)] ==
            IF i = 0 THEN 0
            ELSE sum[i - 1] + IF events[i].key = k THEN events[i].count ELSE 0
    IN sum[Len(events)]

CountOf(events, k) ==
    LET sum[i \in 0..Len(events)] ==
            IF i = 0 THEN 0
            ELSE sum[i - 1] + IF events[i].own /\ events[i].key = k THEN events[i].count ELSE 0
    IN sum[Len(events)]

KeysOf(events) == {events[i].key : i \in {j \in DOMAIN events : events[j].own}}

InOrder(keys) ==
    CHOOSE s \in [1..Cardinality(keys) -> keys] : \A i, j \in DOMAIN s : i < j => s[i] < s[j]

Report(events) ==
    [i \in 1..Cardinality(KeysOf(events)) |->
        LET k == InOrder(KeysOf(events))[i] IN [key |-> k, count |-> CountOf(events, k)]]

(* decode_explain_report rebuilds the events and the report.                *)
EventsOf(document) ==
    [i \in DOMAIN document |-> [own |-> TRUE, key |-> document[i].key, count |-> document[i].count]]

Decodes(document) == document = Report(EventsOf(document))

-----------------------------------------------------------------------------
Init == offered = <<>> /\ report = NoReport

Offer(e) ==
    /\ Len(offered) < MaxOffered /\ report = NoReport
    /\ offered' = Append(offered, e)
    /\ UNCHANGED report

Build ==
    /\ report = NoReport
    /\ report' = Report(offered)
    /\ UNCHANGED offered

(* Somebody hands in another document: one entry twice, out of order, or    *)
(* split in two.                                                            *)
Tamper(document) ==
    /\ report # NoReport
    /\ Decodes(document)
    /\ report' = document
    /\ UNCHANGED offered

Edited ==
    {report \o <<report[i]>> : i \in DOMAIN report}
    \cup {[i \in DOMAIN report |-> report[Len(report) + 1 - i]]}
    \cup {<<report[i]>> \o [report EXCEPT ![i].count = 0] : i \in DOMAIN report}
    \cup {SubSeq(report, 1, i - 1) \o SubSeq(report, i + 1, Len(report)) \o <<report[i]>> : i \in DOMAIN report}

Next == Build \/ (\E e \in Events : Offer(e)) \/ \E d \in Edited : Tamper(d)

-----------------------------------------------------------------------------
TypeOK == Len(offered) <= MaxOffered /\ \A i \in DOMAIN offered : offered[i] \in Events

(* A report tells for every key how often its own run met it, whatever      *)
(* order the events came in, and a document that lists a key twice, out of  *)
(* order or in parts is not taken for one (explain.py:18-173).              *)
ReportAddsUp ==
    report # NoReport =>
        /\ Decodes(report)
        /\ \A i \in DOMAIN report :
            report[i].count = Cardinality({u \in (DOMAIN offered) \X (1..MaxCount) :
                /\ offered[u[1]].own /\ offered[u[1]].key = report[i].key
                /\ u[2] <= offered[u[1]].count})
        /\ \A e \in DOMAIN offered :
            offered[e].own => \E i \in DOMAIN report : report[i].key = offered[e].key
        /\ \A i \in DOMAIN report : \E e \in DOMAIN offered : offered[e].own /\ offered[e].key = report[i].key
        /\ \A i, j \in DOMAIN report : i < j => report[i].key < report[j].key
=============================================================================

-------------------------- MODULE DriverDiagnostics -------------------------
(* diagnostics/driver_runtime.py: the driver records why a candidate was    *)
(* rejected, in a bundle of its own: what is known of its source and of its *)
(* capture, and a chain status that says which layers there are.  Each      *)
(* artifact may be refused or raise, and the publication may drop the last  *)
(* artifacts to fit the policy's bytes.                                     *)
EXTENDS Naturals, Sequences
VARIABLES rejection,  \* [stage, capture, text, found]: see Cases
          doing,      \* "open", then the artifact recorded next, or the end
          contents,   \* artifacts in the bundle, in order
          missing,    \* required_artifact_missing
          textMissing,   \* source_text_missing
          says,       \* layers that chain_status calls available
          outcome,    \* DriverDiagnosticStatus, "" while it runs
          bundleStatus   \* of the bundle published, "none" if there is none
vars == <<rejection, doing, contents, missing, textMissing, says, outcome, bundleStatus>>

Stages == {"adapter", "capture", "semantic", "artifact"}
(* What is rejected where; `text`: the policy wants the source's text, `found`: *)
(* inspect.getsource finds it.  Adapter and capture reject before a capture.   *)
Cases == {c \in [stage : Stages, capture : BOOLEAN, text : BOOLEAN, found : BOOLEAN] :
            c.capture => c.stage \in {"semantic", "artifact"}}
Required == {"evidence", "capture", "listing"}
Contents == {contents[i] : i \in DOMAIN contents}

TypeOK ==
  /\ rejection \in Cases
  /\ doing \in Required \cup {"open", "source", "chain", "conclude", "done"}
  /\ contents \in Seq(Required \cup {"source", "chain", "stages"})
  /\ {missing, textMissing} \subseteq BOOLEAN
  /\ says \subseteq {"capture", "source"}
  /\ outcome \in {"", "recorded", "not_selected", "failed"}
  /\ bundleStatus \in {"none", "PARTIAL", "INCOMPLETE"}

Init ==
  /\ rejection \in Cases /\ doing = "open" /\ contents = <<>>
  /\ missing = FALSE /\ textMissing = FALSE /\ says = {}
  /\ outcome = "" /\ bundleStatus = "none"

(* The publication keeps a prefix of what was recorded. *)
PublishedAs(kept, status) ==
  /\ contents' = SubSeq(Append(contents, "stages"), 1, kept) /\ bundleStatus' = status
Ends(result) == doing' = "done" /\ outcome' = result
(* _failed: what there is becomes an incomplete bundle, if that works. *)
Failed ==
  /\ Ends("failed")
  /\ \/ \E kept \in 0..(Len(contents) + 1) : PublishedAs(kept, "INCOMPLETE")
     \/ UNCHANGED <<contents, bundleStatus>>

(* The candidate is not selected, the session cannot be opened or what is   *)
(* to be recorded cannot be built, or recording begins.                     *)
Open ==
  /\ doing = "open"
  /\ \/ Ends("not_selected") /\ UNCHANGED <<contents, bundleStatus, textMissing, says>>
     \/ Failed /\ UNCHANGED <<textMissing, says>>
     \/ /\ doing' = "evidence" /\ textMissing' = (rejection.text /\ ~rejection.found)
        /\ says' = (IF rejection.capture THEN {"capture"} ELSE {})
                     \cup (IF rejection.text /\ rejection.found THEN {"source"} ELSE {})
        /\ UNCHANGED <<contents, outcome, bundleStatus>>
  /\ UNCHANGED <<rejection, missing>>

After(a) ==
  CASE a = "evidence" -> IF rejection.capture THEN "capture" ELSE "listing"
    [] a = "capture"  -> "listing"
    [] a = "listing"  -> IF "source" \in says THEN "source"
                         ELSE IF missing' THEN "conclude" ELSE "chain"
    [] a = "source"   -> IF missing' THEN "conclude" ELSE "chain"
    [] a = "chain"    -> "conclude"

(* One artifact after the other; one that is refused is noted, and the chain *)
(* status, written last, does not call a text available that was refused.   *)
Record ==
  /\ doing \in Required \cup {"source", "chain"}
  /\ \/ /\ contents' = Append(contents, doing) /\ UNCHANGED <<missing, textMissing>>
        /\ doing' = After(doing) /\ UNCHANGED <<says, outcome, bundleStatus>>
     \/ /\ missing' = (missing \/ doing # "source") /\ textMissing' = (textMissing \/ doing = "source")
        /\ says' = says \ (IF doing = "source" THEN {"source"} ELSE {})
        /\ doing' = After(doing) /\ UNCHANGED <<contents, outcome, bundleStatus>>
     \/ Failed /\ UNCHANGED <<missing, textMissing, says>>
  /\ UNCHANGED rejection

(* What lacks evidence is published as incomplete, the rest as partial: a   *)
(* rejection never leaves a complete bundle.                                *)
Conclude ==
  /\ doing = "conclude"
  /\ LET lacking == \/ missing \/ textMissing
                    \/ rejection.stage \in {"semantic", "artifact"} /\ ~rejection.capture
     IN \/ lacking /\ Failed
        \/ /\ ~lacking /\ Ends("recorded")
           /\ \E kept \in 0..(Len(contents) + 1) : PublishedAs(kept, "PARTIAL")
        \/ ~lacking /\ Ends("failed") /\ UNCHANGED <<contents, bundleStatus>>
  /\ UNCHANGED <<rejection, missing, textMissing, says>>

Next == Open \/ Record \/ Conclude
Spec == Init /\ [][Next]_vars
-----------------------------------------------------------------------------
(* A chain status that is in a published bundle says the truth: the capture *)
(* and the text it calls available are in it, and so is what every bundle   *)
(* needs; and a rejection is called recorded only if nothing was missing.   *)
ChainStatusIsTrue ==
  /\ "chain" \in Contents => (says \cup {"evidence", "listing"}) \subseteq Contents
  /\ outcome = "recorded" =>
       /\ bundleStatus = "PARTIAL" /\ ~missing /\ ~textMissing
       /\ rejection.text => "source" \in says
=============================================================================

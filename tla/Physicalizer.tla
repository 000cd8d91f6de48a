---------------------------- MODULE Physicalizer ----------------------------
(* Call frames of the scalar data plane.  A frame reserves its access ids in    *)
(* the physicalizer, carries a one-value publication, and gives the ids back    *)
(* when it is closed; the publication may be used by any thread while the       *)
(* frame's owner closes it.                                                     *)
EXTENDS Naturals, FiniteSets

CONSTANTS Frames, Values, Unfit     \* Unfit: what the output's validator refuses

Unset == "unset"

OutputAssumption == Unset \notin Values \cup Unfit

VARIABLES frame, staged, published, aborted, delivered, active, closed

vars == <<frame, staged, published, aborted, delivered, active, closed>>
publication == <<staged, published, aborted, delivered>>

Open == {"open", "closing"}

Init ==
  /\ frame = [f \in Frames |-> "unused"] /\ active = {} /\ closed = FALSE
  /\ staged = [f \in Frames |-> Unset] /\ published = [f \in Frames |-> Unset]
  /\ aborted = [f \in Frames |-> FALSE] /\ delivered = [f \in Frames |-> 0]

(* open_call: the ids first, under the lock; then input and descriptors, which  *)
(* may be refused.                                                              *)
OpenCall(f) ==
  /\ frame[f] = "unused" /\ ~closed
  /\ frame' = [frame EXCEPT ![f] = "opening"] /\ active' = active \cup {f}
  /\ UNCHANGED <<publication, closed>>

OpenFailsLeaking(f) ==      (* Faulty: the ids of a refused input are kept. *)
  /\ frame[f] = "opening" /\ frame' = [frame EXCEPT ![f] = "failed"]
  /\ UNCHANGED <<active, publication, closed>>
OpenFails(f) ==
  /\ frame[f] = "opening" /\ frame' = [frame EXCEPT ![f] = "failed"]
  /\ active' = active \ {f} /\ UNCHANGED <<publication, closed>>

Opened(f) ==
  /\ frame[f] = "opening" /\ frame' = [frame EXCEPT ![f] = "open"]
  /\ UNCHANGED <<active, publication, closed>>

(* stage: validated first, then refused once aborted, published or staged.      *)
Stage(f, v) ==
  /\ frame[f] \in Open /\ v \notin Unfit
  /\ ~aborted[f] /\ published[f] = Unset /\ staged[f] = Unset
  /\ staged' = [staged EXCEPT ![f] = v]
  /\ UNCHANGED <<frame, published, aborted, delivered, active, closed>>

Publish(f) ==
  /\ frame[f] \in Open /\ ~aborted[f] /\ published[f] = Unset /\ staged[f] # Unset
  /\ published' = [published EXCEPT ![f] = staged[f]] /\ staged' = [staged EXCEPT ![f] = Unset]
  /\ delivered' = [delivered EXCEPT ![f] = @ + 1]
  /\ UNCHANGED <<frame, aborted, active, closed>>

(* close asks whether a value is published, then aborts: a publication between  *)
(* the two makes the abort raise and the frame stays open.                      *)
CloseBegins(f) ==
  /\ frame[f] = "open"
  /\ IF published[f] = Unset
     THEN frame' = [frame EXCEPT ![f] = "closing"] /\ UNCHANGED active
     ELSE frame' = [frame EXCEPT ![f] = "closed"] /\ active' = active \ {f}
  /\ UNCHANGED <<publication, closed>>

CloseAborts(f) ==
  /\ frame[f] = "closing"
  /\ IF published[f] = Unset
     THEN /\ aborted' = [aborted EXCEPT ![f] = TRUE] /\ staged' = [staged EXCEPT ![f] = Unset]
          /\ frame' = [frame EXCEPT ![f] = "closed"] /\ active' = active \ {f}
     ELSE frame' = [frame EXCEPT ![f] = "open"] /\ UNCHANGED <<aborted, staged, active>>
  /\ UNCHANGED <<published, delivered, closed>>

(* ScalarPhysicalizer.close raises while a frame holds ids.                     *)
Close ==
  /\ ~closed /\ active = {} /\ closed' = TRUE
  /\ UNCHANGED <<frame, publication, active>>

Next ==
  \/ Close
  \/ \E f \in Frames :
       \/ OpenCall(f) \/ OpenFails(f) \/ Opened(f) \/ Publish(f)
       \/ CloseBegins(f) \/ CloseAborts(f)
       \/ \E v \in Values : Stage(f, v)

Spec == Init /\ [][Next]_vars

TypeOK ==
  /\ frame \in [Frames -> {"unused", "opening", "open", "closing", "closed", "failed"}]
  /\ staged \in [Frames -> Values \cup {Unset}] /\ published \in [Frames -> Values \cup {Unset}]
  /\ aborted \in [Frames -> BOOLEAN] /\ delivered \in [Frames -> 0..2]
  /\ active \subseteq Frames /\ closed \in BOOLEAN

(* The ids held are those of the frames in use, whether opening failed, a       *)
(* publication overtook close() or the row raised: so the physicalizer closes   *)
(* exactly when no frame is in use (physicalize.py:134-150, 252-261, 280-286).  *)
IdsBelongToFrames ==
  /\ active = {f \in Frames : frame[f] \in Open \cup {"opening"}}
  /\ closed => \A f \in Frames : frame[f] \in {"unused", "closed", "failed"}

(* A frame delivers at most one value, a valid one, and none once it was        *)
(* aborted (ownership.py:50-86).                                                *)
OneValuePublished ==
  \A f \in Frames : /\ delivered[f] <= 1 /\ published[f] \notin Unfit
                    /\ aborted[f] => delivered[f] = 0 /\ staged[f] = Unset
                    /\ frame[f] = "closed" => aborted[f] \/ delivered[f] = 1
=============================================================================

-------------------------- MODULE DiagnosticBundle --------------------------
(* diagnostics/bundle.py and session.py: a diagnostic run records artifacts *)
(* into a private temporary directory, from the threads that compile, and a *)
(* finalization verifies the directory, writes its manifest, moves it to    *)
(* its final name and puts the COMPLETE marker into it last.  Any file      *)
(* operation may fail, and the worker tries again when it closes.  Nothing  *)
(* is assumed of a process that dies: every state is one a reader may find. *)
EXTENDS Naturals, Sequences, FiniteSets
CONSTANTS Recorded,      \* artifacts recorded by compiling threads
          MaxBytes,      \* policy.max_bytes; an artifact and its entry are 1 + 1
          MaxFaults,     \* bound: file operations that fail
          MaxAttempts    \* bound: calls of finalize
VARIABLES place,     \* "temp" or "final", the name the directory has
          file,      \* what each name in it holds: "none", "part" or "whole"
          listed,    \* _artifacts
          exhausted, \* _budget_exhausted > 0
          partial,   \* _failures of the session, _partial of the runtime
          rec,       \* how far the recording of each artifact has come
          pub,       \* how far the finalization has come
          status,    \* the status it is going to publish
          doc,       \* the manifest written
          ended,     \* recordings that were over when the finalization began
          faults, attempts,
          hurt       \* a file operation failed during the present finalization
vars == <<place, file, listed, exhausted, partial, rec, pub, status, doc,
          ended, faults, attempts, hurt>>

Stages == "stages.json"
Artifacts == Recorded \cup {Stages}
Names == Artifacts \cup {"manifest.json", "marker.tmp", "COMPLETE"}
Listed == {listed[i] : i \in DOMAIN listed}
Over == {"listed", "dropped", "failed"}
NoDoc == [status |-> "none", artifacts |-> {}]
Existing == {n \in Names : file[n] # "none"}
(* _relative_path refuses the names that the finalization uses.              *)
BundleAssumption ==
  /\ Recorded \cap {Stages, "manifest.json", "marker.tmp", "COMPLETE"} = {}
  /\ MaxBytes \in Nat /\ MaxFaults \in Nat /\ MaxAttempts \in Nat

TypeOK ==
  /\ place \in {"temp", "final"} /\ file \in [Names -> {"none", "part", "whole"}]
  /\ listed \in Seq(Artifacts) /\ Cardinality(Listed) = Len(listed)
  /\ exhausted \in BOOLEAN /\ partial \in BOOLEAN /\ hurt \in BOOLEAN
  /\ rec \in [Artifacts -> Over \cup {"todo", "admitted", "open", "written"}]
  /\ pub \in {"idle", "stages", "verify", "fit", "manifest", "replace", "marker", "rename",
              "published"}
  /\ status \in {"COMPLETE", "PARTIAL", "INCOMPLETE"}
  /\ doc \in [status : {"none", "COMPLETE", "PARTIAL", "INCOMPLETE"},
              artifacts : SUBSET Artifacts]
  /\ ended \in SUBSET Recorded
  /\ faults \in 0..MaxFaults /\ attempts \in 0..MaxAttempts

Init ==
  /\ place = "temp" /\ file = [n \in Names |-> "none"] /\ listed = <<>>
  /\ exhausted = FALSE /\ partial = FALSE /\ hurt = FALSE
  /\ rec = [a \in Artifacts |-> "todo"]
  /\ pub = "idle" /\ status = "COMPLETE" /\ doc = NoDoc /\ ended = {}
  /\ faults = 0 /\ attempts = 0

Fault == faults < MaxFaults /\ faults' = faults + 1 /\ hurt' = TRUE
NoFault == UNCHANGED <<faults, hurt>>
CanRecord(a) == IF a = Stages THEN pub = "stages" ELSE pub # "published"
Recording(a, s) == rec' = [rec EXCEPT ![a] = s]
RecordingFails(a) == Recording(a, "failed") /\ partial' = TRUE

(* add: an artifact that does not fit with its entry is dropped. *)
Admit(a) ==
  /\ rec[a] = "todo" /\ CanRecord(a)
  /\ IF 2 * (Len(listed) + 1) <= MaxBytes
       THEN Recording(a, "admitted") /\ UNCHANGED exhausted
       ELSE Recording(a, "dropped") /\ exhausted' = TRUE
  /\ UNCHANGED <<place, file, listed, partial, pub, status, doc, ended, attempts>> /\ NoFault

(* A recording that starts when the run is published is refused. *)
AdmitClosed(a) ==
  /\ rec[a] = "todo" /\ pub = "published" /\ a # Stages
  /\ RecordingFails(a)
  /\ UNCHANGED <<place, file, listed, exhausted, pub, status, doc, ended, attempts>> /\ NoFault

(* _write_new opens the file exclusively, by the name the directory had. *)
Create(a) ==
  /\ rec[a] = "admitted"
  /\ \/ /\ place = "temp" /\ file[a] = "none"
        /\ file' = [file EXCEPT ![a] = "part"] /\ Recording(a, "open")
        /\ UNCHANGED partial /\ NoFault
     \/ /\ place = "final" \/ file[a] # "none"
        /\ RecordingFails(a) /\ UNCHANGED file /\ NoFault
     \/ /\ Fault /\ RecordingFails(a) /\ UNCHANGED file
  /\ UNCHANGED <<place, listed, exhausted, pub, status, doc, ended, attempts>>

(* The bytes are written to the open file, wherever it is by now, and the   *)
(* mode is set by its old name.  A write that fails leaves the file behind. *)
Fill(a) ==
  /\ rec[a] = "open"
  /\ \/ /\ file' = [file EXCEPT ![a] = "whole"] /\ NoFault
        /\ IF place = "temp" THEN Recording(a, "written") /\ UNCHANGED partial
                             ELSE RecordingFails(a)
     \/ Fault /\ RecordingFails(a) /\ UNCHANGED file
  /\ UNCHANGED <<place, listed, exhausted, pub, status, doc, ended, attempts>>

(* Only a file that is whole is listed. *)
List(a) ==
  /\ rec[a] = "written" /\ Recording(a, "listed") /\ listed' = Append(listed, a)
  /\ UNCHANGED <<place, file, exhausted, partial, pub, status, doc, ended, attempts>> /\ NoFault

(* Something that was to be recorded could not be produced: mark_partial. *)
MarkPartial ==
  /\ ~partial /\ pub # "published" /\ partial' = TRUE
  /\ UNCHANGED <<place, file, listed, exhausted, rec, pub, status, doc, ended, attempts>> /\ NoFault

BeginUndegraded(wish) ==   (* Faulty: what went wrong so far is forgotten. *)
  /\ pub = "idle" /\ attempts < MaxAttempts /\ attempts' = attempts + 1
  /\ status' = wish /\ ended' = {a \in Recorded : rec[a] \in Over}
  /\ hurt' = FALSE /\ UNCHANGED faults
  /\ IF rec[Stages] \in {"listed", "dropped"}
       THEN pub' = "verify" /\ UNCHANGED rec
       ELSE pub' = "stages" /\ Recording(Stages, "todo")
  /\ UNCHANGED <<place, file, listed, exhausted, partial, doc>>
(* finalize begins: what went wrong so far makes the run partial. *)
Begin(wish) ==
  /\ pub = "idle" /\ attempts < MaxAttempts /\ attempts' = attempts + 1
  /\ status' = IF wish = "COMPLETE" /\ partial THEN "PARTIAL" ELSE wish
  /\ ended' = {a \in Recorded : rec[a] \in Over}
  /\ hurt' = FALSE /\ UNCHANGED faults
  /\ IF rec[Stages] \in {"listed", "dropped"}
       THEN pub' = "verify" /\ UNCHANGED rec
       ELSE pub' = "stages" /\ Recording(Stages, "todo")
  /\ UNCHANGED <<place, file, listed, exhausted, partial, doc>>

(* A finalization that raises leaves the session as it is, for another try. *)
GiveUp == pub' = "idle" /\ partial' = TRUE

StagesDone ==
  /\ pub = "stages" /\ rec[Stages] \in Over
  /\ IF rec[Stages] = "failed" THEN GiveUp ELSE pub' = "verify" /\ UNCHANGED partial
  /\ UNCHANGED <<place, file, listed, exhausted, rec, status, doc, ended, attempts>> /\ NoFault

(* complete and abort choose the status; _verify_staging compares the files *)
(* found with the artifacts listed.                                         *)
Verify ==
  /\ pub = "verify"
  /\ status' = IF status = "COMPLETE" /\ exhausted THEN "PARTIAL" ELSE status
  /\ IF place = "temp" /\ Existing = Listed THEN pub' = "fit" /\ UNCHANGED partial ELSE GiveUp
  /\ UNCHANGED <<place, file, listed, exhausted, rec, doc, ended, attempts>> /\ NoFault

(* _fit_final_manifest: the manifest as it is now may be longer than its    *)
(* estimate by `extra`, and artifacts are dropped from the end until it fits. *)
Size(extra) == 2 * Len(listed) + extra
Fit(extra) ==
  /\ pub = "fit" /\ Size(extra) <= MaxBytes
  /\ doc' = [status |-> status, artifacts |-> Listed] /\ pub' = "manifest"
  /\ UNCHANGED <<place, file, listed, exhausted, partial, rec, status, ended, attempts>> /\ NoFault
FitDrops(extra) ==
  /\ pub = "fit" /\ Size(extra) > MaxBytes /\ listed # <<>>
  /\ listed' = SubSeq(listed, 1, Len(listed) - 1)
  /\ \/ /\ file' = [file EXCEPT ![listed[Len(listed)]] = "none"]
        /\ exhausted' = TRUE
        /\ status' = IF status = "INCOMPLETE" THEN status ELSE "PARTIAL"
        /\ UNCHANGED <<pub, partial>> /\ NoFault
     \/ Fault /\ GiveUp /\ UNCHANGED <<file, exhausted, status>>
  /\ UNCHANGED <<place, rec, doc, ended, attempts>>

(* The writing of a file by the finalization itself. *)
WriteNew(name, next) ==
  /\ \/ /\ file[name] = "none" /\ file' = [file EXCEPT ![name] = "whole"]
        /\ pub' = next /\ UNCHANGED partial /\ NoFault
     \/ Fault /\ GiveUp /\ \E s \in {"none", "part"} : file' = [file EXCEPT ![name] = s]
WriteManifest ==
  /\ pub = "manifest" /\ WriteNew("manifest.json", "replace")
  /\ UNCHANGED <<place, listed, exhausted, rec, status, doc, ended, attempts>>

(* The directory gets its final name; an aborted run has no marker. *)
Replace ==
  /\ pub = "replace"
  /\ \/ /\ place' = "final" /\ UNCHANGED partial /\ NoFault
        /\ pub' = IF status = "INCOMPLETE" THEN "published" ELSE "marker"
     \/ Fault /\ GiveUp /\ UNCHANGED place
  /\ UNCHANGED <<file, listed, exhausted, rec, status, doc, ended, attempts>>
WriteMarker ==
  /\ pub = "marker" /\ WriteNew("marker.tmp", "rename")
  /\ UNCHANGED <<place, listed, exhausted, rec, status, doc, ended, attempts>>
RenameMarker ==
  /\ pub = "rename"
  /\ \/ /\ file' = [file EXCEPT !["marker.tmp"] = "none", !["COMPLETE"] = "whole"]
        /\ pub' = "published" /\ UNCHANGED partial /\ NoFault
     \/ Fault /\ GiveUp /\ UNCHANGED file
  /\ UNCHANGED <<place, listed, exhausted, rec, status, doc, ended, attempts>>

Next ==
  \/ \E a \in Artifacts : Admit(a) \/ AdmitClosed(a) \/ Create(a) \/ Fill(a) \/ List(a)
  \/ MarkPartial
  \/ \E wish \in {"COMPLETE", "INCOMPLETE"} : Begin(wish)
  \/ StagesDone \/ Verify
  \/ \E extra \in 0..1 : Fit(extra) \/ FitDrops(extra)
  \/ WriteManifest \/ Replace \/ WriteMarker \/ RenameMarker
Spec == Init /\ [][Next]_vars
-----------------------------------------------------------------------------
(* read_bundle: the directory, as it is, is one the reader accepts. *)
Accepted ==
  /\ place = "final" /\ file["manifest.json"] = "whole"
  /\ \A a \in doc.artifacts : file[a] = "whole"
  /\ Existing = doc.artifacts \cup {"manifest.json"}
                  \cup (IF doc.status = "INCOMPLETE" THEN {} ELSE {"COMPLETE"})

(* What read_bundle accepts as complete has every artifact whose recording  *)
(* was over when the run was finalized: none was dropped, refused or lost.  *)
CompleteLacksNothing ==
  Accepted /\ doc.status = "COMPLETE" => ended \subseteq doc.artifacts

(* The marker is only ever seen beside a manifest and the files it lists,   *)
(* all of them written to the end, wherever the process died.               *)
MarkerMeansWhole ==
  file["COMPLETE"] # "none" =>
    /\ place = "final" /\ file["manifest.json"] = "whole"
    /\ \A a \in doc.artifacts : file[a] = "whole"

(* A recording that failed makes the bundle partial (RFC-013, 3.4.3): a      *)
(* finalization that begins when nothing is being recorded, and in which no *)
(* file operation fails, leaves a bundle behind.                            *)
CleanAttemptPublishes == pub = "idle" /\ attempts > 0 /\ ended = Recorded => hurt
=============================================================================

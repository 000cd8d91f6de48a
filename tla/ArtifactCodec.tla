---------------------------- MODULE ArtifactCodec ----------------------------
(***************************************************************************)
(* The portable artifact: built by the driver, encoded into a header and   *)
(* seven sealed sections, carried to another process, and decoded there    *)
(* section by section (protocol/artifact.py, codec.py, manifest.py,        *)
(* sections.py).                                                           *)
(*                                                                         *)
(* A size is a number of cells: a header, a name and a small document take *)
(* one.  A quantity that has a limit is 1 when it fits the limits of the   *)
(* default manifest and 2 when only a wider manifest admits it.  A hash    *)
(* either matches or does not.  On its way a payload may be damaged, or    *)
(* written anew, with all its hashes right, by a program that disagrees.   *)
(***************************************************************************)
EXTENDS Integers, Sequences, FiniteSets, Functions

VARIABLES
    artifact,    \* the PortableUdfArtifact of the driver
    payload,     \* its encoding, as it arrives
    fault,       \* what happened to the payload on the way
    at,          \* where the codec is
    offset,      \* cells read by decode_artifact
    documents,   \* names of the documents decoded so far
    verdict

vars == <<artifact, payload, fault, at, offset, documents, verdict>>

REQUIRED_SECTIONS ==
    <<"manifest", "target", "physical_layout", "semantic_core_ir",
      "semantic_region_graph", "guard", "fallback">>

Sizes == {1, 2}
DefaultLimit == 1
MaxSections == 8                      \* 16 in the default manifest

(* What the driver may hand to build_artifact. *)
Artifacts ==
    [limit: Sizes,                    \* of its own manifest
     target: {"runtime", "other"},    \* the eight fields compatible_with compares
     nodes: Sizes, constants: Sizes,
     size: Sizes,                     \* of its largest section, and with it the total
     text: Sizes, depth: Sizes,       \* longest string, deepest nesting
     fallback: {"core", "other"},     \* whose code the fallback identity names
     layout: {"core", "other"}]       \* whose types the access specs describe

(* At most two of its quantities are unusual. *)
Plain == [limit |-> 1, target |-> "runtime", nodes |-> 1, constants |-> 1, size |-> 1,
          text |-> 1, depth |-> 1, fallback |-> "core", layout |-> "core"]
Candidates ==
    {a \in Artifacts : Cardinality({f \in DOMAIN Plain : a[f] # Plain[f]}) <= 2}

Damages == {"truncated", "extended", "magic", "version", "declared", "fewer", "more", "body"}
Rewrites == {"reordered", "repeated", "renamed", "dropped", "codec", "document_hash", "not_json",
             "duplicate_key", "manifest_fields", "target_other", "layout_form", "layout_unknown",
             "guard_stale", "fallback_other"}

Payload ==
    [magic: BOOLEAN, version: BOOLEAN, declared: Nat, length: Nat, count: Nat, sealed: BOOLEAN,
     sections: Seq([name: STRING, json: BOOLEAN, sealed: BOOLEAN, size: Sizes])]
NoPayload == [magic |-> FALSE, version |-> FALSE, declared |-> 0, length |-> 0, count |-> 0,
              sealed |-> FALSE, sections |-> <<>>]

RejectCodes ==
    {"total_size_limit", "length_mismatch", "hash_mismatch", "unsupported_version",
     "invalid_envelope", "section_limit", "section_size_limit", "missing_section",
     "duplicate_section", "unknown_section", "unsupported_codec", "duplicate_key", "depth_limit",
     "string_limit", "invalid_document", "manifest_incompatible", "node_limit",
     "constant_limit", "layout_unsupported"}

TypeOK ==
    /\ artifact \in Artifacts
    /\ payload \in Payload
    /\ fault \in {"none"} \cup Damages \cup Rewrites
    /\ at \in {"idle", "built", "encoded", "header", "sections", "documents", "end"}
    /\ offset \in Nat
    /\ documents = SubSeq(REQUIRED_SECTIONS, 1, Len(documents))
    /\ verdict \in {"none", "accepted", "rejected_by_builder"} \cup RejectCodes

Init ==
    /\ artifact = Plain /\ payload = NoPayload /\ fault = "none"
    /\ at = "idle" /\ offset = 0 /\ documents = <<>> /\ verdict = "none"

End(v) == at' = "end" /\ verdict' = v
Reject(v) == End(v) /\ UNCHANGED <<artifact, payload, fault, offset, documents>>

-----------------------------------------------------------------------------
(* The driver *)

(* verify_semantic_module under given limits: the first limit exceeded. *)
NodeVerdict(a, limit) ==
    IF a.nodes > limit THEN "node_limit"
    ELSE IF a.constants > limit THEN "constant_limit"
    ELSE "none"

(* build_artifact verifies the core under the artifact's own manifest, ties  *)
(* it to its fallback, and the access specs to its types.                    *)
Build(a) ==
    /\ at = "idle"
    /\ artifact' = a
    /\ IF \/ NodeVerdict(a, a.limit) # "none"
          \/ a.fallback # "core"
          \/ a.layout # "core"
       THEN End("rejected_by_builder")
       ELSE at' = "built" /\ UNCHANGED verdict
    /\ UNCHANGED <<payload, fault, offset, documents>>

Section(name, size) == [name |-> name, json |-> TRUE, sealed |-> TRUE, size |-> size]

Sections(a) ==
    [i \in 1..Len(REQUIRED_SECTIONS) |->
        Section(REQUIRED_SECTIONS[i],
                IF REQUIRED_SECTIONS[i] = "semantic_core_ir" THEN a.size ELSE 1)]

(* Cells before section i, where section n+1 starts after the last one. *)
Start(sections, i) ==
    1 + FoldFunction(LAMBDA s, n : n + 2 + s.size, 0, SubSeq(sections, 1, i - 1))

Sealed(sections) ==
    LET length == Start(sections, Len(sections) + 1)
    IN  [magic |-> TRUE, version |-> TRUE, declared |-> length, length |-> length,
         count |-> Len(sections), sealed |-> TRUE, sections |-> sections]

(* encode_artifact: the limits are those of the artifact's own manifest. *)
EncodeVerdict(a) ==
    IF a.target # "runtime" THEN "manifest_incompatible"
    ELSE IF NodeVerdict(a, a.limit) # "none" THEN NodeVerdict(a, a.limit)
    ELSE IF a.size > a.limit THEN "section_size_limit"
    ELSE "none"

Encode ==
    /\ at = "built"
    /\ IF EncodeVerdict(artifact) # "none"
       THEN Reject(EncodeVerdict(artifact))
       ELSE /\ payload' = Sealed(Sections(artifact))
            /\ at' = "encoded"
            /\ UNCHANGED <<artifact, fault, offset, documents, verdict>>

-----------------------------------------------------------------------------
(* The way *)

Damaged(p, f) ==
    CASE f = "truncated" -> [p EXCEPT !.length = @ - 1, !.sealed = FALSE]
      [] f = "extended"  -> [p EXCEPT !.length = @ + 1, !.sealed = FALSE]
      [] f = "magic"     -> [p EXCEPT !.magic = FALSE]
      [] f = "version"   -> [p EXCEPT !.version = FALSE]
      [] f = "declared"  -> [p EXCEPT !.declared = @ + 1]
      [] f = "fewer"     -> [p EXCEPT !.count = @ - 1]
      [] f = "more"      -> [p EXCEPT !.count = @ + 1]
      [] f = "body"      -> [p EXCEPT !.sealed = FALSE]

Rewritten(s, f) ==
    CASE f = "reordered"     -> Sealed([s EXCEPT ![2] = s[3], ![3] = s[2]])
      [] f = "repeated"      -> Sealed([s EXCEPT ![3] = s[2]])
      [] f = "renamed"       -> Sealed([s EXCEPT ![7].name = "other"])
      [] f = "dropped"       -> Sealed(SubSeq(s, 1, Len(s) - 1))
      [] f = "codec"         -> Sealed([s EXCEPT ![4].json = FALSE])
      [] f = "document_hash" -> Sealed([s EXCEPT ![5].sealed = FALSE])
      [] OTHER               -> Sealed(s)     \* one of the documents differs

Carry(f) ==
    /\ at = "encoded"
    /\ fault' = f
    /\ payload' = CASE f = "none"     -> payload
                    [] f \in Damages  -> Damaged(payload, f)
                    [] f \in Rewrites -> Rewritten(payload.sections, f)
    /\ at' = "header"
    /\ UNCHANGED <<artifact, offset, documents, verdict>>

-----------------------------------------------------------------------------
(* The worker: its limits are those of the runtime's manifest *)

MaxTotal == Start([i \in 1..7 |-> Section("", 1)], 8) + 1

HeaderVerdict(p) ==
    IF p.length > MaxTotal THEN "total_size_limit"
    ELSE IF ~p.magic THEN "invalid_envelope"
    ELSE IF ~p.version THEN "unsupported_version"
    ELSE IF p.declared # p.length THEN "length_mismatch"
    ELSE IF p.count > MaxSections THEN "section_limit"
    ELSE IF ~p.sealed THEN "hash_mismatch"
    ELSE "none"

ReadHeader ==
    /\ at = "header"
    /\ IF HeaderVerdict(payload) # "none"
       THEN Reject(HeaderVerdict(payload))
       ELSE /\ offset' = 1
            /\ at' = "sections"
            /\ UNCHANGED <<artifact, payload, fault, documents, verdict>>

(* _preflight_json and _decode_json on the documents that can break them. *)
JsonVerdict(name) ==
    IF name = "semantic_core_ir" /\ artifact.text > DefaultLimit THEN "string_limit"
    ELSE IF name = "semantic_core_ir" /\ artifact.depth > DefaultLimit THEN "depth_limit"
    ELSE IF name = "semantic_core_ir" /\ fault = "not_json" THEN "invalid_document"
    ELSE IF name = "guard" /\ fault = "duplicate_key" THEN "duplicate_key"
    ELSE "none"

(* One section whose end lies inside the payload. *)
SectionVerdict(s, index) ==
    IF s.size > DefaultLimit THEN "section_size_limit"
    ELSE IF offset + 2 + s.size > payload.length THEN "length_mismatch"
    ELSE IF ~s.sealed THEN "hash_mismatch"
    ELSE IF s.name \in Range(documents) THEN "duplicate_section"
    ELSE IF index > Len(REQUIRED_SECTIONS) \/ s.name # REQUIRED_SECTIONS[index]
         THEN "unknown_section"
    ELSE IF ~s.json THEN "unsupported_codec"
    ELSE JsonVerdict(s.name)

ReadSection ==
    LET index == Len(documents) + 1
    IN  /\ at = "sections"
        /\ index <= payload.count
        /\ IF payload.length - offset < 1
           THEN Reject("length_mismatch")
           ELSE LET s == CHOOSE s \in Range(payload.sections) :
                           \E i \in 1..Len(payload.sections) :
                             s = payload.sections[i] /\ Start(payload.sections, i) = offset
                IN  IF SectionVerdict(s, index) # "none"
                    THEN Reject(SectionVerdict(s, index))
                    ELSE /\ offset' = offset + 2 + s.size
                         /\ documents' = Append(documents, s.name)
                         /\ UNCHANGED <<artifact, payload, fault, at, verdict>>

EndOfSectionsMissing ==   (* Faulty: a section that never came is not missed. *)
    /\ at = "sections"
    /\ Len(documents) + 1 > payload.count
    /\ IF offset # payload.length THEN Reject("length_mismatch")
       ELSE at' = "documents"
            /\ UNCHANGED <<artifact, payload, fault, offset, documents, verdict>>
EndOfSections ==
    /\ at = "sections"
    /\ Len(documents) + 1 > payload.count
    /\ IF offset # payload.length THEN Reject("length_mismatch")
       ELSE IF documents # REQUIRED_SECTIONS THEN Reject("missing_section")
       ELSE at' = "documents"
            /\ UNCHANGED <<artifact, payload, fault, offset, documents, verdict>>

(* ArtifactManifest.from_section_documents and compatible_with; the limits   *)
(* of the two manifests are not compared.                                    *)
ManifestVerdict(f) ==
    IF f = "manifest_fields" THEN "invalid_document"
    ELSE IF f = "target_other" THEN "manifest_incompatible"
    ELSE "none"

LayoutVerdict(f) ==
    IF f = "layout_form" THEN "invalid_document"
    ELSE IF f = "layout_unknown" THEN "layout_unsupported"
    ELSE "none"

(* artifact_from_documents, with the guard computed anew from the parts. *)
DocumentsVerdict(a, f) ==
    IF ManifestVerdict(f) # "none" THEN ManifestVerdict(f)
    ELSE IF LayoutVerdict(f) # "none" THEN LayoutVerdict(f)
    ELSE IF a.nodes > DefaultLimit THEN "invalid_document"
    ELSE IF a.constants > DefaultLimit THEN "constant_limit"
    ELSE IF f = "guard_stale" THEN "invalid_document"
    ELSE IF f = "fallback_other" THEN "invalid_document"
    ELSE "none"

ReadDocuments ==
    /\ at = "documents"
    /\ Reject(IF DocumentsVerdict(artifact, fault) = "none" THEN "accepted"
              ELSE DocumentsVerdict(artifact, fault))

Next ==
    \/ \E a \in Candidates : Build(a)
    \/ Encode
    \/ \E f \in {"none"} \cup Damages \cup Rewrites : Carry(f)
    \/ ReadHeader
    \/ ReadSection
    \/ EndOfSections
    \/ ReadDocuments

Spec == Init /\ [][Next]_vars

-----------------------------------------------------------------------------
(* Properties *)

(* Everything in the artifact fits the worker's limits. *)
FitsRuntime(a) ==
    \A f \in {"nodes", "constants", "size", "text", "depth"} : a[f] <= DefaultLimit

(* What arrives as it was written is accepted, exactly when it fits the      *)
(* runtime's limits; nothing that was damaged or disagrees is accepted, and  *)
(* an accepted payload was read to its last cell.  A manifest with wider     *)
(* limits is compatible, so a worker may refuse what its driver encoded.     *)
DecodesWhatWasEncoded ==
    at = "end" /\ payload # NoPayload =>
        /\ verdict = "accepted" <=> fault = "none" /\ FitsRuntime(artifact)
        /\ verdict = "accepted" => /\ offset = payload.length
                                   /\ documents = REQUIRED_SECTIONS
=============================================================================

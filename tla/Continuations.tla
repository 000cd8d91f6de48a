---------------------------- MODULE Continuations ----------------------------
(***************************************************************************)
(* runtime/continuation.py: the contract of a region's continuation, the   *)
(* payload that compiled code leaves the region with, its decoding against *)
(* the contract, and the commit boundary that decides who may go on.       *)
(*                                                                         *)
(* Calls run one continuation, each with a boundary of its own.  A region  *)
(* ends with a value, with a payload that CinderX built from what the code *)
(* was compiled with, or with a SideExit object, which may be another      *)
(* call's.  A payload carries no names: values are told by their position. *)
(* Identities, source positions and versions are what a field of `entry`   *)
(* says: "own" is the contract's, "other" is anything else.                *)
(***************************************************************************)
EXTENDS Naturals, Sequences, FiniteSets

CONSTANTS
    ExitCalls,     \* calls of the continuation
    MaxOddities    \* payloads that differ from what the contract proves

VARIABLES
    contract,   \* the ContinuationContract
    exits,      \* call -> its step, boundary, what the region held, its exit
    oddities    \* how many payloads were odd

vars == <<contract, exits, oddities>>

Object == "python_object"
Integer == "int64"
Null == "null"
Held == {Null, "object 1", "object 2", "integer"}
Entry == {"abi", "resume_id", "source_identity", "source_map"}
Own == [f \in Entry |-> "own"]
NoExit == [boundary |-> "none", values |-> <<>>, exception |-> FALSE, kept |-> {}]
Fresh == [at |-> "idle", phase |-> "pre_commit", held |-> <<>>, raised |-> FALSE,
          done |-> {}, exit |-> NoExit, suffixes |-> 0, wholes |-> 0]

-----------------------------------------------------------------------------
(* LiveValueSpec and ContinuationContract.                                 *)
SpecOk(spec) == spec.borrowed => spec.kind = Object

Specs == {s \in [name : {"a"}, kind : {Object, Integer}, nullable : BOOLEAN, borrowed : BOOLEAN] :
            SpecOk(s)}

SecondSpecs ==
    {[name |-> n, kind |-> k, nullable |-> b, borrowed |-> b] :
        n \in {"a", "b"}, k \in {Object, Integer}, b \in BOOLEAN}

LiveNames(c) == {c.live[i].name : i \in DOMAIN c.live}

ContractOk(c) ==
    /\ c.entry = Own
    /\ \A i \in DOMAIN c.live : SpecOk(c.live[i])
    /\ Cardinality(LiveNames(c)) = Len(c.live)
    /\ \A group \in c.aliases :
        /\ Cardinality(group) > 1
        /\ group \subseteq LiveNames(c)
        /\ \A i \in DOMAIN c.live : c.live[i].name \in group => c.live[i].kind = Object

Contracts ==
    {c \in [entry : {Own, [Own EXCEPT !["source_identity"] = "other"]},
            live : {<<s, t>> : s \in Specs, t \in SecondSpecs},
            aliases : {{}, {{"a"}}, {{"a", "b"}}}, preserves : BOOLEAN, proven : BOOLEAN] :
        ContractOk(c)}

Init ==
    /\ contract \in Contracts
    /\ exits = [c \in ExitCalls |-> Fresh]
    /\ oddities = 0

-----------------------------------------------------------------------------
(* _verify_materialized_value.                                             *)
Verified(spec, value, done) ==
    /\ done
    /\ IF value = Null THEN spec.nullable
       ELSE spec.kind = Integer => value = "integer"

(* build_continuation_payload, with what the code was compiled for: its    *)
(* own contract, or one that differs from it in a field.                   *)
Compiled(c) ==
    {[entry |-> c.entry, live |-> c.live]}
    \cup {[entry |-> [c.entry EXCEPT ![f] = "other"], live |-> c.live] : f \in Entry}
    \cup {[entry |-> c.entry, live |-> [c.live EXCEPT ![i].kind = k]] :
            i \in DOMAIN c.live, k \in {Object, Integer}}
    \cup {[entry |-> c.entry, live |-> [c.live EXCEPT ![i].nullable = n]] :
            i \in DOMAIN c.live, n \in BOOLEAN}
    \cup {[entry |-> c.entry, live |-> SubSeq(c.live, 1, 1)]}

Buildable(code, held, done) ==
    /\ code.entry["abi"] = "own"
    /\ \A i \in DOMAIN code.live : Verified(code.live[i], held[i], i \in done)

Payload(code, held, done, raised) ==
    [entry |-> code.entry, exception |-> raised,
     live |-> [i \in DOMAIN code.live |->
                [kind |-> code.live[i].kind, nullable |-> code.live[i].nullable,
                 done |-> i \in done, value |-> held[i]]]]

(* side_exit_from_cinderx_payload and ContinuationState.capture.           *)
ValueOf(c, payload, name) ==
    payload.live[CHOOSE i \in DOMAIN c.live : c.live[i].name = name].value

Borrowed(c) == {i \in DOMAIN c.live : c.live[i].borrowed}

Decodes(c, payload, phase) ==
    /\ payload.entry = c.entry
    /\ phase \in {"committed", "suffix_claimed"}
    /\ Len(payload.live) = Len(c.live)
    /\ \A i \in DOMAIN c.live :
        /\ payload.live[i].kind = c.live[i].kind
        /\ payload.live[i].nullable = c.live[i].nullable
        /\ Verified(c.live[i], payload.live[i].value, payload.live[i].done)
    /\ \A group \in c.aliases : \A x, y \in group : ValueOf(c, payload, x) = ValueOf(c, payload, y)
    /\ payload.exception = c.preserves
    /\ \A i \in Borrowed(c) : payload.live[i].value # Null

Decoded(c, payload, call) ==
    [boundary |-> call, values |-> [i \in DOMAIN payload.live |-> payload.live[i].value],
     exception |-> payload.exception, kept |-> Borrowed(c)]

-----------------------------------------------------------------------------
(* CommitBoundary: what a claim leaves the phase at, or a refusal.         *)
Claim(phase, wanted) ==
    CASE wanted = "committed" -> IF phase = "pre_commit" THEN wanted ELSE "refused"
      [] wanted = "suffix_claimed" -> IF phase = "committed" THEN wanted ELSE "refused"
      [] wanted = "whole_function_claimed" -> IF phase = "pre_commit" THEN wanted ELSE "refused"

Stays == UNCHANGED <<contract, oddities>>

(* select_interpreter_path, then execute_guarded: what precedes the commit *)
(* may fail, and the caller then falls back to the whole function.         *)
Begin(c, fails) ==
    /\ exits[c].at = "idle"
    /\ exits' = [exits EXCEPT ![c].at =
            IF ~contract.proven \/ fails THEN "fallback" ELSE "enter"]
    /\ Stays

Commit(c) ==
    /\ exits[c].at = "enter"
    /\ LET claimed == Claim(exits[c].phase, "committed") IN
       exits' = [exits EXCEPT ![c] =
            IF claimed = "refused" THEN [@ EXCEPT !.at = "raised"]
            ELSE [@ EXCEPT !.at = "region", !.phase = claimed]]
    /\ Stays

(* The compiled region returns an output or raises.                        *)
Output(c, fails) ==
    /\ exits[c].at = "region"
    /\ exits' = [exits EXCEPT ![c].at = IF fails THEN "raised" ELSE "output"]
    /\ Stays

(* Deoptimisation: what the region held leaves it as a payload, which      *)
(* _execute_compiled_region decodes.                                       *)
OwnCode == [entry |-> contract.entry, live |-> contract.live]
RegularHeld ==
    {h \in Held \X Held : \A i \in DOMAIN h : Verified(contract.live[i], h[i], TRUE)}

Regular(code, held, done, raised) ==
    /\ code = OwnCode
    /\ held \in RegularHeld /\ done = {1, 2}
    /\ raised = contract.preserves

Deopt(c, code, held, done, raised) ==
    /\ exits[c].at = "region"
    /\ IF Regular(code, held, done, raised) THEN UNCHANGED oddities
       ELSE oddities < MaxOddities /\ oddities' = oddities + 1
    /\ LET payload == Payload(code, held, done, raised)
           accepted == /\ Buildable(code, held, done)
                       /\ Decodes(contract, payload, exits[c].phase) IN
       exits' = [exits EXCEPT ![c] =
            IF ~accepted THEN [@ EXCEPT !.at = "raised"]
            ELSE [@ EXCEPT !.at = "exit", !.held = held, !.raised = raised, !.done = done,
                           !.exit = Decoded(contract, payload, c)]]
    /\ UNCHANGED contract

(* The region hands out the SideExit of another call.                      *)
Stray(c, d) ==
    /\ exits[c].at = "region"
    /\ exits[d].exit # NoExit
    /\ exits' = [exits EXCEPT ![c] =
            IF exits[d].exit.boundary # c THEN [@ EXCEPT !.at = "raised"]
            ELSE [@ EXCEPT !.at = "exit", !.exit = exits[d].exit]]
    /\ Stays

(* InterpreterContinuation.resume; the exit can be resumed once more.      *)
Resume(c) ==
    /\ exits[c].exit # NoExit
    /\ LET b == exits[c].exit.boundary
           claimed == Claim(exits[b].phase, "suffix_claimed") IN
       /\ contract.proven /\ claimed # "refused"
       /\ exits' = [exits EXCEPT ![b].phase = claimed, ![c].suffixes = @ + 1, ![c].at = "suffix"]
    /\ Stays

(* WholeFunctionInterpreter.execute, also tried where it comes too late.   *)
WholeFunction(c) ==
    /\ exits[c].at \in {"fallback", "raised", "suffix"}
    /\ LET claimed == Claim(exits[c].phase, "whole_function_claimed") IN
       /\ claimed # "refused"
       /\ exits' = [exits EXCEPT ![c] = [@ EXCEPT !.phase = claimed, !.at = "whole",
                                             !.wholes = exits[c].wholes + 1]]
    /\ Stays

Next ==
    \E c \in ExitCalls :
        \/ \E fails \in BOOLEAN : Begin(c, fails) \/ Output(c, fails)
        \/ Commit(c)
        \/ \E held \in Held \X Held, done \in {{1, 2}, {1}}, raised \in BOOLEAN :
                Deopt(c, OwnCode, held, done, raised)
        \/ \E code \in Compiled(contract), held \in RegularHeld :
                Deopt(c, code, held, {1, 2}, contract.preserves)
        \/ \E d \in ExitCalls : Stray(c, d)
        \/ Resume(c) \/ WholeFunction(c)

-----------------------------------------------------------------------------
TypeOK ==
    /\ ContractOk(contract)
    /\ oddities \in 0..MaxOddities
    /\ \A c \in ExitCalls :
        /\ exits[c].phase \in {"pre_commit", "committed", "suffix_claimed", "whole_function_claimed"}
        /\ exits[c].exit # NoExit => exits[c].exit.boundary \in ExitCalls

(* A boundary lets one party go on: a call runs its suffix or the whole    *)
(* function, and only once, the suffix after a commit                      *)
(* (continuation.py:304-331).                                              *)
OneGoesOn ==
    \A c \in ExitCalls :
        /\ exits[c].suffixes + exits[c].wholes <= 1
        /\ exits[c].wholes > 0 => exits[c].phase = "whole_function_claimed"
        /\ exits[c].suffixes > 0 => exits[c].phase = "suffix_claimed" /\ contract.proven

(* The suffix sees what the region of its own call held: each live value   *)
(* of the contract in its place, materialised and of its type, aliases     *)
(* still the same object, borrowed objects kept alive, and the exception   *)
(* that was under way (continuation.py:348-393, 571-701).                  *)
SuffixSeesTheRegion ==
    \A c \in ExitCalls : exits[c].suffixes > 0 =>
        LET x == exits[c]
            At(name) == x.exit.values[CHOOSE i \in DOMAIN contract.live : contract.live[i].name = name] IN
        /\ x.exit.values = x.held /\ x.done = {1, 2}
        /\ \A i \in DOMAIN contract.live :
            /\ contract.live[i].kind = Integer => x.held[i] \in {"integer", Null}
            /\ x.held[i] = Null => contract.live[i].nullable
            /\ contract.live[i].borrowed => i \in x.exit.kept /\ x.held[i] # Null
        /\ \A group \in contract.aliases : Cardinality({At(name) : name \in group}) = 1
        /\ x.exit.exception = x.raised /\ x.raised = contract.preserves
=============================================================================

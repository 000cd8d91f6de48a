--------------------------- MODULE Worker_proofs ---------------------------
(* The parts of the worker process, proved for every number of threads, calls, *)
(* rows and events: each part's inductive invariant, and the properties of     *)
(* MCWorker that follow from them and from the theorems of the executor, the   *)
(* adapter and the physicalizer.                                               *)
EXTENDS MCWorker, FiniteSetTheorems, TLAPS

-----------------------------------------------------------------------------
(* Continuations.  A contract has two live values; whatever the region was *)
(* compiled for, its payload has one or two.                               *)
LEMMA ExitsCount == \A S : Exits!Cardinality(S) = Cardinality(S)
BY DEF Exits!Cardinality, Cardinality

LEMMA ContractShape ==
  ASSUME contract \in Exits!Contracts
  PROVE  /\ Exits!ContractOk(contract)
         /\ DOMAIN contract.live = 1..2 /\ Len(contract.live) = 2
         /\ contract.preserves \in BOOLEAN /\ contract.proven \in BOOLEAN
<1>1. /\ Exits!ContractOk(contract)
      /\ contract \in [entry : {Exits!Own, [Exits!Own EXCEPT !["source_identity"] = "other"]},
            live : {<<s, t>> : s \in Exits!Specs, t \in Exits!SecondSpecs},
            aliases : {{}, {{"a"}}, {{"a", "b"}}}, preserves : BOOLEAN, proven : BOOLEAN]
  BY DEF Exits!Contracts
<1>2. PICK s \in Exits!Specs, t \in Exits!SecondSpecs : contract.live = <<s, t>>
  BY <1>1
<1> QED
  BY <1>1, <1>2

LEMMA CodeShape ==
  ASSUME contract \in Exits!Contracts,
         NEW code \in Exits!Compiled(contract) \cup {Exits!OwnCode}
  PROVE  \E n \in {1, 2} : DOMAIN code.live = 1..n
<1>1. DOMAIN contract.live = 1..2
  BY ContractShape
<1>2. CASE code.live = contract.live
  BY <1>1, <1>2
<1>3. CASE \E i \in DOMAIN contract.live : \E k :
             \/ code.live = [contract.live EXCEPT ![i].kind = k]
             \/ code.live = [contract.live EXCEPT ![i].nullable = k]
  BY <1>1, <1>3
<1>4. CASE code.live = SubSeq(contract.live, 1, 1)
  <2>1. DOMAIN SubSeq(contract.live, 1, 1) = 1..1
    <3>1. PICK s, t : contract.live = <<s, t>>
      BY DEF Exits!Contracts
    <3> QED
      BY <3>1
  <2> QED
    BY <1>4, <2>1
<1>5. CASE code \in {[entry |-> contract.entry, live |-> [contract.live EXCEPT ![i].kind = k]] :
                      i \in DOMAIN contract.live, k \in {Exits!Object, Exits!Integer}}
  <2>1. PICK i \in DOMAIN contract.live, k \in {Exits!Object, Exits!Integer} :
          code = [entry |-> contract.entry, live |-> [contract.live EXCEPT ![i].kind = k]]
    BY <1>5
  <2>2. code.live = [contract.live EXCEPT ![i].kind = k]
    BY <2>1
  <2> QED
    BY <1>3, <2>2
<1>6. CASE code \in {[entry |-> contract.entry, live |-> [contract.live EXCEPT ![i].nullable = k]] :
                      i \in DOMAIN contract.live, k \in BOOLEAN}
  <2>1. PICK i \in DOMAIN contract.live, k \in BOOLEAN :
          code = [entry |-> contract.entry, live |-> [contract.live EXCEPT ![i].nullable = k]]
    BY <1>6
  <2>2. code.live = [contract.live EXCEPT ![i].nullable = k]
    BY <2>1
  <2> QED
    BY <1>3, <2>2
<1>7. CASE code \in {[entry |-> [contract.entry EXCEPT ![f] = "other"], live |-> contract.live] :
                      f \in Exits!Entry}
  BY <1>2, <1>7
<1>8. CASE code = [entry |-> contract.entry, live |-> contract.live]
  BY <1>2, <1>8
<1>9. CASE code = [entry |-> contract.entry, live |-> SubSeq(contract.live, 1, 1)]
  BY <1>4, <1>9
<1> QED
  BY <1>5, <1>6, <1>7, <1>8, <1>9 DEF Exits!Compiled, Exits!OwnCode

(* What the decoded exit of a call has to say about what its region held.  *)
Index(k, name) == CHOOSE i \in DOMAIN k.live : k.live[i].name = name

Faithful(k, x) ==
  /\ x.exit.values = x.held /\ x.done = {1, 2}
  /\ \A i \in DOMAIN k.live :
       /\ k.live[i].kind = Exits!Integer => x.held[i] \in {"integer", Exits!Null}
       /\ x.held[i] = Exits!Null => k.live[i].nullable
       /\ k.live[i].borrowed => i \in x.exit.kept /\ x.held[i] # Exits!Null
  /\ \A group \in k.aliases : \A p, q \in group :
       x.exit.values[Index(k, p)] = x.exit.values[Index(k, q)]
  /\ x.exit.exception = x.raised /\ x.raised = k.preserves

Exit == [boundary : ExitCalls \cup {"none"}, values : Seq(Exits!Held),
         exception : BOOLEAN, kept : SUBSET (1..2)]

-----------------------------------------------------------------------------
(* An exit belongs to the call whose region built it, and stays with it;   *)
(* the phase of a boundary says who went on.                               *)
ExitSteps ==
  {"idle", "fallback", "enter", "raised", "region", "output", "exit", "suffix", "whole"}
ExitPhases == {"pre_commit", "committed", "suffix_claimed", "whole_function_claimed"}

ExitRecord ==
  [at : ExitSteps, phase : ExitPhases, held : Seq(Exits!Held), raised : BOOLEAN, done : SUBSET (1..2), exit : Exit,
   suffixes : 0..1, wholes : 0..1]

ExitOk(k, c, x) ==
  /\ x.exit # Exits!NoExit => /\ x.exit.boundary = c
                              /\ x.phase \in {"committed", "suffix_claimed"}
                              /\ Faithful(k, x)
  /\ x.at \in {"idle", "enter", "region"} => x.exit = Exits!NoExit
  /\ x.at = "region" => x.phase = "committed"
  /\ x.phase \in {"pre_commit", "committed"} => x.suffixes = 0 /\ x.wholes = 0
  /\ x.phase = "suffix_claimed" => /\ x.suffixes = 1 /\ x.wholes = 0
                                   /\ x.exit # Exits!NoExit /\ k.proven
  /\ x.phase = "whole_function_claimed" => x.suffixes = 0 /\ x.wholes = 1

ExitsInv ==
  /\ contract \in Exits!Contracts
  /\ oddities \in 0..MaxOddities
  /\ exits \in [ExitCalls -> ExitRecord]
  /\ \A c \in ExitCalls : ExitOk(contract, c, exits[c])

LEMMA SuffixEdit ==
  ASSUME NEW x \in ExitRecord, NEW a \in ExitSteps, NEW p \in ExitPhases, NEW n \in 0..1
  PROVE  [x EXCEPT !.phase = p, !.suffixes = n, !.at = a] \in ExitRecord
BY DEF ExitRecord

LEMMA WholeEdit ==
  ASSUME NEW x \in ExitRecord, NEW a \in ExitSteps, NEW p \in ExitPhases, NEW n \in 0..1
  PROVE  [x EXCEPT !.phase = p, !.at = a, !.wholes = n] \in ExitRecord
BY DEF ExitRecord

LEMMA LeftEdit ==
  ASSUME NEW x \in ExitRecord, NEW a \in ExitSteps, NEW h \in Seq(Exits!Held),
         NEW r \in BOOLEAN, NEW d \in SUBSET (1..2), NEW e \in Exit
  PROVE  [x EXCEPT !.at = a, !.held = h, !.raised = r, !.done = d, !.exit = e] \in ExitRecord
BY DEF ExitRecord

LEMMA ExitsInit ==
  ASSUME MaxOddities \in Nat, Exits!Init
  PROVE  ExitsInv
<1>1. Exits!NoExit \in Exit
  BY DEF Exits!NoExit, Exit
<1>2. Exits!Fresh \in ExitRecord
  BY <1>1 DEF Exits!Fresh, ExitRecord, ExitSteps, ExitPhases
<1>3. \A c \in ExitCalls : ExitOk(contract, c, Exits!Fresh)
  BY DEF ExitOk, Exits!Fresh
<1> QED
  BY <1>2, <1>3 DEF Exits!Init, ExitsInv

(* A step of one call that leaves its exit record a good one.              *)
LEMMA ExitStep ==
  ASSUME ExitsInv, NEW c \in ExitCalls, NEW x \in ExitRecord,
         contract' = contract, oddities' \in 0..MaxOddities,
         exits' = [exits EXCEPT ![c] = x], ExitOk(contract, c, x)
  PROVE  ExitsInv'
<1>1. exits \in [ExitCalls -> ExitRecord] /\ \A d \in ExitCalls : ExitOk(contract, d, exits[d])
  BY DEF ExitsInv
<1>2. \A d \in ExitCalls : exits'[d] = IF d = c THEN x ELSE exits[d]
  BY <1>1
<1>3. exits' \in [ExitCalls -> ExitRecord]
  BY <1>1
<1>4. \A d \in ExitCalls : ExitOk(contract', d, exits'[d])
  BY <1>1, <1>2
<1> QED
  BY <1>3, <1>4 DEF ExitsInv

(* A payload that is built and decoded is faithful: whichever field of it  *)
(* could lie is compared with the contract.                                *)
LEMMA DeoptStep ==
  ASSUME MaxOddities \in Nat, ExitsInv, NEW c \in ExitCalls,
         NEW code \in Exits!Compiled(contract) \cup {Exits!OwnCode},
         NEW held \in Exits!Held \X Exits!Held, NEW done \in {{1, 2}, {1}},
         NEW raised \in BOOLEAN, Exits!Deopt(c, code, held, done, raised)
  PROVE  ExitsInv'
<1> DEFINE payload == Exits!Payload(code, held, done, raised)
           e == Exits!Decoded(contract, payload, c)
           refused == [exits[c] EXCEPT !.at = "raised"]
           left == [exits[c] EXCEPT !.at = "exit", !.held = held, !.raised = raised,
                                    !.done = done, !.exit = e]
<1>0. /\ exits \in [ExitCalls -> ExitRecord] /\ contract \in Exits!Contracts
      /\ oddities \in 0..MaxOddities /\ exits[c] \in ExitRecord /\ ExitOk(contract, c, exits[c])
  BY DEF ExitsInv
<1>1. /\ exits[c].at = "region" /\ contract' = contract /\ oddities' \in 0..MaxOddities
  BY <1>0 DEF Exits!Deopt
<1>2. \/ exits' = [exits EXCEPT ![c] = refused]
      \/ /\ Exits!Decodes(contract, payload, exits[c].phase)
         /\ exits' = [exits EXCEPT ![c] = left]
  BY DEF Exits!Deopt
<1>3. CASE exits' = [exits EXCEPT ![c] = refused]
  <2>1. /\ refused \in ExitRecord /\ refused.at = "raised" /\ refused.exit = exits[c].exit
        /\ refused.phase = exits[c].phase /\ refused.held = exits[c].held
        /\ refused.raised = exits[c].raised /\ refused.done = exits[c].done
        /\ refused.suffixes = exits[c].suffixes /\ refused.wholes = exits[c].wholes
    BY <1>0 DEF ExitRecord, ExitSteps, ExitPhases
  <2> HIDE DEF refused
  <2>2. ExitOk(contract, c, refused)
    BY <1>0, <2>1 DEF ExitOk, Faithful
  <2> QED
    BY <1>1, <1>3, <2>1, <2>2, ExitStep
<1>4. CASE /\ Exits!Decodes(contract, payload, exits[c].phase)
           /\ exits' = [exits EXCEPT ![c] = left]
  <2>1. /\ e.boundary = c /\ e \in Exit
        /\ \A x : (x.held = held /\ x.done = done /\ x.raised = raised /\ x.exit = e)
                    => Faithful(contract, x)
    <3>1. /\ Exits!ContractOk(contract) /\ DOMAIN contract.live = 1..2 /\ Len(contract.live) = 2
      BY <1>0, ContractShape
    <3>2. PICK n \in {1, 2} : DOMAIN code.live = 1..n
      BY <1>0, CodeShape
    <3>3. /\ payload.exception = raised
          /\ payload.live = [i \in 1..n |->
                    [kind |-> code.live[i].kind, nullable |-> code.live[i].nullable,
                     done |-> i \in done, value |-> held[i]]]
      BY <3>2 DEF Exits!Payload
    <3>4. Len(payload.live) = n /\ DOMAIN payload.live = 1..n
      <4> DEFINE S == {payload.live[j] : j \in 1..n}
      <4>1. payload.live \in Seq(S)
        <5>1. payload.live \in [1..n -> S] /\ n \in Nat
          BY <3>3
        <5> HIDE DEF payload, S
        <5> QED
          BY <5>1
      <4> QED
        BY <3>3, <4>1
    <3> HIDE DEF payload
    <3>5. /\ exits[c].phase \in {"committed", "suffix_claimed"}
          /\ Len(payload.live) = 2
          /\ \A i \in 1..2 : Exits!Verified(contract.live[i], payload.live[i].value,
                                            payload.live[i].done)
          /\ \A group \in contract.aliases : \A p, q \in group :
               Exits!ValueOf(contract, payload, p) = Exits!ValueOf(contract, payload, q)
          /\ payload.exception = contract.preserves
          /\ \A i \in Exits!Borrowed(contract) : payload.live[i].value # Exits!Null
      BY <1>4, <3>1 DEF Exits!Decodes, payload
    <3>6. n = 2 /\ \A i \in 1..2 : payload.live[i].value = held[i] /\ payload.live[i].done = (i \in done)
      BY <3>3, <3>4, <3>5
    <3>7. /\ e.boundary = c /\ e.values = [i \in 1..2 |-> held[i]] /\ e.exception = raised
          /\ e.kept = Exits!Borrowed(contract)
      BY <3>3, <3>4, <3>6 DEF Exits!Decoded
    <3>8. e.values = held
      BY <3>7
    <3>9. done = {1, 2}
      <4>1. 2 \in done
        <5>1. 2 \in 1..2
          OBVIOUS
        <5>2. payload.live[2].done
          BY <3>5, <5>1, Zenon DEF Exits!Verified
        <5>3. payload.live[2].done = (2 \in done)
          BY <3>6, <5>1, Zenon
        <5> QED
          BY <5>2, <5>3, Zenon
      <4> QED
        BY <4>1
    <3>10. \A i \in 1..2 :
             /\ contract.live[i].kind = Exits!Integer => held[i] \in {"integer", Exits!Null}
             /\ held[i] = Exits!Null => contract.live[i].nullable
             /\ contract.live[i].borrowed => i \in e.kept /\ held[i] # Exits!Null
      BY <3>1, <3>5, <3>6, <3>7 DEF Exits!Verified, Exits!Borrowed
    <3>11. \A group \in contract.aliases : \A p, q \in group : held[Index(contract, p)] = held[Index(contract, q)]
      <4> SUFFICES ASSUME NEW group \in contract.aliases, NEW p \in group, NEW q \in group
                   PROVE  held[Index(contract, p)] = held[Index(contract, q)]
        OBVIOUS
      <4>1. ASSUME NEW m \in group PROVE Exits!ValueOf(contract, payload, m) = held[Index(contract, m)]
        <5>1. m \in Exits!LiveNames(contract)
          BY <3>1 DEF Exits!ContractOk
        <5>2. Index(contract, m) \in 1..2
          BY <3>1, <5>1 DEF Exits!LiveNames, Index
        <5>3. Exits!ValueOf(contract, payload, m) = payload.live[Index(contract, m)].value
          BY DEF Exits!ValueOf, Index
        <5> QED
          BY <3>6, <5>2, <5>3
      <4> QED
        BY <3>5, <4>1
    <3> HIDE DEF e
    <3>12. ASSUME NEW x, x.held = held, x.done = done, x.raised = raised, x.exit = e
           PROVE  Faithful(contract, x)
      <4>1. x.exit.values = x.held /\ x.done = {1, 2}
        BY <3>8, <3>9, <3>12
      <4>2. \A i \in DOMAIN contract.live :
              /\ contract.live[i].kind = Exits!Integer => x.held[i] \in {"integer", Exits!Null}
              /\ x.held[i] = Exits!Null => contract.live[i].nullable
              /\ contract.live[i].borrowed => i \in x.exit.kept /\ x.held[i] # Exits!Null
        BY <3>1, <3>10, <3>12
      <4>3. \A group \in contract.aliases : \A p, q \in group :
              x.exit.values[Index(contract, p)] = x.exit.values[Index(contract, q)]
        BY <3>8, <3>11, <3>12
      <4>4. x.exit.exception = x.raised /\ x.raised = contract.preserves
        BY <3>3, <3>5, <3>7, <3>12
      <4> QED
        BY <4>1, <4>2, <4>3, <4>4 DEF Faithful
    <3>13. e \in Exit
      <4>1. e.values \in Seq(Exits!Held)
        <5>1. PICK a \in Exits!Held, b \in Exits!Held : held = <<a, b>>
          OBVIOUS
        <5>2. <<a, b>> \in Seq(Exits!Held)
          OBVIOUS
        <5> QED
          BY <3>8, <5>1, <5>2
      <4>2. e.kept \in SUBSET (1..2)
        BY <3>1, <3>7 DEF Exits!Borrowed
      <4>3. e = [boundary |-> e.boundary, values |-> e.values, exception |-> e.exception,
                 kept |-> e.kept]
        BY DEF e, Exits!Decoded
      <4> QED
        BY <3>7, <4>1, <4>2, <4>3 DEF Exit
    <3> QED
      BY <3>7, <3>12, <3>13 DEF e, payload
  <2>2. held \in Seq(Exits!Held) /\ done \in SUBSET (1..2)
    <3>1. PICK a \in Exits!Held, b \in Exits!Held : held = <<a, b>>
      OBVIOUS
    <3> QED
      BY <3>1
  <2> HIDE DEF e, payload
  <2>3. left.held = held /\ left.done = done /\ left.raised = raised /\ left.exit = e
        /\ left.at = "exit" /\ left.phase = exits[c].phase
        /\ left.suffixes = exits[c].suffixes /\ left.wholes = exits[c].wholes
    BY <1>0 DEF ExitRecord, ExitSteps, ExitPhases
  <2>4. Faithful(contract, left)
    BY <2>1, <2>3
  <2>5. left \in ExitRecord
    BY <1>0, <2>1, <2>2, LeftEdit DEF ExitSteps
  <2> HIDE DEF left
  <2>6. ExitOk(contract, c, left)
    BY <1>0, <1>1, <2>1, <2>3, <2>4 DEF ExitOk
  <2> QED
    BY <1>1, <1>4, <2>5, <2>6, ExitStep
<1> QED
  BY <1>2, <1>3, <1>4

LEMMA ExitsNext ==
  ASSUME MaxOddities \in Nat, ExitsInv, Exits!Next \/ UNCHANGED exitsVars
  PROVE  ExitsInv'
<1>1. /\ exits \in [ExitCalls -> ExitRecord] /\ contract \in Exits!Contracts
      /\ oddities \in 0..MaxOddities
      /\ \A c \in ExitCalls : ExitOk(contract, c, exits[c]) /\ exits[c] \in ExitRecord
  BY DEF ExitsInv
<1>2. ASSUME NEW c \in ExitCalls, NEW fails \in BOOLEAN,
             Exits!Begin(c, fails) \/ Exits!Output(c, fails)
      PROVE  ExitsInv'
  <2>1. PICK where \in {"fallback", "enter", "raised", "output"} :
          /\ exits' = [exits EXCEPT ![c].at = where]
          /\ where \in {"fallback", "enter"} => exits[c].at = "idle"
    BY <1>2 DEF Exits!Begin, Exits!Output
  <2> DEFINE x == [exits[c] EXCEPT !.at = where]
  <2>2. /\ x \in ExitRecord /\ x.at = where /\ x.exit = exits[c].exit
        /\ x.phase = exits[c].phase /\ x.held = exits[c].held /\ x.raised = exits[c].raised
        /\ x.done = exits[c].done /\ x.suffixes = exits[c].suffixes
        /\ x.wholes = exits[c].wholes
    BY <1>1 DEF ExitRecord, ExitSteps, ExitPhases
  <2>3. contract' = contract /\ oddities' = oddities /\ exits' = [exits EXCEPT ![c] = x]
    BY <1>1, <1>2, <2>1 DEF Exits!Begin, Exits!Output, Exits!Stays
  <2> HIDE DEF x
  <2>4. ExitOk(contract, c, x)
    BY <1>1, <2>1, <2>2 DEF ExitOk, Faithful
  <2> QED
    BY <1>1, <2>2, <2>3, <2>4, ExitStep
<1>3. ASSUME NEW c \in ExitCalls, Exits!Commit(c) PROVE ExitsInv'
  <2> DEFINE x == [exits[c] EXCEPT
                    !.at = IF exits[c].phase = "pre_commit" THEN "region" ELSE "raised",
                    !.phase = IF exits[c].phase = "pre_commit" THEN "committed" ELSE @]
  <2>1. /\ x \in ExitRecord /\ x.exit = exits[c].exit
        /\ x.at = IF exits[c].phase = "pre_commit" THEN "region" ELSE "raised"
        /\ x.phase = IF exits[c].phase = "pre_commit" THEN "committed" ELSE exits[c].phase
        /\ x.suffixes = exits[c].suffixes /\ x.wholes = exits[c].wholes
        /\ x.held = exits[c].held /\ x.raised = exits[c].raised
        /\ x.done = exits[c].done
    BY <1>1 DEF ExitRecord, ExitSteps, ExitPhases
  <2>2. contract' = contract /\ oddities' = oddities /\ exits' = [exits EXCEPT ![c] = x]
    BY <1>1, <1>3 DEF Exits!Commit, Exits!Claim, Exits!Stays
  <2>3. exits[c].at = "enter"
    BY <1>3 DEF Exits!Commit
  <2> HIDE DEF x
  <2>4. ExitOk(contract, c, x)
    BY <1>1, <2>1, <2>3 DEF ExitOk
  <2> QED
    BY <1>1, <2>1, <2>2, <2>4, ExitStep
<1>5. ASSUME NEW c \in ExitCalls, NEW d \in ExitCalls, Exits!Stray(c, d) PROVE ExitsInv'
  <2>1. /\ exits[c].at = "region" /\ exits[d].exit # Exits!NoExit
        /\ contract' = contract /\ oddities' = oddities
    BY <1>5 DEF Exits!Stray, Exits!Stays
  <2>2. exits[c].exit = Exits!NoExit /\ c # d /\ exits[d].exit.boundary = d
    BY <1>1, <2>1 DEF ExitOk
  <2> DEFINE x == [exits[c] EXCEPT !.at = "raised"]
  <2>3. exits' = [exits EXCEPT ![c] = x]
    BY <1>1, <1>5, <2>2 DEF Exits!Stray
  <2>4. /\ x \in ExitRecord /\ x.at = "raised" /\ x.exit = exits[c].exit
        /\ x.phase = exits[c].phase
        /\ x.suffixes = exits[c].suffixes /\ x.wholes = exits[c].wholes
    BY <1>1 DEF ExitRecord, ExitSteps, ExitPhases
  <2> HIDE DEF x
  <2>5. ExitOk(contract, c, x)
    BY <1>1, <2>2, <2>4 DEF ExitOk
  <2> QED
    BY <1>1, <2>1, <2>3, <2>4, <2>5, ExitStep
<1>6. ASSUME NEW c \in ExitCalls, Exits!Resume(c) PROVE ExitsInv'
  <2>1. /\ exits[c].exit # Exits!NoExit /\ exits[c].exit.boundary = c
        /\ Faithful(contract, exits[c])
    BY <1>1, <1>6 DEF Exits!Resume, ExitOk
  <2>2. /\ exits[c].phase = "committed" /\ contract.proven
        /\ contract' = contract /\ oddities' = oddities
        /\ exits' = [exits EXCEPT ![c].phase = "suffix_claimed", ![c].suffixes = @ + 1,
                                  ![c].at = "suffix"]
    BY <1>6, <2>1 DEF Exits!Resume, Exits!Claim, Exits!Stays
  <2> DEFINE x == [exits[c] EXCEPT !.phase = "suffix_claimed", !.suffixes = @ + 1,
                                   !.at = "suffix"]
  <2>3. exits[c].suffixes = 0 /\ exits[c].wholes = 0 /\ exits[c].suffixes + 1 = 1
    BY <1>1, <2>2 DEF ExitOk
  <2>4. /\ x.at = "suffix" /\ x.exit = exits[c].exit
        /\ x.phase = "suffix_claimed" /\ x.held = exits[c].held
        /\ x.raised = exits[c].raised /\ x.done = exits[c].done
        /\ x.suffixes = 1 /\ x.wholes = 0
    BY <1>1, <2>3 DEF ExitRecord, ExitSteps, ExitPhases
  <2>5. exits' = [exits EXCEPT ![c] = x]
    BY <1>1, <2>2
  <2>7. x \in ExitRecord
    <3>1. [exits[c] EXCEPT !.phase = "suffix_claimed", !.suffixes = 1, !.at = "suffix"] \in ExitRecord
      <4>1. "suffix_claimed" \in ExitPhases /\ "suffix" \in ExitSteps /\ 1 \in 0..1
        BY DEF ExitSteps, ExitPhases
      <4> QED
        BY <1>1, <4>1, SuffixEdit
    <3>2. exits[c].suffixes + 1 = 1
      BY <2>3
    <3> QED
      BY <3>1, <3>2, Zenon
  <2> HIDE DEF x
  <2>6. ExitOk(contract, c, x)
    BY <2>1, <2>2, <2>4 DEF ExitOk, Faithful
  <2> QED
    BY <1>1, <2>2, <2>5, <2>6, <2>7, ExitStep
<1>7. ASSUME NEW c \in ExitCalls, Exits!WholeFunction(c) PROVE ExitsInv'
  <2>0. /\ exits[c].phase = "pre_commit" /\ contract' = contract /\ oddities' = oddities
        /\ Exits!Claim(exits[c].phase, "whole_function_claimed") = "whole_function_claimed"
    BY <1>7 DEF Exits!WholeFunction, Exits!Claim, Exits!Stays
  <2>1. exits' = [exits EXCEPT ![c] =
                [exits[c] EXCEPT !.phase = "whole_function_claimed", !.at = "whole",
                                 !.wholes = exits[c].wholes + 1]]
    BY <1>7, <2>0 DEF Exits!WholeFunction
  <2> DEFINE x == [exits[c] EXCEPT !.phase = "whole_function_claimed", !.at = "whole",
                                   !.wholes = exits[c].wholes + 1]
  <2>2. /\ exits[c].suffixes = 0 /\ exits[c].wholes = 0 /\ exits[c].wholes + 1 = 1
        /\ exits[c].exit = Exits!NoExit
    BY <1>1, <2>0 DEF ExitOk
  <2>6. x \in ExitRecord
    <3>1. [exits[c] EXCEPT !.phase = "whole_function_claimed", !.at = "whole", !.wholes = 1] \in ExitRecord
      <4>1. "whole_function_claimed" \in ExitPhases /\ "whole" \in ExitSteps /\ 1 \in 0..1
        BY DEF ExitSteps, ExitPhases
      <4> QED
        BY <1>1, <4>1, WholeEdit
    <3>2. exits[c].wholes + 1 = 1
      BY <2>2
    <3> QED
      BY <3>1, <3>2, Zenon
  <2>3. /\ x.at = "whole" /\ x.exit = exits[c].exit
        /\ x.phase = "whole_function_claimed" /\ x.suffixes = 0 /\ x.wholes = 1
    BY <1>1, <2>2 DEF ExitRecord, ExitSteps, ExitPhases
  <2>4. exits' = [exits EXCEPT ![c] = x]
    BY <1>1, <2>1, Zenon
  <2> HIDE DEF x
  <2>5. ExitOk(contract, c, x)
    BY <2>2, <2>3 DEF ExitOk
  <2> QED
    BY <1>1, <2>0, <2>4, <2>5, <2>6, ExitStep
<1>8. CASE UNCHANGED exitsVars
  BY <1>8 DEF exitsVars, ExitsInv
<1>9. Exits!RegularHeld \subseteq Exits!Held \X Exits!Held /\ contract.preserves \in BOOLEAN
  BY <1>1, ContractShape DEF Exits!RegularHeld
<1>10. CASE Exits!Next
  <2>1. PICK c \in ExitCalls :
          \/ \E fails \in BOOLEAN : Exits!Begin(c, fails) \/ Exits!Output(c, fails)
          \/ Exits!Commit(c)
          \/ \E held \in Exits!Held \X Exits!Held, done \in {{1, 2}, {1}}, raised \in BOOLEAN :
                Exits!Deopt(c, Exits!OwnCode, held, done, raised)
          \/ \E code \in Exits!Compiled(contract), held \in Exits!RegularHeld :
                Exits!Deopt(c, code, held, {1, 2}, contract.preserves)
          \/ \E d \in ExitCalls : Exits!Stray(c, d)
          \/ Exits!Resume(c) \/ Exits!WholeFunction(c)
    BY <1>10 DEF Exits!Next
  <2>2. CASE \E held \in Exits!Held \X Exits!Held, done \in {{1, 2}, {1}}, raised \in BOOLEAN :
                Exits!Deopt(c, Exits!OwnCode, held, done, raised)
    BY DeoptStep, <2>2
  <2>3. CASE \E code \in Exits!Compiled(contract), held \in Exits!RegularHeld :
                Exits!Deopt(c, code, held, {1, 2}, contract.preserves)
    BY DeoptStep, <1>9, <2>3
  <2> QED
    BY <1>2, <1>3, <1>5, <1>6, <1>7, <2>1, <2>2, <2>3
<1> QED
  BY <1>8, <1>10

LEMMA ExitsSafe ==
  ASSUME ExitsInv
  PROVE  Exits!TypeOK /\ Exits!OneGoesOn /\ Exits!SuffixSeesTheRegion
<1>1. /\ exits \in [ExitCalls -> ExitRecord] /\ contract \in Exits!Contracts
      /\ oddities \in 0..MaxOddities
      /\ \A c \in ExitCalls : ExitOk(contract, c, exits[c]) /\ exits[c] \in ExitRecord
  BY DEF ExitsInv
<1>2. Exits!TypeOK
  BY <1>1, ContractShape DEF Exits!TypeOK, ExitOk, ExitRecord, ExitSteps, ExitPhases
<1>3. Exits!OneGoesOn
  BY <1>1 DEF Exits!OneGoesOn, ExitOk, ExitRecord, ExitSteps, ExitPhases
<1>4. Exits!SuffixSeesTheRegion
  <2> SUFFICES ASSUME NEW c \in ExitCalls, exits[c].suffixes > 0
               PROVE  LET x == exits[c]
                          At(name) == x.exit.values[Index(contract, name)]
                      IN  /\ x.exit.values = x.held /\ x.done = {1, 2}
                          /\ \A i \in DOMAIN contract.live :
                              /\ contract.live[i].kind = Exits!Integer
                                   => x.held[i] \in {"integer", Exits!Null}
                              /\ x.held[i] = Exits!Null => contract.live[i].nullable
                              /\ contract.live[i].borrowed => i \in x.exit.kept /\ x.held[i] # Exits!Null
                          /\ \A group \in contract.aliases :
                               Exits!Cardinality({At(name) : name \in group}) = 1
                          /\ x.exit.exception = x.raised /\ x.raised = contract.preserves
    BY DEF Exits!SuffixSeesTheRegion, Index
  <2>1. Faithful(contract, exits[c])
    BY <1>1 DEF ExitOk, ExitRecord, ExitSteps, ExitPhases
  <2>2. ASSUME NEW group \in contract.aliases
        PROVE  Cardinality({exits[c].exit.values[Index(contract, name)] : name \in group}) = 1
    <3>1. group # {}
      <4>1. Cardinality(group) > 1
        BY <1>1, ContractShape, ExitsCount DEF Exits!ContractOk
      <4>2. Cardinality({}) = 0
        BY FS_EmptySet
      <4> QED
        BY <4>1, <4>2
    <3>2. PICK name \in group : TRUE
      BY <3>1
    <3> DEFINE v == exits[c].exit.values[Index(contract, name)]
    <3>3. {exits[c].exit.values[Index(contract, p)] : p \in group} = {v}
      BY <2>1 DEF Faithful
    <3> HIDE DEF v
    <3> QED
      BY <3>3, FS_Singleton
  <2> QED
    BY <2>1, <2>2, ExitsCount DEF Faithful
<1> QED
  BY <1>2, <1>3, <1>4

-----------------------------------------------------------------------------
(* Telemetry.  The events that wait in the queue are counted by position.  *)
LEMMA WaitingAppend ==
  ASSUME NEW q \in Seq({"event", "end"}), NEW x \in {"event", "end"}
  PROVE  /\ Cardinality(Events!Waiting(q)) \in Nat
         /\ Cardinality(Events!Waiting(Append(q, x)))
              = Cardinality(Events!Waiting(q)) + (IF x = "event" THEN 1 ELSE 0)
<1> DEFINE n == Len(q) + 1
           a == Append(q, x)
<1>1. /\ a \in Seq({"event", "end"}) /\ DOMAIN a = 1..n /\ a[n] = x
      /\ \A i \in DOMAIN q : a[i] = q[i]
      /\ DOMAIN q = 1..Len(q) /\ Len(q) \in Nat
  OBVIOUS
<1> HIDE DEF a
<1>2. IsFiniteSet(Events!Waiting(q))
  <2>1. IsFiniteSet(1..Len(q))
    BY <1>1, FS_Interval
  <2> QED
    BY <1>1, <2>1, FS_Subset DEF Events!Waiting
<1>3. n \notin Events!Waiting(q)
  BY <1>1 DEF Events!Waiting
<1>4. CASE x = "event"
  <2>1. Events!Waiting(a) = Events!Waiting(q) \cup {n}
    BY <1>1, <1>4 DEF Events!Waiting
  <2> QED
    BY <1>2, <1>3, <1>4, <2>1, FS_AddElement, FS_CardinalityType DEF a
<1>5. CASE x # "event"
  <2>1. Events!Waiting(a) = Events!Waiting(q)
    BY <1>1, <1>5 DEF Events!Waiting
  <2> QED
    BY <1>2, <1>5, <2>1, FS_CardinalityType DEF a
<1> QED
  BY <1>4, <1>5

LEMMA WaitingTail ==
  ASSUME NEW q \in Seq({"event", "end"}), q # <<>>
  PROVE  Cardinality(Events!Waiting(q))
           = Cardinality(Events!Waiting(Tail(q))) + (IF Head(q) = "event" THEN 1 ELSE 0)
<1> DEFINE r == Tail(q)
           W == Events!Waiting(q)
           U == Events!Waiting(r)
           V == W \ {1}
           shift == [i \in U |-> i + 1]
<1>1. /\ r \in Seq({"event", "end"}) /\ Len(q) \in Nat \ {0} /\ Len(r) = Len(q) - 1
      /\ DOMAIN q = 1..Len(q) /\ DOMAIN r = 1..Len(r)
      /\ \A i \in DOMAIN r : r[i] = q[i + 1]
      /\ Head(q) = q[1]
  OBVIOUS
<1> HIDE DEF r
<1>2. IsFiniteSet(W) /\ IsFiniteSet(U)
  <2>1. IsFiniteSet(1..Len(q)) /\ IsFiniteSet(1..Len(r))
    BY <1>1, FS_Interval
  <2> QED
    BY <1>1, <2>1, FS_Subset DEF Events!Waiting
<1>3. Cardinality(V) = Cardinality(U)
  <2>1. shift \in [U -> V] /\ \A i \in U : i \in Nat
    BY <1>1 DEF Events!Waiting
  <2>2. ASSUME NEW v \in V PROVE \E i \in U : shift[i] = v
    <3>1. v \in 2..Len(q) /\ q[v] = "event"
      BY <1>1, <2>2 DEF Events!Waiting
    <3>2. v - 1 \in DOMAIN r /\ r[v - 1] = q[v]
      BY <1>1, <3>1
    <3>3. v - 1 \in U /\ shift[v - 1] = v
      BY <3>1, <3>2 DEF Events!Waiting
    <3> QED
      BY <3>3
  <2>3. shift \in Bijection(U, V)
    <3>1. \A i, j \in U : shift[i] = shift[j] => i = j
      BY <2>1
    <3> QED
      BY <2>1, <2>2, <3>1 DEF Bijection, Injection, Surjection, IsInjective
  <2>4. ExistsBijection(U, V)
    BY <2>3 DEF ExistsBijection
  <2> HIDE DEF U, V
  <2> QED
    BY <1>2, <2>4, FS_Bijection, FS_Subset DEF V
<1>4. Cardinality(W) \in Nat /\ Cardinality(U) \in Nat
  BY <1>2, FS_CardinalityType
<1>5. CASE Head(q) = "event"
  <2>1. 1 \in W
    BY <1>1, <1>5 DEF Events!Waiting
  <2>2. Cardinality(V) = Cardinality(W) - 1
    <3>1. IsFiniteSet(W)
      BY <1>2
    <3> HIDE DEF W
    <3> QED
      BY <2>1, <3>1, FS_RemoveElement
  <2> QED
    BY <1>3, <1>4, <1>5, <2>2 DEF r
<1>6. CASE Head(q) # "event"
  <2>1. V = W
    BY <1>1, <1>6 DEF Events!Waiting
  <2>2. Cardinality(W) = Cardinality(U)
    <3> HIDE DEF U, V, W
    <3> QED
      BY <1>3, <2>1
  <2> QED
    BY <1>4, <1>6, <2>2 DEF r
<1> QED
  BY <1>5, <1>6

(* What the queue holds: events, and behind them the sentinel of the one   *)
(* thread that closes, after which nothing is put any more.                *)
Closing(t) == tpc[t] \in {"sentinel", "joining", "done"}
Ended == \E i \in DOMAIN queue : queue[i] = "end"

QueueOrdered ==
  /\ queue \in Seq({"event", "end"})
  /\ \A i \in DOMAIN queue : queue[i] = "end" => i = Len(queue)
  /\ Ended \/ consumer \in {"leaving", "gone"} => eventClosed
  /\ consumer \in {"leaving", "gone"} => queue = <<>>
  /\ \A t \in Threads :
       /\ Closing(t) => eventClosed /\ \A u \in Threads : Closing(u) => u = t
       /\ tpc[t] = "sentinel" => ~Ended /\ consumer \in {"getting", "calling"}
       /\ tpc[t] = "done" => consumer = "gone"

Bounded ==
  /\ Len(queue) <= Capacity /\ emitted \in 0..MaxEvents
  /\ eventClosed \in BOOLEAN /\ eventLock \in Threads \cup {"nobody"}
  /\ consumer \in {"getting", "calling", "leaving", "gone"}
  /\ tpc \in [Threads -> {"idle", "counting", "flushing", "sentinel", "joining", "done"}]
  /\ accepted \in Nat /\ dropped \in Nat /\ eventDelivered \in Nat /\ failures \in Nat

(* The lock is held between a put and its count, by who does both, and not *)
(* any more once the queue is closed.                                      *)
EmitLocked ==
  /\ \A t \in Threads : tpc[t] = "counting" <=> eventLock = t
  /\ eventLock # "nobody" => ~eventClosed

Balanced ==
  LET held == IF eventLock = "nobody" THEN 0 ELSE 1
  IN /\ accepted + dropped + held = emitted
     /\ unfinished = Len(queue) + (IF consumer \in {"calling", "leaving"} THEN 1 ELSE 0)
     /\ accepted + held = eventDelivered + failures
            + (IF consumer = "calling" THEN 1 ELSE 0) + Cardinality(Events!Waiting(queue))

TelemetryInv == Bounded /\ QueueOrdered /\ EmitLocked /\ Balanced

LEMMA EventsInit ==
  ASSUME Events!TelemetryAssumption, Events!Init
  PROVE  TelemetryInv
<1>1. <<>> \in Seq({"event", "end"}) /\ DOMAIN <<>> = {} /\ Len(<<>>) = 0
  OBVIOUS
<1>2. Cardinality(Events!Waiting(<<>>)) = 0
  <2>1. Events!Waiting(<<>>) = {}
    BY <1>1 DEF Events!Waiting
  <2> QED
    BY <2>1, FS_EmptySet
<1>3. Bounded
  <2>1. tpc \in [Threads -> {"idle", "counting", "flushing", "sentinel", "joining", "done"}]
    BY DEF Events!Init
  <2>2. /\ Len(queue) = 0 /\ emitted = 0 /\ accepted = 0 /\ dropped = 0
        /\ eventDelivered = 0 /\ failures = 0 /\ eventClosed = FALSE
        /\ eventLock = "nobody" /\ consumer = "getting"
    BY <1>1 DEF Events!Init, Events!Nobody
  <2>3. 0 <= Capacity /\ 0 \in 0..MaxEvents
    BY DEF Events!TelemetryAssumption
  <2> QED
    BY <2>1, <2>2, <2>3 DEF Bounded
<1>4. QueueOrdered
  BY <1>1 DEF Events!Init, QueueOrdered, Ended, Closing
<1>5. EmitLocked
  BY DEF Events!TelemetryAssumption, Events!Init, EmitLocked, Events!Nobody
<1>6. Balanced
  BY <1>1, <1>2 DEF Events!Init, Balanced, Events!Nobody
<1> QED
  BY <1>3, <1>4, <1>5, <1>6 DEF TelemetryInv

(* The steps that change the queue, in terms of its three facts.           *)
LEMMA EventsPut ==
  ASSUME Events!TelemetryAssumption, TelemetryInv, NEW t \in Threads, Events!TryEmit(t)
  PROVE  TelemetryInv'
<1> USE DEF Events!Nobody, Events!To
<1>1. /\ tpc[t] = "idle" /\ eventLock = "nobody" /\ emitted' = emitted + 1
      /\ emitted < MaxEvents
      /\ accepted' = accepted /\ eventDelivered' = eventDelivered
      /\ failures' = failures /\ eventClosed' = eventClosed /\ consumer' = consumer
  BY DEF Events!TryEmit
<1>2. Bounded /\ QueueOrdered /\ EmitLocked /\ Balanced
  BY DEF TelemetryInv
<1>3. CASE eventClosed \/ Len(queue) = Capacity
  <2>1. /\ dropped' = dropped + 1 /\ queue' = queue /\ unfinished' = unfinished
        /\ eventLock' = eventLock /\ tpc' = tpc
    BY <1>3 DEF Events!TryEmit
  <2>2. Bounded'
    BY <1>1, <1>2, <2>1 DEF Bounded, Events!TelemetryAssumption
  <2>3. QueueOrdered'
    BY <1>1, <1>2, <2>1 DEF QueueOrdered, Closing, Ended
  <2>4. EmitLocked'
    BY <1>1, <1>2, <2>1 DEF EmitLocked
  <2>5. Balanced'
    BY <1>1, <1>2, <2>1 DEF Balanced, Bounded
  <2> QED
    BY <2>2, <2>3, <2>4, <2>5 DEF TelemetryInv
<1>4. CASE ~(eventClosed \/ Len(queue) = Capacity)
  <2>1. /\ dropped' = dropped /\ queue' = Append(queue, "event")
        /\ unfinished' = unfinished + 1 /\ eventLock' = t
        /\ tpc' = [tpc EXCEPT ![t] = "counting"]
    BY <1>4 DEF Events!TryEmit
  <2>2. /\ queue \in Seq({"event", "end"}) /\ queue' \in Seq({"event", "end"})
        /\ Len(queue') = Len(queue) + 1 /\ DOMAIN queue' = 1..(Len(queue) + 1)
        /\ DOMAIN queue = 1..Len(queue) /\ Len(queue) \in Nat
        /\ queue'[Len(queue) + 1] = "event" /\ \A i \in DOMAIN queue : queue'[i] = queue[i]
    BY <1>2, <2>1 DEF QueueOrdered
  <2>3. ~Ended /\ ~Ended' /\ consumer \in {"getting", "calling"}
    <3>1. ~Ended /\ consumer \notin {"leaving", "gone"}
      BY <1>2, <1>4 DEF QueueOrdered
    <3> QED
      BY <1>2, <2>2, <3>1 DEF Ended, Bounded
  <2>4. \A u \in Threads : ~Closing(u) /\ ~Closing(u)'
    <3>1. \A u \in Threads : ~Closing(u)
      BY <1>2, <1>4 DEF QueueOrdered
    <3> QED
      BY <1>2, <2>1, <3>1 DEF Closing, Bounded
  <2>5. Bounded'
    <3>1. Len(queue) + 1 <= Capacity
      <4>1. Len(queue) <= Capacity /\ Len(queue) # Capacity /\ Capacity \in Nat
        BY <1>2, <1>4 DEF Bounded, Events!TelemetryAssumption
      <4>2. Len(queue) \in Nat
        BY <2>2
      <4> QED
        BY <4>1, <4>2
    <3> QED
      BY <1>1, <1>2, <2>1, <2>2, <3>1 DEF Bounded, Events!TelemetryAssumption
  <2>6. QueueOrdered'
    BY <1>1, <2>2, <2>3, <2>4 DEF QueueOrdered, Ended, Closing
  <2>7. EmitLocked'
    BY <1>1, <1>2, <1>4, <2>1 DEF EmitLocked, Bounded, Events!TelemetryAssumption
  <2>8. Balanced'
    <3>1. t # "nobody"
      BY DEF Events!TelemetryAssumption
    <3>2. /\ Cardinality(Events!Waiting(queue')) = Cardinality(Events!Waiting(queue)) + 1
          /\ Cardinality(Events!Waiting(queue)) \in Nat
      BY <2>1, <2>2, WaitingAppend
    <3>3. /\ accepted + dropped = emitted
          /\ unfinished = Len(queue) + (IF consumer \in {"calling", "leaving"} THEN 1 ELSE 0)
          /\ accepted = eventDelivered + failures
                + (IF consumer = "calling" THEN 1 ELSE 0) + Cardinality(Events!Waiting(queue))
          /\ accepted \in Nat /\ dropped \in Nat /\ emitted \in Nat
          /\ eventDelivered \in Nat /\ failures \in Nat
      BY <1>1, <1>2, <3>2 DEF Balanced, Bounded
    <3>4. /\ accepted + dropped + 1 = emitted'
          /\ unfinished' = Len(queue') + (IF consumer \in {"calling", "leaving"} THEN 1 ELSE 0)
          /\ accepted + 1 = eventDelivered + failures
                + (IF consumer = "calling" THEN 1 ELSE 0) + Cardinality(Events!Waiting(queue'))
      <4> DEFINE n == Cardinality(Events!Waiting(queue))
                 m == Cardinality(Events!Waiting(queue'))
      <4>1. m = n + 1 /\ n \in Nat
        BY <3>2
      <4>2. Len(queue') = Len(queue) + 1 /\ Len(queue) \in Nat
        BY <2>2
      <4> HIDE DEF m, n
      <4>3. accepted + 1 = eventDelivered + failures + (IF consumer = "calling" THEN 1 ELSE 0) + m
        BY <3>3, <4>1 DEF n
      <4> QED
        BY <1>1, <2>1, <3>3, <4>2, <4>3 DEF m
    <3> QED
      BY <1>1, <2>1, <3>1, <3>4 DEF Balanced
  <2> QED
    BY <2>5, <2>6, <2>7, <2>8 DEF TelemetryInv
<1> QED
  BY <1>3, <1>4

LEMMA EventsGet ==
  ASSUME Events!TelemetryAssumption, TelemetryInv, Events!Get
  PROVE  TelemetryInv'
<1>1. /\ consumer = "getting" /\ queue # <<>> /\ queue' = Tail(queue)
      /\ consumer' = IF Head(queue) = "event" THEN "calling" ELSE "leaving"
      /\ unfinished' = unfinished /\ accepted' = accepted /\ dropped' = dropped
      /\ eventDelivered' = eventDelivered /\ failures' = failures
      /\ eventClosed' = eventClosed /\ eventLock' = eventLock /\ tpc' = tpc
      /\ emitted' = emitted
  BY DEF Events!Get, Events!counters
<1>2. Bounded /\ QueueOrdered /\ EmitLocked /\ Balanced
  BY DEF TelemetryInv
<1>3. /\ queue \in Seq({"event", "end"}) /\ queue' \in Seq({"event", "end"})
      /\ Len(queue) \in Nat \ {0} /\ Len(queue') = Len(queue) - 1
      /\ DOMAIN queue = 1..Len(queue) /\ DOMAIN queue' = 1..Len(queue')
      /\ \A i \in DOMAIN queue' : queue'[i] = queue[i + 1] /\ i + 1 \in DOMAIN queue
      /\ Head(queue) = queue[1] /\ 1 \in DOMAIN queue
  BY <1>1, <1>2 DEF QueueOrdered
<1>4. Bounded'
  BY <1>1, <1>2, <1>3 DEF Bounded, Events!TelemetryAssumption
<1>5. QueueOrdered'
  <2>1. \A i \in DOMAIN queue' : queue'[i] = "end" => i = Len(queue')
    BY <1>2, <1>3 DEF QueueOrdered
  <2>2. Ended' => Ended
    BY <1>3 DEF Ended
  <2>3. CASE Head(queue) = "event"
    BY <1>1, <1>2, <1>3, <2>1, <2>2, <2>3 DEF QueueOrdered, Closing
  <2>4. CASE Head(queue) # "event"
    <3>1. queue[1] = "end"
      BY <1>3, <2>4
    <3>2. Len(queue) = 1 /\ Ended
      BY <1>2, <1>3, <3>1 DEF QueueOrdered, Ended
    <3>3. queue' = <<>> /\ DOMAIN queue' = {}
      BY <1>3, <3>2
    <3> QED
      BY <1>1, <1>2, <1>3, <2>1, <2>2, <2>4, <3>2, <3>3 DEF QueueOrdered, Closing, Ended
  <2> QED
    BY <2>3, <2>4
<1>6. EmitLocked'
  BY <1>1, <1>2 DEF EmitLocked
<1>7. Balanced'
  <2>1. Cardinality(Events!Waiting(queue))
          = Cardinality(Events!Waiting(queue')) + (IF Head(queue) = "event" THEN 1 ELSE 0)
    BY <1>1, <1>3, WaitingTail
  <2>2. Cardinality(Events!Waiting(queue')) \in Nat
    BY <1>3, WaitingAppend
  <2>3. CASE Head(queue) = "event"
    BY <1>1, <1>2, <1>3, <2>1, <2>2, <2>3 DEF Balanced, Bounded
  <2>4. CASE Head(queue) # "event"
    BY <1>1, <1>2, <1>3, <2>1, <2>2, <2>4 DEF Balanced, Bounded
  <2> QED
    BY <2>3, <2>4
<1> QED
  BY <1>4, <1>5, <1>6, <1>7 DEF TelemetryInv

LEMMA EventsSentinel ==
  ASSUME Events!TelemetryAssumption, TelemetryInv, NEW t \in Threads, Events!Sentinel(t)
  PROVE  TelemetryInv'
<1>1. /\ tpc[t] = "sentinel" /\ Len(queue) < Capacity
      /\ queue' = Append(queue, "end") /\ unfinished' = unfinished + 1
      /\ tpc' = [tpc EXCEPT ![t] = "joining"]
      /\ accepted' = accepted /\ dropped' = dropped
      /\ eventDelivered' = eventDelivered /\ failures' = failures
      /\ eventClosed' = eventClosed /\ eventLock' = eventLock /\ consumer' = consumer
      /\ emitted' = emitted
  BY DEF Events!Sentinel, Events!counters, Events!To
<1>2. Bounded /\ QueueOrdered /\ EmitLocked /\ Balanced
  BY DEF TelemetryInv
<1>3. /\ queue \in Seq({"event", "end"}) /\ queue' \in Seq({"event", "end"})
      /\ Len(queue') = Len(queue) + 1 /\ DOMAIN queue' = 1..(Len(queue) + 1)
      /\ DOMAIN queue = 1..Len(queue) /\ Len(queue) \in Nat
      /\ queue'[Len(queue) + 1] = "end" /\ \A i \in DOMAIN queue : queue'[i] = queue[i]
  BY <1>1, <1>2 DEF QueueOrdered
<1>4. ~Ended /\ consumer \in {"getting", "calling"} /\ eventClosed /\ Closing(t)
  BY <1>1, <1>2 DEF QueueOrdered, Closing
<1>5. \A u \in Threads : u # t => ~Closing(u) /\ ~Closing(u)'
  <2>1. \A u \in Threads : u # t => ~Closing(u)
    BY <1>2, <1>4 DEF QueueOrdered
  <2> QED
    BY <1>1, <1>2, <2>1 DEF Closing, Bounded
<1>6. Bounded'
  BY <1>1, <1>2, <1>3 DEF Bounded, Events!TelemetryAssumption
<1>7. QueueOrdered'
  <2>1. \A i \in DOMAIN queue' : queue'[i] = "end" => i = Len(queue')
    BY <1>3, <1>4 DEF Ended
  <2>2. tpc'[t] = "joining"
    BY <1>1, <1>2 DEF Bounded
  <2> QED
    BY <1>1, <1>3, <1>4, <1>5, <2>1, <2>2 DEF QueueOrdered, Closing
<1>8. EmitLocked'
  BY <1>1, <1>2 DEF EmitLocked, Bounded
<1>9. Balanced'
  <2>1. /\ Cardinality(Events!Waiting(queue')) = Cardinality(Events!Waiting(queue))
        /\ Cardinality(Events!Waiting(queue)) \in Nat
    BY <1>1, <1>3, WaitingAppend
  <2>2. unfinished = Len(queue) + (IF consumer \in {"calling", "leaving"} THEN 1 ELSE 0)
    BY <1>2 DEF Balanced
  <2>3. unfinished' = Len(queue') + (IF consumer \in {"calling", "leaving"} THEN 1 ELSE 0)
    <3>1. Len(queue') = Len(queue) + 1 /\ Len(queue) \in Nat /\ unfinished' = unfinished + 1
      BY <1>1, <1>3
    <3> QED
      BY <2>2, <3>1
  <2> QED
    BY <1>1, <1>2, <2>1, <2>3 DEF Balanced
<1> QED
  BY <1>6, <1>7, <1>8, <1>9 DEF TelemetryInv

(* The steps that leave the queue as it is. *)
LEMMA EventsOther ==
  ASSUME Events!TelemetryAssumption, TelemetryInv, queue' = queue,
         \/ Events!Leave \/ \E b \in BOOLEAN : Events!Backend(b)
         \/ \E t \in Threads : \/ Events!Count(t) \/ Events!Flush(t) \/ Events!Flushed(t)
                               \/ Events!Close(t) \/ Events!Joined(t)
         \/ UNCHANGED eventsVars
  PROVE  TelemetryInv'
<1> USE DEF Events!To, Events!counters, Events!Nobody
<1>1. Bounded /\ QueueOrdered /\ EmitLocked /\ Balanced
  BY DEF TelemetryInv
<1>2. queue \in Seq({"event", "end"}) /\ Len(queue) \in Nat
  BY <1>1 DEF QueueOrdered
<1>3. Cardinality(Events!Waiting(queue)) \in Nat
  BY <1>2, WaitingAppend
<1>4. CASE Events!Leave
  <2>1. Bounded'
    BY <1>1, <1>4 DEF Events!Leave, Bounded
  <2>2. QueueOrdered'
    BY <1>1, <1>4 DEF Events!Leave, QueueOrdered, Closing, Ended
  <2>3. EmitLocked'
    BY <1>1, <1>4 DEF Events!Leave, EmitLocked
  <2>4. Balanced'
    BY <1>1, <1>2, <1>3, <1>4 DEF Events!Leave, Balanced, Bounded
  <2> QED
    BY <2>1, <2>2, <2>3, <2>4 DEF TelemetryInv
<1>5. ASSUME NEW b \in BOOLEAN, Events!Backend(b) PROVE TelemetryInv'
  <2>1. Bounded'
    BY <1>1, <1>5 DEF Events!Backend, Bounded
  <2>2. QueueOrdered'
    BY <1>1, <1>5 DEF Events!Backend, QueueOrdered, Closing, Ended
  <2>3. EmitLocked'
    BY <1>1, <1>5 DEF Events!Backend, EmitLocked
  <2>4. Balanced'
    BY <1>1, <1>2, <1>3, <1>5 DEF Events!Backend, Balanced, Bounded
  <2> QED
    BY <2>1, <2>2, <2>3, <2>4 DEF TelemetryInv
<1>6. ASSUME NEW t \in Threads, Events!Count(t) PROVE TelemetryInv'
  <2>1. Bounded'
    BY <1>1, <1>6 DEF Events!Count, Bounded
  <2>2. QueueOrdered'
    BY <1>1, <1>6 DEF Events!Count, QueueOrdered, Closing, Ended, Bounded
  <2>3. eventLock = t /\ t # "nobody"
    BY <1>1, <1>6 DEF Events!Count, EmitLocked, Events!TelemetryAssumption
  <2>4. EmitLocked'
    BY <1>1, <1>6, <2>3 DEF Events!Count, EmitLocked, Bounded, Events!TelemetryAssumption
  <2>5. Balanced'
    BY <1>1, <1>2, <1>3, <1>6, <2>3 DEF Events!Count, Balanced, Bounded
  <2> QED
    BY <2>1, <2>2, <2>4, <2>5 DEF TelemetryInv
<1>7. ASSUME NEW t \in Threads, Events!Flush(t) \/ Events!Flushed(t) PROVE TelemetryInv'
  <2>1. Bounded'
    BY <1>1, <1>7 DEF Events!Flush, Events!Flushed, Bounded
  <2>2. QueueOrdered'
    BY <1>1, <1>7 DEF Events!Flush, Events!Flushed, QueueOrdered, Closing, Ended, Bounded
  <2>3. EmitLocked'
    BY <1>1, <1>7 DEF Events!Flush, Events!Flushed, EmitLocked, Bounded
  <2>4. Balanced'
    BY <1>1, <1>7 DEF Events!Flush, Events!Flushed, Balanced
  <2> QED
    BY <2>1, <2>2, <2>3, <2>4 DEF TelemetryInv
<1>8. ASSUME NEW t \in Threads, Events!Close(t) PROVE TelemetryInv'
  <2>1. Bounded'
    BY <1>1, <1>8 DEF Events!Close, Bounded
  <2>2. EmitLocked'
    BY <1>1, <1>8 DEF Events!Close, EmitLocked, Bounded
  <2>3. Balanced'
    BY <1>1, <1>8 DEF Events!Close, Balanced
  <2>4. CASE eventClosed
    BY <1>1, <1>8, <2>1, <2>2, <2>3, <2>4
       DEF Events!Close, QueueOrdered, Closing, Ended, TelemetryInv
  <2>5. CASE ~eventClosed
    <3>1. \A u \in Threads : ~Closing(u)
      BY <1>1, <2>5 DEF QueueOrdered
    <3>2. ~Ended /\ consumer \in {"getting", "calling"}
      BY <1>1, <2>5 DEF QueueOrdered, Bounded
    <3>3. /\ eventClosed' /\ consumer' = consumer
          /\ tpc' = [tpc EXCEPT ![t] = "sentinel"]
      BY <1>8, <2>5 DEF Events!Close
    <3>4. ~Ended'
      BY <3>2 DEF Ended
    <3>5. \A u \in Threads : /\ Closing(u)' => u = t
                             /\ tpc'[u] # "done"
      BY <1>1, <3>1, <3>3 DEF Closing, Bounded
    <3>6. QueueOrdered'
      BY <1>1, <3>2, <3>3, <3>4, <3>5 DEF QueueOrdered
    <3> QED
      BY <2>1, <2>2, <2>3, <3>6 DEF TelemetryInv
  <2> QED
    BY <2>4, <2>5
<1>9. ASSUME NEW t \in Threads, Events!Joined(t) PROVE TelemetryInv'
  <2>1. Bounded'
    BY <1>1, <1>9 DEF Events!Joined, Bounded
  <2>2. QueueOrdered'
    BY <1>1, <1>9 DEF Events!Joined, QueueOrdered, Closing, Ended, Bounded
  <2>3. EmitLocked'
    BY <1>1, <1>9 DEF Events!Joined, EmitLocked, Bounded
  <2>4. Balanced'
    BY <1>1, <1>9 DEF Events!Joined, Balanced
  <2> QED
    BY <2>1, <2>2, <2>3, <2>4 DEF TelemetryInv
<1>10. CASE UNCHANGED eventsVars
  BY <1>1, <1>10 DEF eventsVars, TelemetryInv, Bounded, QueueOrdered, EmitLocked, Balanced,
                     Closing, Ended
<1> QED
  BY <1>4, <1>5, <1>6, <1>7, <1>8, <1>9, <1>10

LEMMA EventsNext ==
  ASSUME Events!TelemetryAssumption, TelemetryInv, Events!Next \/ UNCHANGED eventsVars
  PROVE  TelemetryInv'
<1>1. CASE \E t \in Threads : Events!TryEmit(t)
  BY <1>1, EventsPut
<1>2. CASE Events!Get
  BY <1>2, EventsGet
<1>3. CASE \E t \in Threads : Events!Sentinel(t)
  BY <1>3, EventsSentinel
<1>4. CASE \/ Events!Leave \/ \E b \in BOOLEAN : Events!Backend(b)
           \/ \E t \in Threads : \/ Events!Count(t) \/ Events!Flush(t) \/ Events!Flushed(t)
                                 \/ Events!Close(t) \/ Events!Joined(t)
           \/ UNCHANGED eventsVars
  <2>1. queue' = queue
    BY <1>4 DEF Events!Leave, Events!Backend, Events!Count, Events!Flush, Events!Flushed,
                Events!Close, Events!Joined, eventsVars
  <2> QED
    BY <1>4, <2>1, EventsOther
<1> QED
  BY <1>1, <1>2, <1>3, <1>4 DEF Events!Next

(* The module of the queue counts with its own instance of FiniteSets.     *)
LEMMA EventsCount == \A S : Events!Cardinality(S) = Cardinality(S)
BY DEF Events!Cardinality, Cardinality

LEMMA EventsAdd ==
  ASSUME Events!TelemetryAssumption, TelemetryInv
  PROVE  Events!TypeOK /\ Events!Accounted
<1>1. Bounded /\ QueueOrdered /\ EmitLocked /\ Balanced
  BY DEF TelemetryInv
<1>2. /\ queue \in Seq({"event", "end"}) /\ Len(queue) \in Nat
      /\ Cardinality(Events!Waiting(queue)) \in Nat
  <2>1. queue \in Seq({"event", "end"})
    BY <1>1 DEF QueueOrdered
  <2> QED
    BY <2>1, WaitingAppend
<1>3. Events!TypeOK
  BY <1>1, <1>2 DEF Events!TypeOK, Bounded, Balanced, Events!TelemetryAssumption, Events!Nobody
<1>4. Events!Accounted
  <2> SUFFICES ASSUME eventLock = "nobody" PROVE Events!Accounted
    BY DEF Events!Accounted, Events!Nobody
  <2>1. /\ accepted + dropped = emitted
        /\ accepted = eventDelivered + failures + Events!WithBackend
                        + Cardinality(Events!Waiting(queue))
    BY <1>1, <1>2 DEF Balanced, Bounded, Events!WithBackend
  <2>2. (\E t \in Threads : tpc[t] = "done") => accepted = eventDelivered + failures
    <3> SUFFICES ASSUME \E t \in Threads : tpc[t] = "done"
                 PROVE  accepted = eventDelivered + failures
      OBVIOUS
    <3>1. consumer = "gone" /\ queue = <<>>
      BY <1>1 DEF QueueOrdered
    <3>2. Events!Waiting(queue) = {}
      BY <3>1 DEF Events!Waiting
    <3>3. Cardinality(Events!Waiting(queue)) = 0
      BY <3>2, FS_EmptySet
    <3> QED
      BY <1>1, <2>1, <3>1, <3>3 DEF Bounded, Events!WithBackend
  <2> QED
    BY <2>1, <2>2, EventsCount DEF Events!Accounted
<1> QED
  BY <1>3, <1>4

-----------------------------------------------------------------------------
(* The typed loop.  A call that is not answered yet belongs to a thread of     *)
(* this process and to an adapter that this process built.                     *)
LoopSteps == {"idle", "building", "original", "waiting", "declined", "capturing",
              "compiling", "guarding", "running"}

LoopTypes ==
  /\ proc \in 1..2 /\ living \subseteq Threads /\ current \in Adapters \cup {0}
  /\ bypass \in BOOLEAN /\ loopCode \in 0..MaxVersion
  /\ owner \in [Adapters -> 0..2] /\ mode \in [Adapters -> Loop!Modes]
  /\ terminal \in [Adapters -> BOOLEAN] /\ compiled \in [Adapters -> 0..MaxVersion]
  /\ attempts \in [Adapters -> Nat] /\ hits \in [Adapters -> Nat] /\ fallbacks \in [Adapters -> Nat]
  /\ loopLock \in [Adapters -> Threads \cup {"nobody"}]
  /\ pc \in [Threads -> LoopSteps] /\ mine \in [Threads -> Adapters \cup {0}]
  /\ copy \in [Threads -> Loop!Modes] /\ seen \in [Threads -> SUBSET (0..MaxVersion)]
  /\ ran \in [Threads -> 0..(MaxVersion + 1)] /\ rows \in 0..MaxRows

(* An adapter is compiled once, by whoever holds its lock, and its lock is     *)
(* held by a thread of the process that built it, until that process forks.    *)
LoopAdapters ==
  /\ proc = 1 => living = Threads
  /\ current # 0 => owner[current] # 0
  /\ \A a \in Adapters :
       /\ owner[a] <= proc
       /\ owner[a] = 0 => /\ mode[a] = "none" /\ ~terminal[a] /\ loopLock[a] = "nobody"
       /\ attempts[a] <= 1
       /\ mode[a] = "none" /\ ~terminal[a] /\ loopLock[a] = "nobody" => attempts[a] = 0
       /\ owner[a] = proc /\ loopLock[a] # "nobody" =>
            /\ pc[loopLock[a]] \in {"capturing", "compiling"} /\ mine[loopLock[a]] = a

LoopCallers ==
  \A t \in Threads :
    /\ pc[t] # "idle" => t \in living /\ loopCode \in seen[t]
    /\ pc[t] \notin {"idle", "building", "original"} =>
         mine[t] \in Adapters /\ owner[mine[t]] = proc
    /\ pc[t] \in {"capturing", "compiling"} =>
         loopLock[mine[t]] = t /\ mode[mine[t]] = "none" /\ ~terminal[mine[t]]
    /\ pc[t] = "capturing" => attempts[mine[t]] = 0
    /\ pc[t] \in {"guarding", "running"} => mode[mine[t]] # "none"
    /\ pc[t] = "running" /\ copy[t] # "cache" => compiled[mine[t]] \in seen[t]
    /\ ran[t] = MaxVersion + 1 \/ ran[t] \in seen[t]

(* A row is counted once: as a hit or as a fallback of one adapter.            *)
Uncounted == {t \in Threads : pc[t] \notin {"idle", "original"}}
LoopCounts == \A a \in Adapters : hits[a] + fallbacks[a] + Cardinality(Uncounted) <= rows

LoopInv == LoopTypes /\ LoopAdapters /\ LoopCallers /\ LoopCounts

LEMMA LoopInit ==
  ASSUME Loop!LoopAssumption, Loop!Init
  PROVE  LoopInv
<1>0. MaxRows \in Nat /\ MaxVersion \in Nat /\ 0 \in 0..MaxVersion /\ 0 \in 0..MaxRows
      /\ MaxVersion + 1 \in 0..(MaxVersion + 1)
  BY DEF Loop!LoopAssumption
<1>1. LoopTypes
  <2>1. /\ owner \in [Adapters -> 0..2] /\ mode \in [Adapters -> Loop!Modes]
        /\ terminal \in [Adapters -> BOOLEAN] /\ compiled \in [Adapters -> 0..MaxVersion]
        /\ attempts \in [Adapters -> Nat] /\ hits \in [Adapters -> Nat]
        /\ fallbacks \in [Adapters -> Nat]
        /\ loopLock \in [Adapters -> Threads \cup {"nobody"}]
    BY <1>0 DEF Loop!Init, Loop!Modes, Loop!Nobody
  <2>2. /\ pc \in [Threads -> LoopSteps] /\ mine \in [Threads -> Adapters \cup {0}]
        /\ copy \in [Threads -> Loop!Modes] /\ seen \in [Threads -> SUBSET (0..MaxVersion)]
        /\ ran \in [Threads -> 0..(MaxVersion + 1)] /\ rows \in 0..MaxRows
    BY <1>0 DEF Loop!Init, Loop!Modes, LoopSteps, Loop!Unrun, Loop!NoAdapter
  <2>3. /\ proc \in 1..2 /\ living \subseteq Threads /\ current \in Adapters \cup {0}
        /\ bypass \in BOOLEAN /\ loopCode \in 0..MaxVersion
    <3>1. bypass = FALSE /\ living = Threads /\ proc = 1 /\ current = 0 /\ loopCode = 0
      BY DEF Loop!Init, Loop!NoAdapter
    <3>2. bypass \in BOOLEAN
      BY <3>1, Zenon
    <3> QED
      BY <1>0, <3>1, <3>2
  <2> QED
    BY <2>1, <2>2, <2>3 DEF LoopTypes
<1>2. LoopAdapters
  BY DEF Loop!LoopAssumption, Loop!Init, LoopAdapters, Loop!Nobody, Loop!NoAdapter
<1>3. LoopCallers
  BY DEF Loop!LoopAssumption, Loop!Init, LoopCallers, Loop!Unrun
<1>4. LoopCounts
  <2>1. Uncounted = {}
    BY DEF Uncounted, Loop!Init
  <2>2. Cardinality(Uncounted) = 0
    BY <2>1, FS_EmptySet
  <2> QED
    BY <2>2 DEF LoopCounts, Loop!Init
<1> QED
  BY <1>1, <1>2, <1>3, <1>4 DEF LoopInv

(* How many calls are uncounted, when one of them begins or ends.              *)
LEMMA UncountedMoves ==
  ASSUME Loop!LoopAssumption, LoopTypes, NEW t \in Threads, NEW where \in LoopSteps,
         pc' = [pc EXCEPT ![t] = where]
  PROVE  /\ Cardinality(Uncounted) \in Nat /\ Cardinality(Uncounted') \in Nat
         /\ pc[t] \notin {"idle", "original"} =>
              /\ Cardinality(Uncounted') <= Cardinality(Uncounted)
              /\ where \in {"idle", "original"} =>
                   Cardinality(Uncounted') = Cardinality(Uncounted) - 1
         /\ where \in {"idle", "original"} => Cardinality(Uncounted') <= Cardinality(Uncounted)
         /\ Cardinality(Uncounted') <= Cardinality(Uncounted) + 1
<1>0. IsFiniteSet(Threads) /\ pc \in [Threads -> LoopSteps]
  BY DEF Loop!LoopAssumption, Loop!IsFiniteSet, IsFiniteSet, LoopTypes
<1>1. IsFiniteSet(Uncounted) /\ IsFiniteSet(Uncounted')
  BY <1>0, FS_Subset DEF Uncounted
<1>2. Uncounted' = IF where \in {"idle", "original"} THEN Uncounted \ {t} ELSE Uncounted \cup {t}
  BY <1>0 DEF Uncounted
<1>3. t \in Uncounted <=> pc[t] \notin {"idle", "original"}
  BY DEF Uncounted
<1>4. /\ Cardinality(Uncounted) \in Nat /\ Cardinality(Uncounted') \in Nat
      /\ Cardinality(Uncounted \cup {t}) =
           IF t \in Uncounted THEN Cardinality(Uncounted) ELSE Cardinality(Uncounted) + 1
      /\ Cardinality(Uncounted \ {t}) =
           IF t \in Uncounted THEN Cardinality(Uncounted) - 1 ELSE Cardinality(Uncounted)
  BY <1>1, FS_CardinalityType, FS_AddElement, FS_RemoveElement
<1> QED
  BY <1>2, <1>3, <1>4

(* The books of the rows after a step of one call: what its adapter counts is *)
(* what the call no longer owes.                                              *)
LEMMA CountStep ==
  ASSUME Loop!LoopAssumption, LoopTypes, LoopCounts, NEW t \in Threads, NEW where \in LoopSteps,
         NEW h \in Adapters, pc' = [pc EXCEPT ![t] = where], rows' = rows,
         pc[t] \notin {"idle", "original"}, where \in {"idle", "original"},
         \/ hits' = [hits EXCEPT ![h] = @ + 1] /\ fallbacks' = fallbacks
         \/ fallbacks' = [fallbacks EXCEPT ![h] = @ + 1] /\ hits' = hits
  PROVE  LoopCounts'
<1> DEFINE C == Cardinality(Uncounted)
           D == Cardinality(Uncounted')
<1>1. C \in Nat /\ D \in Nat /\ D = C - 1
  BY UncountedMoves
<1>2. ASSUME NEW a \in Adapters PROVE hits'[a] + fallbacks'[a] + D <= rows'
  <2>1. /\ hits[a] \in Nat /\ fallbacks[a] \in Nat /\ rows \in Nat
        /\ hits[a] + fallbacks[a] + C <= rows
    BY DEF LoopTypes, LoopCounts
  <2>2. \/ /\ hits'[a] = IF a = h THEN hits[a] + 1 ELSE hits[a]
           /\ fallbacks'[a] = fallbacks[a]
        \/ /\ fallbacks'[a] = IF a = h THEN fallbacks[a] + 1 ELSE fallbacks[a]
           /\ hits'[a] = hits[a]
    BY DEF LoopTypes
  <2> HIDE DEF C, D
  <2> QED
    BY <1>1, <2>1, <2>2
<1> QED
  BY <1>2 DEF LoopCounts

LEMMA SameCounts ==
  ASSUME Loop!LoopAssumption, LoopTypes, LoopCounts, NEW t \in Threads, NEW where \in LoopSteps,
         pc' = [pc EXCEPT ![t] = where], hits' = hits, fallbacks' = fallbacks,
         \/ rows' = rows + 1
         \/ /\ rows' = rows
            /\ pc[t] \in {"idle", "original"} => where \in {"idle", "original"}
  PROVE  LoopCounts'
<1> DEFINE C == Cardinality(Uncounted)
           D == Cardinality(Uncounted')
<1>0. rows \in Nat
  BY DEF LoopTypes
<1>1. /\ C \in Nat /\ D \in Nat /\ D <= C + 1
      /\ (pc[t] \in {"idle", "original"} => where \in {"idle", "original"}) => D <= C
  BY UncountedMoves
<1>2. ASSUME NEW a \in Adapters PROVE hits'[a] + fallbacks'[a] + D <= rows'
  <2>1. /\ hits[a] \in Nat /\ fallbacks[a] \in Nat /\ rows \in Nat
        /\ hits[a] + fallbacks[a] + C <= rows
    BY DEF LoopTypes, LoopCounts
  <2> HIDE DEF C, D
  <2> QED
    BY <1>0, <1>1, <2>1
<1> QED
  BY <1>2 DEF LoopCounts

LEMMA LoopRow ==
  ASSUME Loop!LoopAssumption, LoopInv, NEW t \in Threads, Loop!Row(t)
  PROVE  LoopInv'
<1>0. /\ LoopTypes /\ LoopAdapters /\ LoopCallers /\ LoopCounts
      /\ MaxRows \in Nat /\ MaxVersion \in Nat /\ "nobody" \notin Threads
  BY DEF LoopInv, Loop!LoopAssumption
<1> USE DEF Loop!Row, Loop!To, Loop!wrapperVars, Loop!adapterVars, Loop!Nobody, Loop!NoAdapter, Loop!Unrun, Loop!OwnAdapter
<1>1. LoopTypes'
  BY <1>0 DEF LoopTypes, LoopSteps, Loop!Modes
<1>2. LoopAdapters'
  BY <1>0 DEF LoopTypes, LoopAdapters, LoopCallers
<1>3. LoopCallers'
  BY <1>0, <1>1 DEF LoopTypes, LoopAdapters, LoopCallers
<1>4. LoopCounts'
  <2>1. PICK where \in LoopSteps : pc' = [pc EXCEPT ![t] = where] /\ rows' = rows + 1
    BY DEF LoopSteps
  <2> QED
    BY <1>0, <2>1, SameCounts
<1> QED
  BY <1>1, <1>2, <1>3, <1>4 DEF LoopInv

LEMMA LoopBuild ==
  ASSUME Loop!LoopAssumption, LoopInv, NEW t \in Threads, NEW ok \in BOOLEAN, Loop!Build(t, ok)
  PROVE  LoopInv'
<1>0. /\ LoopTypes /\ LoopAdapters /\ LoopCallers /\ LoopCounts
      /\ MaxRows \in Nat /\ MaxVersion \in Nat /\ "nobody" \notin Threads
  BY DEF LoopInv, Loop!LoopAssumption
<1> USE DEF Loop!Build, Loop!To, Loop!wrapperVars, Loop!adapterVars, Loop!Nobody, Loop!NoAdapter, Loop!Unrun
<1>5. ASSUME ~ok PROVE LoopTypes' /\ LoopAdapters'
  <2>1. LoopTypes'
    BY <1>0, <1>5 DEF LoopTypes, LoopSteps
  <2>2. LoopAdapters'
    BY <1>0, <1>5 DEF LoopTypes, LoopAdapters, LoopCallers
  <2> QED
    BY <2>1, <2>2
<1>6. ASSUME ok PROVE LoopTypes' /\ LoopAdapters'
  <2>1. PICK a \in Adapters :
          /\ owner[a] = 0 /\ owner' = [owner EXCEPT ![a] = proc] /\ current' = a
          /\ mine' = [mine EXCEPT ![t] = a] /\ pc' = [pc EXCEPT ![t] = "waiting"]
    BY <1>6
  <2>2. LoopTypes'
    BY <1>0, <2>1 DEF LoopTypes, LoopSteps
  <2>3. LoopAdapters'
    <3>1. ASSUME NEW b \in Adapters
          PROVE  /\ owner'[b] <= proc'
                 /\ owner'[b] = 0 => /\ mode'[b] = "none" /\ ~terminal'[b]
                                     /\ loopLock'[b] = "nobody"
                 /\ attempts'[b] <= 1
                 /\ mode'[b] = "none" /\ ~terminal'[b] /\ loopLock'[b] = "nobody"
                      => attempts'[b] = 0
                 /\ owner'[b] = proc' /\ loopLock'[b] # "nobody" =>
                      pc'[loopLock'[b]] \in {"capturing", "compiling"} /\ mine'[loopLock'[b]] = b
      BY <1>0, <2>1 DEF LoopTypes, LoopAdapters, LoopCallers
    <3> QED
      BY <1>0, <2>1, <3>1 DEF LoopTypes, LoopAdapters
  <2> QED
    BY <2>2, <2>3
<1>1. LoopTypes'
  BY <1>5, <1>6
<1>2. LoopAdapters'
  BY <1>5, <1>6
<1>3. LoopCallers'
  BY <1>0, <1>1 DEF LoopTypes, LoopAdapters, LoopCallers
<1>4. LoopCounts'
  <2>1. PICK where \in LoopSteps : pc' = [pc EXCEPT ![t] = where] /\ pc[t] = "building"
    BY DEF LoopSteps
  <2> QED
    BY <1>0, <2>1, SameCounts
<1> QED
  BY <1>1, <1>2, <1>3, <1>4 DEF LoopInv

LEMMA LoopMisshapen ==
  ASSUME Loop!LoopAssumption, LoopInv, NEW t \in Threads, Loop!Misshapen(t)
  PROVE  LoopInv'
<1>0. /\ LoopTypes /\ LoopAdapters /\ LoopCallers /\ LoopCounts
      /\ MaxRows \in Nat /\ MaxVersion \in Nat /\ "nobody" \notin Threads
  BY DEF LoopInv, Loop!LoopAssumption
<1> USE DEF Loop!Misshapen, Loop!To, Loop!wrapperVars, Loop!adapterVars, Loop!Nobody, Loop!NoAdapter, Loop!Unrun
<1>1. LoopTypes'
  BY <1>0 DEF LoopTypes, LoopSteps, Loop!Modes
<1>2. LoopAdapters'
  BY <1>0 DEF LoopTypes, LoopAdapters, LoopCallers
<1>3. LoopCallers'
  BY <1>0, <1>1 DEF LoopTypes, LoopAdapters, LoopCallers
<1>4. LoopCounts'
  <2>1. PICK where \in LoopSteps : pc' = [pc EXCEPT ![t] = where] /\ pc[t] = "waiting"
    BY DEF LoopSteps
  <2> QED
    BY <1>0, <2>1, SameCounts
<1> QED
  BY <1>1, <1>2, <1>3, <1>4 DEF LoopInv

LEMMA LoopEnter ==
  ASSUME Loop!LoopAssumption, LoopInv, NEW t \in Threads, Loop!Enter(t)
  PROVE  LoopInv'
<1>0. /\ LoopTypes /\ LoopAdapters /\ LoopCallers /\ LoopCounts
      /\ MaxRows \in Nat /\ MaxVersion \in Nat /\ "nobody" \notin Threads
  BY DEF LoopInv, Loop!LoopAssumption
<1> USE DEF Loop!Enter, Loop!To, Loop!wrapperVars, Loop!adapterVars, Loop!Nobody, Loop!NoAdapter, Loop!Unrun, Loop!Idle
<1>5. mine[t] \in Adapters
  BY <1>0 DEF LoopCallers
<1>1. LoopTypes'
  BY <1>0, <1>5, SMTT(60) DEF LoopTypes, LoopSteps, Loop!Modes
<1>2. LoopAdapters'
  BY <1>0 DEF LoopTypes, LoopAdapters, LoopCallers
<1>3. LoopCallers'
  BY <1>0, <1>1 DEF LoopTypes, LoopAdapters, LoopCallers
<1>4. LoopCounts'
  <2>1. PICK where \in LoopSteps : pc' = [pc EXCEPT ![t] = where] /\ pc[t] = "waiting"
      /\ rows' = rows /\ hits' = hits
      /\ \/ fallbacks' = fallbacks
         \/ where = "original" /\ fallbacks' = [fallbacks EXCEPT ![mine[t]] = @ + 1]
    BY DEF LoopSteps
  <2>2. CASE fallbacks' = fallbacks
    BY <1>0, <2>1, <2>2, SameCounts
  <2>3. CASE where = "original" /\ fallbacks' = [fallbacks EXCEPT ![mine[t]] = @ + 1]
    BY <1>0, <1>5, <2>1, <2>3, CountStep
  <2> QED
    BY <2>1, <2>2, <2>3
<1> QED
  BY <1>1, <1>2, <1>3, <1>4 DEF LoopInv

LEMMA LoopCapture ==
  ASSUME Loop!LoopAssumption, LoopInv, NEW t \in Threads, Loop!Capture(t)
  PROVE  LoopInv'
<1>0. /\ LoopTypes /\ LoopAdapters /\ LoopCallers /\ LoopCounts
      /\ MaxRows \in Nat /\ MaxVersion \in Nat /\ "nobody" \notin Threads
  BY DEF LoopInv, Loop!LoopAssumption
<1> USE DEF Loop!Capture, Loop!To, Loop!wrapperVars, Loop!adapterVars, Loop!Nobody, Loop!NoAdapter, Loop!Unrun
<1>5. mine[t] \in Adapters
  BY <1>0 DEF LoopCallers
<1>1. LoopTypes'
  BY <1>0, <1>5 DEF LoopTypes, LoopSteps, Loop!Modes
<1>2. LoopAdapters'
  BY <1>0 DEF LoopTypes, LoopAdapters, LoopCallers
<1>3. LoopCallers'
  BY <1>0, <1>1 DEF LoopTypes, LoopAdapters, LoopCallers
<1>4. LoopCounts'
  <2>1. PICK where \in LoopSteps : pc' = [pc EXCEPT ![t] = where] /\ pc[t] = "capturing"
    BY DEF LoopSteps
  <2> QED
    BY <1>0, <2>1, SameCounts
<1> QED
  BY <1>1, <1>2, <1>3, <1>4 DEF LoopInv

LEMMA LoopCompile ==
  ASSUME Loop!LoopAssumption, LoopInv, NEW t \in Threads, NEW m \in Loop!Modes, Loop!Compile(t, m)
  PROVE  LoopInv'
<1>0. /\ LoopTypes /\ LoopAdapters /\ LoopCallers /\ LoopCounts
      /\ MaxRows \in Nat /\ MaxVersion \in Nat /\ "nobody" \notin Threads
  BY DEF LoopInv, Loop!LoopAssumption
<1> USE DEF Loop!Compile, Loop!To, Loop!wrapperVars, Loop!adapterVars, Loop!Nobody, Loop!NoAdapter, Loop!Unrun
<1>5. mine[t] \in Adapters
  BY <1>0 DEF LoopCallers
<1>1. LoopTypes'
  BY <1>0, <1>5 DEF LoopTypes, LoopSteps, Loop!Modes
<1>2. LoopAdapters'
  <2>1. ASSUME NEW b \in Adapters
        PROVE  /\ owner'[b] <= proc'
               /\ owner'[b] = 0 => /\ mode'[b] = "none" /\ ~terminal'[b]
                                   /\ loopLock'[b] = "nobody"
               /\ attempts'[b] <= 1
               /\ mode'[b] = "none" /\ ~terminal'[b] /\ loopLock'[b] = "nobody"
                    => attempts'[b] = 0
               /\ owner'[b] = proc' /\ loopLock'[b] # "nobody" =>
                    pc'[loopLock'[b]] \in {"capturing", "compiling"} /\ mine'[loopLock'[b]] = b
    <3>1. CASE b = mine[t]
      <4>1. /\ owner[b] = proc /\ owner'[b] = proc /\ proc' = proc /\ proc # 0
            /\ attempts'[b] = attempts[b] /\ attempts[b] <= 1 /\ loopLock'[b] = "nobody"
        BY <1>0, <3>1 DEF LoopTypes, LoopAdapters, LoopCallers
      <4>2. ~(mode'[b] = "none" /\ ~terminal'[b])
        BY <1>0, <3>1 DEF LoopTypes
      <4>3. proc \in 1..2
        BY <1>0 DEF LoopTypes
      <4> QED
        BY <4>1, <4>2, <4>3
    <3>2. CASE b # mine[t]
      BY <1>0, <3>2 DEF LoopTypes, LoopAdapters, LoopCallers
    <3> QED
      BY <3>1, <3>2
  <2> QED
    BY <1>0, <2>1 DEF LoopTypes, LoopAdapters
<1>3. LoopCallers'
  BY <1>0, <1>1 DEF LoopTypes, LoopAdapters, LoopCallers
<1>4. LoopCounts'
  <2>1. PICK where \in LoopSteps : pc' = [pc EXCEPT ![t] = where] /\ pc[t] = "compiling"
    BY DEF LoopSteps
  <2> QED
    BY <1>0, <2>1, SameCounts
<1> QED
  BY <1>1, <1>2, <1>3, <1>4 DEF LoopInv

LEMMA LoopGuard ==
  ASSUME Loop!LoopAssumption, LoopInv, NEW t \in Threads, NEW fits \in BOOLEAN, Loop!Guard(t, fits)
  PROVE  LoopInv'
<1>0. /\ LoopTypes /\ LoopAdapters /\ LoopCallers /\ LoopCounts
      /\ MaxRows \in Nat /\ MaxVersion \in Nat /\ "nobody" \notin Threads
  BY DEF LoopInv, Loop!LoopAssumption
<1> USE DEF Loop!Guard, Loop!To, Loop!wrapperVars, Loop!adapterVars, Loop!Nobody, Loop!NoAdapter, Loop!Unrun
<1>1. LoopTypes'
  BY <1>0 DEF LoopTypes, LoopSteps, Loop!Modes
<1>2. LoopAdapters'
  BY <1>0 DEF LoopTypes, LoopAdapters, LoopCallers
<1>3. LoopCallers'
  BY <1>0, <1>1 DEF LoopTypes, LoopAdapters, LoopCallers
<1>4. LoopCounts'
  <2>1. PICK where \in LoopSteps : pc' = [pc EXCEPT ![t] = where] /\ pc[t] = "guarding"
    BY DEF LoopSteps
  <2> QED
    BY <1>0, <2>1, SameCounts
<1> QED
  BY <1>1, <1>2, <1>3, <1>4 DEF LoopInv

LEMMA LoopRun ==
  ASSUME Loop!LoopAssumption, LoopInv, NEW t \in Threads, NEW raises \in BOOLEAN, Loop!Run(t, raises)
  PROVE  LoopInv'
<1>0. /\ LoopTypes /\ LoopAdapters /\ LoopCallers /\ LoopCounts
      /\ MaxRows \in Nat /\ MaxVersion \in Nat /\ "nobody" \notin Threads
  BY DEF LoopInv, Loop!LoopAssumption
<1> USE DEF Loop!Run, Loop!To, Loop!wrapperVars, Loop!adapterVars, Loop!Nobody, Loop!NoAdapter, Loop!Unrun
<1>5. mine[t] \in Adapters
  BY <1>0 DEF LoopCallers
<1>1. LoopTypes'
  BY <1>0, <1>5 DEF LoopTypes, LoopSteps, Loop!Modes
<1>2. LoopAdapters'
  BY <1>0 DEF LoopTypes, LoopAdapters, LoopCallers
<1>3. LoopCallers'
  BY <1>0, <1>1 DEF LoopTypes, LoopAdapters, LoopCallers
<1>4. LoopCounts'
  <2>1. /\ pc' = [pc EXCEPT ![t] = "idle"] /\ pc[t] = "running" /\ rows' = rows
        /\ fallbacks' = fallbacks /\ "idle" \in LoopSteps
    BY DEF LoopSteps
  <2>2. CASE raises
    BY <1>0, <2>1, <2>2, SameCounts
  <2>3. CASE ~raises
    <3>1. hits' = [hits EXCEPT ![mine[t]] = @ + 1]
      BY <2>3
    <3> QED
      BY <1>0, <1>5, <2>1, <3>1, CountStep
  <2> QED
    BY <2>2, <2>3
<1> QED
  BY <1>1, <1>2, <1>3, <1>4 DEF LoopInv

LEMMA LoopDecline ==
  ASSUME Loop!LoopAssumption, LoopInv, NEW t \in Threads, Loop!Decline(t)
  PROVE  LoopInv'
<1>0. /\ LoopTypes /\ LoopAdapters /\ LoopCallers /\ LoopCounts
      /\ MaxRows \in Nat /\ MaxVersion \in Nat /\ "nobody" \notin Threads
  BY DEF LoopInv, Loop!LoopAssumption
<1> USE DEF Loop!Decline, Loop!To, Loop!wrapperVars, Loop!adapterVars, Loop!Nobody, Loop!NoAdapter, Loop!Unrun
<1>5. mine[t] \in Adapters
  BY <1>0 DEF LoopCallers
<1>1. LoopTypes'
  BY <1>0, <1>5 DEF LoopTypes, LoopSteps, Loop!Modes
<1>2. LoopAdapters'
  BY <1>0 DEF LoopTypes, LoopAdapters, LoopCallers
<1>3. LoopCallers'
  BY <1>0, <1>1 DEF LoopTypes, LoopAdapters, LoopCallers
<1>4. LoopCounts'
  <2>1. /\ pc' = [pc EXCEPT ![t] = "original"] /\ pc[t] = "declined" /\ rows' = rows
        /\ fallbacks' = [fallbacks EXCEPT ![mine[t]] = @ + 1] /\ "original" \in LoopSteps
        /\ hits' = hits
    BY DEF LoopSteps
  <2> QED
    BY <1>0, <1>5, <2>1, CountStep
<1> QED
  BY <1>1, <1>2, <1>3, <1>4 DEF LoopInv

LEMMA LoopOriginal ==
  ASSUME Loop!LoopAssumption, LoopInv, NEW t \in Threads, Loop!Original(t)
  PROVE  LoopInv'
<1>0. /\ LoopTypes /\ LoopAdapters /\ LoopCallers /\ LoopCounts
      /\ MaxRows \in Nat /\ MaxVersion \in Nat /\ "nobody" \notin Threads
  BY DEF LoopInv, Loop!LoopAssumption
<1> USE DEF Loop!Original, Loop!To, Loop!wrapperVars, Loop!adapterVars, Loop!Nobody, Loop!NoAdapter, Loop!Unrun
<1>1. LoopTypes'
  BY <1>0 DEF LoopTypes, LoopSteps, Loop!Modes
<1>2. LoopAdapters'
  BY <1>0 DEF LoopTypes, LoopAdapters, LoopCallers
<1>3. LoopCallers'
  BY <1>0, <1>1 DEF LoopTypes, LoopAdapters, LoopCallers
<1>4. LoopCounts'
  <2>1. PICK where \in LoopSteps : pc' = [pc EXCEPT ![t] = where] /\ pc[t] = "original" /\ where = "idle"
    BY DEF LoopSteps
  <2> QED
    BY <1>0, <2>1, SameCounts
<1> QED
  BY <1>1, <1>2, <1>3, <1>4 DEF LoopInv

LEMMA LoopReplace ==
  ASSUME Loop!LoopAssumption, LoopInv, Loop!Replace
  PROVE  LoopInv'
<1>0. /\ LoopTypes /\ LoopAdapters /\ LoopCallers /\ LoopCounts
      /\ MaxRows \in Nat /\ MaxVersion \in Nat /\ "nobody" \notin Threads
  BY DEF LoopInv, Loop!LoopAssumption
<1> USE DEF Loop!Replace, Loop!To, Loop!wrapperVars, Loop!adapterVars, Loop!Nobody, Loop!NoAdapter, Loop!Unrun
<1>1. LoopTypes'
  BY <1>0 DEF LoopTypes, LoopSteps, Loop!Modes
<1>2. LoopAdapters'
  BY <1>0 DEF LoopTypes, LoopAdapters, LoopCallers
<1>3. LoopCallers'
  BY <1>0, <1>1 DEF LoopTypes, LoopAdapters, LoopCallers
<1>4. LoopCounts'
  <2>1. Uncounted' = Uncounted
    BY DEF Uncounted
  <2> QED
    BY <1>0, <2>1 DEF LoopCounts
<1> QED
  BY <1>1, <1>2, <1>3, <1>4 DEF LoopInv

LEMMA LoopFork ==
  ASSUME Loop!LoopAssumption, LoopInv, NEW t \in Threads, Loop!Fork(t)
  PROVE  LoopInv'
<1>0. /\ LoopTypes /\ LoopAdapters /\ LoopCallers /\ LoopCounts
      /\ MaxRows \in Nat /\ MaxVersion \in Nat /\ "nobody" \notin Threads
  BY DEF LoopInv, Loop!LoopAssumption
<1> USE DEF Loop!Fork, Loop!To, Loop!wrapperVars, Loop!adapterVars, Loop!Nobody, Loop!NoAdapter, Loop!Unrun
<1>1. LoopTypes'
  BY <1>0 DEF LoopTypes, LoopSteps, Loop!Modes
<1>2. LoopAdapters'
  BY <1>0 DEF LoopTypes, LoopAdapters, LoopCallers
<1>3. LoopCallers'
  BY <1>0, <1>1 DEF LoopTypes, LoopAdapters, LoopCallers
<1>4. LoopCounts'
  <2>1. Uncounted' = {}
    BY DEF Uncounted
  <2>2. Cardinality(Uncounted') = 0 /\ Cardinality(Uncounted) \in Nat
    <3>1. IsFiniteSet(Threads)
      BY DEF Loop!LoopAssumption, Loop!IsFiniteSet, IsFiniteSet
    <3>2. IsFiniteSet(Uncounted)
      BY <3>1, FS_Subset DEF Uncounted
    <3> QED
      BY <2>1, <3>2, FS_EmptySet, FS_CardinalityType
  <2>3. \A a \in Adapters : hits[a] + fallbacks[a] <= rows
    BY <1>0, <2>2 DEF LoopTypes, LoopCounts
  <2> QED
    BY <1>0, <2>2, <2>3 DEF LoopTypes, LoopCounts
<1> QED
  BY <1>1, <1>2, <1>3, <1>4 DEF LoopInv

LEMMA LoopNext ==
  ASSUME Loop!LoopAssumption, LoopInv, Loop!Next \/ UNCHANGED loopVars
  PROVE  LoopInv'
<1>1. CASE UNCHANGED loopVars
  BY <1>1 DEF loopVars, LoopInv, LoopTypes, LoopAdapters, LoopCallers, LoopCounts, Uncounted
<1>2. CASE Loop!Next
  BY <1>2, LoopReplace, LoopRow, LoopMisshapen, LoopEnter, LoopCapture, LoopDecline,
     LoopOriginal, LoopFork, LoopBuild, LoopGuard, LoopRun, LoopCompile DEF Loop!Next
<1> QED
  BY <1>1, <1>2

LEMMA LoopSafe ==
  ASSUME Loop!LoopAssumption, LoopInv
  PROVE  Loop!TypeOK /\ Loop!RowRunsCurrentCode /\ Loop!LockHolderLives
<1>0. /\ LoopTypes /\ LoopAdapters /\ LoopCallers /\ LoopCounts
      /\ MaxRows \in Nat /\ MaxVersion \in Nat /\ "nobody" \notin Threads
  BY DEF LoopInv, Loop!LoopAssumption
<1>1. \A a \in Adapters : hits[a] + fallbacks[a] <= MaxRows
  <2>1. Cardinality(Uncounted) \in Nat
    <3>1. IsFiniteSet(Threads)
      BY DEF Loop!LoopAssumption, Loop!IsFiniteSet, IsFiniteSet
    <3>2. IsFiniteSet(Uncounted)
      BY <3>1, FS_Subset DEF Uncounted
    <3> QED
      BY <3>2, FS_CardinalityType
  <2> QED
    BY <1>0, <2>1 DEF LoopTypes, LoopCounts
<1>2. Loop!TypeOK
  BY <1>0, <1>1 DEF Loop!TypeOK, LoopTypes, LoopAdapters, Loop!NoAdapter, Loop!Nobody,
                    Loop!Versions, Loop!Unrun
<1>3. Loop!RowRunsCurrentCode
  BY <1>0 DEF Loop!RowRunsCurrentCode, LoopCallers, Loop!Unrun
<1>4. Loop!LockHolderLives
  BY <1>0 DEF Loop!LockHolderLives, LoopTypes, LoopAdapters, LoopCallers, Loop!Nobody
<1> QED
  BY <1>2, <1>3, <1>4

-----------------------------------------------------------------------------
(* Batches.  What a call has counted, computed and put out, by where it is.    *)
BatchSteps == {"idle", "resolve", "lock", "look", "build", "unlock", "count", "dictionary",
               "distinct", "load", "native", "scalar", "refused", "published", "raised"}
BatchColumns == Batches \cup {<<>>}
BatchOuts == (UNION {Columns!ToSet(c) : c \in BatchColumns}) \X Nat
Executors == [owner : 0..2, version : Nat]
CallRecord ==
  [at : BatchSteps, column : BatchColumns, entered : BOOLEAN, use : Executors,
   next : Nat, outs : Seq(BatchOuts), ran : Nat, began : Nat, native : Nat,
   dictionary : Nat, rows : Nat, left : Nat]

Untouched(x) == x.ran = 0 /\ x.next = 1 /\ x.outs = <<>> /\ ~x.entered
CountedAs(x, n, d) == x.native = n /\ x.dictionary = d /\ x.rows = 1
Current(x, d, version) == x.began <= version /\ version <= d
RowsOut(x, d, n) ==
  /\ Len(x.outs) = n /\ n <= Len(x.column)
  /\ \A i \in 1..n : x.outs[i][1] = x.column[i] /\ Current(x, d, x.outs[i][2])

(* A call of a thread in process h, when the function has changed d times.     *)
CallOk(h, d, x) ==
  /\ x.use.owner \in {0, h} /\ x.began <= d
  /\ x.native <= 1 /\ x.dictionary <= 1
  /\ x.ran <= Len(x.column) /\ x.next <= Len(x.column) + 1
  /\ x.at \in {"resolve", "lock", "look", "build", "unlock", "count"} =>
       /\ Untouched(x) /\ x.native = 0
       /\ x.dictionary = IF Columns!Enabled THEN 0 ELSE 1
  /\ x.at = "build" => x.use.owner = h
  /\ x.at = "dictionary" => Untouched(x) /\ x.use # Columns!NoExecutor /\ CountedAs(x, 0, 0)
  /\ x.at = "load" => /\ Untouched(x) /\ x.rows = 1
                      /\ x.native = IF x.use = Columns!NoExecutor THEN 1 ELSE 0
  /\ x.at = "distinct" => x.entered /\ CountedAs(x, 1, 1) /\ x.ran = 0 /\ Current(x, d, x.use.version)
  /\ x.at \in {"native", "scalar"} =>
       /\ x.entered /\ CountedAs(x, 1, 1)
       /\ x.next = x.ran + 1 /\ RowsOut(x, d, x.ran)
  /\ x.at = "native" => Current(x, d, x.use.version)
  /\ x.at = "refused" => x.ran = 0 /\ ~x.entered
  /\ x.at = "published" => CountedAs(x, 1, 1) /\ RowsOut(x, d, Len(x.column))

BatchTypes ==
  /\ home \in [BatchThreads -> {1, 2}] /\ forked \in BOOLEAN /\ drift \in 0..MaxDrifts
  /\ executor \in [{1, 2} -> Executors] /\ unavailable \in [{1, 2} -> 0..2]
  /\ buildLock \in [{1, 2} -> BatchThreads \cup {"nobody"}] /\ builds \in [{1, 2} -> 0..1]
  /\ batch \in [BatchThreads -> CallRecord]

BatchCalls == \A t \in BatchThreads : CallOk(home[t], drift, batch[t])

(* A process builds under its lock, when it has neither built nor failed yet;  *)
(* what it inherited at the fork is neither.                                   *)
BatchBuilds ==
  /\ executor[1].owner # 2
  /\ ~forked => /\ builds[2] = 0 /\ buildLock[2] = "nobody"
                /\ \A t \in BatchThreads : home[t] = 2 => batch[t].at = "idle"
  /\ \A p \in {1, 2} :
       /\ builds[p] = 1 => \/ executor[p].owner = p
                           \/ executor[p].owner = 0 /\ unavailable[p] = p
       /\ buildLock[p] # "nobody" => home[buildLock[p]] = p
  /\ \A t \in BatchThreads :
       /\ batch[t].at \in {"look", "build", "unlock"} => buildLock[home[t]] = t
       /\ batch[t].at = "build" => builds[home[t]] = 0 /\ executor[home[t]].owner = 0

BatchInv == BatchTypes /\ BatchCalls /\ BatchBuilds

LEMMA ColumnIsSeq ==
  ASSUME Columns!ColumnsAssumption, NEW c \in BatchColumns
  PROVE  Len(c) \in Nat /\ DOMAIN c = 1..Len(c) /\ c \in Seq(Columns!ToSet(c))
<1>1. CASE c \in Batches
  <2>1. c \in Seq(Columns!ToSet(c))
    BY <1>1 DEF Columns!ColumnsAssumption
  <2> QED
    BY <2>1
<1>2. CASE c = <<>>
  BY <1>2
<1> QED
  BY <1>1, <1>2 DEF BatchColumns

LEMMA NoCallIsRecord ==
  ASSUME Columns!ColumnsAssumption
  PROVE  Columns!NoCall \in CallRecord
<1>0. MaxBatches \in Nat
  BY DEF Columns!ColumnsAssumption
<1>1. Columns!NoExecutor \in Executors
  BY DEF Columns!NoExecutor, Executors
<1>2. <<>> \in Seq(BatchOuts)
  OBVIOUS
<1> QED
  BY <1>0, <1>1, <1>2 DEF Columns!NoCall, CallRecord, BatchSteps, BatchColumns

LEMMA BatchesInit ==
  ASSUME Columns!ColumnsAssumption, Columns!Init
  PROVE  BatchInv
<1>0. MaxDrifts \in Nat /\ MaxBatches \in Nat /\ 0 \in 0..MaxDrifts
  BY DEF Columns!ColumnsAssumption
<1>1. Columns!NoExecutor \in Executors
  BY DEF Columns!NoExecutor, Executors
<1>2. Columns!NoCall \in CallRecord
  BY NoCallIsRecord
<1>3. \A h \in {1, 2} : CallOk(h, 0, Columns!NoCall)
  BY DEF CallOk, Columns!NoCall, Columns!NoExecutor
<1>4. BatchTypes
  <2>1. forked \in BOOLEAN
    BY Zenon DEF Columns!Init
  <2>2. /\ home \in [BatchThreads -> {1, 2}] /\ drift \in 0..MaxDrifts
        /\ executor \in [{1, 2} -> Executors] /\ unavailable \in [{1, 2} -> 0..2]
        /\ buildLock \in [{1, 2} -> BatchThreads \cup {"nobody"}]
        /\ builds \in [{1, 2} -> 0..1] /\ batch \in [BatchThreads -> CallRecord]
    BY <1>0, <1>1, <1>2 DEF Columns!Init, Columns!Nobody
  <2> QED
    BY <2>1, <2>2 DEF BatchTypes
<1>5. BatchCalls
  BY <1>3 DEF Columns!Init, BatchCalls
<1>6. BatchBuilds
  BY DEF Columns!Init, BatchBuilds, Columns!NoCall, Columns!NoExecutor, Columns!Nobody
<1> QED
  BY <1>4, <1>5, <1>6 DEF BatchInv

LEMMA CallLater ==
  ASSUME NEW x \in CallRecord, NEW h, NEW d \in Nat, NEW e \in Nat, d <= e, CallOk(h, d, x)
  PROVE  CallOk(h, e, x)
<1>1. \A v \in Nat : Current(x, d, v) => Current(x, e, v)
  BY DEF Current, CallRecord
<1>2. ASSUME NEW n \in Nat, RowsOut(x, d, n) PROVE RowsOut(x, e, n)
  <2>1. \A i \in 1..n : x.outs[i][2] \in Nat
    BY <1>2 DEF RowsOut, CallRecord, BatchOuts
  <2> QED
    BY <1>1, <1>2, <2>1 DEF RowsOut
<1>3. x.use.version \in Nat /\ x.ran \in Nat /\ x.began \in Nat
  BY DEF CallRecord, Executors
<1>4. x.at = "published" => Len(x.column) \in Nat
  BY DEF CallOk, RowsOut, CallRecord
<1> QED
  BY <1>1, <1>2, <1>3, <1>4 DEF CallOk

(* A step of one call that leaves its process alone.                           *)
LEMMA CallStep ==
  ASSUME BatchInv, NEW t \in BatchThreads, NEW x \in CallRecord,
         home[t] = 1 \/ forked, CallOk(home[t], drift, x),
         x.at \notin {"look", "build", "unlock"}, Columns!Put(t, x), Columns!Processes' = Columns!Processes
  PROVE  BatchInv'
<1>0. BatchTypes /\ BatchCalls /\ BatchBuilds
  BY DEF BatchInv
<1>1. /\ batch' = [batch EXCEPT ![t] = x] /\ home' = home /\ forked' = forked
      /\ drift' = drift /\ executor' = executor /\ unavailable' = unavailable
      /\ buildLock' = buildLock /\ builds' = builds
  BY DEF Columns!Put, Columns!Processes
<1>2. \A u \in BatchThreads : batch'[u] = IF u = t THEN x ELSE batch[u]
  BY <1>0, <1>1 DEF BatchTypes
<1>3. BatchTypes'
  BY <1>0, <1>1 DEF BatchTypes
<1>4. BatchCalls'
  BY <1>0, <1>1, <1>2 DEF BatchCalls
<1>5. BatchBuilds'
  BY <1>0, <1>1, <1>2 DEF BatchBuilds
<1> QED
  BY <1>3, <1>4, <1>5 DEF BatchInv

LEMMA CallsHome ==
  ASSUME BatchInv, NEW t \in BatchThreads, batch[t].at # "idle"
  PROVE  home[t] = 1 \/ forked
BY DEF BatchInv, BatchTypes, BatchBuilds

LEMMA BatchCall ==
  ASSUME Columns!ColumnsAssumption, BatchInv, NEW t \in BatchThreads, Columns!Call(t)
  PROVE  BatchInv'
<1>0. /\ BatchTypes /\ BatchCalls /\ BatchBuilds
      /\ batch[t] \in CallRecord /\ CallOk(home[t], drift, batch[t]) /\ home[t] \in {1, 2}
      /\ drift \in Nat /\ MaxDrifts \in Nat /\ MaxBatches \in Nat
  BY DEF BatchInv, BatchTypes, BatchCalls, Columns!ColumnsAssumption
<1>1. PICK c \in Batches, where \in {"resolve", "refused", "raised"} :
        Columns!Put(t, [Columns!NoCall EXCEPT
            !.at = where, !.column = c, !.began = drift, !.left = batch[t].left - 1,
            !.dictionary = IF Columns!Enabled THEN 0 ELSE 1])
  BY DEF Columns!Call
<1>2. /\ home[t] = 1 \/ forked
      /\ Columns!Processes' = Columns!Processes
  BY <1>0 DEF Columns!Call, Columns!Alive, CallRecord
<1>8. batch[t].left - 1 \in Nat
  BY <1>0 DEF Columns!Call, CallRecord
<1> DEFINE n == batch[t].left - 1
           dict == IF Columns!Enabled THEN 0 ELSE 1
           x == [Columns!NoCall EXCEPT !.at = where, !.column = c, !.began = drift,
                                       !.left = n, !.dictionary = dict]
<1>4. Columns!Put(t, x)
  BY <1>1
<1>7. Columns!NoCall \in CallRecord
  BY NoCallIsRecord
<1>3. /\ x.at = where /\ x.column = c /\ x.entered = FALSE /\ x.use = Columns!NoExecutor
      /\ x.next = 1 /\ x.outs = <<>> /\ x.ran = 0 /\ x.began = drift /\ x.native = 0
      /\ x.dictionary = dict /\ x.rows = 0
  BY <1>7 DEF CallRecord, Columns!NoCall
<1>5. x \in CallRecord
  <2>2. dict \in {0, 1}
    OBVIOUS
  <2>3. n \in Nat
    BY <1>8
  <2> HIDE DEF n, dict
  <2>1. where \in BatchSteps /\ c \in BatchColumns /\ dict \in Nat /\ n \in Nat
    BY <2>2, <2>3 DEF BatchSteps, BatchColumns
  <2> QED
    BY <1>0, <1>7, <2>1 DEF CallRecord
<1> HIDE DEF x
<1>6. CallOk(home[t], drift, x)
  <2>1. Len(c) \in Nat
    BY ColumnIsSeq DEF BatchColumns
  <2> HIDE DEF n
  <2> QED
    BY <1>0, <1>3, <2>1 DEF CallOk, Untouched, Columns!NoExecutor
<1> QED
  BY <1>2, <1>3, <1>4, <1>5, <1>6, CallStep

LEMMA BatchResolve ==
  ASSUME Columns!ColumnsAssumption, BatchInv, NEW t \in BatchThreads, Columns!Resolve(t)
  PROVE  BatchInv'
<1>0. /\ BatchTypes /\ BatchCalls /\ BatchBuilds
      /\ batch[t] \in CallRecord /\ CallOk(home[t], drift, batch[t]) /\ home[t] \in {1, 2}
      /\ drift \in Nat /\ MaxDrifts \in Nat /\ MaxBatches \in Nat
  BY DEF BatchInv, BatchTypes, BatchCalls, Columns!ColumnsAssumption
<1> DEFINE p == home[t]
           e == executor[p]
<1>1. batch[t].at = "resolve" /\ Columns!Processes' = Columns!Processes
  BY DEF Columns!Resolve, Columns!At
<1>2. home[t] = 1 \/ forked
  BY <1>1, CallsHome
<1>3. e \in Executors /\ Columns!NoExecutor \in Executors
  BY <1>0 DEF BatchTypes, Executors, Columns!NoExecutor
<1>4. PICK where \in {"count", "lock"}, use \in {e, Columns!NoExecutor, batch[t].use} :
        /\ use.owner \in {0, p}
        /\ \/ Columns!Put(t, [batch[t] EXCEPT !.at = where])  /\ use = batch[t].use
           \/ Columns!Put(t, [batch[t] EXCEPT !.at = where, !.use = use])
  BY <1>0 DEF Columns!Resolve, Columns!Owns, Columns!Guarded, Columns!NoExecutor, CallOk
<1> DEFINE x == [batch[t] EXCEPT !.at = where]
           y == [batch[t] EXCEPT !.at = where, !.use = use]
<1>5. where \in BatchSteps /\ use \in Executors
  BY <1>0, <1>3 DEF BatchSteps, CallRecord
<1>6. CASE Columns!Put(t, x)
  <2>1. /\ x \in CallRecord /\ x.at = where /\ x.use = batch[t].use
        /\ x.column = batch[t].column /\ x.entered = batch[t].entered
        /\ x.next = batch[t].next /\ x.outs = batch[t].outs /\ x.ran = batch[t].ran
        /\ x.began = batch[t].began /\ x.native = batch[t].native
        /\ x.dictionary = batch[t].dictionary /\ x.rows = batch[t].rows
    BY <1>0, <1>5 DEF CallRecord
  <2> HIDE DEF x
  <2>2. CallOk(home[t], drift, x)
    BY <1>0, <1>1, <2>1 DEF CallOk, Untouched
  <2> QED
    BY <1>1, <1>2, <1>6, <2>1, <2>2, CallStep
<1>7. CASE Columns!Put(t, y)
  <2>1. /\ y \in CallRecord /\ y.at = where /\ y.use = use
        /\ y.column = batch[t].column /\ y.entered = batch[t].entered
        /\ y.next = batch[t].next /\ y.outs = batch[t].outs /\ y.ran = batch[t].ran
        /\ y.began = batch[t].began /\ y.native = batch[t].native
        /\ y.dictionary = batch[t].dictionary /\ y.rows = batch[t].rows
    BY <1>0, <1>5 DEF CallRecord
  <2> HIDE DEF y
  <2>2. CallOk(home[t], drift, y)
    BY <1>0, <1>1, <1>4, <2>1 DEF CallOk, Untouched
  <2> QED
    BY <1>1, <1>2, <1>7, <2>1, <2>2, CallStep
<1> QED
  BY <1>4, <1>6, <1>7

LEMMA BatchCount ==
  ASSUME Columns!ColumnsAssumption, BatchInv, NEW t \in BatchThreads, Columns!Count(t)
  PROVE  BatchInv'
<1>0. /\ BatchTypes /\ BatchCalls /\ BatchBuilds
      /\ batch[t] \in CallRecord /\ CallOk(home[t], drift, batch[t]) /\ home[t] \in {1, 2}
      /\ drift \in Nat /\ MaxDrifts \in Nat /\ MaxBatches \in Nat
  BY DEF BatchInv, BatchTypes, BatchCalls, Columns!ColumnsAssumption
<1> DEFINE b == batch[t]
           none == IF b.use = Columns!NoExecutor THEN 1 ELSE 0
<1>1. /\ b.at = "count" /\ Columns!Processes' = Columns!Processes
      /\ \/ Columns!Eligible(b) /\ Columns!Put(t, [b EXCEPT !.native = none, !.rows = 1, !.at = "dictionary"])
         \/ Columns!Put(t, [b EXCEPT !.native = none, !.rows = 1, !.at = "load"])
  BY DEF Columns!Count, Columns!At
<1>2. home[t] = 1 \/ forked
  BY <1>1, CallsHome
<1>3. PICK where \in {"dictionary", "load"} :
        /\ Columns!Put(t, [b EXCEPT !.native = none, !.rows = 1, !.at = where])
        /\ where = "dictionary" => Columns!Eligible(b)
  BY <1>1
<1>4. where = "dictionary" => b.use # Columns!NoExecutor /\ Columns!Enabled
  BY <1>3 DEF Columns!Eligible, Columns!Enabled, Columns!ColumnsAssumption
<1> DEFINE x == [b EXCEPT !.native = none, !.rows = 1, !.at = where]
<1>5. x \in CallRecord
  <2>1. none \in Nat /\ where \in BatchSteps
    BY DEF BatchSteps
  <2> HIDE DEF none
  <2> QED
    BY <1>0, <2>1 DEF CallRecord
<1>6. /\ x.at = where /\ x.column = b.column /\ x.entered = b.entered
      /\ x.use = b.use /\ x.next = b.next /\ x.outs = b.outs
      /\ x.ran = b.ran /\ x.began = b.began /\ x.native = none
      /\ x.dictionary = b.dictionary /\ x.rows = 1
  BY <1>0 DEF CallRecord
<1> HIDE DEF x
<1>7. CallOk(home[t], drift, x)
  BY <1>0, <1>1, <1>4, <1>6 DEF CallOk, Untouched, CountedAs
<1> QED
  BY <1>1, <1>2, <1>3, <1>5, <1>6, <1>7, CallStep DEF x

LEMMA BatchDictionary ==
  ASSUME Columns!ColumnsAssumption, BatchInv, NEW t \in BatchThreads, Columns!Dictionary(t)
  PROVE  BatchInv'
<1>0. /\ BatchTypes /\ BatchCalls /\ BatchBuilds
      /\ batch[t] \in CallRecord /\ CallOk(home[t], drift, batch[t]) /\ home[t] \in {1, 2}
      /\ drift \in Nat /\ MaxDrifts \in Nat /\ MaxBatches \in Nat
  BY DEF BatchInv, BatchTypes, BatchCalls, Columns!ColumnsAssumption
<1> DEFINE b == batch[t]
           without == [b EXCEPT !.dictionary = @ + 1, !.at = "load"]
           within == [b EXCEPT !.entered = TRUE, !.dictionary = @ + 1, !.native = @ + 1,
                               !.at = "distinct"]
<1>1. b.at = "dictionary" /\ Columns!Processes' = Columns!Processes
  BY DEF Columns!Dictionary, Columns!At
<1>2. home[t] = 1 \/ forked
  BY <1>1, CallsHome
<1>3. \/ Columns!Put(t, without)
      \/ Columns!Put(t, within) /\ b.use.version = drift
  BY DEF Columns!Dictionary, Columns!Guarded, Columns!Unchanged
<1>4. b.native = 0 /\ b.dictionary = 0 /\ b.native + 1 = 1 /\ b.dictionary + 1 = 1
  BY <1>0, <1>1 DEF CallOk, CountedAs
<1>5. CASE Columns!Put(t, without)
  <2>1. without \in CallRecord
    <3>1. b.dictionary + 1 \in Nat /\ "load" \in BatchSteps
      BY <1>4 DEF BatchSteps
    <3> QED
      BY <1>0, <3>1 DEF CallRecord
  <2>2. /\ without.at = "load" /\ without.column = b.column /\ without.entered = b.entered
        /\ without.use = b.use /\ without.next = b.next /\ without.outs = b.outs
        /\ without.ran = b.ran /\ without.began = b.began /\ without.native = b.native
        /\ without.dictionary = 1 /\ without.rows = b.rows
    BY <1>0, <1>4 DEF CallRecord
  <2> HIDE DEF without
  <2>3. CallOk(home[t], drift, without)
    BY <1>0, <1>1, <1>4, <2>2 DEF CallOk, Untouched, CountedAs
  <2> QED
    BY <1>1, <1>2, <1>5, <2>1, <2>2, <2>3, CallStep
<1>6. ASSUME Columns!Put(t, within), b.use.version = drift PROVE BatchInv'
  <2>1. within \in CallRecord
    <3>1. b.dictionary + 1 \in Nat /\ b.native + 1 \in Nat /\ "distinct" \in BatchSteps
      BY <1>4 DEF BatchSteps
    <3> QED
      BY <1>0, <3>1 DEF CallRecord
  <2>2. /\ within.at = "distinct" /\ within.column = b.column /\ within.entered = TRUE
        /\ within.use = b.use /\ within.next = b.next /\ within.outs = b.outs
        /\ within.ran = b.ran /\ within.began = b.began /\ within.native = 1
        /\ within.dictionary = 1 /\ within.rows = b.rows
    BY <1>0, <1>4 DEF CallRecord
  <2> HIDE DEF within
  <2>3. CallOk(home[t], drift, within)
    BY <1>0, <1>1, <1>4, <1>6, <2>2 DEF CallOk, CountedAs, Current, Untouched
  <2> QED
    BY <1>1, <1>2, <1>6, <2>1, <2>2, <2>3, CallStep
<1> QED
  BY <1>3, <1>5, <1>6

LEMMA BatchRunDistinct ==
  ASSUME Columns!ColumnsAssumption, BatchInv, NEW t \in BatchThreads, Columns!RunDistinct(t)
  PROVE  BatchInv'
<1>0. /\ BatchTypes /\ BatchCalls /\ BatchBuilds
      /\ batch[t] \in CallRecord /\ CallOk(home[t], drift, batch[t]) /\ home[t] \in {1, 2}
      /\ drift \in Nat /\ MaxDrifts \in Nat /\ MaxBatches \in Nat
  BY DEF BatchInv, BatchTypes, BatchCalls, Columns!ColumnsAssumption
<1> DEFINE b == batch[t]
           all == Len(b.column)
           values == [i \in DOMAIN b.column |-> <<b.column[i], b.use.version>>]
           failed == [b EXCEPT !.ran = all, !.at = "raised"]
           done == [b EXCEPT !.ran = all, !.outs = values, !.at = "published"]
<1>1. b.at = "distinct" /\ Columns!Processes' = Columns!Processes /\ b.entered
  BY <1>0 DEF Columns!RunDistinct, Columns!At, CallOk
<1>2. home[t] = 1 \/ forked
  BY <1>1, CallsHome
<1>3. Columns!Put(t, failed) \/ Columns!Put(t, done)
  BY <1>1 DEF Columns!RunDistinct, Columns!FailsAt
<1>4. all \in Nat /\ DOMAIN b.column = 1..all /\ b.column \in BatchColumns
  BY <1>0, ColumnIsSeq DEF CallRecord
<1>5. CASE Columns!Put(t, failed)
  <2>1. failed \in CallRecord
    <3>1. all \in Nat /\ "raised" \in BatchSteps
      BY <1>4 DEF BatchSteps
    <3> QED
      BY <1>0, <3>1 DEF CallRecord
  <2>2. /\ failed.at = "raised" /\ failed.column = b.column /\ failed.entered = b.entered
        /\ failed.use = b.use /\ failed.next = b.next /\ failed.outs = b.outs
        /\ failed.ran = all /\ failed.began = b.began /\ failed.native = b.native
        /\ failed.dictionary = b.dictionary /\ failed.rows = b.rows
    BY <1>0 DEF CallRecord
  <2> HIDE DEF failed
  <2>3. CallOk(home[t], drift, failed)
    BY <1>0, <1>1, <1>4, <2>2 DEF CallOk, Untouched, CountedAs
  <2> QED
    BY <1>1, <1>2, <1>5, <2>1, <2>2, <2>3, CallStep
<1>7. /\ values \in Seq(BatchOuts) /\ Len(values) = all
      /\ \A i \in 1..all : values[i] = <<b.column[i], b.use.version>>
  <2>1. b.use.version \in Nat
    BY <1>0 DEF CallRecord, Executors
  <2>2. \A i \in 1..all : <<b.column[i], b.use.version>> \in BatchOuts
    BY <1>4, <2>1 DEF BatchOuts, Columns!ToSet
  <2>3. values \in [1..all -> BatchOuts]
    BY <1>4, <2>2
  <2> HIDE DEF all
  <2> QED
    BY <1>4, <2>3
<1>6. CASE Columns!Put(t, done)
  <2>1. done \in CallRecord
    <3>1. all \in Nat /\ "published" \in BatchSteps /\ values \in Seq(BatchOuts)
      BY <1>4, <1>7 DEF BatchSteps
    <3> QED
      BY <1>0, <3>1 DEF CallRecord
  <2>2. /\ done.at = "published" /\ done.column = b.column /\ done.entered = b.entered
        /\ done.use = b.use /\ done.next = b.next /\ done.outs = values
        /\ done.ran = all /\ done.began = b.began /\ done.native = b.native
        /\ done.dictionary = b.dictionary /\ done.rows = b.rows
    BY <1>0 DEF CallRecord
  <2> HIDE DEF done, values
  <2>3. CallOk(home[t], drift, done)
    BY <1>0, <1>1, <1>4, <1>7, <2>2 DEF CallOk, CountedAs, Current, RowsOut
  <2> QED
    BY <1>1, <1>2, <1>6, <2>1, <2>2, <2>3, CallStep
<1> QED
  BY <1>3, <1>5, <1>6

LEMMA BatchLoad ==
  ASSUME Columns!ColumnsAssumption, BatchInv, NEW t \in BatchThreads, Columns!Load(t)
  PROVE  BatchInv'
<1>0. /\ BatchTypes /\ BatchCalls /\ BatchBuilds
      /\ batch[t] \in CallRecord /\ CallOk(home[t], drift, batch[t]) /\ home[t] \in {1, 2}
      /\ drift \in Nat /\ MaxDrifts \in Nat /\ MaxBatches \in Nat
  BY DEF BatchInv, BatchTypes, BatchCalls, Columns!ColumnsAssumption
<1> DEFINE dict == IF batch[t].dictionary = 0 THEN 1 ELSE batch[t].dictionary
           b == [batch[t] EXCEPT !.dictionary = dict]
           nat == IF b.native = 0 THEN 1 ELSE b.native
           declined == [b EXCEPT !.at = "refused"]
           guarded == [b EXCEPT !.native = @ + 1, !.entered = TRUE, !.at = "native"]
           slow == [b EXCEPT !.native = nat, !.entered = TRUE, !.at = "scalar"]
<1>1. batch[t].at = "load" /\ Columns!Processes' = Columns!Processes
  BY DEF Columns!Load, Columns!At
<1>2. home[t] = 1 \/ forked
  BY <1>1, CallsHome
<1>3. \/ Columns!Put(t, declined)
      \/ Columns!Put(t, guarded) /\ b.use.version = drift /\ b.use.owner # 0
      \/ Columns!Put(t, slow)
  BY DEF Columns!Load, Columns!Guarded, Columns!Unchanged
<1>4. dict = 1
  BY <1>0, <1>1 DEF CallOk, CallRecord
<1>5. b \in CallRecord
  BY <1>0, <1>4 DEF CallRecord
<1>6. /\ b.at = batch[t].at /\ b.column = batch[t].column /\ b.entered = batch[t].entered
      /\ b.use = batch[t].use /\ b.next = batch[t].next /\ b.outs = batch[t].outs
      /\ b.ran = batch[t].ran /\ b.began = batch[t].began /\ b.native = batch[t].native
      /\ b.dictionary = 1 /\ b.rows = batch[t].rows
  BY <1>0, <1>4 DEF CallRecord
<1> HIDE DEF b, dict
<1>7. b.native \in {0, 1} /\ nat = 1 /\ (b.use.owner # 0 => b.native + 1 = 1)
  BY <1>0, <1>1, <1>6 DEF CallOk, CallRecord, Columns!NoExecutor
<1> HIDE DEF nat
<1>11. Len(<<>>) = 0 /\ Len(b.column) \in Nat
  <2>1. b.column \in BatchColumns
    BY <1>5 DEF CallRecord
  <2> QED
    BY <2>1, ColumnIsSeq
<1>8. CASE Columns!Put(t, declined)
  <2>1. declined \in CallRecord
    <3>1. "refused" \in BatchSteps
      BY <1>0 DEF BatchSteps
    <3> QED
      BY <1>5, <3>1 DEF CallRecord
  <2>2. /\ declined.at = "refused" /\ declined.column = b.column /\ declined.entered = b.entered
        /\ declined.use = b.use /\ declined.next = b.next /\ declined.outs = b.outs
        /\ declined.ran = b.ran /\ declined.began = b.began /\ declined.native = b.native
        /\ declined.dictionary = b.dictionary /\ declined.rows = b.rows
    BY <1>5 DEF CallRecord
  <2> HIDE DEF declined
  <2>3. CallOk(home[t], drift, declined)
    BY <1>0, <1>1, <1>6, <2>2 DEF CallOk, Untouched, CountedAs
  <2> QED
    BY <1>1, <1>2, <1>8, <2>1, <2>2, <2>3, CallStep
<1>9. ASSUME Columns!Put(t, guarded), b.use.version = drift, b.use.owner # 0 PROVE BatchInv'
  <2>1. guarded \in CallRecord
    <3>1. b.native + 1 \in Nat /\ "native" \in BatchSteps
      BY <1>7, <1>9 DEF BatchSteps
    <3> QED
      BY <1>5, <3>1 DEF CallRecord
  <2>2. /\ guarded.at = "native" /\ guarded.column = b.column /\ guarded.entered = TRUE
        /\ guarded.use = b.use /\ guarded.next = b.next /\ guarded.outs = b.outs
        /\ guarded.ran = b.ran /\ guarded.began = b.began /\ guarded.native = 1
        /\ guarded.dictionary = b.dictionary /\ guarded.rows = b.rows
    BY <1>5, <1>7, <1>9 DEF CallRecord
  <2> HIDE DEF guarded
  <2>3. CallOk(home[t], drift, guarded)
    BY <1>0, <1>1, <1>6, <1>7, <1>9, <1>11, <2>2 DEF CallOk, CountedAs, Untouched, Current, RowsOut
  <2> QED
    BY <1>1, <1>2, <1>9, <2>1, <2>2, <2>3, CallStep
<1>10. CASE Columns!Put(t, slow)
  <2>1. slow \in CallRecord
    <3>1. nat \in Nat /\ "scalar" \in BatchSteps
      BY <1>7 DEF BatchSteps
    <3> QED
      BY <1>5, <3>1 DEF CallRecord
  <2>2. /\ slow.at = "scalar" /\ slow.column = b.column /\ slow.entered = TRUE
        /\ slow.use = b.use /\ slow.next = b.next /\ slow.outs = b.outs
        /\ slow.ran = b.ran /\ slow.began = b.began /\ slow.native = 1
        /\ slow.dictionary = b.dictionary /\ slow.rows = b.rows
    BY <1>5, <1>7 DEF CallRecord
  <2> HIDE DEF slow
  <2>3. CallOk(home[t], drift, slow)
    BY <1>0, <1>1, <1>6, <1>7, <1>11, <2>2 DEF CallOk, CountedAs, Untouched, Current, RowsOut
  <2> QED
    BY <1>1, <1>2, <1>10, <2>1, <2>2, <2>3, CallStep
<1> QED
  BY <1>3, <1>8, <1>9, <1>10

LEMMA BatchPublish ==
  ASSUME Columns!ColumnsAssumption, BatchInv, NEW t \in BatchThreads, Columns!Publish(t)
  PROVE  BatchInv'
<1>0. /\ BatchTypes /\ BatchCalls /\ BatchBuilds
      /\ batch[t] \in CallRecord /\ CallOk(home[t], drift, batch[t]) /\ home[t] \in {1, 2}
      /\ drift \in Nat /\ MaxDrifts \in Nat /\ MaxBatches \in Nat
  BY DEF BatchInv, BatchTypes, BatchCalls, Columns!ColumnsAssumption
<1> DEFINE b == batch[t]
<1>1. b.at \in {"native", "scalar"} /\ b.next > Len(b.column) /\ b.entered
      /\ Columns!Processes' = Columns!Processes
  BY <1>0 DEF Columns!Publish, CallOk
<1>2. home[t] = 1 \/ forked
  BY <1>1, CallsHome
<1>3. PICK where \in {"published", "raised"} : Columns!Put(t, [b EXCEPT !.at = where])
  BY <1>1 DEF Columns!Publish, Columns!FailsAt
<1> DEFINE x == [b EXCEPT !.at = where]
<1>4. b.ran = Len(b.column) /\ RowsOut(b, drift, b.ran)
  BY <1>0, <1>1 DEF CallOk, RowsOut, CallRecord
<1>5. CASE Columns!Put(t, x)
  <2>1. x \in CallRecord
    <3>1. where \in BatchSteps
      BY <1>0 DEF BatchSteps
    <3> QED
      BY <1>0, <3>1 DEF CallRecord
  <2>2. /\ x.at = where /\ x.column = b.column /\ x.entered = b.entered
        /\ x.use = b.use /\ x.next = b.next /\ x.outs = b.outs
        /\ x.ran = b.ran /\ x.began = b.began /\ x.native = b.native
        /\ x.dictionary = b.dictionary /\ x.rows = b.rows
    BY <1>0 DEF CallRecord
  <2> HIDE DEF x
  <2>3. CallOk(home[t], drift, x)
    BY <1>0, <1>1, <1>4, <2>2 DEF CallOk, CountedAs, Current, RowsOut
  <2> QED
    BY <1>1, <1>2, <1>5, <2>1, <2>2, <2>3, CallStep
<1> QED
  BY <1>3, <1>5

LEMMA BatchRow ==
  ASSUME Columns!ColumnsAssumption, BatchInv, NEW t \in BatchThreads, Columns!Row(t)
  PROVE  BatchInv'
<1>0. /\ BatchTypes /\ BatchCalls /\ BatchBuilds
      /\ batch[t] \in CallRecord /\ CallOk(home[t], drift, batch[t]) /\ home[t] \in {1, 2}
      /\ drift \in Nat /\ MaxDrifts \in Nat /\ MaxBatches \in Nat
  BY DEF BatchInv, BatchTypes, BatchCalls, Columns!ColumnsAssumption
<1> DEFINE b == batch[t]
           out == <<b.column[b.next], Columns!RowVersion(b)>>
           ranNow == b.ran + 1
           nextNow == b.next + 1
           outsNow == Append(b.outs, out)
           done == [b EXCEPT !.ran = ranNow, !.next = nextNow, !.outs = outsNow]
<1>1. /\ b.at \in {"native", "scalar"} /\ b.next <= Len(b.column)
      /\ Columns!Processes' = Columns!Processes
      /\ b.entered /\ CountedAs(b, 1, 1) /\ b.next = b.ran + 1 /\ RowsOut(b, drift, b.ran)
      /\ b.began <= drift /\ b.use.owner \in {0, home[t]}
      /\ b.at = "native" => Current(b, drift, b.use.version)
  BY <1>0 DEF Columns!Row, CallOk
<1>2. home[t] = 1 \/ forked
  BY <1>1, CallsHome
<1>3. /\ b.column \in BatchColumns /\ b.outs \in Seq(BatchOuts) /\ b.ran \in Nat /\ b.next \in Nat
      /\ b.use.version \in Nat /\ b.began \in Nat
  BY <1>0 DEF CallRecord, Executors
<1>4. Len(b.column) \in Nat /\ DOMAIN b.column = 1..Len(b.column)
  BY <1>3, ColumnIsSeq
<1>5. Columns!RowVersion(b) \in Nat /\ Current(b, drift, Columns!RowVersion(b))
  BY <1>0, <1>1, <1>3 DEF Columns!RowVersion, Current
<1>6. out \in BatchOuts /\ out[1] = b.column[b.next] /\ out[2] = Columns!RowVersion(b)
  <2>1. b.next \in DOMAIN b.column
    BY <1>1, <1>3, <1>4
  <2>2. b.column[b.next] \in Columns!ToSet(b.column)
    BY <2>1 DEF Columns!ToSet
  <2>3. b.column[b.next] \in UNION {Columns!ToSet(c) : c \in BatchColumns}
    BY <2>2, <1>3
  <2> QED
    BY <2>3, <1>5 DEF BatchOuts
<1> HIDE DEF out
<1>7. /\ outsNow \in Seq(BatchOuts) /\ Len(b.outs) = b.ran /\ Len(outsNow) = ranNow
      /\ outsNow[ranNow] = out /\ \A i \in 1..b.ran : outsNow[i] = b.outs[i]
  BY <1>1, <1>3, <1>6 DEF RowsOut
<1>8. ranNow \in Nat /\ nextNow \in Nat /\ nextNow = ranNow + 1 /\ ranNow <= Len(b.column)
  BY <1>1, <1>3, <1>4
<1>9. \A i \in 1..ranNow : outsNow[i][1] = b.column[i] /\ Current(b, drift, outsNow[i][2])
  <2> TAKE i \in 1..ranNow
  <2>1. CASE i \in 1..b.ran
    BY <2>1, <1>1, <1>7 DEF RowsOut
  <2>2. CASE i = ranNow
    BY <2>2, <1>1, <1>5, <1>6, <1>7
  <2>3. \A n \in Nat : \A k \in 1..(n + 1) : k \in 1..n \/ k = n + 1
    OBVIOUS
  <2>4. i \in 1..b.ran \/ i = ranNow
    BY <2>3, <1>3
  <2> HIDE DEF outsNow, ranNow
  <2> QED
    BY <2>1, <2>2, <2>4
<1>10. PICK where \in {"raised", "again"} :
         \/ where = "raised" /\ Columns!Put(t, [b EXCEPT !.ran = ranNow, !.at = "raised"])
         \/ where = "again" /\ Columns!Put(t, done)
  BY <1>1 DEF Columns!Row, Columns!FailsAt, out
<1> DEFINE failed == [b EXCEPT !.ran = ranNow, !.at = "raised"]
<1>11. CASE Columns!Put(t, failed)
  <2>1. failed \in CallRecord
    <3>1. "raised" \in BatchSteps
      BY <1>0 DEF BatchSteps
    <3> QED
      BY <1>0, <1>8, <3>1 DEF CallRecord
  <2>2. /\ failed.at = "raised" /\ failed.column = b.column /\ failed.entered = b.entered
        /\ failed.use = b.use /\ failed.next = b.next /\ failed.outs = b.outs
        /\ failed.ran = ranNow /\ failed.began = b.began /\ failed.native = b.native
        /\ failed.dictionary = b.dictionary /\ failed.rows = b.rows
    BY <1>0 DEF CallRecord
  <2> HIDE DEF failed, ranNow
  <2>3. CallOk(home[t], drift, failed)
    BY <1>0, <1>1, <1>3, <1>4, <1>8, <2>2 DEF CallOk, Untouched, CountedAs
  <2> QED
    BY <1>1, <1>2, <1>11, <2>1, <2>2, <2>3, CallStep
<1>12. CASE Columns!Put(t, done)
  <2>1. done \in CallRecord
    BY <1>0, <1>7, <1>8 DEF CallRecord
  <2>2. /\ done.at = b.at /\ done.column = b.column /\ done.entered = b.entered
        /\ done.use = b.use /\ done.next = nextNow /\ done.outs = outsNow
        /\ done.ran = ranNow /\ done.began = b.began /\ done.native = b.native
        /\ done.dictionary = b.dictionary /\ done.rows = b.rows
    BY <1>0 DEF CallRecord
  <2> HIDE DEF done, ranNow, nextNow, outsNow
  <2>3. CallOk(home[t], drift, done)
    BY <1>0, <1>1, <1>3, <1>4, <1>8, <1>7, <1>9, <2>2 DEF CallOk, CountedAs, Current, RowsOut
  <2> QED
    BY <1>1, <1>2, <1>12, <2>1, <2>2, <2>3, CallStep
<1> QED
  BY <1>10, <1>11, <1>12

LEMMA BatchRecover ==
  ASSUME Columns!ColumnsAssumption, BatchInv, NEW t \in BatchThreads, Columns!Recover(t)
  PROVE  BatchInv'
<1>0. /\ BatchTypes /\ BatchCalls /\ BatchBuilds
      /\ batch[t] \in CallRecord /\ CallOk(home[t], drift, batch[t]) /\ home[t] \in {1, 2}
      /\ drift \in Nat /\ MaxDrifts \in Nat /\ MaxBatches \in Nat
  BY DEF BatchInv, BatchTypes, BatchCalls, Columns!ColumnsAssumption
<1> DEFINE nat == IF batch[t].native = 0 THEN 1 ELSE batch[t].native
           dict == IF batch[t].dictionary = 0 THEN 1 ELSE batch[t].dictionary
           b == [batch[t] EXCEPT !.native = nat, !.dictionary = dict]
           failed == [b EXCEPT !.at = "raised"]
           slow == [b EXCEPT !.rows = 1, !.entered = TRUE, !.at = "scalar", !.next = 1, !.outs = <<>>]
<1>1. batch[t].at = "refused" /\ Columns!Processes' = Columns!Processes
      /\ batch[t].ran = 0 /\ ~batch[t].entered
  BY <1>0 DEF Columns!Recover, Columns!At, CallOk
<1>2. home[t] = 1 \/ forked
  BY <1>1, CallsHome
<1>3. Columns!Put(t, failed) \/ Columns!Put(t, slow)
  BY DEF Columns!Recover
<1>4. nat = 1 /\ dict = 1
  BY <1>0 DEF CallOk, CallRecord
<1>5. b \in CallRecord
  BY <1>0, <1>4 DEF CallRecord
<1>6. /\ b.at = batch[t].at /\ b.column = batch[t].column /\ b.entered = batch[t].entered
      /\ b.use = batch[t].use /\ b.next = batch[t].next /\ b.outs = batch[t].outs
      /\ b.ran = batch[t].ran /\ b.began = batch[t].began /\ b.native = 1
      /\ b.dictionary = 1 /\ b.rows = batch[t].rows
  BY <1>0, <1>4 DEF CallRecord
<1> HIDE DEF b, dict, nat
<1>7. Len(<<>>) = 0 /\ Len(b.column) \in Nat /\ <<>> \in Seq(BatchOuts)
  <2>1. b.column \in BatchColumns
    BY <1>5 DEF CallRecord
  <2> QED
    BY <2>1, ColumnIsSeq
<1>8. CASE Columns!Put(t, failed)
  <2>1. failed \in CallRecord
    <3>1. "raised" \in BatchSteps
      BY <1>0 DEF BatchSteps
    <3> QED
      BY <1>5, <1>7, <3>1 DEF CallRecord
  <2>2. /\ failed.at = "raised" /\ failed.column = b.column /\ failed.entered = b.entered
        /\ failed.use = b.use /\ failed.next = b.next /\ failed.outs = b.outs
        /\ failed.ran = b.ran /\ failed.began = b.began /\ failed.native = b.native
        /\ failed.dictionary = b.dictionary /\ failed.rows = b.rows
    BY <1>5, <1>7 DEF CallRecord
  <2> HIDE DEF failed
  <2>3. CallOk(home[t], drift, failed)
    BY <1>0, <1>1, <1>6, <2>2 DEF CallOk, Untouched, CountedAs
  <2> QED
    BY <1>1, <1>2, <1>8, <2>1, <2>2, <2>3, CallStep
<1>9. CASE Columns!Put(t, slow)
  <2>1. slow \in CallRecord
    <3>1. "scalar" \in BatchSteps
      BY <1>0 DEF BatchSteps
    <3> QED
      BY <1>5, <1>7, <3>1 DEF CallRecord
  <2>2. /\ slow.at = "scalar" /\ slow.column = b.column /\ slow.entered = TRUE
        /\ slow.use = b.use /\ slow.next = 1 /\ slow.outs = <<>>
        /\ slow.ran = b.ran /\ slow.began = b.began /\ slow.native = b.native
        /\ slow.dictionary = b.dictionary /\ slow.rows = 1
    BY <1>5, <1>7 DEF CallRecord
  <2> HIDE DEF slow
  <2>3. CallOk(home[t], drift, slow)
    BY <1>0, <1>1, <1>6, <1>7, <2>2 DEF CallOk, CountedAs, Current, RowsOut
  <2> QED
    BY <1>1, <1>2, <1>9, <2>1, <2>2, <2>3, CallStep
<1> QED
  BY <1>3, <1>8, <1>9

LEMMA BatchReturn ==
  ASSUME Columns!ColumnsAssumption, BatchInv, NEW t \in BatchThreads, Columns!Return(t)
  PROVE  BatchInv'
<1>0. /\ BatchTypes /\ BatchCalls /\ BatchBuilds
      /\ batch[t] \in CallRecord /\ CallOk(home[t], drift, batch[t]) /\ home[t] \in {1, 2}
      /\ drift \in Nat /\ MaxDrifts \in Nat /\ MaxBatches \in Nat
  BY DEF BatchInv, BatchTypes, BatchCalls, Columns!ColumnsAssumption
<1> DEFINE b == batch[t]
           cleared == [b EXCEPT !.at = "idle", !.outs = <<>>, !.use = Columns!NoExecutor]
<1>1. b.at # "idle" /\ Columns!Processes' = Columns!Processes
  BY DEF Columns!Return
<1>2. home[t] = 1 \/ forked
  BY <1>1, CallsHome
<1>3. Columns!Put(t, cleared)
  BY DEF Columns!Return
<1>4. Columns!NoExecutor \in Executors /\ <<>> \in Seq(BatchOuts) /\ Columns!NoExecutor.owner = 0
  BY DEF Columns!NoExecutor, Executors
<1>5. CASE Columns!Put(t, cleared)
  <2>1. cleared \in CallRecord
    <3>1. "idle" \in BatchSteps
      BY <1>0 DEF BatchSteps
    <3> QED
      BY <1>0, <1>4, <3>1 DEF CallRecord
  <2>2. /\ cleared.at = "idle" /\ cleared.column = b.column /\ cleared.entered = b.entered
        /\ cleared.use = Columns!NoExecutor /\ cleared.next = b.next /\ cleared.outs = <<>>
        /\ cleared.ran = b.ran /\ cleared.began = b.began /\ cleared.native = b.native
        /\ cleared.dictionary = b.dictionary /\ cleared.rows = b.rows
    BY <1>0, <1>4 DEF CallRecord
  <2> HIDE DEF cleared
  <2>3. CallOk(home[t], drift, cleared)
    BY <1>0, <1>1, <1>4, <2>2 DEF CallOk, Untouched, CountedAs
  <2> QED
    BY <1>1, <1>2, <1>5, <2>1, <2>2, <2>3, CallStep
<1> QED
  BY <1>3, <1>5

(* A step of one call that also touches its process.                           *)
LEMMA ProcessStep ==
  ASSUME BatchInv, NEW t \in BatchThreads, NEW x \in CallRecord, CallOk(home[t], drift, x),
         Columns!Put(t, x), home' = home, forked' = forked, drift' = drift,
         executor' \in [{1, 2} -> Executors], unavailable' \in [{1, 2} -> 0..2],
         buildLock' \in [{1, 2} -> BatchThreads \cup {"nobody"}], builds' \in [{1, 2} -> 0..1],
         BatchBuilds'
  PROVE  BatchInv'
<1>0. BatchTypes /\ BatchCalls
  BY DEF BatchInv
<1>1. batch' = [batch EXCEPT ![t] = x]
  BY DEF Columns!Put
<1>2. \A u \in BatchThreads : batch'[u] = IF u = t THEN x ELSE batch[u]
  BY <1>0, <1>1 DEF BatchTypes
<1>3. BatchTypes'
  BY <1>0, <1>1 DEF BatchTypes
<1>4. BatchCalls'
  BY <1>0, <1>2 DEF BatchCalls
<1> QED
  BY <1>3, <1>4 DEF BatchInv

LEMMA BatchLock ==
  ASSUME Columns!ColumnsAssumption, BatchInv, NEW t \in BatchThreads, Columns!Lock(t)
  PROVE  BatchInv'
<1>0. /\ BatchTypes /\ BatchCalls /\ BatchBuilds
      /\ batch[t] \in CallRecord /\ CallOk(home[t], drift, batch[t]) /\ home[t] \in {1, 2}
      /\ drift \in Nat /\ MaxDrifts \in Nat /\ MaxBatches \in Nat
  BY DEF BatchInv, BatchTypes, BatchCalls, Columns!ColumnsAssumption
<1> DEFINE b == batch[t]
           x == [b EXCEPT !.at = "look"]
<1>1. /\ b.at = "lock" /\ buildLock[home[t]] = "nobody" /\ Columns!Put(t, x)
      /\ buildLock' = [buildLock EXCEPT ![home[t]] = t]
      /\ home' = home /\ forked' = forked /\ drift' = drift /\ executor' = executor
      /\ unavailable' = unavailable /\ builds' = builds
  BY DEF Columns!Lock, Columns!At, Columns!Nobody
<1>2. home[t] = 1 \/ forked
  BY <1>1, CallsHome
<1>3. Columns!Put(t, x)
  BY <1>1
<1>4. x \in CallRecord
  <2>1. "look" \in BatchSteps
    BY DEF BatchSteps
  <2> QED
    BY <1>0, <2>1 DEF CallRecord
<1>5. /\ x.at = "look" /\ x.column = b.column /\ x.entered = b.entered
      /\ x.use = b.use /\ x.next = b.next /\ x.outs = b.outs
      /\ x.ran = b.ran /\ x.began = b.began /\ x.native = b.native
      /\ x.dictionary = b.dictionary /\ x.rows = b.rows
  BY <1>0 DEF CallRecord
<1> HIDE DEF x
<1>6. CallOk(home[t], drift, x)
  BY <1>0, <1>1, <1>5 DEF CallOk, Untouched
<1>7. buildLock' \in [{1, 2} -> BatchThreads \cup {"nobody"}]
  BY <1>0, <1>1 DEF BatchTypes
<1>8. \A u \in BatchThreads : batch'[u] = IF u = t THEN x ELSE batch[u]
  BY <1>0, <1>3 DEF BatchTypes, Columns!Put
<1>9. "nobody" \notin BatchThreads
  BY DEF Columns!ColumnsAssumption
<1>10. BatchBuilds'
  BY <1>0, <1>1, <1>2, <1>5, <1>7, <1>8, <1>9 DEF BatchBuilds, BatchTypes
<1> QED
  BY <1>0, <1>1, <1>3, <1>4, <1>6, <1>7, <1>10, ProcessStep DEF BatchTypes

LEMMA BatchLook ==
  ASSUME Columns!ColumnsAssumption, BatchInv, NEW t \in BatchThreads, Columns!Look(t)
  PROVE  BatchInv'
<1>0. /\ BatchTypes /\ BatchCalls /\ BatchBuilds
      /\ batch[t] \in CallRecord /\ CallOk(home[t], drift, batch[t]) /\ home[t] \in {1, 2}
      /\ drift \in Nat /\ MaxDrifts \in Nat /\ MaxBatches \in Nat
  BY DEF BatchInv, BatchTypes, BatchCalls, Columns!ColumnsAssumption
<1> DEFINE b == batch[t]
           p == home[t]
           foreign == executor[p].owner \notin {0, p}
           e == IF foreign THEN Columns!NoExecutor ELSE executor[p]
           none == IF foreign THEN 0 ELSE unavailable[p]
<1>1. /\ b.at = "look"
      /\ executor' = [executor EXCEPT ![p] = e] /\ unavailable' = [unavailable EXCEPT ![p] = none]
      /\ home' = home /\ forked' = forked /\ drift' = drift /\ buildLock' = buildLock
      /\ builds' = builds
  BY DEF Columns!Look, Columns!At
<1>2. home[t] = 1 \/ forked
  BY <1>1, CallsHome
<1>11. e \in Executors /\ e.owner \in {0, p} /\ none \in 0..2
  BY <1>0 DEF BatchTypes, Executors, Columns!NoExecutor
<1>12. PICK where \in {"unlock", "build"}, use \in Executors :
         /\ Columns!Put(t, [b EXCEPT !.at = where, !.use = use])
         /\ use.owner \in {0, p}
         /\ where = "build" => e.owner = 0 /\ none # p /\ use.owner = p
  <2>1. CASE e.owner # 0
    <3>1. Columns!Put(t, [b EXCEPT !.at = "unlock", !.use = e])
      BY <2>1 DEF Columns!Look
    <3> QED
      BY <3>1, <1>11
  <2>2. CASE e.owner = 0 /\ none = p
    <3>1. Columns!Put(t, [b EXCEPT !.at = "unlock"])
      BY <2>2 DEF Columns!Look
    <3>2. [b EXCEPT !.at = "unlock"] = [b EXCEPT !.at = "unlock", !.use = b.use]
      BY <1>0 DEF CallRecord
    <3>3. b.use \in Executors /\ b.use.owner \in {0, p}
      BY <1>0 DEF CallOk, CallRecord
    <3> QED
      BY <3>1, <3>2, <3>3
  <2>3. CASE e.owner = 0 /\ none # p
    <3>1. Columns!Put(t, [b EXCEPT !.at = "build", !.use = [owner |-> p, version |-> drift]])
      BY <2>3 DEF Columns!Look
    <3>2. [owner |-> p, version |-> drift] \in Executors
      BY <1>0 DEF Executors
    <3> QED
      BY <3>1, <3>2, <2>3
  <2> QED
    BY <2>1, <2>2, <2>3
<1> DEFINE x == [b EXCEPT !.at = where, !.use = use]
<1>3. Columns!Put(t, x)
  BY <1>12
<1>4. x \in CallRecord
  <2>1. where \in BatchSteps
    BY DEF BatchSteps
  <2> QED
    BY <1>0, <2>1 DEF CallRecord
<1>5. /\ x.at = where /\ x.column = b.column /\ x.entered = b.entered
      /\ x.use = use /\ x.next = b.next /\ x.outs = b.outs
      /\ x.ran = b.ran /\ x.began = b.began /\ x.native = b.native
      /\ x.dictionary = b.dictionary /\ x.rows = b.rows
  BY <1>0 DEF CallRecord
<1> HIDE DEF x
<1>6. CallOk(home[t], drift, x)
  BY <1>0, <1>1, <1>5, <1>12 DEF CallOk, Untouched
<1>7. executor' \in [{1, 2} -> Executors] /\ unavailable' \in [{1, 2} -> 0..2]
  BY <1>0, <1>1, <1>11 DEF BatchTypes
<1>8. \A u \in BatchThreads : batch'[u] = IF u = t THEN x ELSE batch[u]
  BY <1>0, <1>3 DEF BatchTypes, Columns!Put
<1>9. /\ executor'[p] = e /\ \A q \in {1, 2} : q # p => executor'[q] = executor[q]
      /\ unavailable'[p] = none /\ \A q \in {1, 2} : q # p => unavailable'[q] = unavailable[q]
  BY <1>0, <1>1 DEF BatchTypes
<1>13. builds[p] = 1 => e.owner = p \/ (e.owner = 0 /\ none = p)
  <2>1. builds[p] = 1 => \/ executor[p].owner = p
                         \/ executor[p].owner = 0 /\ unavailable[p] = p
    BY <1>0 DEF BatchBuilds
  <2> QED
    BY <2>1
<1>14. buildLock[p] = t /\ \A u \in BatchThreads \ {t} :
         batch[u].at = "build" => home[u] # p
  BY <1>0, <1>1 DEF BatchBuilds
<1> HIDE DEF e, none, foreign
<1>15. builds \in [{1, 2} -> 0..1] /\ home \in [BatchThreads -> {1, 2}]
  BY <1>0 DEF BatchTypes
<1>10. BatchBuilds'
  <2>1. executor'[1].owner # 2
    BY <1>0, <1>9, <1>11 DEF BatchBuilds
  <2>2. ~forked' => /\ builds'[2] = 0 /\ buildLock'[2] = "nobody"
                    /\ \A u \in BatchThreads : home'[u] = 2 => batch'[u].at = "idle"
    BY <1>0, <1>1, <1>2, <1>8 DEF BatchBuilds
  <2>3. \A q \in {1, 2} :
          /\ builds'[q] = 1 => \/ executor'[q].owner = q
                               \/ executor'[q].owner = 0 /\ unavailable'[q] = q
          /\ buildLock'[q] # "nobody" => home'[buildLock'[q]] = q
    BY <1>0, <1>1, <1>9, <1>13 DEF BatchBuilds
  <2>4. \A u \in BatchThreads :
          batch'[u].at \in {"look", "build", "unlock"} => buildLock'[home'[u]] = u
    BY <1>0, <1>1, <1>8, <1>14 DEF BatchBuilds
  <2>5. \A u \in BatchThreads :
          batch'[u].at = "build" => builds'[home'[u]] = 0 /\ executor'[home'[u]].owner = 0
    <3> SUFFICES ASSUME NEW u \in BatchThreads, batch'[u].at = "build"
                 PROVE  builds'[home'[u]] = 0 /\ executor'[home'[u]].owner = 0
      OBVIOUS
    <3>1. CASE u = t
      BY <3>1, <1>0, <1>1, <1>5, <1>8, <1>9, <1>12, <1>13, <1>15
    <3>2. CASE u # t
      BY <3>2, <1>0, <1>1, <1>8, <1>9, <1>14, <1>15 DEF BatchBuilds
    <3> QED
      BY <3>1, <3>2
  <2> QED
    BY <2>1, <2>2, <2>3, <2>4, <2>5 DEF BatchBuilds
<1> QED
  BY <1>0, <1>1, <1>3, <1>4, <1>6, <1>7, <1>10, ProcessStep DEF BatchTypes

LEMMA BatchBuild ==
  ASSUME Columns!ColumnsAssumption, BatchInv, NEW t \in BatchThreads, Columns!Build(t)
  PROVE  BatchInv'
<1>0. /\ BatchTypes /\ BatchCalls /\ BatchBuilds
      /\ batch[t] \in CallRecord /\ CallOk(home[t], drift, batch[t]) /\ home[t] \in {1, 2}
      /\ drift \in Nat /\ MaxDrifts \in Nat /\ MaxBatches \in Nat
  BY DEF BatchInv, BatchTypes, BatchCalls, Columns!ColumnsAssumption
<1> DEFINE b == batch[t]
           p == home[t]
<1>1. /\ b.at = "build" /\ builds[p] = 0 /\ executor[p].owner = 0 /\ b.use.owner = p
      /\ builds' = [builds EXCEPT ![p] = @ + 1]
      /\ home' = home /\ forked' = forked /\ drift' = drift /\ buildLock' = buildLock
  BY <1>0 DEF Columns!Build, Columns!At, BatchBuilds, CallOk
<1>2. home[t] = 1 \/ forked
  BY <1>1, CallsHome
<1>11. builds' \in [{1, 2} -> 0..1] /\ builds'[p] = 1
       /\ \A q \in {1, 2} : q # p => builds'[q] = builds[q]
  <2>1. builds[p] + 1 = 1
    BY <1>1
  <2>2. builds' = [builds EXCEPT ![p] = 1]
    BY <1>1, <2>1
  <2> QED
    BY <1>0, <2>2 DEF BatchTypes
<1>12. PICK use \in {b.use, Columns!NoExecutor} :
         /\ Columns!Put(t, [b EXCEPT !.at = "unlock", !.use = use])
         /\ \/ /\ executor' = [executor EXCEPT ![p] = b.use]
               /\ unavailable' = [unavailable EXCEPT ![p] = 0]
            \/ executor' = executor /\ unavailable' = [unavailable EXCEPT ![p] = p]
  <2>1. PICK ok \in BOOLEAN :
          IF ok /\ Columns!Guarded(b.use)
          THEN /\ executor' = [executor EXCEPT ![p] = b.use]
               /\ unavailable' = [unavailable EXCEPT ![p] = 0]
               /\ Columns!Put(t, [b EXCEPT !.at = "unlock"])
          ELSE /\ unavailable' = [unavailable EXCEPT ![p] = p]
               /\ Columns!Put(t, [b EXCEPT !.at = "unlock", !.use = Columns!NoExecutor])
               /\ UNCHANGED executor
    BY Zenon DEF Columns!Build
  <2>2. [b EXCEPT !.at = "unlock"] = [b EXCEPT !.at = "unlock", !.use = b.use]
    BY <1>0 DEF CallRecord
  <2> QED
    BY <2>1, <2>2
<1>13. use \in Executors /\ use.owner \in {0, p} /\ b.use \in Executors
  BY <1>0, <1>1 DEF Columns!NoExecutor, Executors, CallRecord
<1> DEFINE x == [b EXCEPT !.at = "unlock", !.use = use]
<1>3. Columns!Put(t, x)
  BY <1>12
<1>4. x \in CallRecord
  <2>1. "unlock" \in BatchSteps
    BY DEF BatchSteps
  <2> QED
    BY <1>0, <1>13, <2>1 DEF CallRecord
<1>5. /\ x.at = "unlock" /\ x.column = b.column /\ x.entered = b.entered
      /\ x.use = use /\ x.next = b.next /\ x.outs = b.outs
      /\ x.ran = b.ran /\ x.began = b.began /\ x.native = b.native
      /\ x.dictionary = b.dictionary /\ x.rows = b.rows
  BY <1>0 DEF CallRecord
<1> HIDE DEF x
<1>6. CallOk(home[t], drift, x)
  BY <1>0, <1>1, <1>5, <1>13 DEF CallOk, Untouched
<1>7. executor' \in [{1, 2} -> Executors] /\ unavailable' \in [{1, 2} -> 0..2]
  BY <1>0, <1>12, <1>13 DEF BatchTypes
<1>8. \A u \in BatchThreads : batch'[u] = IF u = t THEN x ELSE batch[u]
  BY <1>0, <1>3 DEF BatchTypes, Columns!Put
<1>9. /\ \A q \in {1, 2} : q # p => executor'[q] = executor[q] /\ unavailable'[q] = unavailable[q]
      /\ executor'[p].owner = p \/ (executor'[p].owner = 0 /\ unavailable'[p] = p)
  <2>1. /\ executor \in [{1, 2} -> Executors] /\ unavailable \in [{1, 2} -> 0..2]
        /\ p \in {1, 2} /\ b.use.owner = p /\ executor[p].owner = 0
    BY <1>0, <1>1 DEF BatchTypes
  <2> QED
    BY <1>12, <2>1
<1>14. buildLock[p] = t /\ \A u \in BatchThreads \ {t} :
         batch[u].at = "build" => home[u] # p
  BY <1>0, <1>1 DEF BatchBuilds
<1>15. home \in [BatchThreads -> {1, 2}]
  BY <1>0 DEF BatchTypes
<1>10. BatchBuilds'
  <2>1. executor'[1].owner # 2
    BY <1>0, <1>9 DEF BatchBuilds
  <2>2. ~forked' => /\ builds'[2] = 0 /\ buildLock'[2] = "nobody"
                    /\ \A u \in BatchThreads : home'[u] = 2 => batch'[u].at = "idle"
    BY <1>0, <1>1, <1>2, <1>8, <1>11 DEF BatchBuilds
  <2>3. \A q \in {1, 2} :
          /\ builds'[q] = 1 => \/ executor'[q].owner = q
                               \/ executor'[q].owner = 0 /\ unavailable'[q] = q
          /\ buildLock'[q] # "nobody" => home'[buildLock'[q]] = q
    BY <1>0, <1>1, <1>9, <1>11 DEF BatchBuilds
  <2>4. \A u \in BatchThreads :
          batch'[u].at \in {"look", "build", "unlock"} => buildLock'[home'[u]] = u
    BY <1>0, <1>1, <1>8, <1>14 DEF BatchBuilds
  <2>5. \A u \in BatchThreads :
          batch'[u].at = "build" => builds'[home'[u]] = 0 /\ executor'[home'[u]].owner = 0
    BY <1>0, <1>1, <1>5, <1>8, <1>9, <1>11, <1>14, <1>15 DEF BatchBuilds
  <2> QED
    BY <2>1, <2>2, <2>3, <2>4, <2>5 DEF BatchBuilds
<1> QED
  BY <1>0, <1>1, <1>3, <1>4, <1>6, <1>7, <1>10, <1>11, ProcessStep DEF BatchTypes

LEMMA BatchUnlock ==
  ASSUME Columns!ColumnsAssumption, BatchInv, NEW t \in BatchThreads, Columns!Unlock(t)
  PROVE  BatchInv'
<1>0. /\ BatchTypes /\ BatchCalls /\ BatchBuilds
      /\ batch[t] \in CallRecord /\ CallOk(home[t], drift, batch[t]) /\ home[t] \in {1, 2}
      /\ drift \in Nat /\ MaxDrifts \in Nat /\ MaxBatches \in Nat
  BY DEF BatchInv, BatchTypes, BatchCalls, Columns!ColumnsAssumption
<1> DEFINE b == batch[t]
           use == IF Columns!Guarded(b.use) THEN b.use ELSE Columns!NoExecutor
           x == [b EXCEPT !.at = "count", !.use = use]
<1>1. /\ b.at = "unlock" /\ Columns!Put(t, x)
      /\ buildLock' = [buildLock EXCEPT ![home[t]] = "nobody"]
      /\ home' = home /\ forked' = forked /\ drift' = drift /\ executor' = executor
      /\ unavailable' = unavailable /\ builds' = builds
  BY DEF Columns!Unlock, Columns!At, Columns!Nobody
<1>2. home[t] = 1 \/ forked
  BY <1>1, CallsHome
<1>3. Columns!Put(t, x)
  BY <1>1
<1>9. use \in Executors /\ use.owner \in {0, home[t]}
  BY <1>0 DEF CallRecord, CallOk, Columns!NoExecutor, Executors
<1> HIDE DEF use
<1>4. x \in CallRecord
  <2>1. "count" \in BatchSteps
    BY DEF BatchSteps
  <2> QED
    BY <1>0, <1>9, <2>1 DEF CallRecord
<1>5. /\ x.at = "count" /\ x.column = b.column /\ x.entered = b.entered
      /\ x.use = use /\ x.next = b.next /\ x.outs = b.outs
      /\ x.ran = b.ran /\ x.began = b.began /\ x.native = b.native
      /\ x.dictionary = b.dictionary /\ x.rows = b.rows
  BY <1>0, <1>9 DEF CallRecord
<1> HIDE DEF x
<1>6. CallOk(home[t], drift, x)
  BY <1>0, <1>1, <1>5, <1>9 DEF CallOk, Untouched
<1>7. buildLock' \in [{1, 2} -> BatchThreads \cup {"nobody"}]
  BY <1>0, <1>1 DEF BatchTypes
<1>8. \A u \in BatchThreads : batch'[u] = IF u = t THEN x ELSE batch[u]
  BY <1>0, <1>3 DEF BatchTypes, Columns!Put
<1>10. BatchBuilds'
  BY <1>0, <1>1, <1>2, <1>5, <1>7, <1>8 DEF BatchBuilds, BatchTypes
<1> QED
  BY <1>0, <1>1, <1>3, <1>4, <1>6, <1>7, <1>10, ProcessStep DEF BatchTypes

LEMMA BatchFork ==
  ASSUME BatchInv, Columns!Fork
  PROVE  BatchInv'
<1>0. BatchTypes /\ BatchCalls /\ BatchBuilds
  BY DEF BatchInv
<1>1. /\ ~forked /\ forked' = TRUE /\ executor' = [executor EXCEPT ![2] = executor[1]]
      /\ unavailable' = [unavailable EXCEPT ![2] = unavailable[1]]
      /\ buildLock' = [buildLock EXCEPT ![2] = "nobody"]
      /\ home' = home /\ drift' = drift /\ builds' = builds /\ batch' = batch
  BY DEF Columns!Fork, Columns!Nobody
<1>2. BatchTypes'
  <2>1. forked' \in BOOLEAN
    BY <1>1, Zenon
  <2>2. /\ executor' \in [{1, 2} -> Executors] /\ unavailable' \in [{1, 2} -> 0..2]
        /\ buildLock' \in [{1, 2} -> BatchThreads \cup {"nobody"}]
    BY <1>0, <1>1 DEF BatchTypes
  <2> QED
    BY <1>0, <1>1, <2>1, <2>2 DEF BatchTypes
<1>3. BatchCalls'
  BY <1>0, <1>1 DEF BatchCalls
<1>4. BatchBuilds'
  BY <1>0, <1>1 DEF BatchBuilds, BatchTypes
<1> QED
  BY <1>2, <1>3, <1>4 DEF BatchInv

LEMMA BatchDrift ==
  ASSUME Columns!ColumnsAssumption, BatchInv, Columns!Drift
  PROVE  BatchInv'
<1>0. BatchTypes /\ BatchCalls /\ BatchBuilds /\ MaxDrifts \in Nat
  BY DEF BatchInv, Columns!ColumnsAssumption
<1>1. /\ drift < MaxDrifts /\ drift' = drift + 1 /\ forked' = forked /\ executor' = executor
      /\ unavailable' = unavailable /\ buildLock' = buildLock
      /\ home' = home /\ builds' = builds /\ batch' = batch
  BY DEF Columns!Drift
<1>2. drift \in Nat /\ drift' \in 0..MaxDrifts /\ drift' \in Nat /\ drift <= drift'
  BY <1>0, <1>1 DEF BatchTypes
<1>3. BatchTypes'
  BY <1>0, <1>1, <1>2 DEF BatchTypes
<1>4. BatchCalls'
  <2> SUFFICES ASSUME NEW t \in BatchThreads PROVE CallOk(home[t], drift', batch[t])
    BY <1>1 DEF BatchCalls
  <2>1. batch[t] \in CallRecord /\ CallOk(home[t], drift, batch[t])
    BY <1>0 DEF BatchTypes, BatchCalls
  <2> QED
    BY <2>1, <1>2, CallLater
<1>5. BatchBuilds'
  BY <1>0, <1>1 DEF BatchBuilds
<1> QED
  BY <1>3, <1>4, <1>5 DEF BatchInv

LEMMA BatchesNext ==
  ASSUME Columns!ColumnsAssumption, BatchInv, Columns!Next \/ UNCHANGED batchesVars
  PROVE  BatchInv'
<1>1. CASE UNCHANGED batchesVars
  BY <1>1 DEF BatchInv, BatchTypes, BatchCalls, BatchBuilds, batchesVars
<1>2. CASE Columns!Next
  BY <1>2, BatchFork, BatchDrift, BatchCall, BatchResolve, BatchLock, BatchLook, BatchBuild,
     BatchUnlock, BatchCount, BatchDictionary, BatchRunDistinct, BatchLoad, BatchRow,
     BatchPublish, BatchRecover, BatchReturn
     DEF Columns!Next
<1> QED
  BY <1>1, <1>2

LEMMA BatchesSafe ==
  ASSUME Columns!ColumnsAssumption, BatchInv
  PROVE  /\ Columns!TypeOK /\ Columns!NoRowReplayed /\ Columns!PublishedIsWhole
         /\ Columns!BuiltOnceHere /\ Columns!CountedOnce
<1>0. BatchTypes /\ BatchCalls /\ BatchBuilds
  BY DEF BatchInv
<1>1. Columns!TypeOK
  BY <1>0 DEF Columns!TypeOK, BatchTypes, BatchCalls, CallOk, BatchBuilds, Columns!Nobody
<1>2. Columns!NoRowReplayed
  BY <1>0 DEF Columns!NoRowReplayed, BatchCalls, CallOk
<1>3. Columns!PublishedIsWhole
  <2> SUFFICES ASSUME NEW t \in BatchThreads, batch[t].at = "published"
               PROVE  /\ [i \in DOMAIN batch[t].outs |-> batch[t].outs[i][1]] = batch[t].column
                      /\ \A i \in DOMAIN batch[t].outs : batch[t].outs[i][2] \in batch[t].began..drift
    BY DEF Columns!PublishedIsWhole, Columns!At
  <2> DEFINE x == batch[t]
  <2>1. x \in CallRecord /\ RowsOut(x, drift, Len(x.column)) /\ drift \in Nat
    BY <1>0 DEF BatchTypes, BatchCalls, CallOk, Columns!ColumnsAssumption
  <2>2. x.column \in BatchColumns /\ x.outs \in Seq(BatchOuts) /\ x.began \in Nat
    BY <2>1 DEF CallRecord
  <2>3. Len(x.column) \in Nat /\ DOMAIN x.column = 1..Len(x.column)
        /\ x.column \in Seq(Columns!ToSet(x.column))
    BY <2>2, ColumnIsSeq
  <2>4. DOMAIN x.outs = 1..Len(x.column)
    BY <2>1, <2>2 DEF RowsOut
  <2>5. \A i \in 1..Len(x.column) : x.outs[i][2] \in Nat
    BY <2>2, <2>4 DEF BatchOuts
  <2>6. \A i \in DOMAIN x.outs : x.outs[i][2] \in x.began..drift
    BY <2>1, <2>2, <2>4, <2>5 DEF RowsOut, Current
  <2>7. [i \in DOMAIN x.outs |-> x.outs[i][1]] = [i \in 1..Len(x.column) |-> x.column[i]]
    BY <2>1, <2>4 DEF RowsOut
  <2>8. x.column = [i \in 1..Len(x.column) |-> x.column[i]]
    BY <2>3
  <2> QED
    BY <2>6, <2>7, <2>8
<1>4. Columns!BuiltOnceHere
  BY <1>0 DEF Columns!BuiltOnceHere, BatchTypes, BatchCalls, CallOk
<1>5. Columns!CountedOnce
  BY <1>0 DEF Columns!CountedOnce, BatchCalls, CallOk, CountedAs, Columns!At
<1> QED
  BY <1>1, <1>2, <1>3, <1>4, <1>5

-----------------------------------------------------------------------------
(* Call frames.  Which of the exclusive states a frame's publication is in: a  *)
(* value is staged before it is delivered, delivered once, and an abort closes *)
(* the frame.                                                                  *)
FramesTypes ==
  /\ frame \in [Frames -> {"unused", "opening", "open", "closing", "closed", "failed"}]
  /\ staged \in [Frames -> Values \cup {Output!Unset}]
  /\ published \in [Frames -> Values \cup {Output!Unset}]
  /\ aborted \in [Frames -> BOOLEAN] /\ frameDelivered \in [Frames -> 0..2]
  /\ frameActive \subseteq Frames /\ frameClosed \in BOOLEAN
IdsHeld ==
  /\ frameActive = {f \in Frames : frame[f] \in {"opening", "open", "closing"}}
  /\ frameClosed => \A f \in Frames : frame[f] \in {"unused", "closed", "failed"}
Publications ==
  \A f \in Frames :
    /\ frameDelivered[f] = IF published[f] = Output!Unset THEN 0 ELSE 1
    /\ staged[f] \notin Unfit /\ published[f] \notin Unfit
    /\ aborted[f] => published[f] = Output!Unset /\ staged[f] = Output!Unset /\ frame[f] = "closed"
    /\ frame[f] = "closed" => aborted[f] \/ published[f] # Output!Unset

FramesInv == FramesTypes /\ IdsHeld /\ Publications

LEMMA FramesInit == ASSUME Output!OutputAssumption, Output!Init PROVE FramesInv
<1>1. FramesTypes
  <2>1. /\ frame \in [Frames -> {"unused", "opening", "open", "closing", "closed", "failed"}]
        /\ aborted \in [Frames -> BOOLEAN] /\ frameDelivered \in [Frames -> 0..2]
    BY DEF Output!Init
  <2>2. staged \in [Frames -> Values \cup {Output!Unset}] /\ published \in [Frames -> Values \cup {Output!Unset}]
    BY DEF Output!Init
  <2> QED
    BY <2>1, <2>2 DEF Output!Init, FramesTypes
<1>2. IdsHeld
  BY DEF Output!Init, IdsHeld
<1>3. Publications
  BY DEF Output!Init, Publications, Output!OutputAssumption
<1> QED
  BY <1>1, <1>2, <1>3 DEF FramesInv

LEMMA FramesNext == ASSUME Output!OutputAssumption, FramesInv, Output!Next \/ UNCHANGED Output!vars PROVE FramesInv'
<1> USE DEF Output!OutputAssumption, FramesInv, FramesTypes, IdsHeld, Publications,
            Output!Open, Output!publication
<1>1. ASSUME NEW f \in Frames, Output!OpenCall(f) PROVE FramesInv'
  BY <1>1 DEF Output!OpenCall
<1>2. ASSUME NEW f \in Frames, Output!OpenFails(f) PROVE FramesInv'
  BY <1>2 DEF Output!OpenFails
<1>3. ASSUME NEW f \in Frames, Output!Opened(f) PROVE FramesInv'
  BY <1>3 DEF Output!Opened
<1>4. ASSUME NEW f \in Frames, NEW v \in Values, Output!Stage(f, v) PROVE FramesInv'
  BY <1>4 DEF Output!Stage
<1>5. ASSUME NEW f \in Frames, Output!Publish(f) PROVE FramesInv'
  BY <1>5 DEF Output!Publish
<1>6. ASSUME NEW f \in Frames, Output!CloseBegins(f) PROVE FramesInv'
  BY <1>6 DEF Output!CloseBegins
<1>7. ASSUME NEW f \in Frames, Output!CloseAborts(f) PROVE FramesInv'
  <2>1. FramesTypes'
    BY <1>7 DEF Output!CloseAborts
  <2>2. /\ frameActive' = {g \in Frames : frame'[g] \in {"opening", "open", "closing"}}
        /\ frameClosed' => \A g \in Frames : frame'[g] \in {"unused", "closed", "failed"}
    BY <1>7 DEF Output!CloseAborts
  <2>3. Publications'
    BY <1>7 DEF Output!CloseAborts
  <2> QED
    BY <2>1, <2>2, <2>3
<1>8. CASE Output!Close \/ UNCHANGED Output!vars
  <2>1. FramesTypes'
    BY <1>8 DEF Output!Close, Output!vars
  <2>2. /\ frameActive' = {g \in Frames : frame'[g] \in {"opening", "open", "closing"}}
        /\ frameClosed' => \A g \in Frames : frame'[g] \in {"unused", "closed", "failed"}
    BY <1>8 DEF Output!Close, Output!vars
  <2>3. Publications'
    BY <1>8 DEF Output!Close, Output!vars
  <2> QED
    BY <2>1, <2>2, <2>3
<1> QED
  BY <1>1, <1>2, <1>3, <1>4, <1>5, <1>6, <1>7, <1>8 DEF Output!Next

LEMMA FramesAlways == ASSUME Output!OutputAssumption PROVE Output!Spec => []FramesInv
<1>1. Output!Init => FramesInv
  BY FramesInit
<1>2. FramesInv /\ [Output!Next]_(Output!vars) => FramesInv'
  BY FramesNext
<1> QED
  BY <1>1, <1>2, PTL DEF Output!Spec

LEMMA FramesFacts ==
  ASSUME FramesInv
  PROVE  Output!TypeOK /\ Output!IdsBelongToFrames /\ Output!OneValuePublished
<1>1. Output!TypeOK
  BY DEF FramesInv, FramesTypes, Output!TypeOK
<1>2. Output!IdsBelongToFrames
  <2>1. Output!Open \cup {"opening"} = {"opening", "open", "closing"}
    BY DEF Output!Open
  <2> QED
    BY <2>1 DEF FramesInv, IdsHeld, Output!IdsBelongToFrames
<1>3. Output!OneValuePublished
  BY DEF FramesInv, FramesTypes, Publications, Output!OneValuePublished
<1> QED
  BY <1>1, <1>2, <1>3

(* The ids held are those of the frames in use, although opening may fail and a *)
(* publication may overtake a close (physicalize.py:134-150, 252-286).          *)
THEOREM IdsAreGivenBack ==
  ASSUME Output!OutputAssumption PROVE Output!Spec => []Output!IdsBelongToFrames
BY FramesFacts, FramesAlways, PTL

(* A frame delivers one valid value or is aborted, never both, whichever thread *)
(* publishes while its owner closes it (ownership.py:50-86).                    *)
THEOREM PublishedOrAborted ==
  ASSUME Output!OutputAssumption PROVE Output!Spec => []Output!OneValuePublished
BY FramesFacts, FramesAlways, PTL

-----------------------------------------------------------------------------
(* The adapter: how often a row runs, and which code runs it, for any number    *)
(* of threads that share it without a lock.                                     *)

(* What a call has done when it is about to take a step: before the guard  *)
(* and the lease nothing ran, a fallback found that the variant did not    *)
(* commit, and who is done was answered.                                   *)
InvokeAccounts ==
    \A t \in Threads :
        /\ Invoke!At(t, {"idle", "load", "identify", "assume", "bind_artifact",
                  "bind_assumption", "bind_key", "guard", "acquire", "resolve",
                  "reacquire", "execute", "fallback_in_try", "fallback_leased"})
               => invokeThread[t].ran = 0 /\ invokeThread[t].raised = 0
        /\ ~Invoke!At(t, {"execute", "release", "answered"}) => ~invokeThread[t].committed
        /\ Invoke!At(t, {"fallback"}) => invokeThread[t].raised = invokeThread[t].ran /\ invokeThread[t].ran \in 0..1
        /\ Invoke!At(t, {"release", "answered"}) /\ invokeThread[t].committed => invokeThread[t].ran = 0
        /\ Invoke!At(t, {"release", "answered"}) /\ ~invokeThread[t].committed
               => /\ invokeThread[t].ran \in 1..2
                  /\ invokeThread[t].ran = 2 => invokeThread[t].raised >= 1
        /\ Invoke!At(t, {"release"}) => invokeThread[t].ran \in 0..1
        /\ invokeThread[t].raised <= invokeThread[t].ran

(* The phase of the guarded call belongs to the thread that executes.      *)
InvokePhases ==
    \A t \in Threads :
        /\ phase[t] # "out" => Invoke!At(t, {"execute"})
        /\ phase[t] \in {"pre_commit", "refused"} => ~invokeThread[t].committed
        /\ phase[t] \in {"committed", "suffix_claimed", "returned", "raised"}
               => invokeThread[t].committed

(* The fields are bound one after the other, and none is taken back.       *)
InvokeBindings ==
    /\ binding.key => binding.artifact /\ binding.assumption # Invoke!None
    /\ \A t \in Threads :
        /\ Invoke!At(t, {"bind_artifact", "bind_assumption"}) => invokeThread[t].assumed # Invoke!None
        /\ Invoke!At(t, {"bind_assumption", "bind_key"}) => binding.artifact
        /\ Invoke!At(t, {"bind_key"}) => binding.assumption # Invoke!None
        /\ Invoke!At(t, {"guard"}) => binding.key

(* Unless the user's replacement races the binding, only the captured code *)
(* is ever assumed, and a call that passed the guard compared it.          *)
InvokeAssumptions ==
    /\ binding.assumption \in {Captured, Invoke!None}
    /\ \A t \in Threads :
        /\ Invoke!At(t, {"assume"}) => invokeCode = Captured
        /\ invokeThread[t].assumed \in {Captured, Invoke!None}
        /\ Invoke!At(t, {"acquire", "resolve", "reacquire", "execute"})
               => invokeThread[t].guarded = Captured

InvokeInductive == Invoke!TypeOK /\ InvokeAccounts /\ InvokePhases /\ InvokeBindings

-----------------------------------------------------------------------------
LEMMA InvokeInit == ASSUME Invoke!InvokeAssumption, Invoke!Init PROVE InvokeInductive
  BY DEF Invoke!Init, InvokeInductive, Invoke!TypeOK, InvokeAccounts, InvokePhases, InvokeBindings, Invoke!Idle, Invoke!Unbound, Invoke!At,
         Invoke!InvokeAssumption, Invoke!Codes, Invoke!Steps, Invoke!GuardedCallInit, Invoke!None

(* What VariantRuns notes of the call. *)
LEMMA VariantCommits ==
    ASSUME NEW t \in Threads, Invoke!VariantRuns(t)
    PROVE  \E b \in BOOLEAN : invokeThread' = [invokeThread EXCEPT ![t].committed = b]
<1>1. (invokeThread[t].committed \/ phase'[t] = "committed") \in BOOLEAN
  BY Zenon
<1> QED
  BY <1>1, Zenon DEF Invoke!VariantRuns

LEMMA InvokeTypes == ASSUME Invoke!InvokeAssumption, InvokeInductive, [Invoke!Next]_(Invoke!vars) PROVE Invoke!TypeOK'
<1> DEFINE Calls == [at : Invoke!Steps, assumed : Invoke!Codes \cup {Invoke!None}, guarded : Invoke!Codes \cup {Invoke!None},
                     ran : 0..2, raised : 0..2, committed : BOOLEAN]
<1> USE DEF InvokeInductive, Invoke!TypeOK, Invoke!At, Invoke!Goto, Invoke!Codes, Invoke!Steps, Invoke!None
<1>1. ASSUME NEW t \in Threads, Invoke!Begin(t) \/ Invoke!Load(t) \/ Invoke!Identify(t) PROVE Invoke!TypeOK'
  BY <1>1 DEF Invoke!Begin, Invoke!Load, Invoke!Identify
<1>2. ASSUME NEW t \in Threads, Invoke!Assume(t) PROVE Invoke!TypeOK'
  BY <1>2 DEF Invoke!Assume
<1>3. ASSUME NEW t \in Threads, Invoke!Bind(t) PROVE Invoke!TypeOK'
  <2>1. CASE Invoke!At(t, {"bind_artifact"})
    <3>1. binding' = [binding EXCEPT !.artifact = TRUE] /\ Invoke!Goto(t, "bind_assumption")
      BY <1>3, <2>1 DEF Invoke!Bind
    <3>2. binding' \in [artifact : BOOLEAN, assumption : Invoke!Codes \cup {Invoke!None}, key : BOOLEAN]
      BY <3>1
    <3>3. invokeThread' \in [Threads -> Calls]
      BY <3>1
    <3> QED
      BY <1>3, <3>2, <3>3 DEF Invoke!Bind
  <2>2. CASE Invoke!At(t, {"bind_assumption"})
    <3>1. /\ binding' = [binding EXCEPT !.assumption = invokeThread[t].assumed]
          /\ Invoke!Goto(t, "bind_key")
      BY <1>3, <2>2 DEF Invoke!Bind
    <3>2. invokeThread[t].assumed \in Invoke!Codes \cup {Invoke!None}
      OBVIOUS
    <3>3. binding' \in [artifact : BOOLEAN, assumption : Invoke!Codes \cup {Invoke!None}, key : BOOLEAN]
      BY <3>1, <3>2
    <3>4. invokeThread' \in [Threads -> Calls]
      BY <3>1
    <3> QED
      BY <1>3, <3>3, <3>4 DEF Invoke!Bind
  <2>3. CASE Invoke!At(t, {"bind_key"})
    <3>1. binding' = [binding EXCEPT !.key = TRUE] /\ Invoke!Goto(t, "guard")
      BY <1>3, <2>3 DEF Invoke!Bind
    <3>2. binding' \in [artifact : BOOLEAN, assumption : Invoke!Codes \cup {Invoke!None}, key : BOOLEAN]
      BY <3>1
    <3>3. invokeThread' \in [Threads -> Calls]
      BY <3>1
    <3> QED
      BY <1>3, <3>2, <3>3 DEF Invoke!Bind
  <2> QED
    BY <1>3, <2>1, <2>2, <2>3 DEF Invoke!Bind
<1>4. ASSUME NEW t \in Threads, Invoke!Guard(t) PROVE Invoke!TypeOK'
  BY <1>4, SMTT(30) DEF Invoke!Guard
<1>5. ASSUME NEW t \in Threads, Invoke!Acquire(t) \/ Invoke!Resolve(t) PROVE Invoke!TypeOK'
  BY <1>5 DEF Invoke!Acquire, Invoke!Resolve, Invoke!Enter, Invoke!Moves
<1>6. ASSUME NEW t \in Threads, NEW raises \in BOOLEAN, Invoke!Original(t, raises) PROVE Invoke!TypeOK'
  BY <1>6 DEF Invoke!Original, Invoke!AfterOriginal, InvokeAccounts
<1>7. ASSUME NEW t \in Threads, Invoke!VariantRuns(t) PROVE Invoke!TypeOK'
  <2>1. phase' \in [Threads -> {"out", "pre_commit", "committed", "suffix_claimed",
                                "refused", "returned", "raised"}]
    BY <1>7 DEF Invoke!VariantRuns, Invoke!Refuse, Invoke!Commit, Invoke!ClaimSuffix, Invoke!Return, Invoke!Raise, Invoke!Moves
  <2>2. PICK b \in BOOLEAN : invokeThread' = [invokeThread EXCEPT ![t].committed = b]
    BY <1>7, VariantCommits, Zenon
  <2>3. invokeThread' \in [Threads -> Calls]
    BY <2>2, SMTT(30)
  <2> QED
    BY <1>7, <2>1, <2>3 DEF Invoke!VariantRuns
<1>8. ASSUME NEW t \in Threads, Invoke!VariantEnds(t) \/ Invoke!Release(t) PROVE Invoke!TypeOK'
  BY <1>8 DEF Invoke!VariantEnds, Invoke!Leave, Invoke!Moves, Invoke!Release
<1>9. ASSUME NEW t \in Threads, Invoke!Answer(t) PROVE Invoke!TypeOK'
  BY <1>9 DEF Invoke!Answer, Invoke!Idle
<1>10. ASSUME Invoke!ManagerStep \/ Invoke!Redefine \/ UNCHANGED Invoke!vars PROVE Invoke!TypeOK'
  BY <1>10 DEF Invoke!ManagerStep, Invoke!Redefine, Invoke!vars, Invoke!InvokeAssumption
<1> QED
  BY <1>1, <1>2, <1>3, <1>4, <1>5, <1>6, <1>7, <1>8, <1>9, <1>10 DEF Invoke!Next, Invoke!Call

LEMMA InvokeAccountsKept ==
    ASSUME Invoke!InvokeAssumption, InvokeInductive, [Invoke!Next]_(Invoke!vars)
    PROVE  InvokeAccounts'
<1> USE DEF InvokeInductive, Invoke!TypeOK, Invoke!At, Invoke!Goto, Invoke!Codes, Invoke!Steps, Invoke!None, InvokeAccounts, InvokePhases
<1>1. ASSUME NEW t \in Threads, Invoke!Begin(t) PROVE InvokeAccounts'
  BY <1>1 DEF Invoke!Begin
<1>2. ASSUME NEW t \in Threads, Invoke!Load(t) PROVE InvokeAccounts'
  BY <1>2 DEF Invoke!Load
<1>3. ASSUME NEW t \in Threads, Invoke!Identify(t) PROVE InvokeAccounts'
  BY <1>3 DEF Invoke!Identify
<1>4. ASSUME NEW t \in Threads, Invoke!Assume(t) PROVE InvokeAccounts'
  BY <1>4 DEF Invoke!Assume
<1>5. ASSUME NEW t \in Threads, Invoke!Bind(t) PROVE InvokeAccounts'
  BY <1>5 DEF Invoke!Bind
<1>6. ASSUME NEW t \in Threads, Invoke!Guard(t) PROVE InvokeAccounts'
  BY <1>6 DEF Invoke!Guard
<1>7. ASSUME NEW t \in Threads, Invoke!Acquire(t) PROVE InvokeAccounts'
  BY <1>7 DEF Invoke!Acquire, Invoke!Enter, Invoke!Moves
<1>8. ASSUME NEW t \in Threads, Invoke!Resolve(t) PROVE InvokeAccounts'
  BY <1>8 DEF Invoke!Resolve
<1>9. ASSUME NEW t \in Threads, NEW raises \in BOOLEAN, Invoke!Original(t, raises) PROVE InvokeAccounts'
  <2>1. /\ invokeThread[t].ran \in Nat /\ invokeThread[t].raised \in Nat /\ ~invokeThread[t].committed
        /\ \A u \in Threads \ {t} : invokeThread'[u] = invokeThread[u]
        /\ invokeThread'[t].at = Invoke!AfterOriginal(t, raises)
        /\ invokeThread'[t].ran = invokeThread[t].ran + 1
        /\ invokeThread'[t].raised = (IF raises THEN invokeThread[t].raised + 1 ELSE invokeThread[t].raised)
        /\ invokeThread'[t].committed = invokeThread[t].committed
    BY <1>9 DEF Invoke!Original
  <2>2. CASE Invoke!At(t, {"fallback"})
    BY <2>1, <2>2 DEF Invoke!AfterOriginal
  <2>3. CASE Invoke!At(t, {"fallback_in_try"})
    BY <2>1, <2>3 DEF Invoke!AfterOriginal
  <2>4. CASE Invoke!At(t, {"fallback_leased"})
    BY <2>1, <2>4 DEF Invoke!AfterOriginal
  <2> QED
    BY <1>9, <2>2, <2>3, <2>4 DEF Invoke!Original
<1>10. ASSUME NEW t \in Threads, Invoke!VariantRuns(t) PROVE InvokeAccounts'
  <2>1. invokeThread' = [invokeThread EXCEPT ![t].committed = invokeThread[t].committed \/ phase'[t] = "committed"]
    BY <1>10 DEF Invoke!VariantRuns
  <2>2. PICK b \in BOOLEAN : invokeThread' = [invokeThread EXCEPT ![t].committed = b]
    BY <1>10, VariantCommits, Zenon
  <2> QED
    BY <1>10, <2>1, <2>2 DEF Invoke!VariantRuns, Invoke!Refuse, Invoke!Commit, Invoke!ClaimSuffix, Invoke!Return, Invoke!Raise, Invoke!Moves
<1>11. ASSUME NEW t \in Threads, Invoke!VariantEnds(t) PROVE InvokeAccounts'
  BY <1>11 DEF Invoke!VariantEnds, Invoke!Leave, Invoke!Moves
<1>12. ASSUME NEW t \in Threads, Invoke!Release(t) PROVE InvokeAccounts'
  BY <1>12 DEF Invoke!Release
<1>13. ASSUME NEW t \in Threads, Invoke!Answer(t) PROVE InvokeAccounts'
  BY <1>13 DEF Invoke!Answer, Invoke!Idle
<1>14. ASSUME Invoke!ManagerStep \/ Invoke!Redefine \/ UNCHANGED Invoke!vars PROVE InvokeAccounts'
  BY <1>14 DEF Invoke!ManagerStep, Invoke!Redefine, Invoke!Binding, Invoke!vars
<1> QED
  BY <1>1, <1>2, <1>3, <1>4, <1>5, <1>6, <1>7, <1>8, <1>9, <1>10, <1>11, <1>12, <1>13, <1>14 DEF Invoke!Next, Invoke!Call

LEMMA InvokePhasesKept ==
    ASSUME Invoke!InvokeAssumption, InvokeInductive, [Invoke!Next]_(Invoke!vars)
    PROVE  InvokePhases'
<1> USE DEF InvokeInductive, Invoke!TypeOK, Invoke!At, Invoke!Goto, Invoke!Codes, Invoke!Steps, Invoke!None, InvokeAccounts, InvokePhases
<1>1. ASSUME NEW t \in Threads, Invoke!Begin(t) PROVE InvokePhases'
  BY <1>1 DEF Invoke!Begin
<1>2. ASSUME NEW t \in Threads, Invoke!Load(t) PROVE InvokePhases'
  BY <1>2 DEF Invoke!Load
<1>3. ASSUME NEW t \in Threads, Invoke!Identify(t) PROVE InvokePhases'
  BY <1>3 DEF Invoke!Identify
<1>4. ASSUME NEW t \in Threads, Invoke!Assume(t) PROVE InvokePhases'
  BY <1>4 DEF Invoke!Assume
<1>5. ASSUME NEW t \in Threads, Invoke!Bind(t) PROVE InvokePhases'
  BY <1>5 DEF Invoke!Bind
<1>6. ASSUME NEW t \in Threads, Invoke!Guard(t) PROVE InvokePhases'
  BY <1>6 DEF Invoke!Guard
<1>7. ASSUME NEW t \in Threads, Invoke!Acquire(t) PROVE InvokePhases'
  BY <1>7 DEF Invoke!Acquire, Invoke!Enter, Invoke!Moves
<1>8. ASSUME NEW t \in Threads, Invoke!Resolve(t) PROVE InvokePhases'
  BY <1>8 DEF Invoke!Resolve
<1>9. ASSUME NEW t \in Threads, NEW raises \in BOOLEAN, Invoke!Original(t, raises) PROVE InvokePhases'
  BY <1>9 DEF Invoke!Original, Invoke!AfterOriginal
<1>10. ASSUME NEW t \in Threads, Invoke!VariantRuns(t) PROVE InvokePhases'
  <2>1. invokeThread' = [invokeThread EXCEPT ![t].committed = invokeThread[t].committed \/ phase'[t] = "committed"]
    BY <1>10 DEF Invoke!VariantRuns
  <2>2. PICK b \in BOOLEAN : invokeThread' = [invokeThread EXCEPT ![t].committed = b]
    BY <1>10, VariantCommits, Zenon
  <2> QED
    BY <1>10, <2>1, <2>2 DEF Invoke!VariantRuns, Invoke!Refuse, Invoke!Commit, Invoke!ClaimSuffix, Invoke!Return, Invoke!Raise, Invoke!Moves
<1>11. ASSUME NEW t \in Threads, Invoke!VariantEnds(t) PROVE InvokePhases'
  BY <1>11 DEF Invoke!VariantEnds, Invoke!Leave, Invoke!Moves
<1>12. ASSUME NEW t \in Threads, Invoke!Release(t) PROVE InvokePhases'
  BY <1>12 DEF Invoke!Release
<1>13. ASSUME NEW t \in Threads, Invoke!Answer(t) PROVE InvokePhases'
  BY <1>13 DEF Invoke!Answer, Invoke!Idle
<1>14. ASSUME Invoke!ManagerStep \/ Invoke!Redefine \/ UNCHANGED Invoke!vars PROVE InvokePhases'
  BY <1>14 DEF Invoke!ManagerStep, Invoke!Redefine, Invoke!Binding, Invoke!vars
<1> QED
  BY <1>1, <1>2, <1>3, <1>4, <1>5, <1>6, <1>7, <1>8, <1>9, <1>10, <1>11, <1>12, <1>13, <1>14 DEF Invoke!Next, Invoke!Call

LEMMA InvokeBindingsKept ==
    ASSUME Invoke!InvokeAssumption, InvokeInductive, [Invoke!Next]_(Invoke!vars)
    PROVE  InvokeBindings'
<1> USE DEF InvokeInductive, Invoke!TypeOK, Invoke!At, Invoke!Goto, Invoke!Codes, Invoke!Steps, Invoke!None, InvokeBindings, Invoke!InvokeAssumption
<1>1. ASSUME NEW t \in Threads, Invoke!Begin(t) PROVE InvokeBindings'
  BY <1>1 DEF Invoke!Begin
<1>2. ASSUME NEW t \in Threads, Invoke!Load(t) PROVE InvokeBindings'
  BY <1>2 DEF Invoke!Load
<1>3. ASSUME NEW t \in Threads, Invoke!Identify(t) PROVE InvokeBindings'
  BY <1>3 DEF Invoke!Identify
<1>4. ASSUME NEW t \in Threads, Invoke!Assume(t) PROVE InvokeBindings'
  BY <1>4 DEF Invoke!Assume
<1>5. ASSUME NEW t \in Threads, Invoke!Bind(t) PROVE InvokeBindings'
  BY <1>5 DEF Invoke!Bind
<1>6. ASSUME NEW t \in Threads, Invoke!Guard(t) PROVE InvokeBindings'
  BY <1>6 DEF Invoke!Guard
<1>7. ASSUME NEW t \in Threads, Invoke!Acquire(t) PROVE InvokeBindings'
  BY <1>7 DEF Invoke!Acquire, Invoke!Enter, Invoke!Moves
<1>8. ASSUME NEW t \in Threads, Invoke!Resolve(t) PROVE InvokeBindings'
  BY <1>8 DEF Invoke!Resolve
<1>9. ASSUME NEW t \in Threads, NEW raises \in BOOLEAN, Invoke!Original(t, raises) PROVE InvokeBindings'
  BY <1>9 DEF Invoke!Original, Invoke!AfterOriginal
<1>10. ASSUME NEW t \in Threads, Invoke!VariantRuns(t) PROVE InvokeBindings'
  <2>1. invokeThread' = [invokeThread EXCEPT ![t].committed = invokeThread[t].committed \/ phase'[t] = "committed"]
    BY <1>10 DEF Invoke!VariantRuns
  <2>2. PICK b \in BOOLEAN : invokeThread' = [invokeThread EXCEPT ![t].committed = b]
    BY <1>10, VariantCommits, Zenon
  <2> QED
    BY <1>10, <2>1, <2>2 DEF Invoke!VariantRuns, Invoke!Refuse, Invoke!Commit, Invoke!ClaimSuffix, Invoke!Return, Invoke!Raise, Invoke!Moves
<1>11. ASSUME NEW t \in Threads, Invoke!VariantEnds(t) PROVE InvokeBindings'
  BY <1>11 DEF Invoke!VariantEnds, Invoke!Leave, Invoke!Moves
<1>12. ASSUME NEW t \in Threads, Invoke!Release(t) PROVE InvokeBindings'
  BY <1>12 DEF Invoke!Release
<1>13. ASSUME NEW t \in Threads, Invoke!Answer(t) PROVE InvokeBindings'
  BY <1>13 DEF Invoke!Answer, Invoke!Idle
<1>14. ASSUME Invoke!ManagerStep \/ Invoke!Redefine \/ UNCHANGED Invoke!vars PROVE InvokeBindings'
  BY <1>14 DEF Invoke!ManagerStep, Invoke!Redefine, Invoke!Binding, Invoke!vars
<1> QED
  BY <1>1, <1>2, <1>3, <1>4, <1>5, <1>6, <1>7, <1>8, <1>9, <1>10, <1>11, <1>12, <1>13, <1>14 DEF Invoke!Next, Invoke!Call

LEMMA InvokeAssumptionsKept ==
    ASSUME Invoke!InvokeAssumption, InvokeInductive, ~RacesBinding, InvokeAssumptions, [Invoke!Next]_(Invoke!vars)
    PROVE  InvokeAssumptions'
<1> USE DEF InvokeInductive, Invoke!TypeOK, Invoke!At, Invoke!Goto, Invoke!Codes, Invoke!Steps, Invoke!None, InvokeBindings, InvokeAssumptions, Invoke!InvokeAssumption
<1>1. ASSUME NEW t \in Threads, Invoke!Begin(t) PROVE InvokeAssumptions'
  BY <1>1 DEF Invoke!Begin
<1>2. ASSUME NEW t \in Threads, Invoke!Load(t) PROVE InvokeAssumptions'
  BY <1>2 DEF Invoke!Load
<1>3. ASSUME NEW t \in Threads, Invoke!Identify(t) PROVE InvokeAssumptions'
  BY <1>3 DEF Invoke!Identify
<1>4. ASSUME NEW t \in Threads, Invoke!Assume(t) PROVE InvokeAssumptions'
  BY <1>4 DEF Invoke!Assume
<1>5. ASSUME NEW t \in Threads, Invoke!Bind(t) PROVE InvokeAssumptions'
  BY <1>5 DEF Invoke!Bind
<1>6. ASSUME NEW t \in Threads, Invoke!Guard(t) PROVE InvokeAssumptions'
  BY <1>6 DEF Invoke!Guard
<1>7. ASSUME NEW t \in Threads, Invoke!Acquire(t) PROVE InvokeAssumptions'
  BY <1>7 DEF Invoke!Acquire, Invoke!Enter, Invoke!Moves
<1>8. ASSUME NEW t \in Threads, Invoke!Resolve(t) PROVE InvokeAssumptions'
  BY <1>8 DEF Invoke!Resolve
<1>9. ASSUME NEW t \in Threads, NEW raises \in BOOLEAN, Invoke!Original(t, raises) PROVE InvokeAssumptions'
  BY <1>9 DEF Invoke!Original, Invoke!AfterOriginal
<1>10. ASSUME NEW t \in Threads, Invoke!VariantRuns(t) PROVE InvokeAssumptions'
  <2>1. invokeThread' = [invokeThread EXCEPT ![t].committed = invokeThread[t].committed \/ phase'[t] = "committed"]
    BY <1>10 DEF Invoke!VariantRuns
  <2>2. PICK b \in BOOLEAN : invokeThread' = [invokeThread EXCEPT ![t].committed = b]
    BY <1>10, VariantCommits, Zenon
  <2> QED
    BY <1>10, <2>1, <2>2 DEF Invoke!VariantRuns, Invoke!Refuse, Invoke!Commit, Invoke!ClaimSuffix, Invoke!Return, Invoke!Raise, Invoke!Moves
<1>11. ASSUME NEW t \in Threads, Invoke!VariantEnds(t) PROVE InvokeAssumptions'
  BY <1>11 DEF Invoke!VariantEnds, Invoke!Leave, Invoke!Moves
<1>12. ASSUME NEW t \in Threads, Invoke!Release(t) PROVE InvokeAssumptions'
  BY <1>12 DEF Invoke!Release
<1>13. ASSUME NEW t \in Threads, Invoke!Answer(t) PROVE InvokeAssumptions'
  BY <1>13 DEF Invoke!Answer, Invoke!Idle
<1>14. ASSUME Invoke!ManagerStep \/ Invoke!Redefine \/ UNCHANGED Invoke!vars PROVE InvokeAssumptions'
  BY <1>14 DEF Invoke!ManagerStep, Invoke!Redefine, Invoke!Binding, Invoke!vars
<1> QED
  BY <1>1, <1>2, <1>3, <1>4, <1>5, <1>6, <1>7, <1>8, <1>9, <1>10, <1>11, <1>12, <1>13, <1>14 DEF Invoke!Next, Invoke!Call

-----------------------------------------------------------------------------
LEMMA InvokeNext == ASSUME Invoke!InvokeAssumption, InvokeInductive, [Invoke!Next]_(Invoke!vars) PROVE InvokeInductive'
<1>1. Invoke!TypeOK' /\ InvokeAccounts' /\ InvokePhases' /\ InvokeBindings'
  BY InvokeTypes, InvokeAccountsKept, InvokePhasesKept, InvokeBindingsKept
<1> QED
  BY <1>1 DEF InvokeInductive

LEMMA InvokeAlways == ASSUME Invoke!InvokeAssumption PROVE Invoke!Spec => []InvokeInductive
<1>1. Invoke!Init => InvokeInductive
  BY InvokeInit
<1>2. InvokeInductive /\ [Invoke!Next]_(Invoke!vars) => InvokeInductive'
  BY InvokeNext
<1> QED
  BY <1>1, <1>2, PTL DEF Invoke!Spec

(* A row is never replayed, whatever the threads that share the adapter do *)
(* and wherever a step raises: once the variant has committed the original *)
(* callable does not run for it, it runs again only after it raised, and a *)
(* call that ends was answered (worker.py:1586-1663).                      *)
THEOREM RowsNotReplayed == ASSUME Invoke!InvokeAssumption PROVE Invoke!Spec => []Invoke!NoReplay
<1>1. ASSUME InvokeInductive, NEW t \in Threads
      PROVE  /\ invokeThread[t].committed => invokeThread[t].ran = 0
             /\ invokeThread[t].ran > 1 => invokeThread[t].raised >= invokeThread[t].ran - 1
             /\ Invoke!At(t, {"answered"}) => invokeThread[t].committed \/ invokeThread[t].ran > 0
  <2>1. /\ invokeThread[t].at \in Invoke!Steps /\ invokeThread[t].ran \in 0..2 /\ invokeThread[t].raised \in 0..2
        /\ invokeThread[t].committed \in BOOLEAN
    BY <1>1 DEF InvokeInductive, Invoke!TypeOK
  <2>2. CASE Invoke!At(t, {"release", "answered"})
    <3>1. CASE invokeThread[t].committed
      BY <1>1, <2>1, <2>2, <3>1 DEF InvokeInductive, InvokeAccounts, Invoke!At
    <3>2. CASE ~invokeThread[t].committed
      BY <1>1, <2>1, <2>2, <3>2 DEF InvokeInductive, InvokeAccounts, Invoke!At
    <3> QED
      BY <3>1, <3>2
  <2>3. CASE Invoke!At(t, {"fallback"})
    BY <1>1, <2>1, <2>3 DEF InvokeInductive, InvokeAccounts, Invoke!At
  <2>4. CASE ~Invoke!At(t, {"release", "answered", "fallback"})
    BY <1>1, <2>1, <2>4 DEF InvokeInductive, InvokeAccounts, Invoke!At, Invoke!Steps
  <2> QED
    BY <2>2, <2>3, <2>4 DEF Invoke!At
<1>2. InvokeInductive => Invoke!NoReplay
  BY <1>1 DEF Invoke!NoReplay
<1> QED
  BY <1>2, InvokeAlways, PTL

(* Binding without a lock is safe: who finds artifact and key finds the    *)
(* assumption, in whichever order the threads write the three fields       *)
(* (worker.py:1222-1298).                                                  *)
THEOREM UnlockedBinding == ASSUME Invoke!InvokeAssumption PROVE Invoke!Spec => []Invoke!BindingComplete
<1>1. InvokeInductive => Invoke!BindingComplete
  BY DEF InvokeInductive, InvokeBindings, Invoke!BindingComplete
<1> QED
  BY <1>1, InvokeAlways, PTL

(* If the user does not replace the function's code between the hash and   *)
(* the second reading of it, a variant runs only for the code that it was  *)
(* captured from, wherever else the code is replaced                       *)
(* (worker.py:1250-1260, 1586-1612).                                       *)
THEOREM CapturedCodeRuns ==
    ASSUME Invoke!InvokeAssumption, ~RacesBinding
    PROVE  Invoke!Spec => []Invoke!VariantRunsCapturedCode
<1>1. Invoke!Init => InvokeAssumptions
  BY DEF Invoke!Init, InvokeAssumptions, Invoke!Idle, Invoke!Unbound, Invoke!At, Invoke!None
<1>2. InvokeInductive /\ InvokeAssumptions /\ [Invoke!Next]_(Invoke!vars) => InvokeAssumptions'
  BY InvokeAssumptionsKept
<1>3. InvokeInductive /\ InvokeAssumptions => Invoke!VariantRunsCapturedCode
  BY DEF InvokeInductive, InvokePhases, InvokeAssumptions, Invoke!VariantRunsCapturedCode, Invoke!At
<1> QED
  BY <1>1, <1>2, <1>3, InvokeAlways, PTL DEF Invoke!Spec

-----------------------------------------------------------------------------
(* The parts together.  A step of the worker is a step of at most one of them.  *)
LEMMA OneStep ==
  ASSUME [Next]_vars
  PROVE  /\ Scalar!Next \/ UNCHANGED scalarVars
         /\ Invoke!Next \/ UNCHANGED invokeVars
         /\ part = "exits" => Exits!Next \/ UNCHANGED exitsVars
         /\ Loop!Next \/ UNCHANGED loopVars
         /\ Output!Next \/ UNCHANGED framesVars
         /\ Columns!Next \/ UNCHANGED batchesVars
         /\ Events!Next \/ UNCHANGED eventsVars
         /\ part' = part
BY Zenon DEF Next, vars, ScalarStep, InvokeStep, ExitsStep, LoopStep, OutputStep,
             ColumnsStep, EventsStep

LEMMA ScalarPart == Spec => Scalar!Spec
<1>1. Init => Scalar!Init
  BY DEF Init
<1>2. [Next]_vars => [Scalar!Next]_(Scalar!vars)
  <2> SUFFICES ASSUME [Next]_vars PROVE [Scalar!Next]_(Scalar!vars)
    OBVIOUS
  <2>1. UNCHANGED scalarVars => UNCHANGED Scalar!vars
    BY DEF Scalar!vars, scalarVars, Scalar!registryVars
  <2> QED
    BY <2>1, OneStep
<1> QED
  BY PTL, <1>1, <1>2 DEF Spec, Scalar!Spec

LEMMA InvokePart == Spec => Invoke!Spec
<1>1. Init => Invoke!Init
  BY DEF Init
<1>2. [Next]_vars => [Invoke!Next]_(Invoke!vars)
  <2> SUFFICES ASSUME [Next]_vars PROVE [Invoke!Next]_(Invoke!vars)
    OBVIOUS
  <2>1. UNCHANGED invokeVars => UNCHANGED Invoke!vars
    BY DEF Invoke!vars, invokeVars
  <2> QED
    BY <2>1, OneStep
<1> QED
  BY PTL, <1>1, <1>2 DEF Spec, Invoke!Spec

LEMMA OutputPart == Spec => Output!Spec
<1>1. Init => Output!Init
  BY DEF Init
<1>2. [Next]_vars => [Output!Next]_(Output!vars)
  <2> SUFFICES ASSUME [Next]_vars PROVE [Output!Next]_(Output!vars)
    OBVIOUS
  <2>1. UNCHANGED framesVars => UNCHANGED Output!vars
    BY DEF Output!vars, framesVars
  <2> QED
    BY <2>1, OneStep
<1> QED
  BY PTL, <1>1, <1>2 DEF Spec, Output!Spec

WorkerInv ==
  /\ part = "exits" => ExitsInv
  /\ LoopInv /\ BatchInv /\ TelemetryInv

LEMMA WorkerInvariant == Spec => []WorkerInv
<1>1. Init => WorkerInv
  BY WorkerAssumption, ExitsInit, LoopInit, BatchesInit, EventsInit
     DEF Init, WorkerInv, WorkerAssumption
<1>2. WorkerInv /\ [Next]_vars => WorkerInv'
  BY WorkerAssumption, OneStep, ExitsNext, LoopNext, BatchesNext, EventsNext
     DEF WorkerInv, WorkerAssumption
<1> QED
  BY PTL, <1>1, <1>2 DEF Spec

(* Threads share the slots of a variant: borrows balance, a row loads what its  *)
(* own region stored and no slot is released under it or left behind; a region  *)
(* left by a side exit is continued once, with the values it held               *)
(* (capability.py:401-471, executor.py:479, continuation.py:282-760).           *)
THEOREM SlotsAndExits == Spec => []SlotsSafe
<1>1. Scalar!Spec => []Scalar!TypeOK
  BY WorkerAssumption, Scalar!TypeCorrect DEF WorkerAssumption
<1>2. Scalar!Spec => []Scalar!BorrowsAgree
  BY WorkerAssumption, Scalar!BorrowsBalance DEF WorkerAssumption
<1>3. Scalar!Spec => []Scalar!OwnRow
  BY WorkerAssumption, Scalar!RowsStayApart DEF WorkerAssumption
<1>4. Scalar!Spec => []Scalar!NotReleasedInUse
  BY WorkerAssumption, Scalar!SlotsOutliveRows DEF WorkerAssumption
<1>5. Scalar!Spec => []Scalar!NoSlotLeaks
  BY WorkerAssumption, Scalar!SlotsAreReleased DEF WorkerAssumption
<1>6. WorkerInv => (part = "exits" => Exits!TypeOK /\ Exits!OneGoesOn /\ Exits!SuffixSeesTheRegion)
  BY ExitsSafe DEF WorkerInv
<1>7. /\ Scalar!TypeOK /\ Scalar!BorrowsAgree /\ Scalar!OwnRow /\ Scalar!NotReleasedInUse
      /\ Scalar!NoSlotLeaks
      /\ part = "exits" => Exits!TypeOK /\ Exits!OneGoesOn /\ Exits!SuffixSeesTheRegion
      => SlotsSafe
  BY DEF SlotsSafe
<1> QED
  BY PTL, ScalarPart, WorkerInvariant, <1>1, <1>2, <1>3, <1>4, <1>5, <1>6, <1>7

(* No committed row runs the original too, whoever skips the unlocked binding   *)
(* finds the assumption it compares, and a variant runs only for the code it    *)
(* was captured from, when no two threads race to rebind (worker.py:1222-1663). *)
THEOREM InvocationsAreSafe == ASSUME ~RacesBinding PROVE Spec => []InvokeSafe
<1>1. Invoke!Spec => []InvokeInductive
  BY WorkerAssumption, InvokeAlways DEF WorkerAssumption
<1>2. Invoke!Spec => []Invoke!NoReplay
  BY WorkerAssumption, RowsNotReplayed DEF WorkerAssumption
<1>3. Invoke!Spec => []Invoke!BindingComplete
  BY WorkerAssumption, UnlockedBinding DEF WorkerAssumption
<1>4. Invoke!Spec => []Invoke!VariantRunsCapturedCode
  BY WorkerAssumption, CapturedCodeRuns DEF WorkerAssumption
<1>5. InvokeInductive /\ Invoke!NoReplay /\ Invoke!BindingComplete /\ Invoke!VariantRunsCapturedCode
      => InvokeSafe
  BY DEF InvokeSafe, InvokeInductive
<1> QED
  BY PTL, InvokePart, <1>1, <1>2, <1>3, <1>4, <1>5

(* A row of the typed loop is answered by a version of the function that was    *)
(* current during its call, and no thread of a forked child waits for a lock    *)
(* its parent held (typed_loop_worker.py:857-915, wrapper.py:167-173).          *)
THEOREM TypedLoopIsSafe == Spec => []TypedLoopSafe
<1>1. WorkerInv => TypedLoopSafe
  BY WorkerAssumption, LoopSafe DEF WorkerInv, WorkerAssumption, TypedLoopSafe
<1> QED
  BY PTL, WorkerInvariant, <1>1

(* The physicalizer closes when no frame is in use, a frame delivers one value  *)
(* or is aborted, and a batch publishes every row once or nothing, counted once *)
(* (physicalize.py:134-286, columnar.py:461-861, native_batch.py).              *)
THEOREM OutputsAreSafe == Spec => []OutputSafe
<1>1. Output!Spec => []FramesInv
  BY WorkerAssumption, FramesAlways DEF WorkerAssumption
<1>2. FramesInv => Output!TypeOK /\ Output!IdsBelongToFrames /\ Output!OneValuePublished
  BY FramesFacts
<1>3. WorkerInv => /\ Columns!TypeOK /\ Columns!NoRowReplayed /\ Columns!PublishedIsWhole
                   /\ Columns!BuiltOnceHere /\ Columns!CountedOnce
  BY WorkerAssumption, BatchesSafe DEF WorkerInv, WorkerAssumption
<1>4. FramesInv /\ WorkerInv => OutputSafe
  BY <1>2, <1>3 DEF OutputSafe
<1> QED
  BY PTL, OutputPart, WorkerInvariant, <1>1, <1>4

(* Every event offered is counted once, and none is left behind when close()    *)
(* returns (telemetry.py:178-229).                                              *)
THEOREM EventsAreAccounted == Spec => []Accounted
<1>1. WorkerInv => Accounted
  BY WorkerAssumption, EventsAdd DEF WorkerInv, WorkerAssumption, Accounted
<1> QED
  BY PTL, WorkerInvariant, <1>1
=============================================================================

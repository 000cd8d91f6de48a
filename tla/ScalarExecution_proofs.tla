------------------------ MODULE ScalarExecution_proofs ------------------------
(***************************************************************************)
(* Slots and borrows of the scalar executor, for any number of threads and *)
(* variants.                                                               *)
(***************************************************************************)
EXTENDS ScalarExecution, FiniteSetTheorems, TLAPS

(* The slots a thread has borrowed, by the step it is about to take.       *)
Held(t) ==
    IF Inside(t) THEN Sides
    ELSE IF thread[t].at \in {"borrow_out", "return_in"} THEN {"in"} ELSE {}

(* Whose token a slot carries is who holds it.                             *)
Borrowers ==
    \A v \in Variants, s \in Sides, t \in Threads :
        borrower[v][s] = t <=> thread[t].variant = v /\ s \in Held(t)

(* The registry's three records of a borrow are one.                       *)
Books ==
    \A v \in Variants :
        /\ native[v] = {s \in Sides : borrower[v][s] # None}
        /\ active[v] = Cardinality(native[v])

(* A call has a variant, and only a variant that was published has calls;  *)
(* unless the manager itself was closed it is still cached.                *)
Leases ==
    \A t \in Threads :
        /\ thread[t].at = "idle" <=> thread[t].variant = None
        /\ thread[t].variant # None =>
            LET l == life[thread[t].variant]
            IN  l \notin {"unbuilt", "input", "built"} /\ (~shut => l = "cached")

(* The slots that are registered follow the life of their variant ...      *)
Registered ==
    \A v \in Variants :
        /\ life[v] = "unbuilt" => live[v] = {}
        /\ life[v] = "input" => live[v] = {"in"}
        /\ life[v] = "close_in" => live[v] \subseteq {"in"}
        /\ life[v] = "closed" => live[v] = {}
        /\ life[v] = "stuck" => shut

(* ... and a slot that is held is registered.                              *)
HeldAreLive ==
    \A t \in Threads : \A s \in Held(t) : s \in live[thread[t].variant]

(* A row's value is in the slots from its writing to its loading.          *)
Rows ==
    \A t \in Threads :
        /\ thread[t].at \in {"commit", "region", "load"} =>
            content[thread[t].variant]["in"] = t
        /\ thread[t].at = "load" => content[thread[t].variant]["out"] = t
        /\ /\ thread[t].at \in {"return_pair", "return_out", "return_in", "ended"}
           /\ ~thread[t].error
           => thread[t].loaded = t
        /\ thread[t].at = "returned" => thread[t].loaded = t

(* Whether the commit is behind a call, by the step it is about to take.   *)
Boundaries ==
    \A t \in Threads :
        /\ thread[t].at \in {"begin", "borrow_in", "borrow_out", "write", "commit"}
               => boundary[t] = "pre_commit"
        /\ thread[t].at \in {"region", "resume", "load"} => boundary[t] = "committed"
        /\ /\ thread[t].at \in {"return_pair", "return_out", "return_in", "ended"}
           /\ ~thread[t].error
           => boundary[t] # "pre_commit"

Calls == [at : Steps, variant : Variants \cup {None}, error : BOOLEAN,
          loaded : Threads \cup {None}]
Registries == [Variants -> [Sides -> Threads \cup {None}]]

(* The types, but for the counters, which follow from the books.           *)
Types ==
    /\ live \in [Variants -> SUBSET Sides]
    /\ borrower \in Registries /\ content \in Registries
    /\ native \in [Variants -> SUBSET Sides]
    /\ active \in [Variants -> Nat]
    /\ paired \in SUBSET Variants
    /\ life \in [Variants -> {"unbuilt", "input", "built", "cached", "close_out",
                              "close_in", "closed", "stuck"}]
    /\ shut \in BOOLEAN
    /\ thread \in [Threads -> Calls]
    /\ boundary \in [Threads -> {"pre_commit", "committed", "suffix_claimed"}]

Inductive ==
    /\ Types /\ Borrowers /\ Books /\ Leases /\ Registered /\ HeldAreLive
    /\ Rows /\ Boundaries

-----------------------------------------------------------------------------
LEMMA SidesCount ==
    /\ \A S \in SUBSET Sides : Cardinality(S) \in 0..2 /\ (Cardinality(S) = 0 <=> S = {})
    /\ \A S, T \in SUBSET Sides :
        S \cap T = {} => Cardinality(S \cup T) = Cardinality(S) + Cardinality(T)
    /\ \A S \in SUBSET Sides : \A T \in SUBSET S :
        Cardinality(S \ T) = Cardinality(S) - Cardinality(T)
<1>1. IsFiniteSet(Sides) /\ Cardinality(Sides) = 2
  <2>1. IsFiniteSet({"in"}) /\ Cardinality({"in"}) = 1
    BY FS_Singleton
  <2>2. Sides = {"in"} \cup {"out"} /\ "out" \notin {"in"}
    BY DEF Sides
  <2> QED
    BY <2>1, <2>2, FS_AddElement
<1>2. \A S \in SUBSET Sides : IsFiniteSet(S) /\ Cardinality(S) \in Nat /\ Cardinality(S) <= 2
  BY <1>1, FS_Subset, FS_CardinalityType
<1>3. \A S \in SUBSET Sides : Cardinality(S) = 0 <=> S = {}
  BY <1>2, FS_EmptySet
<1>4. ASSUME NEW S \in SUBSET Sides, NEW T \in SUBSET Sides, S \cap T = {}
      PROVE  Cardinality(S \cup T) = Cardinality(S) + Cardinality(T)
  <2>1. Cardinality(S \cup T) = Cardinality(S) + Cardinality(T) - Cardinality(S \cap T)
    BY <1>2, FS_Union
  <2>2. Cardinality(S \cap T) = 0
    BY <1>4, FS_EmptySet
  <2> QED
    BY <1>2, <2>1, <2>2
<1>5. ASSUME NEW S \in SUBSET Sides, NEW T \in SUBSET S
      PROVE  Cardinality(S \ T) = Cardinality(S) - Cardinality(T)
  <2>1. /\ S \ T \in SUBSET Sides /\ T \in SUBSET Sides
        /\ (S \ T) \cap T = {} /\ (S \ T) \cup T = S
    OBVIOUS
  <2>2. Cardinality(S) = Cardinality(S \ T) + Cardinality(T)
    BY <1>4, <2>1
  <2> QED
    BY <1>2, <2>1, <2>2
<1> QED
  BY <1>2, <1>3, <1>4, <1>5

LEMMA BorrowEffect ==
    ASSUME Types, NEW t \in Threads, NEW v \in Variants, NEW sides \in SUBSET Sides,
           Borrow(t, v, sides)
    PROVE  /\ borrower' \in Registries
           /\ native' \in [Variants -> SUBSET Sides] /\ active' \in [Variants -> Nat]
           /\ \A w \in Variants, s \in Sides :
                borrower'[w][s] = IF w = v /\ s \in sides THEN t ELSE borrower[w][s]
           /\ native'[v] = native[v] \cup sides
           /\ active'[v] = active[v] + Cardinality(sides)
           /\ \A w \in Variants \ {v} : native'[w] = native[w] /\ active'[w] = active[w]
<1>1. Cardinality(sides) \in Nat
  <2>1. Cardinality(sides) \in 0..2
    BY SidesCount
  <2> QED
    BY <2>1
<1> USE DEF Types, Registries, Borrow
<1>2. [s \in Sides |-> IF s \in sides THEN t ELSE borrower[v][s]]
        \in [Sides -> Threads \cup {None}]
  OBVIOUS
<1> QED
  BY <1>1, <1>2

LEMMA ReturnEffect ==
    ASSUME Types, NEW v \in Variants, NEW sides \in SUBSET Sides,
           active[v] - Cardinality(sides) \in Nat, Return(v, sides)
    PROVE  /\ borrower' \in Registries
           /\ native' \in [Variants -> SUBSET Sides] /\ active' \in [Variants -> Nat]
           /\ \A w \in Variants, s \in Sides :
                borrower'[w][s] = IF w = v /\ s \in sides THEN None ELSE borrower[w][s]
           /\ native'[v] = native[v] \ sides
           /\ active'[v] = active[v] - Cardinality(sides)
           /\ \A w \in Variants \ {v} : native'[w] = native[w] /\ active'[w] = active[w]
<1> USE DEF Types, Registries, Return
<1>1. [s \in Sides |-> IF s \in sides THEN None ELSE borrower[v][s]]
        \in [Sides -> Threads \cup {None}]
  OBVIOUS
<1> QED
  BY <1>1

LEMMA InitInductive == ASSUME ExecutionAssumption, Init PROVE Inductive
<1>1. Cardinality({}) = 0
  BY FS_EmptySet
<1>2. Types
  BY DEF Init, Types, Registries, Calls, Idle, Steps
<1>3. Borrowers
  BY DEF Init, Borrowers, Held, Inside, Idle, ExecutionAssumption
<1>4. Books
  BY <1>1 DEF Init, Books
<1> QED
  BY <1>2, <1>3, <1>4 DEF Init, Inductive, Leases, Registered, HeldAreLive, Rows,
     Boundaries, Held, Inside, Idle

(* What a step does to the record of the thread that takes it.             *)
Moved(t, step, loaded) ==
    /\ thread' \in [Threads -> Calls]
    /\ \A u \in Threads \ {t} : thread'[u] = thread[u]
    /\ thread'[t].at = step
    /\ thread'[t].variant = thread[t].variant
    /\ thread'[t].loaded = loaded

LEMMA GotoMoves ==
    ASSUME Types, NEW t \in Threads, NEW a \in Steps, Goto(t, a)
    PROVE  Moved(t, a, thread[t].loaded) /\ thread'[t].error = thread[t].error
  BY DEF Types, Goto, Moved, Calls

LEMMA FailsMoves ==
    ASSUME Types, NEW t \in Threads, NEW a \in Steps, Fails(t, a)
    PROVE  Moved(t, a, thread[t].loaded) /\ thread'[t].error
  BY DEF Types, Fails, Moved, Calls

LEMMA EndsMoves ==
    ASSUME Types, NEW t \in Threads, NEW a \in Steps, NEW e \in BOOLEAN,
           thread' = [thread EXCEPT ![t].at = a, ![t].error = e]
    PROVE  Moved(t, a, thread[t].loaded) /\ thread'[t].error = e
  BY DEF Types, Moved, Calls

LEMMA RecordMoves ==
    ASSUME Types, NEW t \in Threads, NEW a \in Steps, NEW e \in BOOLEAN,
           NEW l \in Threads \cup {None},
           thread' = [thread EXCEPT ![t].at = a, ![t].error = e, ![t].loaded = l]
    PROVE  Moved(t, a, l) /\ thread'[t].error = e
  BY DEF Types, Moved, Calls

Elsewhere == UNCHANGED <<paired, live, life, shut>>
Bookkeeping == UNCHANGED <<borrower, native, active>>


(* The outcomes of each step of a call.                                    *)
BeginPairOutcome(t) ==
    /\ thread[t].at = "begin" /\ Elsewhere /\ UNCHANGED <<content, boundary>>
    /\ \/ Moved(t, "ended", thread[t].loaded) /\ thread'[t].error /\ Bookkeeping
       \/ /\ Moved(t, "write", thread[t].loaded)
          /\ live[thread[t].variant] = Sides
          /\ \A s \in Sides : borrower[thread[t].variant][s] = None
          /\ Borrow(t, thread[t].variant, Sides)

BorrowSlotOutcome(t, s) ==
    /\ thread[t].at = IF s = "in" THEN "borrow_in" ELSE "borrow_out"
    /\ Elsewhere /\ UNCHANGED <<content, boundary>>
    /\ \/ /\ Moved(t, IF s = "in" THEN "ended" ELSE "return_in", thread[t].loaded)
          /\ thread'[t].error /\ Bookkeeping
       \/ /\ Moved(t, IF s = "in" THEN "borrow_out" ELSE "write", thread[t].loaded)
          /\ s \in live[thread[t].variant]
          /\ borrower[thread[t].variant][s] = None
          /\ Borrow(t, thread[t].variant, {s})

WriteOutcome(t) ==
    /\ thread[t].at = "write" /\ Elsewhere /\ Bookkeeping /\ UNCHANGED boundary
    /\ \/ /\ Moved(t, Exit(thread[t].variant), thread[t].loaded)
          /\ thread'[t].error /\ UNCHANGED content
       \/ /\ Moved(t, "commit", thread[t].loaded)
          /\ content' = [content EXCEPT ![thread[t].variant]["in"] = t]

CommitOutcome(t) ==
    /\ thread[t].at = "commit" /\ Elsewhere /\ Bookkeeping /\ UNCHANGED content
    /\ Moved(t, "region", thread[t].loaded) /\ thread'[t].error = thread[t].error
    /\ boundary[t] = "pre_commit"
    /\ boundary' = [boundary EXCEPT ![t] = "committed"]

RegionOutcome(t) ==
    /\ thread[t].at = "region" /\ Elsewhere /\ Bookkeeping /\ UNCHANGED boundary
    /\ \/ /\ Moved(t, "load", thread[t].loaded)
          /\ content' = [content EXCEPT ![thread[t].variant]["out"] =
                             content[thread[t].variant]["in"]]
       \/ Moved(t, "resume", thread[t].loaded) /\ UNCHANGED content
       \/ /\ Moved(t, Exit(thread[t].variant), thread[t].loaded)
          /\ thread'[t].error /\ UNCHANGED content

ResumeOutcome(t) ==
    /\ thread[t].at = "resume" /\ Elsewhere /\ Bookkeeping /\ UNCHANGED content
    /\ \/ /\ Moved(t, Exit(thread[t].variant), thread[t].loaded)
          /\ thread'[t].error /\ UNCHANGED boundary
       \/ /\ Moved(t, Exit(thread[t].variant), t)
          /\ boundary[t] = "committed"
          /\ boundary' = [boundary EXCEPT ![t] = "suffix_claimed"]

LoadOutcome(t) ==
    /\ thread[t].at = "load" /\ Elsewhere /\ Bookkeeping
    /\ UNCHANGED <<content, boundary>>
    /\ Moved(t, Exit(thread[t].variant), content[thread[t].variant]["out"])

ReturnSlotsOutcome(t, sides) ==
    /\ Elsewhere /\ UNCHANGED <<content, boundary>>
    /\ Return(thread[t].variant, sides)
    /\ ~thread'[t].error => ~thread[t].error
    /\ \/ /\ thread[t].at = "return_pair" /\ sides = Sides
          /\ Moved(t, "ended", thread[t].loaded)
       \/ /\ thread[t].at = "return_out" /\ sides = {"out"}
          /\ Moved(t, "return_in", thread[t].loaded)
       \/ /\ thread[t].at = "return_in" /\ sides = {"in"}
          /\ Moved(t, "ended", thread[t].loaded)

ConcludeOutcome(t) ==
    /\ thread[t].at = "ended" /\ Elsewhere /\ Bookkeeping
    /\ UNCHANGED <<content, boundary>>
    /\ \/ Moved(t, "returned", thread[t].loaded) /\ ~thread[t].error
       \/ Moved(t, "refused", thread[t].loaded) /\ boundary[t] = "pre_commit"
       \/ Moved(t, "raised", thread[t].loaded) /\ boundary[t] # "pre_commit"

LEMMA BeginPairCases ==
    ASSUME Types, NEW t \in Threads, NEW b \in BOOLEAN, BeginPair(t, b)
    PROVE  BeginPairOutcome(t)
<1> USE DEF BeginPairOutcome
<1>1. "ended" \in Steps /\ "write" \in Steps
  BY DEF Steps
<1>2. \/ Fails(t, "ended") /\ Bookkeeping
      \/ /\ Goto(t, "write")
         /\ live[thread[t].variant] = Sides
         /\ \A s \in Sides : borrower[thread[t].variant][s] = None
         /\ Borrow(t, thread[t].variant, Sides)
  BY DEF BeginPair, Bookkeeping
<1> QED
  BY <1>1, <1>2, GotoMoves, FailsMoves DEF BeginPair, Elsewhere

LEMMA BorrowSlotCases ==
    ASSUME Types, NEW t \in Threads, NEW s \in Sides, NEW b \in BOOLEAN,
           BorrowSlot(t, s, b)
    PROVE  BorrowSlotOutcome(t, s)
<1> USE DEF BorrowSlotOutcome
<1>1. /\ (IF s = "in" THEN "ended" ELSE "return_in") \in Steps
      /\ (IF s = "in" THEN "borrow_out" ELSE "write") \in Steps
  BY DEF Steps
<1>2. \/ Fails(t, IF s = "in" THEN "ended" ELSE "return_in") /\ Bookkeeping
      \/ /\ Goto(t, IF s = "in" THEN "borrow_out" ELSE "write")
         /\ s \in live[thread[t].variant]
         /\ borrower[thread[t].variant][s] = None
         /\ Borrow(t, thread[t].variant, {s})
  BY DEF BorrowSlot, Bookkeeping
<1> QED
  BY <1>1, <1>2, GotoMoves, FailsMoves DEF BorrowSlot, Elsewhere

LEMMA ExitIsAStep ==
    ASSUME NEW v
    PROVE  Exit(v) \in {"return_pair", "return_out"} /\ Exit(v) \in Steps
  BY DEF Exit, Steps

LEMMA WriteCases ==
    ASSUME Types, NEW t \in Threads, NEW b \in BOOLEAN, Write(t, b)
    PROVE  WriteOutcome(t)
<1> USE DEF WriteOutcome
<1>1. "commit" \in Steps /\ Exit(thread[t].variant) \in Steps
  BY ExitIsAStep DEF Steps
<1>2. \/ Fails(t, Exit(thread[t].variant)) /\ UNCHANGED content
      \/ /\ Goto(t, "commit")
         /\ content' = [content EXCEPT ![thread[t].variant]["in"] = t]
  BY DEF Write
<1> QED
  BY <1>1, <1>2, GotoMoves, FailsMoves DEF Write, Elsewhere, Bookkeeping

LEMMA CommitCases ==
    ASSUME Types, NEW t \in Threads, CommitRow(t)
    PROVE  CommitOutcome(t)
<1> USE DEF CommitOutcome
<1>1. "region" \in Steps
  BY DEF Steps
<1> QED
  BY <1>1, GotoMoves DEF CommitRow, Elsewhere, Bookkeeping, registryVars

LEMMA RegionCases ==
    ASSUME Types, NEW t \in Threads, NEW o \in {"stored", "side_exit", "raised"},
           Region(t, o)
    PROVE  RegionOutcome(t)
<1> USE DEF RegionOutcome
<1>1. "load" \in Steps /\ "resume" \in Steps /\ Exit(thread[t].variant) \in Steps
  BY ExitIsAStep DEF Steps
<1>2. \/ /\ Goto(t, "load")
         /\ content' = [content EXCEPT ![thread[t].variant]["out"] =
                            content[thread[t].variant]["in"]]
      \/ Goto(t, "resume") /\ UNCHANGED content
      \/ Fails(t, Exit(thread[t].variant)) /\ UNCHANGED content
  <2>1. CASE o = "stored"
    BY <2>1 DEF Region
  <2>2. CASE o = "side_exit"
    BY <2>2 DEF Region
  <2>3. CASE o = "raised"
    BY <2>3 DEF Region
  <2> QED
    BY <2>1, <2>2, <2>3
<1> QED
  BY <1>1, <1>2, GotoMoves, FailsMoves DEF Region, Elsewhere, Bookkeeping

LEMMA ResumeCases ==
    ASSUME Types, NEW t \in Threads, NEW b \in BOOLEAN, NEW r \in BOOLEAN,
           Resume(t, b, r)
    PROVE  ResumeOutcome(t)
<1> USE DEF ResumeOutcome
<1>1. Exit(thread[t].variant) \in Steps
  BY ExitIsAStep
<1>2. \/ Fails(t, Exit(thread[t].variant)) /\ UNCHANGED boundary
      \/ /\ thread' = [thread EXCEPT ![t].at = Exit(thread[t].variant), ![t].error = r,
                                     ![t].loaded = t]
         /\ boundary[t] = "committed"
         /\ boundary' = [boundary EXCEPT ![t] = "suffix_claimed"]
  BY DEF Resume
<1> QED
  BY <1>1, <1>2, FailsMoves, RecordMoves DEF Resume, Elsewhere, Bookkeeping, registryVars

LEMMA LoadCases ==
    ASSUME Types, NEW t \in Threads, NEW b \in BOOLEAN, Load(t, b),
           thread[t].variant \in Variants
    PROVE  LoadOutcome(t)
<1> USE DEF LoadOutcome
<1>1. Exit(thread[t].variant) \in Steps
  BY ExitIsAStep
<1>2. content[thread[t].variant]["out"] \in Threads \cup {None}
  BY DEF Types, Registries, Sides
<1>3. thread' = [thread EXCEPT ![t].at = Exit(thread[t].variant), ![t].error = b,
                              ![t].loaded = content[thread[t].variant]["out"]]
  BY DEF Load
<1>4. Moved(t, Exit(thread[t].variant), content[thread[t].variant]["out"])
  BY <1>1, <1>2, <1>3, RecordMoves
<1>5. thread[t].at = "load" /\ Elsewhere /\ Bookkeeping /\ UNCHANGED <<content, boundary>>
  BY DEF Load, Elsewhere, Bookkeeping, registryVars
<1> QED
  BY <1>4, <1>5

LEMMA ReturnSlotsCases ==
    ASSUME Types, NEW t \in Threads, NEW sides \in {Sides, {"out"}, {"in"}},
           NEW b \in BOOLEAN, ReturnSlots(t, sides, b)
    PROVE  ReturnSlotsOutcome(t, sides)
<1> USE DEF ReturnSlotsOutcome
<1> DEFINE a == IF sides = {"out"} THEN "return_in" ELSE "ended"
<1>1. a \in Steps /\ Sides # {"out"} /\ Sides # {"in"} /\ {"in"} # {"out"}
  BY DEF Steps, Sides
<1>2. PICK e \in BOOLEAN : /\ e = (thread[t].error \/ b)
                           /\ thread' = [thread EXCEPT ![t].at = a, ![t].error = e]
  <2>1. (thread[t].error \/ b) \in BOOLEAN
    BY Zenon
  <2>2. thread' = [thread EXCEPT ![t].at = a, ![t].error = (thread[t].error \/ b)]
    BY Zenon DEF ReturnSlots
  <2> QED
    BY <2>1, <2>2, Zenon
<1>3. ~e => ~thread[t].error
  BY <1>2
<1>4. Moved(t, a, thread[t].loaded) /\ thread'[t].error = e
  <2> HIDE DEF a
  <2> QED
    BY <1>1, <1>2, EndsMoves
<1>5. thread[t].at = CASE sides = Sides   -> "return_pair"
                       [] sides = {"out"} -> "return_out"
                       [] sides = {"in"}  -> "return_in"
  BY DEF ReturnSlots
<1>6. Elsewhere /\ UNCHANGED <<content, boundary>> /\ Return(thread[t].variant, sides)
  BY DEF ReturnSlots, Elsewhere
<1>7. CASE sides = Sides
  BY <1>1, <1>3, <1>4, <1>5, <1>6, <1>7
<1>8. CASE sides = {"out"}
  BY <1>1, <1>3, <1>4, <1>5, <1>6, <1>8
<1>9. CASE sides = {"in"}
  BY <1>1, <1>3, <1>4, <1>5, <1>6, <1>9
<1> QED
  BY <1>7, <1>8, <1>9

LEMMA ConcludeCases ==
    ASSUME Types, NEW t \in Threads, Conclude(t)
    PROVE  ConcludeOutcome(t)
<1> USE DEF ConcludeOutcome
<1>1. "returned" \in Steps /\ "refused" \in Steps /\ "raised" \in Steps
  BY DEF Steps
<1>2. \/ Goto(t, "returned") /\ ~thread[t].error
      \/ Goto(t, "refused") /\ boundary[t] = "pre_commit"
      \/ Goto(t, "raised") /\ boundary[t] # "pre_commit"
  BY DEF Conclude
<1> QED
  BY <1>1, <1>2, GotoMoves DEF Conclude, Elsewhere, Bookkeeping, registryVars

-----------------------------------------------------------------------------
Outcome ==
    \/ \E t \in Threads :
        \/ \E v \in Variants : Call(t, v)
        \/ BeginPairOutcome(t) \/ WriteOutcome(t) \/ CommitOutcome(t) \/ RegionOutcome(t)
        \/ \E s \in Sides : BorrowSlotOutcome(t, s)
        \/ ResumeOutcome(t) \/ LoadOutcome(t) \/ ConcludeOutcome(t)
        \/ \E sides \in {Sides, {"out"}, {"in"}} : ReturnSlotsOutcome(t, sides)
        \/ ReleaseLease(t)
    \/ \E v \in Variants :
        \/ RegisterInput(v)
        \/ \E ok \in BOOLEAN : RegisterOutput(v, ok) \/ Publish(v, ok)
        \/ Evict(v)
        \/ \E s \in Sides : ReleaseSlot(v, s)
    \/ CloseManager \/ UNCHANGED vars

LEMMA NextOutcome == ASSUME Types, Leases, [Next]_vars PROVE Outcome
<1>1. ASSUME NEW t \in Threads, Execute(t) PROVE Outcome
  <2>1. ASSUME NEW b \in BOOLEAN, BeginPair(t, b) PROVE Outcome
    BY <2>1, BeginPairCases DEF Outcome
  <2>2. ASSUME NEW b \in BOOLEAN, Write(t, b) PROVE Outcome
    BY <2>2, WriteCases DEF Outcome
  <2>3. ASSUME NEW b \in BOOLEAN, Load(t, b) PROVE Outcome
    <3>1. thread[t].at # "idle"
      BY <2>3 DEF Load
    <3>2. thread[t].variant \in Variants
      BY <3>1 DEF Types, Leases, Calls
    <3> QED
      BY <2>3, <3>2, LoadCases DEF Outcome
  <2>4. ASSUME NEW s \in Sides, NEW b \in BOOLEAN, BorrowSlot(t, s, b) PROVE Outcome
    BY <2>4, BorrowSlotCases DEF Outcome
  <2>5. ASSUME NEW g \in {Sides, {"out"}, {"in"}}, NEW b \in BOOLEAN, ReturnSlots(t, g, b)
        PROVE  Outcome
    BY <2>5, ReturnSlotsCases DEF Outcome
  <2>6. ASSUME NEW b \in BOOLEAN, NEW r \in BOOLEAN, Resume(t, b, r) PROVE Outcome
    BY <2>6, ResumeCases DEF Outcome
  <2>7. ASSUME CommitRow(t) PROVE Outcome
    BY <2>7, CommitCases DEF Outcome
  <2>8. ASSUME NEW o \in {"stored", "side_exit", "raised"}, Region(t, o) PROVE Outcome
    BY <2>8, RegionCases DEF Outcome
  <2>9. ASSUME Conclude(t) PROVE Outcome
    BY <2>9, ConcludeCases DEF Outcome
  <2> QED
    BY <1>1, <2>1, <2>2, <2>3, <2>4, <2>5, <2>6, <2>7, <2>8, <2>9 DEF Execute
<1>2. CASE Next
  BY <1>1, <1>2 DEF Next, Outcome
<1> QED
  BY <1>2 DEF Outcome

LEMMA MovedKeepsLeases ==
    ASSUME Types, Leases, NEW t \in Threads, NEW a \in Steps, NEW l,
           Moved(t, a, l), a # "idle", thread[t].at # "idle", Elsewhere
    PROVE  Leases'
  BY DEF Types, Calls, Leases, Moved, Elsewhere

LEMMA NextLeases == ASSUME ExecutionAssumption, Inductive, Outcome PROVE Leases'
<1>h. Types /\ Leases
  BY DEF Inductive
<1>t. Types
  BY <1>h
<1>1. ASSUME NEW t \in Threads, NEW v \in Variants, Call(t, v) PROVE Leases'
  BY <1>h, <1>1 DEF Call, registryVars, Types, Calls, Leases, ExecutionAssumption
<1>2. ASSUME NEW t \in Threads, BeginPairOutcome(t) PROVE Leases'
  BY <1>h, <1>2, MovedKeepsLeases DEF BeginPairOutcome, Steps
<1>3. ASSUME NEW t \in Threads, NEW s \in Sides, BorrowSlotOutcome(t, s) PROVE Leases'
  BY <1>h, <1>3, MovedKeepsLeases DEF BorrowSlotOutcome, Steps
<1>4. ASSUME NEW t \in Threads, WriteOutcome(t) PROVE Leases'
  BY <1>h, <1>4, MovedKeepsLeases, ExitIsAStep DEF WriteOutcome, Steps
<1>5. ASSUME NEW t \in Threads, CommitOutcome(t) PROVE Leases'
  BY <1>h, <1>5, MovedKeepsLeases DEF CommitOutcome, Steps
<1>6. ASSUME NEW t \in Threads, RegionOutcome(t) PROVE Leases'
  BY <1>h, <1>6, MovedKeepsLeases, ExitIsAStep DEF RegionOutcome, Steps
<1>7. ASSUME NEW t \in Threads, ResumeOutcome(t) PROVE Leases'
  BY <1>h, <1>7, MovedKeepsLeases, ExitIsAStep DEF ResumeOutcome, Steps
<1>8. ASSUME NEW t \in Threads, LoadOutcome(t) PROVE Leases'
  BY <1>h, <1>8, MovedKeepsLeases, ExitIsAStep DEF LoadOutcome, Steps
<1>9. ASSUME NEW t \in Threads, NEW g \in {Sides, {"out"}, {"in"}}, ReturnSlotsOutcome(t, g) PROVE Leases'
  BY <1>h, <1>9, MovedKeepsLeases DEF ReturnSlotsOutcome, Steps
<1>10. ASSUME NEW t \in Threads, ConcludeOutcome(t) PROVE Leases'
  BY <1>h, <1>10, MovedKeepsLeases DEF ConcludeOutcome, Steps
<1>11. ASSUME NEW t \in Threads, ReleaseLease(t) PROVE Leases'
  BY <1>h, <1>11 DEF ReleaseLease, Idle, registryVars, Types, Calls, Leases
<1>12. ASSUME NEW v \in Variants, RegisterInput(v) PROVE Leases'
  BY <1>h, <1>12 DEF RegisterInput, Lives, Types, Calls, Leases
<1>13. ASSUME NEW v \in Variants, NEW b \in BOOLEAN, RegisterOutput(v, b) PROVE Leases'
  BY <1>h, <1>13 DEF RegisterOutput, Lives, Types, Calls, Leases
<1>14. ASSUME NEW v \in Variants, NEW b \in BOOLEAN, Publish(v, b) PROVE Leases'
  BY <1>h, <1>14 DEF Publish, Lives, registryVars, Types, Calls, Leases
<1>15. ASSUME NEW v \in Variants, Evict(v) PROVE Leases'
  BY <1>h, <1>15 DEF Evict, Lives, registryVars, Leased, Types, Calls, Leases
<1>16. ASSUME NEW v \in Variants, NEW s \in Sides, ReleaseSlot(v, s) PROVE Leases'
  BY <1>h, <1>16 DEF ReleaseSlot, Types, Calls, Leases
<1>17. ASSUME CloseManager \/ UNCHANGED vars PROVE Leases'
  BY <1>h, <1>17 DEF CloseManager, vars, registryVars, Types, Calls, Leases
<1> QED
  BY <1>1, <1>2, <1>3, <1>4, <1>5, <1>6, <1>7, <1>8, <1>9, <1>10, <1>11, <1>12, <1>13, <1>14, <1>15, <1>16, <1>17 DEF Outcome

(* Only the thread that moves may come to the other side of its boundary.  *)
LEMMA MovedKeepsBoundaries ==
    ASSUME Boundaries, NEW t \in Threads, NEW a, NEW l, Moved(t, a, l),
           \A u \in Threads \ {t} : boundary'[u] = boundary[u],
           a \in {"begin", "borrow_in", "borrow_out", "write", "commit"}
               => boundary'[t] = "pre_commit",
           a \in {"region", "resume", "load"} => boundary'[t] = "committed",
           a \in {"return_pair", "return_out", "return_in", "ended"} /\ ~thread'[t].error
               => boundary'[t] # "pre_commit"
    PROVE  Boundaries'
  BY DEF Boundaries, Moved

LEMMA NextBoundaries == ASSUME ExecutionAssumption, Inductive, Outcome PROVE Boundaries'
<1>h. Types /\ Boundaries
  BY DEF Inductive
<1>t. Types
  BY <1>h
<1> USE DEF Types, Calls, Registries, Boundaries
<1>1. ASSUME NEW t \in Threads, NEW v \in Variants, Call(t, v) PROVE Boundaries'
  BY <1>h, <1>1 DEF Call, registryVars
<1>2. ASSUME NEW t \in Threads, BeginPairOutcome(t) PROVE Boundaries'
  BY <1>h, <1>2 DEF BeginPairOutcome, Moved, Elsewhere, Bookkeeping
<1>3. ASSUME NEW t \in Threads, NEW s \in Sides, BorrowSlotOutcome(t, s) PROVE Boundaries'
  BY <1>h, <1>3 DEF BorrowSlotOutcome, Moved, Elsewhere, Bookkeeping
<1>4. ASSUME NEW t \in Threads, WriteOutcome(t) PROVE Boundaries'
  <2>1. boundary' = boundary /\ boundary[t] = "pre_commit"
    BY <1>h, <1>4 DEF WriteOutcome
  <2>2. CASE Moved(t, "commit", thread[t].loaded)
    BY <1>h, <2>1, <2>2, MovedKeepsBoundaries
  <2>3. CASE Moved(t, Exit(thread[t].variant), thread[t].loaded) /\ thread'[t].error
    BY <1>h, <2>1, <2>3, ExitIsAStep, MovedKeepsBoundaries
  <2> QED
    BY <1>4, <2>2, <2>3 DEF WriteOutcome
<1>5. ASSUME NEW t \in Threads, CommitOutcome(t) PROVE Boundaries'
  BY <1>h, <1>5 DEF CommitOutcome, Moved, Elsewhere, Bookkeeping
<1>6. ASSUME NEW t \in Threads, RegionOutcome(t) PROVE Boundaries'
  <2>1. boundary' = boundary /\ boundary[t] = "committed"
    BY <1>h, <1>6 DEF RegionOutcome
  <2>2. CASE Moved(t, "load", thread[t].loaded)
    BY <1>h, <2>1, <2>2, MovedKeepsBoundaries
  <2>3. CASE Moved(t, "resume", thread[t].loaded)
    BY <1>h, <2>1, <2>3, MovedKeepsBoundaries
  <2>4. CASE Moved(t, Exit(thread[t].variant), thread[t].loaded) /\ thread'[t].error
    BY <1>h, <2>1, <2>4, ExitIsAStep, MovedKeepsBoundaries
  <2> QED
    BY <1>6, <2>2, <2>3, <2>4 DEF RegionOutcome
<1>7. ASSUME NEW t \in Threads, ResumeOutcome(t) PROVE Boundaries'
  BY <1>h, <1>7, ExitIsAStep DEF ResumeOutcome, Moved, Elsewhere, Bookkeeping
<1>8. ASSUME NEW t \in Threads, LoadOutcome(t) PROVE Boundaries'
  BY <1>h, <1>8, ExitIsAStep DEF LoadOutcome, Moved, Elsewhere, Bookkeeping
<1>9. ASSUME NEW t \in Threads, NEW g \in {Sides, {"out"}, {"in"}}, ReturnSlotsOutcome(t, g) PROVE Boundaries'
  BY <1>h, <1>9 DEF ReturnSlotsOutcome, Moved, Elsewhere, Bookkeeping
<1>10. ASSUME NEW t \in Threads, ConcludeOutcome(t) PROVE Boundaries'
  BY <1>h, <1>10 DEF ConcludeOutcome, Moved, Elsewhere, Bookkeeping
<1>11. ASSUME NEW t \in Threads, ReleaseLease(t) PROVE Boundaries'
  BY <1>h, <1>11 DEF ReleaseLease, Idle, registryVars
<1>12. ASSUME NEW v \in Variants, RegisterInput(v) PROVE Boundaries'
  BY <1>h, <1>12 DEF RegisterInput, Lives
<1>13. ASSUME NEW v \in Variants, NEW b \in BOOLEAN, RegisterOutput(v, b) PROVE Boundaries'
  BY <1>h, <1>13 DEF RegisterOutput, Lives
<1>14. ASSUME NEW v \in Variants, NEW b \in BOOLEAN, Publish(v, b) PROVE Boundaries'
  BY <1>h, <1>14 DEF Publish, Lives, registryVars
<1>15. ASSUME NEW v \in Variants, Evict(v) PROVE Boundaries'
  BY <1>h, <1>15 DEF Evict, Lives, registryVars, Leased
<1>16. ASSUME NEW v \in Variants, NEW s \in Sides, ReleaseSlot(v, s) PROVE Boundaries'
  BY <1>h, <1>16 DEF ReleaseSlot
<1>17. ASSUME CloseManager \/ UNCHANGED vars PROVE Boundaries'
  BY <1>h, <1>17 DEF CloseManager, vars, registryVars
<1> QED
  BY <1>1, <1>2, <1>3, <1>4, <1>5, <1>6, <1>7, <1>8, <1>9, <1>10, <1>11, <1>12, <1>13, <1>14, <1>15, <1>16, <1>17 DEF Outcome

LEMMA CallVariant ==
    ASSUME Types, Leases, NEW t \in Threads, thread[t].at # "idle"
    PROVE  thread[t].variant \in Variants
  BY DEF Types, Leases, Calls

LEMMA OneHolder ==
    ASSUME Types, Borrowers, NEW t \in Threads, NEW u \in Threads, NEW s \in Sides,
           s \in Held(t), s \in Held(u), thread[t].variant = thread[u].variant,
           thread[t].variant \in Variants
    PROVE  t = u
  BY DEF Borrowers

LEMMA ContentSet ==
    ASSUME Types, NEW v \in Variants, NEW s \in Sides, NEW x \in Threads \cup {None}
    PROVE  [content EXCEPT ![v][s] = x] \in Registries /\ content \in Registries
<1>1. [content[v] EXCEPT ![s] = x] \in [Sides -> Threads \cup {None}]
  BY DEF Types, Registries
<1>2. [content EXCEPT ![v] = [content[v] EXCEPT ![s] = x]] \in Registries
  BY <1>1 DEF Types, Registries
<1> QED
  BY <1>2 DEF Types

(* A thread only gives back what it holds. *)
LEMMA ReturnIsBacked ==
    ASSUME ExecutionAssumption, Types, Leases, Borrowers, Books, NEW t \in Threads,
           NEW g \in {Sides, {"out"}, {"in"}}, ReturnSlotsOutcome(t, g)
    PROVE  /\ thread[t].variant \in Variants
           /\ g \in SUBSET Sides /\ g \subseteq Held(t)
           /\ g \in SUBSET native[thread[t].variant]
           /\ active[thread[t].variant] - Cardinality(g) \in Nat
<1> DEFINE v == thread[t].variant
<1>1. thread[t].at # "idle" /\ g \subseteq Held(t) /\ g \in SUBSET Sides
  BY DEF ReturnSlotsOutcome, Held, Inside, Sides
<1>2. v \in Variants
  BY <1>1, CallVariant
<1>3. \A s \in g : s \in Sides /\ borrower[v][s] = t
  BY <1>1, <1>2 DEF Borrowers
<1>4. g \in SUBSET native[v]
  BY <1>2, <1>3 DEF Books, ExecutionAssumption
<1>5. native[v] \in SUBSET Sides
  BY <1>2 DEF Types
<1>6. /\ Cardinality(native[v] \ g) = Cardinality(native[v]) - Cardinality(g)
      /\ Cardinality(native[v] \ g) \in 0..2
  BY <1>4, <1>5, SidesCount
<1>7. active[v] = Cardinality(native[v])
  BY <1>2 DEF Books
<1> QED
  BY <1>1, <1>2, <1>4, <1>6, <1>7

LEMMA SameHolders ==
    ASSUME Borrowers, UNCHANGED borrower, NEW t \in Threads,
           thread'[t].variant = thread[t].variant, Held(t)' = Held(t),
           \A u \in Threads \ {t} : thread'[u] = thread[u]
    PROVE  Borrowers'
<1>1. \A u \in Threads : Held(u)' = Held(u) /\ thread'[u].variant = thread[u].variant
  BY DEF Held, Inside
<1> QED
  BY <1>1 DEF Borrowers

LEMMA BorrowKeepsBooks ==
    ASSUME ExecutionAssumption, Types, Books, NEW t \in Threads, NEW v \in Variants,
           NEW g \in SUBSET Sides, \A s \in g : borrower[v][s] = None, Borrow(t, v, g)
    PROVE  Books'
<1>1. /\ \A w \in Variants, s \in Sides :
            borrower'[w][s] = IF w = v /\ s \in g THEN t ELSE borrower[w][s]
      /\ native'[v] = native[v] \cup g /\ active'[v] = active[v] + Cardinality(g)
      /\ \A w \in Variants \ {v} : native'[w] = native[w] /\ active'[w] = active[w]
  BY BorrowEffect
<1>2. native[v] \in SUBSET Sides /\ t # None
  BY DEF Types, ExecutionAssumption
<1>3. native[v] \cap g = {}
  BY DEF Books
<1>4. Cardinality(native[v] \cup g) = Cardinality(native[v]) + Cardinality(g)
  BY <1>2, <1>3, SidesCount
<1>5. active'[v] = Cardinality(native'[v])
  BY <1>1, <1>4 DEF Books
<1>6. native'[v] = {s \in Sides : borrower'[v][s] # None}
  BY <1>1, <1>2 DEF Books
<1>7. ASSUME NEW w \in Variants \ {v}
      PROVE  /\ native'[w] = {s \in Sides : borrower'[w][s] # None}
             /\ active'[w] = Cardinality(native'[w])
  <2>1. \A s \in Sides : borrower'[w][s] = borrower[w][s]
    BY <1>1
  <2> QED
    BY <1>1, <2>1 DEF Books
<1> QED
  BY <1>5, <1>6, <1>7 DEF Books

LEMMA ReturnKeepsBooks ==
    ASSUME ExecutionAssumption, Types, Books, NEW v \in Variants,
           NEW g \in SUBSET Sides, g \in SUBSET native[v],
           active[v] - Cardinality(g) \in Nat, Return(v, g)
    PROVE  Books'
<1>1. /\ \A w \in Variants, s \in Sides :
            borrower'[w][s] = IF w = v /\ s \in g THEN None ELSE borrower[w][s]
      /\ native'[v] = native[v] \ g /\ active'[v] = active[v] - Cardinality(g)
      /\ \A w \in Variants \ {v} : native'[w] = native[w] /\ active'[w] = active[w]
  BY ReturnEffect
<1>2. native[v] \in SUBSET Sides
  BY DEF Types
<1>3. Cardinality(native[v] \ g) = Cardinality(native[v]) - Cardinality(g)
  BY <1>2, SidesCount
<1>4. active'[v] = Cardinality(native'[v])
  BY <1>1, <1>3 DEF Books
<1>5. native'[v] = {s \in Sides : borrower'[v][s] # None}
  BY <1>1 DEF Books
<1>6. ASSUME NEW w \in Variants \ {v}
      PROVE  /\ native'[w] = {s \in Sides : borrower'[w][s] # None}
             /\ active'[w] = Cardinality(native'[w])
  <2>1. \A s \in Sides : borrower'[w][s] = borrower[w][s]
    BY <1>1
  <2> QED
    BY <1>1, <2>1 DEF Books
<1> QED
  BY <1>4, <1>5, <1>6 DEF Books

(* A slot whose release does not meet IN_USE is held by nobody. *)
LEMMA ReleasedIsFree ==
    ASSUME ExecutionAssumption, Types, Books, Borrowers, NEW v \in Variants,
           ~(active[v] > 0), NEW t \in Threads, thread[t].variant = v
    PROVE  Held(t) = {}
<1>1. native[v] \in SUBSET Sides /\ active[v] \in Nat
  BY DEF Types
<1>2. Cardinality(native[v]) = 0
  BY <1>1 DEF Books
<1>3. native[v] = {}
  BY <1>1, <1>2, SidesCount
<1>4. \A s \in Sides : borrower[v][s] = None
  BY <1>3 DEF Books
<1>5. Held(t) \subseteq Sides
  BY DEF Held, Sides
<1> QED
  BY <1>4, <1>5 DEF Borrowers, ExecutionAssumption

LEMMA HeldStaysLive ==
    ASSUME HeldAreLive, UNCHANGED live, NEW t \in Threads,
           thread'[t].variant = thread[t].variant, Held(t)' \subseteq Held(t) \cup live[thread[t].variant],
           \A u \in Threads \ {t} : thread'[u] = thread[u]
    PROVE  HeldAreLive'
<1>1. \A u \in Threads : /\ Held(u)' \subseteq Held(u) \cup live[thread[u].variant]
                         /\ thread'[u].variant = thread[u].variant
  BY DEF Held, Inside
<1> QED
  BY <1>1 DEF HeldAreLive

LEMMA NextTypes == ASSUME ExecutionAssumption, Inductive, Outcome PROVE Types'
<1>h. Types /\ Leases /\ Borrowers /\ Books
  BY DEF Inductive
<1>t. Types
  BY <1>h
<1> USE DEF Types, Calls, Registries
<1>1. ASSUME NEW t \in Threads, NEW v \in Variants, Call(t, v) PROVE Types'
  <2>1. [at |-> IF v \in paired THEN "begin" ELSE "borrow_in", variant |-> v,
         error |-> FALSE, loaded |-> None] \in Calls
    BY DEF Steps
  <2>2. thread' \in [Threads -> Calls]
    BY <1>h, <1>1, <2>1 DEF Call
  <2>3. boundary' \in [Threads -> {"pre_commit", "committed", "suffix_claimed"}]
    BY <1>h, <1>1 DEF Call
  <2> HIDE DEF Calls, Registries
  <2> QED
    BY <1>h, <1>1, <2>2, <2>3 DEF Call, registryVars
<1>2. ASSUME NEW t \in Threads, BeginPairOutcome(t) PROVE Types'
  <2>1. thread[t].variant \in Variants
    BY <1>h, <1>2, CallVariant DEF BeginPairOutcome
  <2>2. CASE Bookkeeping
    BY <1>h, <1>2, <2>2 DEF BeginPairOutcome, Moved, Elsewhere, Bookkeeping
  <2>3. CASE Borrow(t, thread[t].variant, Sides)
    <3>1. Sides \in SUBSET Sides
      OBVIOUS
    <3>2. /\ borrower' \in Registries
          /\ native' \in [Variants -> SUBSET Sides] /\ active' \in [Variants -> Nat]
      BY <1>h, <2>1, <2>3, <3>1, BorrowEffect
    <3> QED
      BY <1>h, <1>2, <3>2 DEF BeginPairOutcome, Moved, Elsewhere
  <2> QED
    BY <1>2, <2>2, <2>3 DEF BeginPairOutcome
<1>3. ASSUME NEW t \in Threads, NEW s \in Sides, BorrowSlotOutcome(t, s) PROVE Types'
  <2>1. thread[t].variant \in Variants
    BY <1>h, <1>3, CallVariant DEF BorrowSlotOutcome
  <2>2. CASE Bookkeeping
    BY <1>h, <1>3, <2>2 DEF BorrowSlotOutcome, Moved, Elsewhere, Bookkeeping
  <2>3. CASE Borrow(t, thread[t].variant, {s})
    <3>1. {s} \in SUBSET Sides
      OBVIOUS
    <3>2. /\ borrower' \in Registries
          /\ native' \in [Variants -> SUBSET Sides] /\ active' \in [Variants -> Nat]
      BY <1>h, <2>1, <2>3, <3>1, BorrowEffect
    <3> QED
      BY <1>h, <1>3, <3>2 DEF BorrowSlotOutcome, Moved, Elsewhere
  <2> QED
    BY <1>3, <2>2, <2>3 DEF BorrowSlotOutcome
<1>4. ASSUME NEW t \in Threads, WriteOutcome(t) PROVE Types'
  <2>1. thread[t].variant \in Variants
    BY <1>h, <1>4, CallVariant DEF WriteOutcome
  <2> HIDE DEF Registries
  <2>2. content' \in Registries
    BY <1>t, <1>4, <2>1, ContentSet DEF WriteOutcome, Sides
  <2> QED
    BY <1>t, <1>4, <2>2 DEF WriteOutcome, Moved, Elsewhere, Bookkeeping
<1>5. ASSUME NEW t \in Threads, CommitOutcome(t) PROVE Types'
  BY <1>h, <1>5 DEF CommitOutcome, Moved, Elsewhere, Bookkeeping
<1>6. ASSUME NEW t \in Threads, RegionOutcome(t) PROVE Types'
  <2>1. thread[t].variant \in Variants
    BY <1>h, <1>6, CallVariant DEF RegionOutcome
  <2>2. content[thread[t].variant]["in"] \in Threads \cup {None}
    BY <1>h, <2>1 DEF Sides
  <2> HIDE DEF Registries
  <2>3. content' \in Registries
    BY <1>t, <1>6, <2>1, <2>2, ContentSet DEF RegionOutcome, Sides
  <2> QED
    BY <1>t, <1>6, <2>3 DEF RegionOutcome, Moved, Elsewhere, Bookkeeping
<1>7. ASSUME NEW t \in Threads, ResumeOutcome(t) PROVE Types'
  BY <1>h, <1>7, ExitIsAStep DEF ResumeOutcome, Moved, Elsewhere, Bookkeeping
<1>8. ASSUME NEW t \in Threads, LoadOutcome(t) PROVE Types'
  BY <1>h, <1>8, ExitIsAStep DEF LoadOutcome, Moved, Elsewhere, Bookkeeping
<1>9. ASSUME NEW t \in Threads, NEW g \in {Sides, {"out"}, {"in"}}, ReturnSlotsOutcome(t, g) PROVE Types'
  <2> HIDE DEF Types, Calls, Registries
  <2>1. /\ thread[t].variant \in Variants /\ g \in SUBSET Sides
        /\ active[thread[t].variant] - Cardinality(g) \in Nat
    BY <1>h, <1>9, ReturnIsBacked
  <2>2. Return(thread[t].variant, g)
    BY <1>9 DEF ReturnSlotsOutcome
  <2>3. /\ borrower' \in Registries
        /\ native' \in [Variants -> SUBSET Sides] /\ active' \in [Variants -> Nat]
    BY <1>t, <2>1, <2>2, ReturnEffect
  <2> QED
    BY <1>t, <1>9, <2>3 DEF ReturnSlotsOutcome, Moved, Elsewhere, Types
<1>10. ASSUME NEW t \in Threads, ConcludeOutcome(t) PROVE Types'
  BY <1>h, <1>10 DEF ConcludeOutcome, Moved, Elsewhere, Bookkeeping
<1>11. ASSUME NEW t \in Threads, ReleaseLease(t) PROVE Types'
  <2>1. Idle \in Calls
    BY DEF Idle, Steps
  <2>2. thread' \in [Threads -> Calls]
    BY <1>h, <1>11, <2>1 DEF ReleaseLease
  <2> HIDE DEF Calls, Registries
  <2> QED
    BY <1>h, <1>11, <2>2 DEF ReleaseLease, registryVars
<1>12. ASSUME NEW v \in Variants, RegisterInput(v) PROVE Types'
  <2>1. {"in"} \in SUBSET Sides
    BY DEF Sides
  <2> HIDE DEF Calls, Registries
  <2> QED
    BY <1>h, <1>12, <2>1 DEF RegisterInput, Lives
<1>13. ASSUME NEW v \in Variants, NEW b \in BOOLEAN, RegisterOutput(v, b) PROVE Types'
  BY <1>h, <1>13 DEF RegisterOutput, Lives
<1>14. ASSUME NEW v \in Variants, NEW b \in BOOLEAN, Publish(v, b) PROVE Types'
  BY <1>h, <1>14 DEF Publish, Lives, registryVars
<1>15. ASSUME NEW v \in Variants, Evict(v) PROVE Types'
  BY <1>h, <1>15 DEF Evict, Lives, registryVars, Leased
<1>16. ASSUME NEW v \in Variants, NEW s \in Sides, ReleaseSlot(v, s) PROVE Types'
  <2>0. live[v] \ {s} \in SUBSET Sides
    BY <1>t
  <2>1. live' \in [Variants -> SUBSET Sides]
    BY <1>t, <1>16, <2>0 DEF ReleaseSlot
  <2>2. life' \in [Variants -> {"unbuilt", "input", "built", "cached", "close_out",
                               "close_in", "closed", "stuck"}]
    BY <1>h, <1>16 DEF ReleaseSlot
  <2> HIDE DEF Calls, Registries
  <2> QED
    BY <1>h, <1>16, <2>1, <2>2 DEF ReleaseSlot
<1>17. ASSUME CloseManager \/ UNCHANGED vars PROVE Types'
  BY <1>h, <1>17 DEF CloseManager, vars, registryVars
<1> QED
  BY <1>1, <1>2, <1>3, <1>4, <1>5, <1>6, <1>7, <1>8, <1>9, <1>10, <1>11, <1>12, <1>13, <1>14, <1>15, <1>16, <1>17 DEF Outcome

LEMMA NextRows == ASSUME ExecutionAssumption, Inductive, Outcome PROVE Rows'
<1>h. Types /\ Rows /\ Borrowers /\ Leases
  BY DEF Inductive
<1>t. Types
  BY <1>h
<1> USE DEF Types, Calls, Registries, Rows
<1>1. ASSUME NEW t \in Threads, NEW v \in Variants, Call(t, v) PROVE Rows'
  BY <1>h, <1>1 DEF Call, registryVars
<1>2. ASSUME NEW t \in Threads, BeginPairOutcome(t) PROVE Rows'
  BY <1>h, <1>2 DEF BeginPairOutcome, Moved, Elsewhere, Bookkeeping
<1>3. ASSUME NEW t \in Threads, NEW s \in Sides, BorrowSlotOutcome(t, s) PROVE Rows'
  <2>1. /\ UNCHANGED content /\ \A u \in Threads \ {t} : thread'[u] = thread[u]
        /\ thread'[t].at \in {"ended", "return_in", "borrow_out", "write"}
        /\ thread'[t].at \in {"ended", "return_in"} => thread'[t].error
    BY <1>3 DEF BorrowSlotOutcome, Moved, Elsewhere
  <2> QED
    BY <1>h, <2>1 DEF Rows
<1>4. ASSUME NEW t \in Threads, WriteOutcome(t) PROVE Rows'
  <2>1. thread[t].variant \in Variants /\ "in" \in Held(t) /\ "in" \in Sides
    BY <1>h, <1>4, CallVariant DEF WriteOutcome, Held, Inside, Sides
  <2>2. ASSUME NEW u \in Threads \ {t}, thread[u].variant = thread[t].variant
        PROVE  thread[u].at \notin {"commit", "region", "load"}
    BY <1>h, <2>1, <2>2, OneHolder DEF Held, Inside
  <2>3. /\ \A u \in Threads \ {t} : thread'[u] = thread[u]
        /\ thread'[t].variant = thread[t].variant
        /\ \/ thread'[t].at \in {"return_pair", "return_out"} /\ thread'[t].error
              /\ UNCHANGED content
           \/ thread'[t].at = "commit"
              /\ content' = [content EXCEPT ![thread[t].variant]["in"] = t]
    BY <1>4, ExitIsAStep DEF WriteOutcome, Moved
  <2>4. CASE /\ thread'[t].at \in {"return_pair", "return_out"} /\ thread'[t].error
             /\ UNCHANGED content
    <3>1. Rows
      BY <1>h
    <3> QED
      BY <3>1, <2>3, <2>4 DEF Rows
  <2>5. CASE thread'[t].at = "commit" /\ content' = [content EXCEPT ![thread[t].variant]["in"] = t]
    <3>1. /\ content'[thread[t].variant]["in"] = t
          /\ \A w \in Variants \ {thread[t].variant} : content'[w] = content[w]
      BY <1>h, <2>1, <2>5 DEF Sides
    <3>2. \A u \in Threads : thread[u].at \in {"commit", "region", "load"} =>
            thread[u].variant \in Variants
      BY <1>h, CallVariant
    <3> QED
      BY <1>h, <2>2, <2>3, <3>1, <3>2 DEF Rows
  <2> QED
    BY <2>3, <2>4, <2>5
<1>5. ASSUME NEW t \in Threads, CommitOutcome(t) PROVE Rows'
  BY <1>h, <1>5 DEF CommitOutcome, Moved, Elsewhere, Bookkeeping
<1>6. ASSUME NEW t \in Threads, RegionOutcome(t) PROVE Rows'
  <2>1. thread[t].variant \in Variants /\ "out" \in Held(t) /\ {"in", "out"} = Sides
    BY <1>h, <1>6, CallVariant DEF RegionOutcome, Held, Inside, Sides
  <2>2. ASSUME NEW u \in Threads \ {t}, thread[u].variant = thread[t].variant
        PROVE  thread[u].at \notin {"commit", "region", "load"}
    BY <1>h, <2>1, <2>2, OneHolder DEF Held, Inside
  <2>3. /\ \A u \in Threads \ {t} : thread'[u] = thread[u]
        /\ thread'[t].variant = thread[t].variant
        /\ \/ thread'[t].at \in {"return_pair", "return_out"} /\ thread'[t].error
              /\ UNCHANGED content
           \/ thread'[t].at = "resume" /\ UNCHANGED content
           \/ thread'[t].at = "load"
              /\ content' = [content EXCEPT ![thread[t].variant]["out"] =
                                content[thread[t].variant]["in"]]
    BY <1>6, ExitIsAStep DEF RegionOutcome, Moved
  <2>4. CASE /\ UNCHANGED content /\ thread'[t].at \in {"return_pair", "return_out", "resume"}
             /\ thread'[t].at # "resume" => thread'[t].error
    <3>1. Rows
      BY <1>h
    <3> QED
      BY <3>1, <2>3, <2>4 DEF Rows
  <2>5. CASE thread'[t].at = "load" /\ content' = [content EXCEPT ![thread[t].variant]["out"] =
                                                    content[thread[t].variant]["in"]]
    <3>0. content[thread[t].variant]["in"] = t
      BY <1>h, <1>6 DEF RegionOutcome, Rows
    <3>1. /\ content'[thread[t].variant]["in"] = t /\ content'[thread[t].variant]["out"] = t
          /\ \A w \in Variants \ {thread[t].variant} : content'[w] = content[w]
      BY <1>h, <2>1, <2>5, <3>0
    <3>2. \A u \in Threads : thread[u].at \in {"commit", "region", "load"} =>
            thread[u].variant \in Variants
      BY <1>h, CallVariant
    <3> QED
      BY <1>h, <2>2, <2>3, <2>5, <3>1, <3>2 DEF Rows
  <2> QED
    BY <2>3, <2>4, <2>5
<1>7. ASSUME NEW t \in Threads, ResumeOutcome(t) PROVE Rows'
  BY <1>h, <1>7, ExitIsAStep DEF ResumeOutcome, Moved, Elsewhere, Bookkeeping
<1>8. ASSUME NEW t \in Threads, LoadOutcome(t) PROVE Rows'
  BY <1>h, <1>8, ExitIsAStep DEF LoadOutcome, Moved, Elsewhere, Bookkeeping
<1>9. ASSUME NEW t \in Threads, NEW g \in {Sides, {"out"}, {"in"}}, ReturnSlotsOutcome(t, g) PROVE Rows'
  <2>1. /\ UNCHANGED content /\ \A u \in Threads \ {t} : thread'[u] = thread[u]
        /\ thread'[t].at \in {"ended", "return_in"} /\ thread'[t].loaded = thread[t].loaded
        /\ thread[t].at \in {"return_pair", "return_out", "return_in"}
        /\ ~thread'[t].error => ~thread[t].error
    BY <1>9 DEF ReturnSlotsOutcome, Moved
  <2> QED
    BY <1>h, <2>1 DEF Rows
<1>10. ASSUME NEW t \in Threads, ConcludeOutcome(t) PROVE Rows'
  <2>1. /\ UNCHANGED content /\ \A u \in Threads \ {t} : thread'[u] = thread[u]
        /\ thread'[t].at \in {"returned", "refused", "raised"}
        /\ thread'[t].loaded = thread[t].loaded /\ thread[t].at = "ended"
        /\ thread'[t].at = "returned" => ~thread[t].error
    BY <1>10 DEF ConcludeOutcome, Moved
  <2> QED
    BY <1>h, <2>1 DEF Rows
<1>11. ASSUME NEW t \in Threads, ReleaseLease(t) PROVE Rows'
  BY <1>h, <1>11 DEF ReleaseLease, Idle, registryVars
<1>12. ASSUME NEW v \in Variants, RegisterInput(v) PROVE Rows'
  BY <1>h, <1>12 DEF RegisterInput, Lives
<1>13. ASSUME NEW v \in Variants, NEW b \in BOOLEAN, RegisterOutput(v, b) PROVE Rows'
  BY <1>h, <1>13 DEF RegisterOutput, Lives
<1>14. ASSUME NEW v \in Variants, NEW b \in BOOLEAN, Publish(v, b) PROVE Rows'
  BY <1>h, <1>14 DEF Publish, Lives, registryVars
<1>15. ASSUME NEW v \in Variants, Evict(v) PROVE Rows'
  BY <1>h, <1>15 DEF Evict, Lives, registryVars, Leased
<1>16. ASSUME NEW v \in Variants, NEW s \in Sides, ReleaseSlot(v, s) PROVE Rows'
  BY <1>h, <1>16 DEF ReleaseSlot
<1>17. ASSUME CloseManager \/ UNCHANGED vars PROVE Rows'
  BY <1>h, <1>17 DEF CloseManager, vars, registryVars
<1> QED
  BY <1>1, <1>2, <1>3, <1>4, <1>5, <1>6, <1>7, <1>8, <1>9, <1>10, <1>11, <1>12, <1>13, <1>14, <1>15, <1>16, <1>17 DEF Outcome

LEMMA NextRegistered == ASSUME ExecutionAssumption, Inductive, Outcome PROVE Registered'
<1>h. Types /\ Registered /\ Books /\ Borrowers /\ Leases
  BY DEF Inductive
<1>t. Types
  BY <1>h
<1> USE DEF Types, Calls, Registries, Registered
<1>1. ASSUME NEW t \in Threads, NEW v \in Variants, Call(t, v) PROVE Registered'
  BY <1>h, <1>1 DEF Call, registryVars
<1>2. ASSUME NEW t \in Threads, BeginPairOutcome(t) PROVE Registered'
  BY <1>h, <1>2 DEF BeginPairOutcome, Moved, Elsewhere, Bookkeeping
<1>3. ASSUME NEW t \in Threads, NEW s \in Sides, BorrowSlotOutcome(t, s) PROVE Registered'
  BY <1>h, <1>3 DEF BorrowSlotOutcome, Moved, Elsewhere, Bookkeeping
<1>4. ASSUME NEW t \in Threads, WriteOutcome(t) PROVE Registered'
  BY <1>h, <1>4, ExitIsAStep DEF WriteOutcome, Moved, Elsewhere, Bookkeeping
<1>5. ASSUME NEW t \in Threads, CommitOutcome(t) PROVE Registered'
  BY <1>h, <1>5 DEF CommitOutcome, Moved, Elsewhere, Bookkeeping
<1>6. ASSUME NEW t \in Threads, RegionOutcome(t) PROVE Registered'
  BY <1>h, <1>6, ExitIsAStep DEF RegionOutcome, Moved, Elsewhere, Bookkeeping
<1>7. ASSUME NEW t \in Threads, ResumeOutcome(t) PROVE Registered'
  BY <1>h, <1>7, ExitIsAStep DEF ResumeOutcome, Moved, Elsewhere, Bookkeeping
<1>8. ASSUME NEW t \in Threads, LoadOutcome(t) PROVE Registered'
  BY <1>h, <1>8, ExitIsAStep DEF LoadOutcome, Moved, Elsewhere, Bookkeeping
<1>9. ASSUME NEW t \in Threads, NEW g \in {Sides, {"out"}, {"in"}}, ReturnSlotsOutcome(t, g) PROVE Registered'
  BY <1>h, <1>9 DEF ReturnSlotsOutcome, Moved, Elsewhere, Bookkeeping
<1>10. ASSUME NEW t \in Threads, ConcludeOutcome(t) PROVE Registered'
  BY <1>h, <1>10 DEF ConcludeOutcome, Moved, Elsewhere, Bookkeeping
<1>11. ASSUME NEW t \in Threads, ReleaseLease(t) PROVE Registered'
  BY <1>h, <1>11 DEF ReleaseLease, Idle, registryVars
<1>12. ASSUME NEW v \in Variants, RegisterInput(v) PROVE Registered'
  BY <1>h, <1>12 DEF RegisterInput, Lives
<1>13. ASSUME NEW v \in Variants, NEW b \in BOOLEAN, RegisterOutput(v, b) PROVE Registered'
  BY <1>h, <1>13 DEF RegisterOutput, Lives
<1>14. ASSUME NEW v \in Variants, NEW b \in BOOLEAN, Publish(v, b) PROVE Registered'
  BY <1>h, <1>14 DEF Publish, Lives, registryVars
<1>15. ASSUME NEW v \in Variants, Evict(v) PROVE Registered'
  BY <1>h, <1>15 DEF Evict, Lives, registryVars, Leased
<1>16. ASSUME NEW v \in Variants, NEW s \in Sides, ReleaseSlot(v, s) PROVE Registered'
  <2>1. ASSUME active[v] > 0 \/ borrower[v][s] # None PROVE shut
    <3>1. PICK z \in Sides : borrower[v][z] # None
      <4>1. CASE borrower[v][s] # None
        BY <4>1
      <4>2. CASE active[v] > 0
        <5>1. Cardinality(native[v]) # 0 /\ native[v] \in SUBSET Sides
          BY <1>h, <4>2 DEF Books
        <5>2. native[v] # {}
          BY <5>1, SidesCount
        <5> QED
          BY <1>h, <5>2 DEF Books
      <4> QED
        BY <2>1, <4>1, <4>2
    <3>2. PICK t \in Threads : borrower[v][z] = t
      BY <1>h, <3>1
    <3>3. thread[t].variant = v
      BY <1>h, <3>2 DEF Borrowers
    <3>4. life[v] # "cached" /\ v # None
      BY <1>16 DEF ReleaseSlot, ExecutionAssumption
    <3> QED
      BY <1>h, <3>3, <3>4 DEF Leases
  <2>2. UNCHANGED shut
    BY <1>16 DEF ReleaseSlot
  <2>3. CASE active[v] > 0 \/ borrower[v][s] # None
    <3>1. life' = [life EXCEPT ![v] = "stuck"] /\ UNCHANGED live
      BY <1>16, <2>3 DEF ReleaseSlot
    <3> QED
      BY <1>h, <2>1, <2>2, <2>3, <3>1
  <2>4. CASE ~(active[v] > 0 \/ borrower[v][s] # None)
    <3>1. /\ life' = [life EXCEPT ![v] = IF s = "out" THEN "close_in" ELSE "closed"]
          /\ live' = [live EXCEPT ![v] = @ \ {s}]
          /\ life[v] = IF s = "out" THEN "close_out" ELSE "close_in"
      BY <1>16, <2>4 DEF ReleaseSlot
    <3> QED
      BY <1>h, <2>2, <3>1 DEF Sides
  <2> QED
    BY <2>3, <2>4
<1>17. ASSUME CloseManager \/ UNCHANGED vars PROVE Registered'
  BY <1>h, <1>17 DEF CloseManager, vars, registryVars
<1> QED
  BY <1>1, <1>2, <1>3, <1>4, <1>5, <1>6, <1>7, <1>8, <1>9, <1>10, <1>11, <1>12, <1>13, <1>14, <1>15, <1>16, <1>17 DEF Outcome

LEMMA NextBorrowers == ASSUME ExecutionAssumption, Inductive, Outcome PROVE Borrowers'
<1>h. Types /\ Leases /\ Borrowers /\ Books
  BY DEF Inductive
<1>t. Types
  BY <1>h
<1> USE DEF Types, Calls, Registries, Borrowers, Held, Inside
<1>1. ASSUME NEW t \in Threads, NEW v \in Variants, Call(t, v) PROVE Borrowers'
  BY <1>h, <1>1 DEF Call, registryVars
<1>2. ASSUME NEW t \in Threads, BeginPairOutcome(t) PROVE Borrowers'
  <2>1. /\ thread[t].variant \in Variants /\ Sides \in SUBSET Sides
        /\ \A u \in Threads \ {t} : thread'[u] = thread[u]
        /\ thread'[t].variant = thread[t].variant
    BY <1>h, <1>2, CallVariant DEF BeginPairOutcome, Moved
  <2>2. CASE Bookkeeping /\ thread'[t].error /\ thread'[t].at = "ended"
    <3>1. Borrowers /\ UNCHANGED borrower
      BY <1>h, <2>2 DEF Bookkeeping
    <3>2. \A u \in Threads : Held(u)' = Held(u)
      BY <1>2, <2>1, <2>2 DEF BeginPairOutcome, Held, Inside
    <3>3. \A u \in Threads : thread'[u].variant = thread[u].variant
      BY <2>1
    <3> HIDE DEF Types, Calls, Registries
    <3> QED
      BY <3>1, <3>2, <3>3 DEF Borrowers
  <2>3. CASE Borrow(t, thread[t].variant, Sides) /\ thread'[t].at = "write" /\ \A s \in Sides : borrower[thread[t].variant][s] = None
    <3>1. \A w \in Variants, z \in Sides :
            borrower'[w][z] = IF w = thread[t].variant /\ z \in Sides
                              THEN t ELSE borrower[w][z]
      <4> HIDE DEF Types, Calls, Registries
      <4> QED
        BY <1>t, <2>1, <2>3, BorrowEffect
    <3>2. Held(t)' = Held(t) \cup Sides
      BY <1>2, <2>1, <2>3 DEF BeginPairOutcome, Held, Inside, Sides
    <3>3. \A u \in Threads \ {t} : Held(u)' = Held(u)
      BY <2>1 DEF Held, Inside
    <3>4. \A z \in Sides : borrower[thread[t].variant][z] = None
      BY <2>3
    <3>5. Borrowers /\ None \notin Threads
      BY <1>h DEF ExecutionAssumption
    <3> HIDE DEF Types, Calls, Registries
    <3> QED
      BY <2>1, <3>1, <3>2, <3>3, <3>4, <3>5 DEF Borrowers
  <2> QED
    BY <1>2, <2>2, <2>3 DEF BeginPairOutcome, Moved
<1>3. ASSUME NEW t \in Threads, NEW s \in Sides, BorrowSlotOutcome(t, s) PROVE Borrowers'
  <2>1. /\ thread[t].variant \in Variants /\ {s} \in SUBSET Sides
        /\ \A u \in Threads \ {t} : thread'[u] = thread[u]
        /\ thread'[t].variant = thread[t].variant
    BY <1>h, <1>3, CallVariant DEF BorrowSlotOutcome, Moved
  <2>2. CASE Bookkeeping /\ thread'[t].error /\ thread'[t].at = IF s = "in" THEN "ended" ELSE "return_in"
    <3>1. Borrowers /\ UNCHANGED borrower
      BY <1>h, <2>2 DEF Bookkeeping
    <3>2. \A u \in Threads : Held(u)' = Held(u)
      BY <1>3, <2>1, <2>2 DEF BorrowSlotOutcome, Held, Inside
    <3>3. \A u \in Threads : thread'[u].variant = thread[u].variant
      BY <2>1
    <3> HIDE DEF Types, Calls, Registries
    <3> QED
      BY <3>1, <3>2, <3>3 DEF Borrowers
  <2>3. CASE Borrow(t, thread[t].variant, {s}) /\ borrower[thread[t].variant][s] = None
             /\ thread'[t].at = IF s = "in" THEN "borrow_out" ELSE "write"
    <3>1. \A w \in Variants, z \in Sides :
            borrower'[w][z] = IF w = thread[t].variant /\ z \in {s}
                              THEN t ELSE borrower[w][z]
      <4> HIDE DEF Types, Calls, Registries
      <4> QED
        BY <1>t, <2>1, <2>3, BorrowEffect
    <3>2. Held(t)' = Held(t) \cup {s}
      BY <1>3, <2>1, <2>3 DEF BorrowSlotOutcome, Held, Inside, Sides
    <3>3. \A u \in Threads \ {t} : Held(u)' = Held(u)
      BY <2>1 DEF Held, Inside
    <3>4. \A z \in {s} : borrower[thread[t].variant][z] = None
      BY <2>3
    <3>5. Borrowers /\ None \notin Threads
      BY <1>h DEF ExecutionAssumption
    <3> HIDE DEF Types, Calls, Registries
    <3> QED
      BY <2>1, <3>1, <3>2, <3>3, <3>4, <3>5 DEF Borrowers
  <2> QED
    BY <1>3, <2>2, <2>3 DEF BorrowSlotOutcome, Moved
<1>4. ASSUME NEW t \in Threads, WriteOutcome(t) PROVE Borrowers'
  <2> HIDE DEF Types, Calls, Registries, Borrowers
  <2>1. /\ UNCHANGED borrower /\ thread'[t].variant = thread[t].variant
        /\ \A u \in Threads \ {t} : thread'[u] = thread[u]
    BY <1>4 DEF WriteOutcome, Moved, Bookkeeping
  <2>2. Held(t)' = Held(t)
    BY <1>4, ExitIsAStep DEF WriteOutcome, Moved
  <2> QED
    BY <1>h, <2>1, <2>2, SameHolders
<1>5. ASSUME NEW t \in Threads, CommitOutcome(t) PROVE Borrowers'
  <2> HIDE DEF Types, Calls, Registries, Borrowers
  <2>1. /\ UNCHANGED borrower /\ thread'[t].variant = thread[t].variant
        /\ \A u \in Threads \ {t} : thread'[u] = thread[u]
    BY <1>5 DEF CommitOutcome, Moved, Bookkeeping
  <2>2. Held(t)' = Held(t)
    BY <1>5 DEF CommitOutcome, Moved
  <2> QED
    BY <1>h, <2>1, <2>2, SameHolders
<1>6. ASSUME NEW t \in Threads, RegionOutcome(t) PROVE Borrowers'
  <2> HIDE DEF Types, Calls, Registries, Borrowers
  <2>1. /\ UNCHANGED borrower /\ thread'[t].variant = thread[t].variant
        /\ \A u \in Threads \ {t} : thread'[u] = thread[u]
    BY <1>6 DEF RegionOutcome, Moved, Bookkeeping
  <2>2. Held(t)' = Held(t)
    BY <1>6, ExitIsAStep DEF RegionOutcome, Moved
  <2> QED
    BY <1>h, <2>1, <2>2, SameHolders
<1>7. ASSUME NEW t \in Threads, ResumeOutcome(t) PROVE Borrowers'
  <2> HIDE DEF Types, Calls, Registries, Borrowers
  <2>1. /\ UNCHANGED borrower /\ thread'[t].variant = thread[t].variant
        /\ \A u \in Threads \ {t} : thread'[u] = thread[u]
    BY <1>7 DEF ResumeOutcome, Moved, Bookkeeping
  <2>2. Held(t)' = Held(t)
    BY <1>7, ExitIsAStep DEF ResumeOutcome, Moved
  <2> QED
    BY <1>h, <2>1, <2>2, SameHolders
<1>8. ASSUME NEW t \in Threads, LoadOutcome(t) PROVE Borrowers'
  <2> HIDE DEF Types, Calls, Registries, Borrowers
  <2>1. /\ UNCHANGED borrower /\ thread'[t].variant = thread[t].variant
        /\ \A u \in Threads \ {t} : thread'[u] = thread[u]
    BY <1>8 DEF LoadOutcome, Moved, Bookkeeping
  <2>2. Held(t)' = Held(t)
    BY <1>8, ExitIsAStep DEF LoadOutcome, Moved
  <2> QED
    BY <1>h, <2>1, <2>2, SameHolders
<1>9. ASSUME NEW t \in Threads, NEW g \in {Sides, {"out"}, {"in"}}, ReturnSlotsOutcome(t, g) PROVE Borrowers'
  <2> HIDE DEF Types, Calls, Registries, Borrowers, Held, Inside
  <2>0. Types /\ Leases /\ Borrowers /\ Books /\ ExecutionAssumption
    BY <1>h
  <2>1. /\ thread[t].variant \in Variants /\ g \in SUBSET Sides
        /\ active[thread[t].variant] - Cardinality(g) \in Nat /\ g \subseteq Held(t)
    BY <2>0, <1>9, ReturnIsBacked
  <2>2. Return(thread[t].variant, g)
    BY <1>9 DEF ReturnSlotsOutcome
  <2>3. \A w \in Variants, z \in Sides :
            borrower'[w][z] = IF w = thread[t].variant /\ z \in g
                              THEN None ELSE borrower[w][z]
    BY <1>t, <2>1, <2>2, ReturnEffect
  <2>4. Held(t)' = Held(t) \ g
    BY <1>9 DEF ReturnSlotsOutcome, Held, Inside, Sides, Moved
  <2>5. /\ thread'[t].variant = thread[t].variant
        /\ \A u \in Threads \ {t} : Held(u)' = Held(u) /\ thread'[u] = thread[u]
    BY <1>9 DEF ReturnSlotsOutcome, Moved, Held, Inside
  <2>6. Borrowers /\ None \notin Threads
    BY <1>h DEF ExecutionAssumption
  <2> QED
    BY <2>1, <2>3, <2>4, <2>5, <2>6 DEF Borrowers
<1>10. ASSUME NEW t \in Threads, ConcludeOutcome(t) PROVE Borrowers'
  <2> HIDE DEF Types, Calls, Registries, Borrowers
  <2>1. /\ UNCHANGED borrower /\ thread'[t].variant = thread[t].variant
        /\ \A u \in Threads \ {t} : thread'[u] = thread[u]
    BY <1>10 DEF ConcludeOutcome, Moved, Bookkeeping
  <2>2. Held(t)' = Held(t)
    BY <1>10 DEF ConcludeOutcome, Moved
  <2> QED
    BY <1>h, <2>1, <2>2, SameHolders
<1>11. ASSUME NEW t \in Threads, ReleaseLease(t) PROVE Borrowers'
  BY <1>h, <1>11 DEF ReleaseLease, Idle, registryVars
<1>12. ASSUME NEW v \in Variants, RegisterInput(v) PROVE Borrowers'
  BY <1>h, <1>12 DEF RegisterInput, Lives
<1>13. ASSUME NEW v \in Variants, NEW b \in BOOLEAN, RegisterOutput(v, b) PROVE Borrowers'
  BY <1>h, <1>13 DEF RegisterOutput, Lives
<1>14. ASSUME NEW v \in Variants, NEW b \in BOOLEAN, Publish(v, b) PROVE Borrowers'
  BY <1>h, <1>14 DEF Publish, Lives, registryVars
<1>15. ASSUME NEW v \in Variants, Evict(v) PROVE Borrowers'
  BY <1>h, <1>15 DEF Evict, Lives, registryVars, Leased
<1>16. ASSUME NEW v \in Variants, NEW s \in Sides, ReleaseSlot(v, s) PROVE Borrowers'
  BY <1>h, <1>16 DEF ReleaseSlot
<1>17. ASSUME CloseManager \/ UNCHANGED vars PROVE Borrowers'
  BY <1>h, <1>17 DEF CloseManager, vars, registryVars
<1> QED
  BY <1>1, <1>2, <1>3, <1>4, <1>5, <1>6, <1>7, <1>8, <1>9, <1>10, <1>11, <1>12, <1>13, <1>14, <1>15, <1>16, <1>17 DEF Outcome

LEMMA NextBooks == ASSUME ExecutionAssumption, Inductive, Outcome PROVE Books'
<1>h. Types /\ Leases /\ Borrowers /\ Books
  BY DEF Inductive
<1>t. Types
  BY <1>h
<1> USE DEF Types, Calls, Registries, Books
<1>1. ASSUME NEW t \in Threads, NEW v \in Variants, Call(t, v) PROVE Books'
  BY <1>h, <1>1 DEF Call, registryVars
<1>2. ASSUME NEW t \in Threads, BeginPairOutcome(t) PROVE Books'
  <2> HIDE DEF Types, Calls, Registries
  <2>1. thread[t].variant \in Variants /\ Sides \in SUBSET Sides
    BY <1>h, <1>2, CallVariant DEF BeginPairOutcome
  <2>2. CASE Bookkeeping
    BY <1>h, <2>2 DEF Bookkeeping, Books
  <2>3. CASE Borrow(t, thread[t].variant, Sides) /\ \A s \in Sides : borrower[thread[t].variant][s] = None
    BY <1>h, <2>1, <2>3, BorrowKeepsBooks
  <2> QED
    BY <1>2, <2>2, <2>3 DEF BeginPairOutcome
<1>3. ASSUME NEW t \in Threads, NEW s \in Sides, BorrowSlotOutcome(t, s) PROVE Books'
  <2> HIDE DEF Types, Calls, Registries
  <2>1. thread[t].variant \in Variants /\ {s} \in SUBSET Sides
    BY <1>h, <1>3, CallVariant DEF BorrowSlotOutcome
  <2>2. CASE Bookkeeping
    BY <1>h, <2>2 DEF Bookkeeping, Books
  <2>3. CASE Borrow(t, thread[t].variant, {s}) /\ borrower[thread[t].variant][s] = None
    BY <1>h, <2>1, <2>3, BorrowKeepsBooks
  <2> QED
    BY <1>3, <2>2, <2>3 DEF BorrowSlotOutcome
<1>4. ASSUME NEW t \in Threads, WriteOutcome(t) PROVE Books'
  BY <1>h, <1>4 DEF WriteOutcome, Bookkeeping, Books
<1>5. ASSUME NEW t \in Threads, CommitOutcome(t) PROVE Books'
  BY <1>h, <1>5 DEF CommitOutcome, Bookkeeping, Books
<1>6. ASSUME NEW t \in Threads, RegionOutcome(t) PROVE Books'
  BY <1>h, <1>6 DEF RegionOutcome, Bookkeeping, Books
<1>7. ASSUME NEW t \in Threads, ResumeOutcome(t) PROVE Books'
  BY <1>h, <1>7 DEF ResumeOutcome, Bookkeeping, Books
<1>8. ASSUME NEW t \in Threads, LoadOutcome(t) PROVE Books'
  BY <1>h, <1>8 DEF LoadOutcome, Bookkeeping, Books
<1>9. ASSUME NEW t \in Threads, NEW g \in {Sides, {"out"}, {"in"}}, ReturnSlotsOutcome(t, g) PROVE Books'
  <2> HIDE DEF Types, Calls, Registries
  <2>1. /\ thread[t].variant \in Variants /\ g \in SUBSET Sides
        /\ g \in SUBSET native[thread[t].variant]
        /\ active[thread[t].variant] - Cardinality(g) \in Nat
    BY <1>h, <1>9, ReturnIsBacked
  <2>2. Return(thread[t].variant, g)
    BY <1>9 DEF ReturnSlotsOutcome
  <2> QED
    BY <1>h, <2>1, <2>2, ReturnKeepsBooks
<1>10. ASSUME NEW t \in Threads, ConcludeOutcome(t) PROVE Books'
  BY <1>h, <1>10 DEF ConcludeOutcome, Bookkeeping, Books
<1>11. ASSUME NEW t \in Threads, ReleaseLease(t) PROVE Books'
  BY <1>h, <1>11 DEF ReleaseLease, Idle, registryVars
<1>12. ASSUME NEW v \in Variants, RegisterInput(v) PROVE Books'
  BY <1>h, <1>12 DEF RegisterInput, Lives
<1>13. ASSUME NEW v \in Variants, NEW b \in BOOLEAN, RegisterOutput(v, b) PROVE Books'
  BY <1>h, <1>13 DEF RegisterOutput, Lives
<1>14. ASSUME NEW v \in Variants, NEW b \in BOOLEAN, Publish(v, b) PROVE Books'
  BY <1>h, <1>14 DEF Publish, Lives, registryVars
<1>15. ASSUME NEW v \in Variants, Evict(v) PROVE Books'
  BY <1>h, <1>15 DEF Evict, Lives, registryVars, Leased
<1>16. ASSUME NEW v \in Variants, NEW s \in Sides, ReleaseSlot(v, s) PROVE Books'
  BY <1>h, <1>16 DEF ReleaseSlot
<1>17. ASSUME CloseManager \/ UNCHANGED vars PROVE Books'
  BY <1>h, <1>17 DEF CloseManager, vars, registryVars
<1> QED
  BY <1>1, <1>2, <1>3, <1>4, <1>5, <1>6, <1>7, <1>8, <1>9, <1>10, <1>11, <1>12, <1>13, <1>14, <1>15, <1>16, <1>17 DEF Outcome

LEMMA NextHeld == ASSUME ExecutionAssumption, Inductive, Outcome PROVE HeldAreLive'
<1>h. Types /\ Registered /\ Books /\ Borrowers /\ Leases /\ HeldAreLive
  BY DEF Inductive
<1>t. Types
  BY <1>h
<1> USE DEF Types, Calls, Registries, HeldAreLive, Held, Inside
<1>1. ASSUME NEW t \in Threads, NEW v \in Variants, Call(t, v) PROVE HeldAreLive'
  BY <1>h, <1>1 DEF Call, registryVars
<1>2. ASSUME NEW t \in Threads, BeginPairOutcome(t) PROVE HeldAreLive'
  BY <1>h, <1>2 DEF BeginPairOutcome, Moved, Elsewhere, Bookkeeping
<1>3. ASSUME NEW t \in Threads, NEW s \in Sides, BorrowSlotOutcome(t, s) PROVE HeldAreLive'
  <2> HIDE DEF Types, Calls, Registries, HeldAreLive
  <2>1. /\ UNCHANGED live /\ thread'[t].variant = thread[t].variant
        /\ \A u \in Threads \ {t} : thread'[u] = thread[u]
    BY <1>3 DEF BorrowSlotOutcome, Moved, Elsewhere
  <2>2. Held(t)' \subseteq Held(t) \cup live[thread[t].variant]
    <3>1. s = "in" \/ s = "out"
      BY DEF Sides
    <3>2. CASE s = "in"
      BY <1>3, <3>2 DEF BorrowSlotOutcome, Moved, Sides
    <3>3. CASE s = "out"
      BY <1>3, <3>3 DEF BorrowSlotOutcome, Moved, Sides
    <3> QED
      BY <3>1, <3>2, <3>3
  <2> QED
    BY <1>h, <2>1, <2>2, HeldStaysLive
<1>4. ASSUME NEW t \in Threads, WriteOutcome(t) PROVE HeldAreLive'
  <2> HIDE DEF Types, Calls, Registries, HeldAreLive
  <2>1. /\ UNCHANGED live /\ thread'[t].variant = thread[t].variant
        /\ \A u \in Threads \ {t} : thread'[u] = thread[u]
    BY <1>4 DEF WriteOutcome, Moved, Elsewhere
  <2>2. Held(t)' \subseteq Held(t)
    BY <1>4, ExitIsAStep DEF WriteOutcome, Moved, Sides
  <2> QED
    BY <1>h, <2>1, <2>2, HeldStaysLive
<1>5. ASSUME NEW t \in Threads, CommitOutcome(t) PROVE HeldAreLive'
  <2> HIDE DEF Types, Calls, Registries, HeldAreLive
  <2>1. /\ UNCHANGED live /\ thread'[t].variant = thread[t].variant
        /\ \A u \in Threads \ {t} : thread'[u] = thread[u]
    BY <1>5 DEF CommitOutcome, Moved, Elsewhere
  <2>2. Held(t)' \subseteq Held(t)
    BY <1>5 DEF CommitOutcome, Moved, Sides
  <2> QED
    BY <1>h, <2>1, <2>2, HeldStaysLive
<1>6. ASSUME NEW t \in Threads, RegionOutcome(t) PROVE HeldAreLive'
  <2> HIDE DEF Types, Calls, Registries, HeldAreLive
  <2>1. /\ UNCHANGED live /\ thread'[t].variant = thread[t].variant
        /\ \A u \in Threads \ {t} : thread'[u] = thread[u]
    BY <1>6 DEF RegionOutcome, Moved, Elsewhere
  <2>2. Held(t)' \subseteq Held(t)
    BY <1>6, ExitIsAStep DEF RegionOutcome, Moved, Sides
  <2> QED
    BY <1>h, <2>1, <2>2, HeldStaysLive
<1>7. ASSUME NEW t \in Threads, ResumeOutcome(t) PROVE HeldAreLive'
  <2> HIDE DEF Types, Calls, Registries, HeldAreLive
  <2>1. /\ UNCHANGED live /\ thread'[t].variant = thread[t].variant
        /\ \A u \in Threads \ {t} : thread'[u] = thread[u]
    BY <1>7 DEF ResumeOutcome, Moved, Elsewhere
  <2>2. Held(t)' \subseteq Held(t)
    BY <1>7, ExitIsAStep DEF ResumeOutcome, Moved, Sides
  <2> QED
    BY <1>h, <2>1, <2>2, HeldStaysLive
<1>8. ASSUME NEW t \in Threads, LoadOutcome(t) PROVE HeldAreLive'
  <2> HIDE DEF Types, Calls, Registries, HeldAreLive
  <2>1. /\ UNCHANGED live /\ thread'[t].variant = thread[t].variant
        /\ \A u \in Threads \ {t} : thread'[u] = thread[u]
    BY <1>8 DEF LoadOutcome, Moved, Elsewhere
  <2>2. Held(t)' \subseteq Held(t)
    BY <1>8, ExitIsAStep DEF LoadOutcome, Moved, Sides
  <2> QED
    BY <1>h, <2>1, <2>2, HeldStaysLive
<1>9. ASSUME NEW t \in Threads, NEW g \in {Sides, {"out"}, {"in"}}, ReturnSlotsOutcome(t, g) PROVE HeldAreLive'
  <2> HIDE DEF Types, Calls, Registries, HeldAreLive
  <2>1. /\ UNCHANGED live /\ thread'[t].variant = thread[t].variant
        /\ \A u \in Threads \ {t} : thread'[u] = thread[u]
    BY <1>9 DEF ReturnSlotsOutcome, Moved, Elsewhere
  <2>2. Held(t)' \subseteq Held(t)
    BY <1>9 DEF ReturnSlotsOutcome, Moved, Sides
  <2> QED
    BY <1>h, <2>1, <2>2, HeldStaysLive
<1>10. ASSUME NEW t \in Threads, ConcludeOutcome(t) PROVE HeldAreLive'
  <2> HIDE DEF Types, Calls, Registries, HeldAreLive
  <2>1. /\ UNCHANGED live /\ thread'[t].variant = thread[t].variant
        /\ \A u \in Threads \ {t} : thread'[u] = thread[u]
    BY <1>10 DEF ConcludeOutcome, Moved, Elsewhere
  <2>2. Held(t)' \subseteq Held(t)
    BY <1>10 DEF ConcludeOutcome, Moved, Sides
  <2> QED
    BY <1>h, <2>1, <2>2, HeldStaysLive
<1>11. ASSUME NEW t \in Threads, ReleaseLease(t) PROVE HeldAreLive'
  BY <1>h, <1>11 DEF ReleaseLease, Idle, registryVars
<1>12. ASSUME NEW v \in Variants, RegisterInput(v) PROVE HeldAreLive'
  <2>1. /\ life[v] \in {"unbuilt", "input"} /\ UNCHANGED thread
        /\ \A w \in Variants \ {v} : live'[w] = live[w]
    BY <1>h, <1>12 DEF RegisterInput, Lives
  <2>2. ASSUME NEW t \in Threads, NEW s \in Held(t)
        PROVE  thread[t].variant \in Variants \ {v}
    BY <1>h, <2>1, CallVariant DEF Leases, ExecutionAssumption
  <2> QED
    BY <1>h, <2>1, <2>2
<1>13. ASSUME NEW v \in Variants, NEW b \in BOOLEAN, RegisterOutput(v, b) PROVE HeldAreLive'
  <2>1. /\ life[v] \in {"unbuilt", "input"} /\ UNCHANGED thread
        /\ \A w \in Variants \ {v} : live'[w] = live[w]
    BY <1>h, <1>13 DEF RegisterOutput, Lives
  <2>2. ASSUME NEW t \in Threads, NEW s \in Held(t)
        PROVE  thread[t].variant \in Variants \ {v}
    BY <1>h, <2>1, CallVariant DEF Leases, ExecutionAssumption
  <2> QED
    BY <1>h, <2>1, <2>2
<1>14. ASSUME NEW v \in Variants, NEW b \in BOOLEAN, Publish(v, b) PROVE HeldAreLive'
  BY <1>h, <1>14 DEF Publish, Lives, registryVars
<1>15. ASSUME NEW v \in Variants, Evict(v) PROVE HeldAreLive'
  BY <1>h, <1>15 DEF Evict, Lives, registryVars, Leased
<1>16. ASSUME NEW v \in Variants, NEW s \in Sides, ReleaseSlot(v, s) PROVE HeldAreLive'
  <2>1. UNCHANGED thread /\ \A w \in Variants \ {v} : live'[w] = live[w]
    BY <1>h, <1>16 DEF ReleaseSlot
  <2>2. CASE UNCHANGED live
    BY <1>h, <2>1, <2>2
  <2>3. CASE ~(active[v] > 0)
    <3>1. ASSUME NEW t \in Threads, NEW z \in Held(t) PROVE thread[t].variant # v
      BY <1>h, <2>3, ReleasedIsFree
    <3>2. ASSUME NEW t \in Threads, NEW z \in Held(t) PROVE thread[t].variant \in Variants
      BY <1>h, CallVariant
    <3> QED
      BY <1>h, <2>1, <3>1, <3>2
  <2> QED
    BY <1>16, <2>2, <2>3 DEF ReleaseSlot
<1>17. ASSUME CloseManager \/ UNCHANGED vars PROVE HeldAreLive'
  BY <1>h, <1>17 DEF CloseManager, vars, registryVars
<1> QED
  BY <1>1, <1>2, <1>3, <1>4, <1>5, <1>6, <1>7, <1>8, <1>9, <1>10, <1>11, <1>12, <1>13, <1>14, <1>15, <1>16, <1>17 DEF Outcome

-----------------------------------------------------------------------------
LEMMA NextInductive == ASSUME ExecutionAssumption, Inductive, [Next]_vars PROVE Inductive'
<1>1. Outcome
  BY NextOutcome DEF Inductive
<1>2. Types' /\ Borrowers' /\ Books' /\ Leases'
  BY <1>1, NextTypes, NextBorrowers, NextBooks, NextLeases
<1>3. Registered' /\ HeldAreLive' /\ Rows' /\ Boundaries'
  BY <1>1, NextRegistered, NextHeld, NextRows, NextBoundaries
<1> QED
  BY <1>2, <1>3 DEF Inductive

LEMMA AlwaysInductive == ASSUME ExecutionAssumption PROVE Spec => []Inductive
<1>1. Init => Inductive
  BY InitInductive
<1>2. Inductive /\ [Next]_vars => Inductive'
  BY NextInductive
<1> QED
  BY <1>1, <1>2, PTL DEF Spec

(* What every step may rely on; the counter counts at most the two slots.  *)
THEOREM TypeCorrect == ASSUME ExecutionAssumption PROVE Spec => []TypeOK
<1>1. Inductive => TypeOK
  <2> SUFFICES ASSUME Inductive PROVE TypeOK
    OBVIOUS
  <2>1. ASSUME NEW v \in Variants PROVE active[v] \in 0..2
    BY SidesCount DEF Inductive, Types, Books
  <2>2. active \in [Variants -> 0..2]
    BY <2>1 DEF Inductive, Types
  <2> QED
    BY <2>2 DEF Inductive, Types, Registries, Calls, TypeOK
<1> QED
  BY <1>1, AlwaysInductive, PTL

(* The registry's entries, its counter and the native slots agree whenever *)
(* no call is inside them, whichever exceptions were raised, and no borrow *)
(* outlives its call (capability.py:401-471, executor.py:72-200).          *)
THEOREM BorrowsBalance == ASSUME ExecutionAssumption PROVE Spec => []BorrowsAgree
<1>1. Inductive => BorrowsAgree
  <2> SUFFICES ASSUME Inductive, NEW v \in Variants
               PROVE  /\ native[v] = {s \in Sides : borrower[v][s] # None}
                      /\ active[v] = Cardinality(native[v])
                      /\ \A s \in native[v] : thread[borrower[v][s]].variant = v
    BY DEF BorrowsAgree
  <2>1. native[v] = {s \in Sides : borrower[v][s] # None}
    BY DEF Inductive, Books
  <2>2. active[v] = Cardinality(native[v])
    BY DEF Inductive, Books
  <2>3. ASSUME NEW s \in native[v] PROVE thread[borrower[v][s]].variant = v
    <3>1. s \in Sides /\ borrower[v][s] \in Threads
      BY <2>1 DEF Inductive, Types, Registries
    <3> QED
      BY <3>1 DEF Inductive, Borrowers
  <2> QED
    BY <2>1, <2>2, <2>3
<1> QED
  BY <1>1, AlwaysInductive, PTL

(* A row loads what its own region stored, although all threads share the  *)
(* two slots of a variant (executor.py:118-170).                           *)
THEOREM RowsStayApart == ASSUME ExecutionAssumption PROVE Spec => []OwnRow
<1>1. Inductive => OwnRow
  BY DEF Inductive, Rows, OwnRow
<1> QED
  BY <1>1, AlwaysInductive, PTL

(* No slot is released between the first borrow and the last return of a   *)
(* row, not even by the manager's close (capability.py:401-471).           *)
THEOREM SlotsOutliveRows == ASSUME ExecutionAssumption PROVE Spec => []NotReleasedInUse
<1>1. Inductive => NotReleasedInUse
  <2> SUFFICES ASSUME Inductive, NEW t \in Threads, Inside(t)
               PROVE  /\ live[thread[t].variant] = Sides
                      /\ \A s \in Sides : borrower[thread[t].variant][s] = t
    BY DEF NotReleasedInUse
  <2>1. Held(t) = Sides
    BY DEF Held
  <2>2. thread[t].variant \in Variants
    BY CallVariant DEF Inductive, Inside
  <2>3. live[thread[t].variant] \subseteq Sides
    BY <2>2 DEF Inductive, Types
  <2>4. \A s \in Sides : s \in live[thread[t].variant]
    BY <2>1 DEF Inductive, HeldAreLive
  <2>5. \A s \in Sides : borrower[thread[t].variant][s] = t
    BY <2>1, <2>2 DEF Inductive, Borrowers
  <2> QED
    BY <2>3, <2>4, <2>5
<1> QED
  BY <1>1, AlwaysInductive, PTL

(* A variant that is done with has released its slots, unless its manager  *)
(* was closed under a running row (executor.py:479, variant_manager.py).   *)
THEOREM SlotsAreReleased == ASSUME ExecutionAssumption PROVE Spec => []NoSlotLeaks
<1>1. Inductive => NoSlotLeaks
  BY DEF Inductive, Registered, NoSlotLeaks
<1> QED
  BY <1>1, AlwaysInductive, PTL

-----------------------------------------------------------------------------
LEMMA PhaseMoves ==
    ASSUME NEW t \in Threads,
           \A u \in Threads \ {t} : thread'[u] = thread[u] /\ boundary'[u] = boundary[u]
    PROVE  phase' = [phase EXCEPT ![t] = phase'[t]]
<1>1. \A u \in Threads \ {t} : phase'[u] = phase[u]
  BY DEF phase
<1> QED
  BY <1>1 DEF phase

LEMMA PhaseStays ==
    ASSUME NEW t \in Threads, phase'[t] = phase[t],
           \A u \in Threads \ {t} : thread'[u] = thread[u] /\ boundary'[u] = boundary[u]
    PROVE  phase' = phase
  BY PhaseMoves DEF phase

LEMMA StepIsGuarded ==
    ASSUME Inductive, Outcome
    PROVE  [Guarded!GuardedCallNext]_phase
<1>b. Types /\ Leases /\ Boundaries
  BY DEF Inductive
<1> USE DEF Guarded!GuardedCallNext
<1>1. ASSUME NEW t \in Threads, NEW v \in Variants, Call(t, v)
      PROVE  Guarded!GuardedCallNext
  <2>1. /\ \A u \in Threads \ {t} : thread'[u] = thread[u] /\ boundary'[u] = boundary[u]
        /\ thread[t].at = "idle" /\ thread'[t].at \in {"begin", "borrow_in"}
        /\ boundary'[t] = "pre_commit"
    BY <1>b, <1>1 DEF Call, Types
  <2>2. phase[t] = "out" /\ phase'[t] = "pre_commit"
    BY <2>1 DEF phase
  <2> QED
    BY <2>1, <2>2, PhaseMoves DEF Guarded!Enter, Guarded!Moves
<1>2. ASSUME NEW t \in Threads, BeginPairOutcome(t) PROVE phase' = phase
  <2>1. /\ \A u \in Threads \ {t} : thread'[u] = thread[u] /\ boundary'[u] = boundary[u]
        /\ thread[t].at \notin {"idle", "returned", "refused", "raised"}
        /\ thread'[t].at \notin {"idle", "returned", "refused", "raised"}
        /\ boundary'[t] = boundary[t]
    BY <1>2 DEF BeginPairOutcome, Moved
  <2>2. phase'[t] = phase[t]
    BY <2>1 DEF phase
  <2> QED
    BY <2>1, <2>2, PhaseStays
<1>3. ASSUME NEW t \in Threads, NEW s \in Sides, BorrowSlotOutcome(t, s) PROVE phase' = phase
  <2>1. /\ \A u \in Threads \ {t} : thread'[u] = thread[u] /\ boundary'[u] = boundary[u]
        /\ thread[t].at \notin {"idle", "returned", "refused", "raised"}
        /\ thread'[t].at \notin {"idle", "returned", "refused", "raised"}
        /\ boundary'[t] = boundary[t]
    BY <1>3 DEF BorrowSlotOutcome, Moved
  <2>2. phase'[t] = phase[t]
    BY <2>1 DEF phase
  <2> QED
    BY <2>1, <2>2, PhaseStays
<1>4. ASSUME NEW t \in Threads, WriteOutcome(t) PROVE phase' = phase
  <2>1. /\ \A u \in Threads \ {t} : thread'[u] = thread[u] /\ boundary'[u] = boundary[u]
        /\ thread[t].at \notin {"idle", "returned", "refused", "raised"}
        /\ thread'[t].at \notin {"idle", "returned", "refused", "raised"}
        /\ boundary'[t] = boundary[t]
    BY <1>4, ExitIsAStep DEF WriteOutcome, Moved
  <2>2. phase'[t] = phase[t]
    BY <2>1 DEF phase
  <2> QED
    BY <2>1, <2>2, PhaseStays
<1>5. ASSUME NEW t \in Threads, RegionOutcome(t) PROVE phase' = phase
  <2>1. /\ \A u \in Threads \ {t} : thread'[u] = thread[u] /\ boundary'[u] = boundary[u]
        /\ thread[t].at \notin {"idle", "returned", "refused", "raised"}
        /\ thread'[t].at \notin {"idle", "returned", "refused", "raised"}
        /\ boundary'[t] = boundary[t]
    BY <1>5, ExitIsAStep DEF RegionOutcome, Moved
  <2>2. phase'[t] = phase[t]
    BY <2>1 DEF phase
  <2> QED
    BY <2>1, <2>2, PhaseStays
<1>6. ASSUME NEW t \in Threads, LoadOutcome(t) PROVE phase' = phase
  <2>1. /\ \A u \in Threads \ {t} : thread'[u] = thread[u] /\ boundary'[u] = boundary[u]
        /\ thread[t].at \notin {"idle", "returned", "refused", "raised"}
        /\ thread'[t].at \notin {"idle", "returned", "refused", "raised"}
        /\ boundary'[t] = boundary[t]
    BY <1>6, ExitIsAStep DEF LoadOutcome, Moved
  <2>2. phase'[t] = phase[t]
    BY <2>1 DEF phase
  <2> QED
    BY <2>1, <2>2, PhaseStays
<1>7. ASSUME NEW t \in Threads, NEW g \in {Sides, {"out"}, {"in"}}, ReturnSlotsOutcome(t, g) PROVE phase' = phase
  <2>1. /\ \A u \in Threads \ {t} : thread'[u] = thread[u] /\ boundary'[u] = boundary[u]
        /\ thread[t].at \notin {"idle", "returned", "refused", "raised"}
        /\ thread'[t].at \notin {"idle", "returned", "refused", "raised"}
        /\ boundary'[t] = boundary[t]
    BY <1>7 DEF ReturnSlotsOutcome, Moved
  <2>2. phase'[t] = phase[t]
    BY <2>1 DEF phase
  <2> QED
    BY <2>1, <2>2, PhaseStays
<1>8. ASSUME NEW t \in Threads, CommitOutcome(t) PROVE Guarded!GuardedCallNext
  <2>1. /\ \A u \in Threads \ {t} : thread'[u] = thread[u] /\ boundary'[u] = boundary[u]
        /\ thread[t].at = "commit" /\ thread'[t].at = "region"
        /\ boundary[t] = "pre_commit" /\ boundary'[t] = "committed"
    BY <1>b, <1>8 DEF CommitOutcome, Moved, Types
  <2>2. phase[t] = "pre_commit" /\ phase'[t] = "committed"
    BY <2>1 DEF phase
  <2> QED
    BY <2>1, <2>2, PhaseMoves DEF Guarded!Commit, Guarded!Moves
<1>9. ASSUME NEW t \in Threads, ResumeOutcome(t)
      PROVE  Guarded!GuardedCallNext \/ phase' = phase
  <2>1. /\ \A u \in Threads \ {t} : thread'[u] = thread[u] /\ boundary'[u] = boundary[u]
        /\ thread[t].at = "resume" /\ thread'[t].at \in {"return_pair", "return_out"}
        /\ \/ boundary'[t] = boundary[t]
           \/ boundary[t] = "committed" /\ boundary'[t] = "suffix_claimed"
    BY <1>b, <1>9, ExitIsAStep DEF ResumeOutcome, Moved, Types
  <2>2. CASE boundary'[t] = boundary[t]
    <3>1. phase'[t] = phase[t]
      BY <2>1, <2>2 DEF phase
    <3> QED
      BY <2>1, <3>1, PhaseStays
  <2>3. CASE boundary[t] = "committed" /\ boundary'[t] = "suffix_claimed"
    <3>1. phase[t] = "committed" /\ phase'[t] = "suffix_claimed"
      BY <2>1, <2>3 DEF phase
    <3> QED
      BY <2>1, <3>1, PhaseMoves DEF Guarded!ClaimSuffix, Guarded!Moves
  <2> QED
    BY <2>1, <2>2, <2>3
<1>10. ASSUME NEW t \in Threads, ConcludeOutcome(t) PROVE Guarded!GuardedCallNext
  <2>1. /\ \A u \in Threads \ {t} : thread'[u] = thread[u] /\ boundary'[u] = boundary[u]
        /\ thread[t].at = "ended" /\ boundary'[t] = boundary[t]
        /\ \/ thread'[t].at = "returned" /\ ~thread[t].error
           \/ thread'[t].at = "refused" /\ boundary[t] = "pre_commit"
           \/ thread'[t].at = "raised" /\ boundary[t] # "pre_commit"
    BY <1>10 DEF ConcludeOutcome, Moved
  <2>2. boundary[t] \in {"pre_commit", "committed", "suffix_claimed"}
    BY <1>b DEF Types
  <2>3. thread'[t].at = "returned" => boundary[t] # "pre_commit"
    BY <1>b, <2>1 DEF Boundaries
  <2>4. phase[t] = boundary[t] /\ phase'[t] = thread'[t].at
    BY <2>1 DEF phase
  <2>5. phase' = [phase EXCEPT ![t] = thread'[t].at]
    BY <2>1, <2>4, PhaseMoves
  <2> QED
    BY <2>1, <2>2, <2>3, <2>4, <2>5 DEF Guarded!Return, Guarded!Refuse, Guarded!Raise,
       Guarded!Moves
<1>11. ASSUME NEW t \in Threads, ReleaseLease(t) PROVE Guarded!GuardedCallNext
  <2>1. /\ \A u \in Threads \ {t} : thread'[u] = thread[u] /\ boundary'[u] = boundary[u]
        /\ thread[t].at \in {"returned", "refused", "raised"} /\ thread'[t].at = "idle"
    BY <1>b, <1>11 DEF ReleaseLease, Types, Idle
  <2>2. phase[t] \in {"refused", "returned", "raised"} /\ phase'[t] = "out"
    BY <2>1 DEF phase
  <2> QED
    BY <2>1, <2>2, PhaseMoves DEF Guarded!Leave, Guarded!Moves
<1>12. ASSUME UNCHANGED <<thread, boundary>> PROVE phase' = phase
  BY <1>12 DEF phase
<1>13. ASSUME NEW v \in Variants,
              \/ RegisterInput(v) \/ Evict(v)
              \/ \E ok \in BOOLEAN : RegisterOutput(v, ok) \/ Publish(v, ok)
              \/ \E s \in Sides : ReleaseSlot(v, s)
       PROVE  UNCHANGED <<thread, boundary>>
  BY <1>13 DEF RegisterInput, Evict, RegisterOutput, Publish, ReleaseSlot
<1>14. CloseManager \/ UNCHANGED vars => UNCHANGED <<thread, boundary>>
  BY DEF CloseManager, vars
<1> HIDE DEF Guarded!GuardedCallNext
<1> QED
  BY <1>1, <1>2, <1>3, <1>4, <1>5, <1>6, <1>7, <1>8, <1>9, <1>10, <1>11, <1>12, <1>13, <1>14
     DEF Outcome

(* Executing a variant is a guarded call: a refusal only before the        *)
(* commit, one commit and at most one suffix, and a value or an exception  *)
(* afterwards, wherever the registry, the region or the continuation       *)
(* raises (executor.py:72-200, continuation.py:282-393).                   *)
THEOREM RefinesGuardedCall ==
    ASSUME ExecutionAssumption
    PROVE  Spec => Guarded!GuardedCallInit /\ [][Guarded!GuardedCallNext]_phase
<1>1. Init => Guarded!GuardedCallInit
  BY DEF Init, Guarded!GuardedCallInit, phase, Idle
<1>2. Inductive /\ [Next]_vars => [Guarded!GuardedCallNext]_phase
  BY StepIsGuarded, NextOutcome DEF Inductive
<1> QED
  BY <1>1, <1>2, AlwaysInductive, PTL DEF Spec
=============================================================================

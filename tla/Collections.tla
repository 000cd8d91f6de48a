----------------------------- MODULE Collections -----------------------------
(***************************************************************************)
(* What the runtime does with a dict of sizes and with an ordered dict of  *)
(* keys, and what a worklist of the compiler reaches, as operators.        *)
(***************************************************************************)
EXTENDS Integers, Sequences, FiniteSets, FiniteSetsExt

(* sum(d.values()) *)
Total(f) == MapThenSumSet(LAMBDA x : f[x], DOMAIN f)

(* An ordered dict after the items of K were popped: the others in order. *)
Without(s, K) ==
    LET kept[n \in 0..Len(s)] ==
            IF n = 0 THEN <<>>
            ELSE IF s[n] \in K THEN kept[n - 1] ELSE Append(kept[n - 1], s[n])
    IN  kept[Len(s)]

(* No item twice. *)
Distinct(s) == \A i, j \in DOMAIN s : s[i] = s[j] => i = j

(* What a worklist reaches from S along the pairs of E, round by round. *)
Beyond(E, R) == R \cup {e[2] : e \in {x \in E : x[1] \in R}}
Reached(E, S) ==
    LET round[n \in 0..Cardinality(E)] ==
            IF n = 0 THEN S ELSE LET before == round[n - 1] IN Beyond(E, before)
    IN  round[Cardinality(E)]
=============================================================================

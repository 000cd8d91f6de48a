-------------------------- MODULE Collections_proofs --------------------------
(***************************************************************************)
(* The facts the proofs of the modules need about the operators of         *)
(* Collections.  The recursions are over finite data, so each fact is      *)
(* proved by the induction principles below: a set of subsets of S that    *)
(* holds {} and is closed under adding an element holds S, and the same    *)
(* for an interval.                                                        *)
(***************************************************************************)
EXTENDS Collections, FiniteSetTheorems, TLAPS

-----------------------------------------------------------------------------
(* Induction over a finite set, and over an interval. *)

LEMMA LeastSet ==
  ASSUME NEW S, IsFiniteSet(S), NEW T \in SUBSET SUBSET S, T # {}
  PROVE  \E s \in T : \A t \in T : ~(t \subseteq s /\ t # s)
<1>1. \E s \in T : \A t \in T : <<t, s>> \notin StrictSubsetOrdering(S)
  BY WFMin, FS_StrictSubsetOrderingWellFounded, FS_FiniteSubsetsOfFinite
<1> QED
  BY <1>1 DEF StrictSubsetOrdering

LEMMA SetInduction ==
  ASSUME NEW S, IsFiniteSet(S), NEW T, {} \in T,
         \A s \in SUBSET S : s \in T => \A x \in S \ s : s \cup {x} \in T
  PROVE  S \in T
<1> DEFINE B == {s \in SUBSET S : s \notin T}
<1> SUFFICES ASSUME B # {} PROVE FALSE
  OBVIOUS
<1>1. B \in SUBSET SUBSET S
  OBVIOUS
<1>2. PICK b \in B : \A t \in B : ~(t \subseteq b /\ t # b)
  <2> HIDE DEF B
  <2> QED
    BY LeastSet, <1>1
<1>3. PICK x \in b : TRUE
  BY <1>2
<1>4. b \ {x} \in T
  BY <1>2, <1>3
<1>5. (b \ {x}) \cup {x} \in T
  BY <1>2, <1>3, <1>4
<1>6. (b \ {x}) \cup {x} = b
  BY <1>3
<1> QED
  BY <1>2, <1>5, <1>6

LEMMA IntervalInduction ==
  ASSUME NEW n \in Nat, NEW T, 0 \in T, \A i \in 0..n : i < n /\ i \in T => i + 1 \in T
  PROVE  n \in T
<1> DEFINE B == {s \in SUBSET (0..n) : \E i \in 0..n : s = 0..i /\ i \notin T}
<1> SUFFICES ASSUME n \notin T PROVE FALSE
  OBVIOUS
<1>1. 0..n \in B /\ B \in SUBSET SUBSET (0..n)
  OBVIOUS
<1>2. PICK b \in B : \A t \in B : ~(t \subseteq b /\ t # b)
  <2> DEFINE D == 0..n
  <2>1. IsFiniteSet(D)
    BY FS_Interval
  <2>2. B \in SUBSET SUBSET D /\ B # {}
    <3> HIDE DEF B
    <3> QED
      BY <1>1
  <2> HIDE DEF B, D
  <2> QED
    BY LeastSet, <2>1, <2>2
<1>3. PICK i \in 0..n : b = 0..i /\ i \notin T
  BY <1>2
<1>4. i # 0 /\ i - 1 \in 0..n /\ i - 1 < n
  BY <1>3
<1>5. i - 1 \notin T
  BY <1>3, <1>4
<1>6. 0..(i - 1) \in B
  BY <1>4, <1>5
<1>7. 0..(i - 1) \subseteq b /\ 0..(i - 1) # b
  BY <1>3, <1>4
<1> QED
  BY <1>2, <1>6, <1>7

-----------------------------------------------------------------------------
(* A total of naturals counts units: size[x] of them for each x of s.      *)
NatValued(size) == \A x \in DOMAIN size : size[x] \in Nat
Units(size, s) == {u \in s \X (Nat \ {0}) : u[2] <= size[u[1]]}

LEMMA UnitsAdd ==
  ASSUME NEW size, NEW s, NEW x, x \notin s, size[x] \in Nat,
         IsFiniteSet(Units(size, s))
  PROVE  /\ IsFiniteSet(Units(size, s \cup {x}))
         /\ Cardinality(Units(size, s \cup {x})) = size[x] + Cardinality(Units(size, s))
<1> DEFINE A == {x}
           R == 1..size[x]
           C == A \X R
           U == Units(size, s)
           V == Units(size, s \cup {x})
<1>1. V = U \cup C /\ U \cap C = {}
  BY DEF Units
<1>2. IsFiniteSet(C) /\ Cardinality(C) = size[x]
  <2>1. IsFiniteSet(A) /\ Cardinality(A) = 1
    BY FS_Singleton
  <2>2. IsFiniteSet(R) /\ Cardinality(R) = size[x]
    BY FS_Interval
  <2> HIDE DEF A, R
  <2> QED
    BY <2>1, <2>2, FS_Product
<1> HIDE DEF C, U, V
<1>3. IsFiniteSet(U) /\ Cardinality(U) \in Nat
  BY FS_CardinalityType DEF U
<1>4. Cardinality({}) = 0
  BY FS_EmptySet
<1>5. IsFiniteSet(V) /\ Cardinality(V) = Cardinality(U) + Cardinality(C)
  BY <1>1, <1>2, <1>3, <1>4, FS_Union
<1> QED
  BY <1>2, <1>3, <1>5 DEF U, V

LEMMA UnitsFinite ==
  ASSUME NEW size, IsFiniteSet(DOMAIN size), NatValued(size)
  PROVE  \A s \in SUBSET DOMAIN size : IsFiniteSet(Units(size, s))
<1> DEFINE T == {s \in SUBSET DOMAIN size : IsFiniteSet(Units(size, s))}
<1> SUFFICES ASSUME NEW D \in SUBSET DOMAIN size PROVE D \in T
  OBVIOUS
<1>1. {} \in T
  <2>1. Units(size, {}) = {}
    BY DEF Units
  <2> QED
    BY <2>1, FS_EmptySet
<1>2. ASSUME NEW s \in SUBSET D, s \in T, NEW x \in D \ s PROVE s \cup {x} \in T
  BY <1>2, UnitsAdd DEF NatValued
<1>3. IsFiniteSet(D)
  BY FS_Subset
<1> HIDE DEF T
<1> QED
  BY <1>1, <1>2, <1>3, SetInduction

Unfolded(size, iter) ==
    iter = [s \in SUBSET DOMAIN size |->
              IF s = {} THEN 0
              ELSE size[CHOOSE x \in s : TRUE] + iter[s \ {CHOOSE x \in s : TRUE}]]

LEMMA TotalUnfolds ==
  ASSUME NEW size
  PROVE  Total(size) = (CHOOSE iter : Unfolded(size, iter))[DOMAIN size]
BY DEF Total, MapThenSumSet, MapThenFoldSet, Unfolded

LEMMA TotalIsUnits ==
  ASSUME NEW size, IsFiniteSet(DOMAIN size), NatValued(size)
  PROVE  Total(size) = Cardinality(Units(size, DOMAIN size))
<1> DEFINE D == DOMAIN size
           g == [s \in SUBSET D |-> Cardinality(Units(size, s))]
           first(s) == CHOOSE x \in s : TRUE
           iter == CHOOSE h : Unfolded(size, h)
<1>1. g[{}] = 0
  <2>1. Units(size, {}) = {}
    BY DEF Units
  <2> QED
    BY <2>1, FS_EmptySet
<1>2. ASSUME NEW s \in SUBSET D, s # {}
      PROVE  first(s) \in s /\ g[s] = size[first(s)] + g[s \ {first(s)}]
  <2>1. first(s) \in s
    BY <1>2
  <2> HIDE DEF first
  <2> DEFINE x == first(s)
             r == s \ {x}
  <2>2. s = r \cup {x} /\ x \notin r /\ r \in SUBSET D /\ size[x] \in Nat
    BY <2>1 DEF NatValued
  <2>3. IsFiniteSet(Units(size, r))
    BY <2>2, UnitsFinite
  <2> HIDE DEF x, r
  <2>4. Cardinality(Units(size, s)) = size[x] + Cardinality(Units(size, r))
    BY <2>2, <2>3, UnitsAdd
  <2> QED
    BY <2>1, <2>2, <2>4 DEF x, r
<1>3. Unfolded(size, g)
  <2> DEFINE rhs == [s \in SUBSET DOMAIN size |->
                       IF s = {} THEN 0 ELSE size[first(s)] + g[s \ {first(s)}]]
  <2>1. \A s \in SUBSET D : g[s] = rhs[s]
    <3> HIDE DEF g, first
    <3> QED
      BY <1>1, <1>2
  <2>2. g = rhs
    BY <2>1
  <2> QED
    BY <2>2 DEF Unfolded
<1>4. Unfolded(size, iter)
  BY <1>3
<1>5. \A s \in SUBSET D : iter[s] = g[s]
  <2> HIDE DEF g, iter
  <2> DEFINE B == {s \in SUBSET D : iter[s] # g[s]}
  <2> SUFFICES ASSUME B # {} PROVE FALSE
    OBVIOUS
  <2>1. PICK b \in B : \A t \in B : ~(t \subseteq b /\ t # b)
    <3>1. B \in SUBSET SUBSET D
      OBVIOUS
    <3> HIDE DEF B
    <3> QED
      BY <3>1, LeastSet
  <2>2. b # {}
    BY <2>1, <1>1, <1>4 DEF Unfolded
  <2>3. first(b) \in b /\ g[b] = size[first(b)] + g[b \ {first(b)}]
    BY <2>2, <1>2
  <2>4. iter[b] = size[first(b)] + iter[b \ {first(b)}]
    BY <2>2, <1>4 DEF Unfolded
  <2>5. iter[b \ {first(b)}] = g[b \ {first(b)}]
    <3> HIDE DEF first
    <3> QED
      BY <2>1, <2>3
  <2> QED
    BY <2>3, <2>4, <2>5
<1> QED
  BY <1>5, TotalUnfolds

(* What the proofs use: the type, the empty dict, monotonicity, and the    *)
(* split of a dict in two.                                                 *)
LEMMA TotalType ==
  ASSUME NEW size, IsFiniteSet(DOMAIN size), NatValued(size)
  PROVE  Total(size) \in Nat
<1>1. IsFiniteSet(Units(size, DOMAIN size))
  BY UnitsFinite
<1> QED
  BY <1>1, TotalIsUnits, FS_CardinalityType

LEMMA TotalEmpty ==
  ASSUME NEW size, DOMAIN size = {}
  PROVE  Total(size) = 0
<1>1. Units(size, DOMAIN size) = {}
  BY DEF Units
<1> QED
  BY <1>1, TotalIsUnits, FS_EmptySet DEF NatValued

LEMMA TotalLess ==
  ASSUME NEW size, IsFiniteSet(DOMAIN size), NatValued(size),
         NEW less, DOMAIN less \subseteq DOMAIN size, NatValued(less),
         \A x \in DOMAIN less : less[x] <= size[x]
  PROVE  Total(less) <= Total(size)
<1> DEFINE U == Units(size, DOMAIN size)
           V == Units(less, DOMAIN less)
<1>1. V \subseteq U
  BY DEF Units, NatValued
<1>2. IsFiniteSet(U) /\ IsFiniteSet(DOMAIN less)
  BY UnitsFinite, FS_Subset
<1>3. Cardinality(V) <= Cardinality(U)
  <2> HIDE DEF U, V
  <2> QED
    BY <1>1, <1>2, FS_Subset
<1> QED
  BY <1>2, <1>3, TotalIsUnits

LEMMA TotalSplit ==
  ASSUME NEW size, IsFiniteSet(DOMAIN size), NatValued(size),
         NEW left, NEW right, NatValued(left), NatValued(right),
         DOMAIN left \cup DOMAIN right = DOMAIN size,
         DOMAIN left \cap DOMAIN right = {},
         \A x \in DOMAIN left : left[x] = size[x],
         \A x \in DOMAIN right : right[x] = size[x]
  PROVE  Total(size) = Total(left) + Total(right)
<1> DEFINE U == Units(size, DOMAIN size)
           V == Units(left, DOMAIN left)
           W == Units(right, DOMAIN right)
<1>1. U = V \cup W /\ V \cap W = {}
  BY DEF Units
<1>2. IsFiniteSet(DOMAIN left) /\ IsFiniteSet(DOMAIN right)
  BY FS_Subset
<1>3. IsFiniteSet(V) /\ IsFiniteSet(W)
  BY <1>2, UnitsFinite
<1>4. Cardinality(V) \in Nat /\ Cardinality(W) \in Nat /\ Cardinality({}) = 0
  BY <1>3, FS_CardinalityType, FS_EmptySet
<1>5. Cardinality(U) = Cardinality(V) + Cardinality(W)
  <2> HIDE DEF U, V, W
  <2>1. Cardinality(V \cup W) = Cardinality(V) + Cardinality(W) - Cardinality(V \cap W)
    BY <1>3, FS_Union
  <2>2. Cardinality(V \cap W) = 0 /\ Cardinality(V \cup W) = Cardinality(U)
    BY <1>1, <1>4
  <2> QED
    BY <1>4, <2>1, <2>2
<1> QED
  BY <1>2, <1>5, TotalIsUnits

LEMMA TotalOne ==
  ASSUME NEW x, NEW n \in Nat
  PROVE  Total([y \in {x} |-> n]) = n
<1> DEFINE size == [y \in {x} |-> n]
           A == {x}
           R == 1..n
           U == Units(size, {x})
<1>1. U = A \X R
  BY DEF Units
<1>2. IsFiniteSet(A) /\ Cardinality(A) = 1
  BY FS_Singleton
<1>3. IsFiniteSet(R) /\ Cardinality(R) = n
  BY FS_Interval
<1>4. Cardinality(U) = n
  <2> HIDE DEF A, R, U
  <2> QED
    BY <1>1, <1>2, <1>3, FS_Product
<1>5. IsFiniteSet(DOMAIN size) /\ NatValued(size)
  BY <1>2 DEF NatValued
<1> QED
  BY <1>4, <1>5, TotalIsUnits

-----------------------------------------------------------------------------
(* Without keeps the order's type and drops exactly the keys of K; no key  *)
(* appears twice where none did.                                           *)
Keeps(s, K, kept, top) ==
    kept = [n \in 0..top |->
              IF n = 0 THEN <<>>
              ELSE IF s[n] \in K THEN kept[n - 1] ELSE Append(kept[n - 1], s[n])]

LEMMA KeepsExists ==
  ASSUME NEW s, NEW K, NEW top \in Nat
  PROVE  \E kept : Keeps(s, K, kept, top)
<1> DEFINE T == {n \in 0..top : \E kept : Keeps(s, K, kept, n)}
<1>1. 0 \in T
  <2>1. Keeps(s, K, [n \in 0..0 |-> <<>>], 0)
    BY DEF Keeps
  <2> QED
    BY <2>1
<1>2. ASSUME NEW i \in 0..top, i < top, i \in T PROVE i + 1 \in T
  <2>1. PICK kept : Keeps(s, K, kept, i)
    BY <1>2
  <2> DEFINE more == [n \in 0..(i + 1) |->
                        IF n # i + 1 THEN kept[n]
                        ELSE IF s[i + 1] \in K THEN kept[i] ELSE Append(kept[i], s[i + 1])]
  <2>2. Keeps(s, K, more, i + 1)
    <3> DEFINE rhs == [n \in 0..(i + 1) |->
              IF n = 0 THEN <<>>
              ELSE IF s[n] \in K THEN more[n - 1] ELSE Append(more[n - 1], s[n])]
    <3>1. ASSUME NEW n \in 0..(i + 1) PROVE more[n] = rhs[n]
      <4>1. CASE n = i + 1
        BY <4>1
      <4>2. CASE n # i + 1
        <5>1. n \in 0..i
          BY <4>2
        <5>2. kept[n] = IF n = 0 THEN <<>>
                        ELSE IF s[n] \in K THEN kept[n - 1] ELSE Append(kept[n - 1], s[n])
          BY <2>1, <5>1 DEF Keeps
        <5> QED
          BY <5>1, <5>2
      <4> QED
        BY <4>1, <4>2
    <3>2. more = rhs
      BY <3>1
    <3> QED
      BY <3>2 DEF Keeps
  <2> QED
    BY <1>2, <2>2
<1>3. top \in T
  <2> HIDE DEF T
  <2> QED
    BY <1>1, <1>2, IntervalInduction
<1> QED
  BY <1>3

LEMMA AppendDistinct ==
  ASSUME NEW S, NEW s \in Seq(S), NEW x \in S, x \notin Range(s), Distinct(s)
  PROVE  Distinct(Append(s, x))
BY DEF Distinct, Range

LEMMA AppendRange ==
  ASSUME NEW S, NEW s \in Seq(S), NEW x \in S
  PROVE  Append(s, x) \in Seq(S) /\ Range(Append(s, x)) = Range(s) \cup {x}
<1>1. \A i \in DOMAIN s : Append(s, x)[i] = s[i] /\ i \in DOMAIN Append(s, x)
  OBVIOUS
<1>2. Append(s, x)[Len(s) + 1] = x /\ Len(s) + 1 \in DOMAIN Append(s, x)
  OBVIOUS
<1>3. \A i \in DOMAIN Append(s, x) : i \in DOMAIN s \/ i = Len(s) + 1
  OBVIOUS
<1> QED
  BY <1>1, <1>2, <1>3 DEF Range

LEMMA AppendItems ==
  ASSUME NEW S, NEW s \in Seq(S), NEW x \in S
  PROVE  /\ Len(Append(s, x)) = Len(s) + 1 /\ Append(s, x)[Len(s) + 1] = x
         /\ DOMAIN Append(s, x) = 1..(Len(s) + 1)
         /\ \A i \in 1..Len(s) : Append(s, x)[i] = s[i]
OBVIOUS

LEMMA LastItems ==
  ASSUME NEW S, NEW s \in Seq(S), NEW n \in Nat, n <= Len(s)
  PROVE  /\ SubSeq(s, n + 1, Len(s)) \in Seq(S)
         /\ Len(SubSeq(s, n + 1, Len(s))) = Len(s) - n
         /\ \A i \in 1..(Len(s) - n) : SubSeq(s, n + 1, Len(s))[i] = s[i + n]
OBVIOUS

LEMMA WithoutUnfolds ==
  ASSUME NEW s, NEW K
  PROVE  Without(s, K) = (CHOOSE h : Keeps(s, K, h, Len(s)))[Len(s)]
BY DEF Without, Keeps

LEMMA WithoutFacts ==
  ASSUME NEW S, NEW s \in Seq(S), NEW K
  PROVE  /\ Without(s, K) \in Seq(S)
         /\ Range(Without(s, K)) = Range(s) \ K
         /\ Distinct(s) => Distinct(Without(s, K))
<1> DEFINE top == Len(s)
           kept == CHOOSE h : Keeps(s, K, h, top)
           front(n) == {s[i] : i \in 1..n}
           Good(n) == /\ kept[n] \in Seq(S)
                      /\ Range(kept[n]) = front(n) \ K
                      /\ Distinct(s) => Distinct(kept[n])
           T == {n \in 0..top : Good(n)}
<1>1. Keeps(s, K, kept, top)
  <2> HIDE DEF top
  <2>1. top \in Nat
    BY DEF top
  <2> QED
    BY <2>1, KeepsExists
<1>2. Without(s, K) = kept[top]
  BY WithoutUnfolds
<1> HIDE DEF kept
<1>3. Good(0)
  <2>1. kept[0] = <<>>
    BY <1>1 DEF Keeps
  <2>2. front(0) = {} /\ Range(<<>>) = {} /\ <<>> \in Seq(S) /\ Distinct(<<>>)
    BY DEF Range, Distinct
  <2> QED
    BY <2>1, <2>2
<1>4. ASSUME NEW i \in 0..top, i < top, Good(i) PROVE Good(i + 1)
  <2>1. kept[i + 1] = IF s[i + 1] \in K THEN kept[i] ELSE Append(kept[i], s[i + 1])
    <3>1. i + 1 \in 0..top /\ i + 1 # 0 /\ (i + 1) - 1 = i
      BY <1>4
    <3> HIDE DEF top, T, Good, front
    <3> QED
      BY <1>1, <3>1 DEF Keeps
  <2>2. i + 1 \in DOMAIN s /\ s[i + 1] \in S /\ front(i + 1) = front(i) \cup {s[i + 1]}
    BY <1>4
  <2>3. CASE s[i + 1] \in K
    BY <1>4, <2>1, <2>2, <2>3
  <2>4. CASE s[i + 1] \notin K
    <3>1. /\ kept[i + 1] \in Seq(S)
          /\ Range(kept[i + 1]) = Range(kept[i]) \cup {s[i + 1]}
      BY <1>4, <2>1, <2>2, <2>4, AppendRange
    <3>2. ASSUME Distinct(s) PROVE Distinct(kept[i + 1])
      <4>1. s[i + 1] \notin front(i)
        BY <1>4, <2>2, <3>2 DEF Distinct
      <4> QED
        BY <1>4, <2>1, <2>2, <2>4, <3>2, <4>1, AppendDistinct
    <3> QED
      BY <1>4, <2>2, <2>4, <3>1, <3>2
  <2> QED
    BY <2>3, <2>4
<1>5. top \in T
  <2>1. 0 \in T
    BY <1>3
  <2>2. ASSUME NEW i \in 0..top, i < top, i \in T PROVE i + 1 \in T
    <3>1. i + 1 \in 0..top /\ Good(i)
      BY <2>2
    <3>2. Good(i + 1)
      BY <1>4, <2>2, <3>1
    <3> HIDE DEF Good
    <3> QED
      BY <3>1, <3>2
  <2> HIDE DEF T
  <2> QED
    BY <2>1, <2>2, IntervalInduction
<1>6. front(top) = Range(s)
  BY DEF Range
<1> QED
  BY <1>2, <1>5, <1>6

LEMMA WithoutNothing ==
  ASSUME NEW S, NEW s \in Seq(S), NEW K, K \cap Range(s) = {}
  PROVE  Without(s, K) = s
<1> DEFINE top == Len(s)
           kept == CHOOSE h : Keeps(s, K, h, top)
           T == {n \in 0..top : kept[n] = SubSeq(s, 1, n)}
<1>1. Keeps(s, K, kept, top)
  <2> HIDE DEF top
  <2>1. top \in Nat
    BY DEF top
  <2> QED
    BY <2>1, KeepsExists
<1>2. Without(s, K) = kept[top]
  BY WithoutUnfolds
<1> HIDE DEF kept
<1>3. 0 \in T
  <2>1. kept[0] = <<>>
    BY <1>1 DEF Keeps
  <2>2. SubSeq(s, 1, 0) = <<>> /\ 0 \in 0..top
    OBVIOUS
  <2> QED
    BY <2>1, <2>2
<1>4. ASSUME NEW i \in 0..top, i < top, i \in T PROVE i + 1 \in T
  <2>1. i + 1 \in 0..top /\ i + 1 # 0 /\ (i + 1) - 1 = i /\ i + 1 \in DOMAIN s
    BY <1>4
  <2>2. s[i + 1] \notin K
    BY <2>1 DEF Range
  <2>3. kept[i + 1] = Append(kept[i], s[i + 1])
    <3> HIDE DEF top, T
    <3> QED
      BY <1>1, <2>1, <2>2 DEF Keeps
  <2>4. Append(SubSeq(s, 1, i), s[i + 1]) = SubSeq(s, 1, i + 1)
    BY <1>4
  <2> QED
    BY <1>4, <2>1, <2>3, <2>4
<1>5. top \in T
  <2> HIDE DEF T
  <2> QED
    BY <1>3, <1>4, IntervalInduction
<1>6. SubSeq(s, 1, top) = s
  OBVIOUS
<1> QED
  BY <1>2, <1>5, <1>6

(* A sequence without repetitions is as long as its range is large. *)
LEMMA DistinctLength ==
  ASSUME NEW S, NEW s \in Seq(S), Distinct(s)
  PROVE  Len(s) = Cardinality(Range(s)) /\ IsFiniteSet(Range(s))
<1>1. s \in Bijection(1..Len(s), Range(s))
  BY DEF Bijection, Injection, Surjection, IsInjective, Distinct, Range
<1>2. ExistsBijection(1..Len(s), Range(s))
  BY <1>1 DEF ExistsBijection
<1> QED
  BY <1>2, FS_CountingElements, FS_NatBijection

LEMMA WithoutShorter ==
  ASSUME NEW S, NEW s \in Seq(S), Distinct(s), NEW K
  PROVE  /\ Len(Without(s, K)) = Cardinality(Range(s) \ K)
         /\ Len(Without(s, K)) \in Nat /\ Len(Without(s, K)) <= Len(s)
         /\ IsFiniteSet(Range(s))
<1>1. PICK t : t = Without(s, K)
  OBVIOUS
<1>2. t \in Seq(S) /\ Distinct(t) /\ Range(t) = Range(s) \ K
  BY <1>1, WithoutFacts
<1>3. /\ Len(t) = Cardinality(Range(t)) /\ Len(s) = Cardinality(Range(s))
      /\ IsFiniteSet(Range(s)) /\ Len(t) \in Nat
  BY <1>2, DistinctLength
<1>4. Cardinality(Range(t)) <= Cardinality(Range(s))
  BY <1>2, <1>3, FS_Subset
<1> QED
  BY <1>1, <1>2, <1>3, <1>4

(* Only which of its items are taken out matters. *)
LEMMA WithoutSame ==
  ASSUME NEW S, NEW s \in Seq(S), NEW K, NEW L, \A x \in Range(s) : x \in K <=> x \in L
  PROVE  Without(s, K) = Without(s, L)
<1> DEFINE top == Len(s)
           f == CHOOSE h : Keeps(s, K, h, top)
           g == CHOOSE h : Keeps(s, L, h, top)
           T == {n \in 0..top : f[n] = g[n]}
<1>1. Keeps(s, K, f, top) /\ Keeps(s, L, g, top)
  <2> HIDE DEF top
  <2>1. top \in Nat
    BY DEF top
  <2> QED
    BY <2>1, KeepsExists
<1>2. Without(s, K) = f[top] /\ Without(s, L) = g[top]
  BY WithoutUnfolds
<1> HIDE DEF f, g
<1>3. 0 \in T
  <2>1. f[0] = <<>> /\ g[0] = <<>>
    BY <1>1 DEF Keeps
  <2> QED
    BY <2>1
<1>4. ASSUME NEW i \in 0..top, i < top, i \in T PROVE i + 1 \in T
  <2>1. i + 1 \in 0..top /\ i + 1 # 0 /\ (i + 1) - 1 = i /\ i + 1 \in DOMAIN s
    BY <1>4
  <2>2. s[i + 1] \in K <=> s[i + 1] \in L
    BY <2>1 DEF Range
  <2>3. f[i + 1] = g[i + 1]
    <3>1. f[i] = g[i]
      BY <1>4
    <3> HIDE DEF top, T
    <3>2. f[i + 1] = IF s[i + 1] \in K THEN f[i] ELSE Append(f[i], s[i + 1])
      BY <1>1, <2>1 DEF Keeps
    <3>3. g[i + 1] = IF s[i + 1] \in L THEN g[i] ELSE Append(g[i], s[i + 1])
      BY <1>1, <2>1 DEF Keeps
    <3> QED
      BY <2>2, <3>1, <3>2, <3>3
  <2> QED
    BY <2>1, <2>3
<1>5. top \in T
  <2> HIDE DEF T
  <2> QED
    BY <1>3, <1>4, IntervalInduction
<1> QED
  BY <1>2, <1>5

(* What came in increasing order stays so. *)
Increasing(s) == \A i, j \in DOMAIN s : i < j => s[i] < s[j]

LEMMA WithoutIncreasing ==
  ASSUME NEW s \in Seq(Nat), Increasing(s), NEW K
  PROVE  Increasing(Without(s, K))
<1> DEFINE top == Len(s)
           kept == CHOOSE h : Keeps(s, K, h, top)
           Good(n) == /\ kept[n] \in Seq(Nat) /\ Increasing(kept[n])
                      /\ \A i \in DOMAIN kept[n] : \E j \in 1..n : kept[n][i] = s[j]
           T == {n \in 0..top : Good(n)}
<1>1. Keeps(s, K, kept, top)
  <2> HIDE DEF top
  <2>1. top \in Nat
    BY DEF top
  <2> QED
    BY <2>1, KeepsExists
<1>2. Without(s, K) = kept[top]
  BY WithoutUnfolds
<1> HIDE DEF kept
<1>3. Good(0)
  <2>1. kept[0] = <<>>
    BY <1>1 DEF Keeps
  <2>2. <<>> \in Seq(Nat) /\ DOMAIN <<>> = {}
    OBVIOUS
  <2> QED
    BY <2>1, <2>2 DEF Increasing
<1>4. ASSUME NEW i \in 0..top, i < top, Good(i) PROVE Good(i + 1)
  <2>0. /\ i + 1 \in 0..top /\ i + 1 # 0 /\ (i + 1) - 1 = i /\ i + 1 \in DOMAIN s
        /\ s[i + 1] \in Nat /\ \A j \in 1..i : j \in 1..(i + 1) /\ j \in DOMAIN s /\ j < i + 1
    BY <1>4
  <2>1. kept[i + 1] = IF s[i + 1] \in K THEN kept[i] ELSE Append(kept[i], s[i + 1])
    <3> HIDE DEF top, T, Good
    <3> QED
      BY <1>1, <2>0 DEF Keeps
  <2>2. PICK b : b = kept[i]
    OBVIOUS
  <2>3. b \in Seq(Nat) /\ Increasing(b) /\ \A n \in DOMAIN b : \E j \in 1..i : b[n] = s[j]
    BY <1>4, <2>2
  <2>4. CASE s[i + 1] \in K
    BY <2>0, <2>1, <2>2, <2>3, <2>4
  <2>5. CASE s[i + 1] \notin K
    <3>1. PICK c : c = Append(b, s[i + 1])
      OBVIOUS
    <3>2. /\ c \in Seq(Nat) /\ DOMAIN b = 1..Len(b) /\ Len(b) \in Nat /\ DOMAIN c = 1..(Len(b) + 1)
          /\ c[Len(b) + 1] = s[i + 1] /\ \A n \in DOMAIN b : c[n] = b[n]
      BY <2>0, <2>3, <3>1
    <3>3. \A n \in DOMAIN c : n \in DOMAIN b \/ n = Len(b) + 1
      BY <3>2
    <3>4. \A n \in DOMAIN c : \E j \in 1..(i + 1) : c[n] = s[j]
      <4>1. i + 1 \in 1..(i + 1)
        BY <2>0
      <4> QED
        BY <2>0, <2>3, <3>2, <3>3, <4>1
    <3>5. ASSUME NEW n \in DOMAIN c, NEW m \in DOMAIN c, n < m PROVE c[n] < c[m]
      <4>1. CASE m \in DOMAIN b
        <5>1. n \in DOMAIN b
          BY <3>2, <3>5, <4>1
        <5> QED
          BY <2>3, <3>2, <3>5, <4>1, <5>1 DEF Increasing
      <4>2. CASE m = Len(b) + 1
        <5>1. n \in DOMAIN b
          BY <3>2, <3>5, <4>2
        <5>2. PICK j \in 1..i : b[n] = s[j]
          BY <2>3, <5>1
        <5>3. s[j] < s[i + 1]
          BY <2>0 DEF Increasing
        <5> QED
          BY <3>2, <4>2, <5>1, <5>2, <5>3
      <4> QED
        BY <3>3, <4>1, <4>2
    <3>6. kept[i + 1] = c
      BY <2>1, <2>2, <2>5, <3>1
    <3> QED
      BY <3>2, <3>4, <3>5, <3>6 DEF Increasing
  <2> QED
    BY <2>4, <2>5
<1>5. top \in T
  <2>1. 0 \in T
    BY <1>3
  <2>2. ASSUME NEW i \in 0..top, i < top, i \in T PROVE i + 1 \in T
    <3>1. i + 1 \in 0..top /\ Good(i)
      BY <2>2
    <3>2. Good(i + 1)
      BY <1>4, <2>2, <3>1
    <3> HIDE DEF Good
    <3> QED
      BY <3>1, <3>2
  <2> HIDE DEF T
  <2> QED
    BY <2>1, <2>2, IntervalInduction
<1> QED
  BY <1>2, <1>5
-----------------------------------------------------------------------------
(* The rounds of a worklist: they grow, stay in every set that is closed,  *)
(* and as a round that adds nothing is the last, |E| rounds are enough.    *)
Rounds(E, S, round, top) ==
    round = [n \in 0..top |->
               IF n = 0 THEN S ELSE LET before == round[n - 1] IN Beyond(E, before)]

LEMMA RoundsExist ==
  ASSUME NEW E, NEW S, NEW top \in Nat
  PROVE  \E round : Rounds(E, S, round, top)
<1> DEFINE T == {n \in 0..top : \E round : Rounds(E, S, round, n)}
<1>1. 0 \in T
  <2>1. Rounds(E, S, [n \in 0..0 |-> S], 0)
    BY DEF Rounds
  <2> QED
    BY <2>1
<1>2. ASSUME NEW i \in 0..top, i < top, i \in T PROVE i + 1 \in T
  <2>1. PICK round : Rounds(E, S, round, i)
    BY <1>2
  <2> DEFINE more == [n \in 0..(i + 1) |-> IF n # i + 1 THEN round[n] ELSE Beyond(E, round[i])]
             rhs == [n \in 0..(i + 1) |-> IF n = 0 THEN S ELSE Beyond(E, more[n - 1])]
  <2>2. ASSUME NEW n \in 0..(i + 1) PROVE more[n] = rhs[n]
    <3>1. CASE n = i + 1
      BY <3>1
    <3>2. CASE n # i + 1
      <4>1. n \in 0..i
        BY <3>2
      <4>2. round[n] = IF n = 0 THEN S ELSE Beyond(E, round[n - 1])
        BY <2>1, <4>1 DEF Rounds
      <4> QED
        BY <4>1, <4>2
    <3> QED
      BY <3>1, <3>2
  <2>3. more = rhs
    BY <2>2
  <2>4. Rounds(E, S, more, i + 1)
    BY <2>3 DEF Rounds
  <2> QED
    BY <1>2, <2>4
<1>3. top \in T
  <2> HIDE DEF T
  <2> QED
    BY <1>1, <1>2, IntervalInduction
<1> QED
  BY <1>3

LEMMA ReachedUnfolds ==
  ASSUME NEW E, IsFiniteSet(E), NEW S
  PROVE  \E round : /\ Reached(E, S) = round[Cardinality(E)]
                    /\ round[0] = S
                    /\ \A n \in 0..Cardinality(E) : n # 0 => round[n] = Beyond(E, round[n - 1])
<1> DEFINE round == CHOOSE r : Rounds(E, S, r, Cardinality(E))
<1>1. Cardinality(E) \in Nat
  BY FS_CardinalityType
<1>2. Rounds(E, S, round, Cardinality(E))
  BY <1>1, RoundsExist
<1>3. Reached(E, S) = round[Cardinality(E)]
  BY DEF Reached, Rounds
<1>4. round[0] = S /\ \A n \in 0..Cardinality(E) : n # 0 => round[n] = Beyond(E, round[n - 1])
  <2> HIDE DEF round
  <2> QED
    BY <1>1, <1>2 DEF Rounds
<1> HIDE DEF round
<1> QED
  BY <1>3, <1>4

(* Reached(E, S) holds S and nothing that a closed set around S leaves out. *)
LEMMA ReachedLeast ==
  ASSUME NEW E, IsFiniteSet(E), NEW S, NEW C, S \subseteq C,
         \A e \in E : e[1] \in C => e[2] \in C
  PROVE  S \subseteq Reached(E, S) /\ Reached(E, S) \subseteq C
<1>1. PICK round : /\ Reached(E, S) = round[Cardinality(E)]
                   /\ round[0] = S
                   /\ \A n \in 0..Cardinality(E) : n # 0 => round[n] = Beyond(E, round[n - 1])
  BY ReachedUnfolds
<1> DEFINE k == Cardinality(E)
           T == {n \in 0..k : S \subseteq round[n] /\ round[n] \subseteq C}
<1>2. k \in Nat
  BY FS_CardinalityType
<1> HIDE DEF k
<1>3. 0 \in T
  BY <1>1, <1>2
<1>4. ASSUME NEW i \in 0..k, i < k, i \in T PROVE i + 1 \in T
  <2>1. i + 1 \in 0..k /\ i + 1 # 0 /\ (i + 1) - 1 = i
    BY <1>2, <1>4
  <2>2. round[i + 1] = Beyond(E, round[i])
    BY <1>1, <2>1 DEF k
  <2> QED
    BY <1>4, <2>1, <2>2 DEF Beyond
<1>5. k \in T
  <2> HIDE DEF T
  <2> QED
    BY <1>2, <1>3, <1>4, IntervalInduction
<1> QED
  BY <1>1, <1>5 DEF k

(* Reached(E, S) is closed under E. *)
LEMMA ReachedCloses ==
  ASSUME NEW E, IsFiniteSet(E), NEW S, NEW e \in E, e[1] \in Reached(E, S)
  PROVE  e[2] \in Reached(E, S)
<1> DEFINE k == Cardinality(E)
           Ends == {x[2] : x \in E}
           Closed(R) == \A x \in E : x[1] \in R => x[2] \in R
<1>1. PICK round : /\ Reached(E, S) = round[k]
                   /\ round[0] = S
                   /\ \A n \in 0..k : n # 0 => round[n] = Beyond(E, round[n - 1])
  BY ReachedUnfolds
<1>2. k \in Nat /\ IsFiniteSet(Ends) /\ Cardinality(Ends) <= k
  <2> DEFINE f == [x \in E |-> x[2]]
  <2>1. f \in Surjection(E, Ends)
    BY DEF Surjection
  <2> QED
    BY <2>1, FS_CardinalityType, FS_Surjection
<1> DEFINE Good(n) == Closed(round[n]) \/ Cardinality(Ends \cap round[n]) >= n
           T == {n \in 0..k : Good(n)}
<1> HIDE DEF k, Ends
<1>3. \A n \in 0..k : IsFiniteSet(Ends \cap round[n]) /\ Cardinality(Ends \cap round[n]) \in Nat
  BY <1>2, FS_Subset, FS_CardinalityType
<1>4. 0 \in T
  BY <1>2, <1>3
<1>5. ASSUME NEW i \in 0..k, i < k, i \in T PROVE i + 1 \in T
  <2>1. i + 1 \in 0..k /\ i + 1 # 0 /\ (i + 1) - 1 = i
    BY <1>2, <1>5
  <2>2. round[i + 1] = Beyond(E, round[i])
    BY <1>1, <2>1
  <2>3. CASE Closed(round[i])
    <3>1. round[i + 1] = round[i]
      BY <2>2, <2>3 DEF Beyond
    <3> QED
      BY <2>1, <2>3, <3>1
  <2>4. CASE ~Closed(round[i])
    <3>1. Cardinality(Ends \cap round[i]) >= i
      BY <1>5, <2>4
    <3>2. PICK x \in E : x[1] \in round[i] /\ x[2] \notin round[i]
      BY <2>4
    <3> DEFINE before == Ends \cap round[i]
               after == Ends \cap round[i + 1]
    <3>3. /\ before \cup {x[2]} \subseteq after /\ x[2] \notin before
      BY <2>2, <3>2 DEF Beyond, Ends
    <3>4. /\ IsFiniteSet(before) /\ Cardinality(before) \in Nat
          /\ IsFiniteSet(after) /\ Cardinality(after) \in Nat
      BY <1>3, <2>1
    <3> HIDE DEF before, after
    <3>5. Cardinality(before \cup {x[2]}) = Cardinality(before) + 1
      BY <3>3, <3>4, FS_AddElement
    <3>6. Cardinality(before \cup {x[2]}) <= Cardinality(after)
      BY <3>3, <3>4, FS_Subset
    <3>7. Cardinality(after) >= i + 1
      BY <3>1, <3>4, <3>5, <3>6 DEF before
    <3> QED
      BY <2>1, <3>7 DEF after
  <2> QED
    BY <2>3, <2>4
<1>6. k \in T
  <2> HIDE DEF T
  <2> QED
    BY <1>2, <1>4, <1>5, IntervalInduction
<1>7. CASE Closed(round[k])
  BY <1>1, <1>7
<1>8. CASE Cardinality(Ends \cap round[k]) >= k
  <2> DEFINE held == Ends \cap round[k]
  <2>1. IsFiniteSet(held) /\ Cardinality(held) \in Nat /\ held \subseteq Ends
    BY <1>2, <1>3
  <2>2. Cardinality(held) <= Cardinality(Ends) /\ Cardinality(Ends) \in Nat
    BY <1>2, <2>1, FS_Subset, FS_CardinalityType
  <2>3. Cardinality(held) = Cardinality(Ends)
    BY <1>2, <1>8, <2>1, <2>2
  <2>4. held = Ends
    BY <1>2, <2>1, <2>3, FS_Subset
  <2> QED
    BY <1>1, <2>4 DEF Ends
<1> QED
  BY <1>6, <1>7, <1>8
=============================================================================

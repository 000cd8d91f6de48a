-------------------------- MODULE Compiler_proofs --------------------------
(* The compiler's parts keep what MCCompiler says of them, whatever modules   *)
(* they are given.                                                            *)
EXTENDS MCCompiler, Collections_proofs


LEMMA ImageFinite ==
  ASSUME NEW S, IsFiniteSet(S), NEW f, DOMAIN f = S
  PROVE  IsFiniteSet({f[x] : x \in S})
<1> DEFINE T == {f[x] : x \in S}
           g == [x \in S |-> f[x]]
<1>1. g \in Surjection(S, T)
  BY DEF Surjection
<1> QED
  BY <1>1, FS_Surjection

LEMMA TypedShapes ==
  ASSUME RegionsAssumption, NEW m \in TypedModules
  PROVE  /\ Len(m.blocks) \in Nat \ {0} /\ BlockIds(m) = 1..Len(m.blocks) /\ 1 \in BlockIds(m)
         /\ IsFiniteSet(BlockIds(m)) /\ IsFiniteSet(m.edges)
         /\ \A b \in BlockIds(m) : /\ m.blocks[b] \in BlockRecords
                                   /\ Len(OpsAt(m, b)) \in Nat \ {0}
                                   /\ DOMAIN OpsAt(m, b) = 1..Len(OpsAt(m, b))
                                   /\ \A p \in DOMAIN OpsAt(m, b) : OpsAt(m, b)[p] \in OperationRecords
         /\ \A e \in m.edges : e \in EdgeRecords
         /\ \A b \in BlockIds(m) : \A p \in DOMAIN OpsAt(m, b) :
              OpsAt(m, b)[p].op \in Terminators => p = Len(OpsAt(m, b))
<1>1. /\ m.blocks \in Seq(BlockRecords) /\ Len(m.blocks) > 0
      /\ m.edges \in SUBSET EdgeRecords /\ IsFiniteSet(m.edges)
      /\ \A b \in BlockIds(m) : Len(OpsAt(m, b)) > 0
      /\ \A x \in Positions(m) : OpOf(m, x).op \in Terminators => x = Ends(m, x[1])
  BY DEF RegionsAssumption
<1>2. Len(m.blocks) \in Nat \ {0} /\ BlockIds(m) = 1..Len(m.blocks) /\ 1 \in BlockIds(m)
  BY <1>1 DEF BlockIds
<1>3. IsFiniteSet(BlockIds(m))
  BY <1>2, FS_Interval
<1>4. ASSUME NEW b \in BlockIds(m)
      PROVE  /\ m.blocks[b] \in BlockRecords
             /\ Len(OpsAt(m, b)) \in Nat \ {0}
             /\ DOMAIN OpsAt(m, b) = 1..Len(OpsAt(m, b))
             /\ \A p \in DOMAIN OpsAt(m, b) : OpsAt(m, b)[p] \in OperationRecords
  <2>1. m.blocks[b] \in BlockRecords
    BY <1>1 DEF BlockIds
  <2>2. OpsAt(m, b) \in Seq(OperationRecords)
    BY <2>1 DEF OpsAt, BlockRecords
  <2>3. Len(OpsAt(m, b)) > 0
    BY <1>1
  <2> HIDE DEF OpsAt
  <2> QED
    BY <2>1, <2>2, <2>3
<1>5. ASSUME NEW b \in BlockIds(m), NEW p \in DOMAIN OpsAt(m, b), OpsAt(m, b)[p].op \in Terminators
      PROVE  p = Len(OpsAt(m, b))
  <2>1. <<b, p>> \in Positions(m) /\ OpOf(m, <<b, p>>) = OpsAt(m, b)[p] /\ <<b, p>>[1] = b
    BY DEF Positions, OpOf
  <2>2. <<b, p>> = Ends(m, b)
    BY <1>1, <1>5, <2>1
  <2> QED
    BY <2>2 DEF Ends
<1> QED
  BY <1>1, <1>2, <1>3, <1>4, <1>5

(* What verify_typed_module has found out when it returns. *)
Verified(m) ==
  /\ m.blocks[1].args = <<>>
  /\ \A b \in BlockIds(m) : Ending(m, b).op \in Terminators
  /\ \A e \in m.edges : e.from \in BlockIds(m) /\ e.to \in BlockIds(m)
  /\ \A e, f \in m.edges : e.from = f.from /\ e.to = f.to /\ e.kind = f.kind => e = f
  /\ \A b \in BlockIds(m) : {<<e.to, e.kind>> : e \in Outof(m, b)} = ExpectedEdges(m, b)
  /\ ReachedFrom(m, {1}) = BlockIds(m)
  /\ \A d, e \in Defined(m) : d[1] = e[1] => d = e
  /\ \A b \in BlockIds(m) : ~Repeats(m, b)
  /\ \A e \in m.edges : EdgeVerdict(m, DominatorsOf(m), e) = ""
  /\ \A x \in Positions(m) : OperationVerdict(m, DominatorsOf(m), x) = ""

LEMMA VerifiedFacts == ASSUME NEW m, Verify(m) = "" PROVE Verified(m)
<1> DEFINE dom == DominatorsOf(m)
           edges == {EdgeVerdict(m, dom, e) : e \in m.edges} \ {""}
           ops == {OperationVerdict(m, dom, x) : x \in Positions(m)} \ {""}
<1>1. /\ ~(m.blocks[1].args # <<>> \/ \E b \in BlockIds(m) : Ending(m, b).op \notin Terminators)
      /\ ~\E e \in m.edges : {e.from, e.to} \ BlockIds(m) # {}
      /\ ~\E e, f \in m.edges : e # f /\ <<e.from, e.to, e.kind>> = <<f.from, f.to, f.kind>>
      /\ ~\E b \in BlockIds(m) : {<<e.to, e.kind>> : e \in Outof(m, b)} # ExpectedEdges(m, b)
      /\ ReachedFrom(m, {1}) = BlockIds(m)
      /\ ~\E d, e \in Defined(m) : d # e /\ d[1] = e[1]
      /\ ~\E b \in BlockIds(m) : Repeats(m, b)
      /\ edges = {} /\ ops = {}
  <2>1. edges # {} => (CHOOSE c \in edges : TRUE) # ""
    OBVIOUS
  <2>2. ops # {} => (CHOOSE c \in ops : TRUE) # ""
    OBVIOUS
  <2> QED
    BY <2>1, <2>2 DEF Verify
<1>2. \A e \in m.edges : EdgeVerdict(m, dom, e) = ""
  BY <1>1
<1>3. \A x \in Positions(m) : OperationVerdict(m, dom, x) = ""
  BY <1>1
<1>4. \A e \in m.edges : e.from \in BlockIds(m) /\ e.to \in BlockIds(m)
  BY <1>1
<1> QED
  BY <1>1, <1>2, <1>3, <1>4 DEF Verified

-----------------------------------------------------------------------------
(* Dominators. *)
LEMMA DominatorsShrink ==
  ASSUME RegionsAssumption, NEW m \in TypedModules, Verified(m)
  PROVE  LET dom == DominatorsOf(m) IN
         /\ dom[1] = {1}
         /\ \A b \in BlockIds(m) : b \in dom[b] /\ dom[b] \subseteq BlockIds(m)
         /\ \A e \in m.edges : e.to # 1 => \A c \in dom[e.to] : c = e.to \/ c \in dom[e.from]
<1> DEFINE dom == DominatorsOf(m)
           B == BlockIds(m)
           S == {<<1, c>> : c \in B \ {1}}
           Y == {y \in m.edges \X B : y[1].to \notin {1, y[2]}}
           f == [x \in Y |-> <<<<x[1].from, x[2]>>, <<x[1].to, x[2]>>>>]
           E == {<<<<x[1].from, x[2]>>, <<x[1].to, x[2]>>>> : x \in Y}
           Kin == {x \in B \X B : x[1] # x[2]}
<1>1. TakenOut(m) = Reached(E, S)
  BY DEF TakenOut
<1>2. IsFiniteSet(E)
  <2>1. IsFiniteSet(m.edges \X B)
    BY TypedShapes, FS_Product
  <2>2. IsFiniteSet(Y)
    BY <2>1, FS_Subset
  <2>3. IsFiniteSet({f[x] : x \in Y})
    <3> HIDE DEF Y
    <3> QED
      BY <2>2, ImageFinite
  <2>4. {f[x] : x \in Y} = E
    <3> HIDE DEF Y
    <3> QED
      OBVIOUS
  <2> QED
    BY <2>3, <2>4
<1>3. 1 \in B
  BY TypedShapes
<1>4. S \subseteq Kin
  BY <1>3
<1>5. \A e \in E : e[1] \in Kin => e[2] \in Kin
  <2> SUFFICES ASSUME NEW x \in Y, <<x[1].from, x[2]>> \in Kin PROVE <<x[1].to, x[2]>> \in Kin
    OBVIOUS
  <2>1. x[1].to \in B /\ x[2] \in B /\ x[1].to # x[2]
    BY DEF Verified
  <2> QED
    BY <2>1
<1> HIDE DEF S, Kin
<1>6. S \subseteq TakenOut(m) /\ TakenOut(m) \subseteq Kin
  <2> HIDE DEF E
  <2> QED
    BY <1>1, <1>2, <1>4, <1>5, ReachedLeast
<1>7. dom = [b \in B |-> {c \in B : <<b, c>> \notin TakenOut(m)}]
  BY DEF DominatorsOf
<1>8. dom[1] = {1}
  BY <1>3, <1>6, <1>7 DEF S, Kin
<1>9. ASSUME NEW b \in B PROVE b \in dom[b] /\ dom[b] \subseteq B
  BY <1>6, <1>7 DEF Kin
<1>10. ASSUME NEW e \in m.edges, e.to # 1, NEW c \in dom[e.to], c # e.to
       PROVE  c \in dom[e.from]
  <2>1. e.from \in B /\ e.to \in B
    BY DEF Verified
  <2>2. c \in B /\ <<e.to, c>> \notin TakenOut(m)
    BY <1>7, <1>10, <2>1
  <2>3. <<e, c>> \in Y /\ <<<<e.from, c>>, <<e.to, c>>>> \in E
    BY <1>10, <2>2
  <2>4. <<e.from, c>> \notin TakenOut(m)
    <3> SUFFICES ASSUME <<e.from, c>> \in TakenOut(m) PROVE FALSE
      OBVIOUS
    <3> DEFINE p == <<<<e.from, c>>, <<e.to, c>>>>
    <3>1. p \in E /\ p[1] = <<e.from, c>> /\ p[2] = <<e.to, c>>
      BY <2>3
    <3> HIDE DEF p, E
    <3>2. p[2] \in Reached(E, S)
      BY <1>1, <1>2, <3>1, ReachedCloses
    <3> QED
      BY <1>1, <2>2, <3>1, <3>2
  <2> QED
    BY <1>7, <2>1, <2>2, <2>4
<1> QED
  BY <1>8, <1>9, <1>10

(* Two blocks do not dominate one another: every block is reached from the   *)
(* entry, by way of blocks that neither of the two dominates.                *)
LEMMA DominatorsAreOrdered ==
  ASSUME RegionsAssumption, NEW m \in TypedModules, Verified(m),
         NEW b \in BlockIds(m), NEW c \in BlockIds(m),
         b \in DominatorsOf(m)[c], c \in DominatorsOf(m)[b]
  PROVE  b = c
<1> SUFFICES ASSUME b # c PROVE FALSE
  OBVIOUS
<1> DEFINE dom == DominatorsOf(m)
           E == {<<e.from, e.to>> : e \in m.edges}
           f == [e \in m.edges |-> <<e.from, e.to>>]
           G == {x \in BlockIds(m) : b \notin dom[x] /\ c \notin dom[x]}
<1>1. /\ dom[1] = {1} /\ 1 \in BlockIds(m)
      /\ \A e \in m.edges : e.to # 1 => \A x \in dom[e.to] : x = e.to \/ x \in dom[e.from]
      /\ \A e \in m.edges : e.from \in BlockIds(m) /\ e.to \in BlockIds(m)
      /\ b \in dom[b] /\ c \in dom[c]
  BY DominatorsShrink, TypedShapes DEF Verified
<1> HIDE DEF dom
<1>2. b \in dom[c] /\ c \in dom[b]
  BY DEF dom
<1>3. {1} \subseteq G
  BY <1>1, <1>2
<1>4. \A e \in m.edges : e.from \in G => e.to \in G
  BY <1>1, <1>2
<1>5. \A e \in E : e[1] \in G => e[2] \in G
  BY <1>4
<1>6. IsFiniteSet(E)
  <2>1. {f[e] : e \in m.edges} = E
    OBVIOUS
  <2>2. IsFiniteSet(m.edges) /\ DOMAIN f = m.edges
    BY TypedShapes
  <2> HIDE DEF f
  <2> QED
    BY <2>1, <2>2, ImageFinite
<1>7. Reached(E, {1}) = BlockIds(m)
  BY DEF Verified, ReachedFrom
<1>8. Reached(E, {1}) \subseteq G
  <2> HIDE DEF G, E
  <2> QED
    BY <1>3, <1>5, <1>6, ReachedLeast
<1> QED
  BY <1>1, <1>7, <1>8

(* Dominance is transitive. *)
LEMMA DominatorsTransitive ==
  ASSUME RegionsAssumption, NEW m \in TypedModules, Verified(m),
         NEW a \in BlockIds(m), NEW b \in BlockIds(m), NEW c \in BlockIds(m),
         a \in DominatorsOf(m)[b], b \in DominatorsOf(m)[c]
  PROVE  a \in DominatorsOf(m)[c]
<1> DEFINE dom == DominatorsOf(m)
           B == BlockIds(m)
           S == {<<1, x>> : x \in B \ {1}}
           Y == {y \in m.edges \X B : y[1].to \notin {1, y[2]}}
           f == [x \in Y |-> <<<<x[1].from, x[2]>>, <<x[1].to, x[2]>>>>]
           E == {<<<<x[1].from, x[2]>>, <<x[1].to, x[2]>>>> : x \in Y}
           Out == TakenOut(m)
           Kin == {z \in Out : z[2] = a => b \notin dom[z[1]]}
<1>1. Out = Reached(E, S)
  BY DEF TakenOut
<1>2. IsFiniteSet(E)
  <2>1. IsFiniteSet(m.edges \X B)
    BY TypedShapes, FS_Product
  <2>2. IsFiniteSet(Y)
    BY <2>1, FS_Subset
  <2>3. IsFiniteSet({f[x] : x \in Y})
    <3> HIDE DEF Y
    <3> QED
      BY <2>2, ImageFinite
  <2>4. {f[x] : x \in Y} = E
    <3> HIDE DEF Y
    <3> QED
      OBVIOUS
  <2> QED
    BY <2>3, <2>4
<1>3. S \subseteq Out
  <2> DEFINE W == B \X B
  <2>1. S \subseteq W /\ \A e \in E : e[1] \in W => e[2] \in W
    <3>1. 1 \in B /\ \A e \in m.edges : e.to \in B
      BY TypedShapes DEF Verified
    <3>2. S \subseteq W
      BY <3>1
    <3>3. \A x \in Y : x[1].to \in B /\ x[2] \in B
      BY <3>1
    <3>4. \A x \in Y : <<x[1].to, x[2]>> \in W
      BY <3>3
    <3>5. \A e \in E : e[2] \in W
      <4> HIDE DEF W, Y, S
      <4> QED
        BY <3>4
    <3> QED
      BY <3>2, <3>5
  <2> HIDE DEF S, E, W, Out
  <2> QED
    BY <1>1, <1>2, <2>1, ReachedLeast
<1>4. \A e \in E : e[1] \in Out => e[2] \in Out
  <2> HIDE DEF S, E, Out
  <2> QED
    BY <1>1, <1>2, ReachedCloses
<1>5. \A x \in B : \A y \in B : y \in dom[x] <=> <<x, y>> \notin Out
  BY DEF DominatorsOf
<1>6. /\ dom[1] = {1} /\ 1 \in B
      /\ \A e \in m.edges : e.to # 1 => \A x \in dom[e.to] : x = e.to \/ x \in dom[e.from]
      /\ \A e \in m.edges : e.from \in B /\ e.to \in B
  BY DominatorsShrink, TypedShapes DEF Verified
<1>7. a \in dom[b] /\ b \in dom[c]
  OBVIOUS
<1> HIDE DEF dom, Out
<1>8. S \subseteq Kin
  BY <1>3, <1>6, <1>7
<1>9. \A e \in E : e[1] \in Kin => e[2] \in Kin
  <2> SUFFICES ASSUME NEW x \in Y, <<x[1].from, x[2]>> \in Kin
               PROVE  <<x[1].to, x[2]>> \in Kin
    OBVIOUS
  <2>1. <<x[1].to, x[2]>> \in Out
    <3> DEFINE p == <<<<x[1].from, x[2]>>, <<x[1].to, x[2]>>>>
    <3>1. p \in E /\ p[1] = <<x[1].from, x[2]>> /\ p[2] = <<x[1].to, x[2]>>
      OBVIOUS
    <3>2. p[1] \in Out
      BY <3>1
    <3> HIDE DEF p, E, Y, Kin
    <3> QED
      BY <1>4, <3>1, <3>2
  <2>2. ASSUME x[2] = a, b \in dom[x[1].to] PROVE FALSE
    <3>1. b \notin dom[x[1].from] /\ x[1] \in m.edges /\ x[1].to # 1
      BY <2>2
    <3>2. x[1].to = b
      BY <1>6, <2>2, <3>1
    <3> QED
      BY <1>5, <1>7, <2>1, <2>2, <3>2
  <2> QED
    BY <2>1, <2>2
<1>10. Out \subseteq Kin
  <2> HIDE DEF S, E, Kin
  <2> QED
    BY <1>1, <1>2, <1>8, <1>9, ReachedLeast
<1> QED
  BY <1>5, <1>7, <1>10 DEF dom

-----------------------------------------------------------------------------
(* Definitions and uses.  Held: a definition reaches position p of block b   *)
(* along every path, since it was executed last.                             *)
Held(m, d, b, p) == IF d[2] = b THEN d[3] < p ELSE d[2] \in DominatorsOf(m)[b]

LEMMA DefinedParts ==
  ASSUME NEW m
  PROVE  \A d : d \in Defined(m) <=>
           \/ d \in UNION {{<<a, b, 0>> : a \in ArgNames(m, b)} : b \in BlockIds(m)}
           \/ d \in {<<OpOf(m, x).id, x[1], x[2]>> : x \in {y \in Positions(m) : OpOf(m, y).op \notin Terminators}}
<1> DEFINE A == UNION {{<<a, b, 0>> : a \in ArgNames(m, b)} : b \in BlockIds(m)}
           Os == {<<OpOf(m, x).id, x[1], x[2]>> : x \in {y \in Positions(m) : OpOf(m, y).op \notin Terminators}}
<1>1. Defined(m) = A \cup Os
  BY DEF Defined
<1> HIDE DEF A, Os
<1>2. \A d : d \in Defined(m) <=> d \in A \/ d \in Os
  BY <1>1
<1> QED
  BY <1>2 DEF A, Os

LEMMA DefinedShape ==
  ASSUME RegionsAssumption, NEW m \in TypedModules, NEW d \in Defined(m)
  PROVE  /\ d = <<d[1], d[2], d[3]>> /\ d[2] \in BlockIds(m)
         /\ \/ d[3] = 0 /\ d[1] \in ArgNames(m, d[2])
            \/ /\ d[3] \in DOMAIN OpsAt(m, d[2]) /\ <<d[2], d[3]>> \in Positions(m)
               /\ OpsAt(m, d[2])[d[3]].op \notin Terminators /\ d[1] = OpsAt(m, d[2])[d[3]].id
         /\ d[3] \in 0..Len(OpsAt(m, d[2])) /\ (Ending(m, d[2]).op \in Terminators => d[3] # Len(OpsAt(m, d[2])))
<1>1. CASE d \in UNION {{<<a, b, 0>> : a \in ArgNames(m, b)} : b \in BlockIds(m)}
  BY <1>1, TypedShapes
<1>2. CASE d \in {<<OpOf(m, x).id, x[1], x[2]>> : x \in {y \in Positions(m) : OpOf(m, y).op \notin Terminators}}
  <2>1. PICK x \in Positions(m) : OpOf(m, x).op \notin Terminators /\ d = <<OpOf(m, x).id, x[1], x[2]>>
    BY <1>2
  <2>2. PICK b \in BlockIds(m) : \E p \in DOMAIN OpsAt(m, b) : x = <<b, p>>
    BY <2>1 DEF Positions
  <2>5. PICK p \in DOMAIN OpsAt(m, b) : x = <<b, p>>
    BY <2>2
  <2>3. d = <<OpsAt(m, b)[p].id, b, p>> /\ OpsAt(m, b)[p].op \notin Terminators /\ <<b, p>> \in Positions(m)
    BY <2>1, <2>5 DEF OpOf
  <2>4. /\ DOMAIN OpsAt(m, b) = 1..Len(OpsAt(m, b)) /\ Len(OpsAt(m, b)) \in Nat
    BY TypedShapes
  <2> QED
    BY <2>3, <2>4 DEF Ending
<1>3. d \in UNION {{<<a, b, 0>> : a \in ArgNames(m, b)} : b \in BlockIds(m)}
        \/ d \in {<<OpOf(m, x).id, x[1], x[2]>> : x \in {y \in Positions(m) : OpOf(m, y).op \notin Terminators}}
  BY DefinedParts
<1> QED
  BY <1>1, <1>2, <1>3

LEMMA OpIsDefined ==
  ASSUME NEW m, NEW b \in BlockIds(m), NEW p \in DOMAIN OpsAt(m, b), OpsAt(m, b)[p].op \notin Terminators
  PROVE  <<OpsAt(m, b)[p].id, b, p>> \in Defined(m)
<1>1. <<b, p>> \in Positions(m) /\ OpOf(m, <<b, p>>) = OpsAt(m, b)[p] /\ <<b, p>>[1] = b /\ <<b, p>>[2] = p
  BY DEF Positions, OpOf
<1>2. <<OpsAt(m, b)[p].id, b, p>>
        \in {<<OpOf(m, x).id, x[1], x[2]>> : x \in {y \in Positions(m) : OpOf(m, y).op \notin Terminators}}
  BY <1>1
<1> QED
  BY <1>2, DefinedParts

LEMMA ArgIsDefined ==
  ASSUME NEW m, NEW b \in BlockIds(m), NEW i \in DOMAIN m.blocks[b].args
  PROVE  <<m.blocks[b].args[i][1], b, 0>> \in Defined(m)
<1>1. m.blocks[b].args[i][1] \in ArgNames(m, b)
  BY DEF ArgNames, ToSet
<1>2. <<m.blocks[b].args[i][1], b, 0>>
        \in UNION {{<<a, c, 0>> : a \in ArgNames(m, c)} : c \in BlockIds(m)}
  BY <1>1
<1> QED
  BY <1>2, Zenon DEF Defined

LEMMA DefinitionIs ==
  ASSUME NEW m, Verified(m), NEW d \in Defined(m)
  PROVE  Definition(m, d[1]) = d
BY DEF Definition, Verified

LEMMA ReadsAreHeld ==
  ASSUME NEW m, Verified(m), NEW b \in BlockIds(m), NEW p \in DOMAIN OpsAt(m, b),
         NEW v \in ToSet(OpsAt(m, b)[p].args)
  PROVE  Definition(m, v) \in Defined(m) /\ Definition(m, v)[1] = v /\ Held(m, Definition(m, v), b, p)
<1>1. <<b, p>> \in Positions(m) /\ OpOf(m, <<b, p>>) = OpsAt(m, b)[p] /\ <<b, p>>[1] = b /\ <<b, p>>[2] = p
  BY DEF Positions, OpOf
<1>2. OperationVerdict(m, DominatorsOf(m), <<b, p>>) = ""
  BY <1>1 DEF Verified
<1>3. v \in {d[1] : d \in Defined(m)} /\ Available(m, DominatorsOf(m), v, b, p)
  BY <1>1, <1>2 DEF OperationVerdict
<1>4. PICK d \in Defined(m) : d[1] = v
  BY <1>3
<1>5. Definition(m, v) = d
  BY <1>4, DefinitionIs
<1> QED
  BY <1>3, <1>4, <1>5 DEF Available, Held

LEMMA EdgeArguments ==
  ASSUME NEW m, Verified(m), NEW e \in m.edges
  PROVE  /\ Len(e.args) = Len(m.blocks[e.to].args)
         /\ \A i \in DOMAIN e.args :
              /\ Definition(m, e.args[i]) \in Defined(m) /\ Definition(m, e.args[i])[1] = e.args[i]
              /\ Held(m, Definition(m, e.args[i]), e.from, Len(OpsAt(m, e.from)))
              /\ TypeOf(m, e.args[i]) = m.blocks[e.to].args[i][2]
<1> DEFINE given == {d[1] : d \in Defined(m)}
           known == {i \in DOMAIN e.args : e.args[i] \in given}
           dom == DominatorsOf(m)
<1>1. EdgeVerdict(m, dom, e) = ""
  BY DEF Verified
<1>2. /\ Len(e.args) = Len(m.blocks[e.to].args)
      /\ known = DOMAIN e.args
      /\ \A i \in known : TypeOf(m, e.args[i]) = m.blocks[e.to].args[i][2]
      /\ \A i \in known : Available(m, dom, e.args[i], e.from, Len(OpsAt(m, e.from)))
  BY <1>1 DEF EdgeVerdict
<1>3. ASSUME NEW i \in DOMAIN e.args
      PROVE  /\ Definition(m, e.args[i]) \in Defined(m) /\ Definition(m, e.args[i])[1] = e.args[i]
             /\ Held(m, Definition(m, e.args[i]), e.from, Len(OpsAt(m, e.from)))
             /\ TypeOf(m, e.args[i]) = m.blocks[e.to].args[i][2]
  <2>1. i \in known
    BY <1>2
  <2>2. PICK d \in Defined(m) : d[1] = e.args[i]
    BY <2>1
  <2>3. Definition(m, e.args[i]) = d
    BY <2>2, DefinitionIs
  <2>4. Available(m, dom, e.args[i], e.from, Len(OpsAt(m, e.from)))
    BY <1>2, <2>1
  <2> QED
    BY <1>2, <2>1, <2>2, <2>3, <2>4 DEF Available, Held
<1> QED
  BY <1>2, <1>3

LEMMA HeldAlongEdge ==
  ASSUME RegionsAssumption, NEW m \in TypedModules, Verified(m), NEW e \in m.edges,
         NEW d \in Defined(m), Held(m, d, e.to, 1)
  PROVE  \/ d[2] = e.to /\ d[3] = 0
         \/ /\ d[2] # e.to /\ d[2] \in DominatorsOf(m)[e.to]
            /\ Held(m, d, e.from, Len(OpsAt(m, e.from)))
<1>1. e.from \in BlockIds(m) /\ e.to \in BlockIds(m) /\ Ending(m, d[2]).op \in Terminators
  BY DefinedShape DEF Verified
<1>4. d[3] \in 0..Len(OpsAt(m, d[2])) /\ d[3] # Len(OpsAt(m, d[2])) /\ Len(OpsAt(m, d[2])) \in Nat
  BY <1>1, DefinedShape, TypedShapes
<1>2. CASE d[2] = e.to
  BY <1>2, <1>4 DEF Held
<1>3. CASE d[2] # e.to
  <2>1. d[2] \in DominatorsOf(m)[e.to]
    BY <1>3 DEF Held
  <2>2. e.to # 1 /\ d[2] \in DominatorsOf(m)[e.from]
    BY <1>3, <2>1, DominatorsShrink
  <2>3. d[2] = e.from => d[3] < Len(OpsAt(m, e.from))
    BY <1>4
  <2> QED
    BY <1>3, <2>1, <2>2, <2>3 DEF Held
<1> QED
  BY <1>2, <1>3

(* Where a definition is at hand, so are the operands it was made from.       *)
LEMMA OperandsStayHeld ==
  ASSUME RegionsAssumption, NEW m \in TypedModules, Verified(m),
         NEW b \in BlockIds(m), NEW p \in DOMAIN OpsAt(m, b), NEW w \in ToSet(OpsAt(m, b)[p].args),
         NEW c \in BlockIds(m), NEW q \in Int, b = c => p <= q, b # c => b \in DominatorsOf(m)[c]
  PROVE  Definition(m, w) \in Defined(m) /\ Definition(m, w)[1] = w /\ Held(m, Definition(m, w), c, q)
<1> DEFINE u == Definition(m, w)
<1>1. u \in Defined(m) /\ u[1] = w /\ Held(m, u, b, p)
  BY ReadsAreHeld
<1> HIDE DEF u
<1>2. u[2] \in BlockIds(m) /\ u[3] \in 0..Len(OpsAt(m, u[2]))
  BY <1>1, DefinedShape
<1>3. Len(OpsAt(m, u[2])) \in Nat /\ DOMAIN OpsAt(m, b) = 1..Len(OpsAt(m, b)) /\ Len(OpsAt(m, b)) \in Nat
  BY <1>2, TypedShapes
<1>4. u[3] \in Int /\ p \in Int
  BY <1>2, <1>3
<1>5. CASE b = c
  BY <1>1, <1>4, <1>5 DEF Held, u
<1>6. CASE b # c /\ u[2] = c
  <2>1. c \in DominatorsOf(m)[b]
    BY <1>1, <1>6 DEF Held
  <2> QED
    BY <1>6, <2>1, DominatorsAreOrdered
<1>7. CASE b # c /\ u[2] # c
  <2>1. u[2] \in DominatorsOf(m)[b]
    BY <1>1, <1>2, DominatorsShrink DEF Held
  <2>2. u[2] \in DominatorsOf(m)[c]
    BY <1>2, <1>7, <2>1, DominatorsTransitive
  <2> QED
    BY <1>1, <1>7, <2>2 DEF Held, u
<1> QED
  BY <1>5, <1>6, <1>7

Moved(new, store, targets, sources) ==
  /\ DOMAIN new = DOMAIN store \cup ToSet(targets)
  /\ \A i \in DOMAIN targets : new[targets[i]] = store[sources[i]]
  /\ \A v \in DOMAIN store \ ToSet(targets) : new[v] = store[v]
LEMMA ParallelFacts ==
  ASSUME NEW store, NEW targets, NEW sources, Distinct(targets)
  PROVE  Moved(Parallel(store, targets, sources), store, targets, sources)
<1>1. ASSUME NEW i \in DOMAIN targets
      PROVE  Parallel(store, targets, sources)[targets[i]] = store[sources[i]]
  <2>1. targets[i] \in ToSet(targets)
    BY DEF ToSet
  <2>2. (CHOOSE j \in DOMAIN targets : targets[j] = targets[i]) = i
    BY DEF Distinct
  <2> QED
    BY <2>1, <2>2 DEF Parallel
<1>2. DOMAIN Parallel(store, targets, sources) = DOMAIN store \cup ToSet(targets)
  BY DEF Parallel
<1>3. \A v \in DOMAIN store \ ToSet(targets) : Parallel(store, targets, sources)[v] = store[v]
  BY DEF Parallel
<1> HIDE DEF Parallel
<1> QED
  BY <1>1, <1>2, <1>3 DEF Moved

LEMMA BindFacts ==
  ASSUME NEW store, NEW v, NEW x
  PROVE  /\ DOMAIN Bind(store, v, x) = DOMAIN store \cup {v} /\ Bind(store, v, x)[v] = x
         /\ \A w \in DOMAIN store \ {v} : Bind(store, v, x)[w] = store[w]
BY DEF Bind

LEMMA ResultSame ==
  ASSUME NEW row, NEW s, NEW t, NEW o, \A v \in ToSet(o.args) : s[v] = t[v]
  PROVE  Result(row, s, o) = Result(row, t, o)
<1>1. [i \in DOMAIN o.args |-> s[o.args[i]]] = [i \in DOMAIN o.args |-> t[o.args[i]]]
  <2>1. \A i \in DOMAIN o.args : s[o.args[i]] = t[o.args[i]]
    BY DEF ToSet
  <2> QED
    BY <2>1
<1> QED
  BY <1>1 DEF Result

-----------------------------------------------------------------------------
(* Natural loops: every block of a loop but its header is entered from the   *)
(* loop, and is dominated by the header.                                     *)
LEMMA LoopIsClosed ==
  ASSUME RegionsAssumption, NEW m \in TypedModules, NEW h, NEW b
  PROVE  /\ h \in NaturalLoop(m, h, b) /\ b \in NaturalLoop(m, h, b)
         /\ b # h => \A e \in m.edges : e.to \in NaturalLoop(m, h, b) /\ e.to # h => e.from \in NaturalLoop(m, h, b)
<1> DEFINE X == {x \in m.edges : x.to # h \/ b = h}
           E == {<<e.to, e.from>> : e \in X}
           f == [e \in X |-> <<e.to, e.from>>]
           U == {v : v \in {h, b} \cup {e.from : e \in m.edges} \cup {e.to : e \in m.edges}}
<1>1. NaturalLoop(m, h, b) = {h} \cup Reached(E, {b})
  BY DEF NaturalLoop
<1>2. IsFiniteSet(E)
  <2>1. IsFiniteSet(X)
    BY TypedShapes, FS_Subset
  <2>2. {f[e] : e \in X} = E /\ DOMAIN f = X
    OBVIOUS
  <2> HIDE DEF f, X
  <2> QED
    BY <2>1, <2>2, ImageFinite
<1>3. {b} \subseteq Reached(E, {b})
  <2>1. {b} \subseteq U /\ \A e \in E : e[1] \in U => e[2] \in U
    OBVIOUS
  <2> HIDE DEF U, E
  <2> QED
    BY <1>2, <2>1, ReachedLeast
<1>4. ASSUME b # h, NEW e \in m.edges, e.to \in NaturalLoop(m, h, b), e.to # h
      PROVE  e.from \in NaturalLoop(m, h, b)
  <2> DEFINE p == <<e.to, e.from>>
  <2>1. p \in E /\ p[1] = e.to /\ p[2] = e.from /\ e.to \in Reached(E, {b})
    BY <1>1, <1>4
  <2> HIDE DEF p, E
  <2>2. p[2] \in Reached(E, {b})
    BY <1>2, <2>1, ReachedCloses
  <2> QED
    BY <1>1, <2>1, <2>2
<1> QED
  BY <1>1, <1>3, <1>4

LEMMA HeaderDominates ==
  ASSUME RegionsAssumption, NEW m \in TypedModules, Verified(m),
         NEW h, NEW b \in BlockIds(m), h \in DominatorsOf(m)[b], b # h,
         NEW x \in NaturalLoop(m, h, b)
  PROVE  x \in BlockIds(m) /\ h \in DominatorsOf(m)[x]
<1> DEFINE X == {y \in m.edges : y.to # h \/ b = h}
           E == {<<e.to, e.from>> : e \in X}
           f == [e \in X |-> <<e.to, e.from>>]
           Kin == {y \in BlockIds(m) : h \in DominatorsOf(m)[y]}
<1>1. IsFiniteSet(E)
  <2>1. IsFiniteSet(X)
    BY TypedShapes, FS_Subset
  <2>2. {f[e] : e \in X} = E /\ DOMAIN f = X
    OBVIOUS
  <2> HIDE DEF f, X
  <2> QED
    BY <2>1, <2>2, ImageFinite
<1>2. ASSUME NEW e \in X, e.to \in Kin PROVE e.from \in Kin
  <2>1. e \in m.edges /\ e.to # h /\ e.from \in BlockIds(m)
    BY <1>2 DEF Verified
  <2>2. CASE e.to = 1
    BY <1>2, <2>1, <2>2, DominatorsShrink
  <2>3. CASE e.to # 1
    BY <1>2, <2>1, <2>3, DominatorsShrink
  <2> QED
    BY <2>2, <2>3
<1>3. \A e \in E : e[1] \in Kin => e[2] \in Kin
  BY <1>2
<1>4. {b} \subseteq Kin
  OBVIOUS
<1>5. Reached(E, {b}) \subseteq Kin
  <2> HIDE DEF E, Kin
  <2> QED
    BY <1>1, <1>3, <1>4, ReachedLeast
<1>6. NaturalLoop(m, h, b) = {h} \cup Reached(E, {b})
  BY DEF NaturalLoop
<1>7. h \in Kin
  BY DominatorsShrink
<1> QED
  BY <1>5, <1>6, <1>7

(* What _loop_patterns tells of a loop. *)
LEMMA LoopFacts ==
  ASSUME NEW m, NEW l \in LoopsOf(m)
  PROVE  /\ l.latches = {e.from : e \in {x \in Backedges(m) : x.to = l.header}}
         /\ l.blocks = UNION {NaturalLoop(m, l.header, e.from) : e \in {x \in Backedges(m) : x.to = l.header}}
         /\ l.reductions = ReductionsOf(m, l.header)
         /\ \E e \in Backedges(m) : l.header = e.to
BY DEF LoopsOf

LEMMA BackedgeFacts ==
  ASSUME NEW m, NEW e
  PROVE  e \in Backedges(m) <=> e \in m.edges /\ e.to \in DominatorsOf(m)[e.from]
BY DEF Backedges

(* Around a loop with one edge back, an accumulator is handed its update.     *)
LEMMA AccumulatorOf ==
  ASSUME RegionsAssumption, NEW m \in TypedModules, NEW l \in LoopsOf(m),
         NEW e \in m.edges, e.to = l.header, e.from \in l.latches, NEW r \in l.reductions
  PROVE  \E i \in DOMAIN m.blocks[e.to].args :
           r.acc = m.blocks[e.to].args[i][1] /\ r.update \in UpdateOf(m, e, i)
<1> DEFINE latches == {x \in Backedges(m) : x.to = l.header}
           args == m.blocks[l.header].args
           R(i) == {[acc |-> args[i][1], update |-> u] : u \in UNION {UpdateOf(m, x, i) : x \in latches}}
<1>1. l.latches = {x.from : x \in latches} /\ l.reductions = ReductionsOf(m, l.header)
  BY LoopFacts
<1>2. PICK x \in latches : x.from = e.from
  BY <1>1
<1>3. e \in latches
  BY <1>2, BackedgeFacts
<1>4. PICK i \in DOMAIN args : /\ Cardinality(latches) = 1
                               /\ r \in R(i)
  BY <1>1 DEF ReductionsOf
<1>5. IsFiniteSet(latches)
  <2>1. latches \subseteq m.edges /\ IsFiniteSet(m.edges)
    BY TypedShapes DEF Backedges
  <2> QED
    BY <2>1, FS_Subset
<1>6. latches = {e}
  <2> HIDE DEF latches
  <2> QED
    BY <1>3, <1>4, <1>5, FS_Singleton
<1>7. PICK u \in UNION {UpdateOf(m, x2, i) : x2 \in latches} : r = [acc |-> args[i][1], update |-> u]
  BY <1>4
<1>8. u \in UpdateOf(m, e, i)
  BY <1>6, <1>7
<1> QED
  BY <1>7, <1>8

(* A loop that is no latch of itself is left in peace by what is outside. *)
LEMMA ProperLoop ==
  ASSUME RegionsAssumption, NEW m \in TypedModules, Verified(m),
         NEW l \in LoopsOf(m), l.header \notin l.latches
  PROVE  /\ 1 \in l.blocks => l.header = 1
         /\ \A e \in m.edges : e.to \in l.blocks /\ e.to # l.header => e.from \in l.blocks
         /\ l.header \in l.blocks /\ l.latches \subseteq l.blocks /\ l.blocks \subseteq BlockIds(m)
         /\ \A b \in l.blocks : l.header \in DominatorsOf(m)[b]
<1> DEFINE h == l.header
           X == {x \in Backedges(m) : x.to = h}
<1>1. /\ l.latches = {e.from : e \in X} /\ l.blocks = UNION {NaturalLoop(m, h, e.from) : e \in X}
      /\ X # {}
  BY LoopFacts
<1>2. \A e \in X : e \in m.edges /\ e.from \in BlockIds(m) /\ h \in DominatorsOf(m)[e.from] /\ e.from # h
  BY <1>1, BackedgeFacts DEF Verified
<1> HIDE DEF X, h
<1>3. ASSUME NEW e \in X, NEW x \in NaturalLoop(m, h, e.from) PROVE x \in BlockIds(m) /\ h \in DominatorsOf(m)[x]
  BY <1>2, HeaderDominates
<1>4. ASSUME NEW b \in l.blocks PROVE b \in BlockIds(m) /\ h \in DominatorsOf(m)[b]
  BY <1>1, <1>3
<1>5. 1 \in l.blocks => h = 1
  BY <1>4, DominatorsShrink
<1>6. ASSUME NEW e \in m.edges, e.to \in l.blocks, e.to # h PROVE e.from \in l.blocks
  <2>1. PICK x \in X : e.to \in NaturalLoop(m, h, x.from)
    BY <1>1, <1>6
  <2>2. e.from \in NaturalLoop(m, h, x.from)
    BY <1>2, <1>6, <2>1, LoopIsClosed
  <2> QED
    BY <1>1, <2>2
<1>7. h \in l.blocks /\ l.latches \subseteq l.blocks
  BY <1>1, LoopIsClosed
<1> QED
  BY <1>4, <1>5, <1>6, <1>7 DEF h

-----------------------------------------------------------------------------
(* The reference interpreter. *)
Pure == {"binary.add", "binary.mul", "compare.lt"}

RegionFixed ==
  /\ region \in TypedModules /\ checked = Verify(region)
  /\ checked = "" => loops = LoopsOf(region) /\ lowered = Lower(region, loops)
  /\ Running => checked = "" /\ Verified(region)

(* Definitions whose value is at hand, and that a pure operation still has   *)
(* the value that its operands give.                                         *)
Kept(m, b, p, store) == \A d \in Defined(m) : Held(m, d, b, p) => d[1] \in DOMAIN store
Fresh(m, row, b, p, store) ==
  \A c \in BlockIds(m) : \A q \in DOMAIN OpsAt(m, c) :
    /\ OpsAt(m, c)[q].op \in Pure
    /\ Held(m, <<OpsAt(m, c)[q].id, c, q>>, b, p)
    => store[OpsAt(m, c)[q].id] = Result(row, store, OpsAt(m, c)[q])
RegionHeld == Running => Kept(region, block, pos, computed)
RegionPure == Running => Fresh(region, input, block, pos, computed)

RegionInv ==
  /\ RegionFixed /\ TypeOK /\ RegionHeld /\ RegionPure
  /\ ReadsAreDefined /\ EnteredByHeader /\ AccumulatorFolds

LEMMA RegionInit == ASSUME RegionsAssumption, RegionsInit PROVE RegionInv
<1>1. RegionFixed
  BY VerifiedFacts DEF RegionsInit, RegionFixed, Running
<1>2. /\ region \in TypedModules /\ block = 1 /\ pos = 1 /\ computed = <<>> /\ came = 0
      /\ steps = 0 /\ outcome \in {"running", "refused"}
  BY DEF RegionsInit
<1>3. DOMAIN computed = {}
  BY <1>2
<1>4. TypeOK
  BY <1>2, <1>3, TypedShapes DEF TypeOK, RegionsAssumption
<1>5. ASSUME Running, NEW d \in Defined(region), Held(region, d, 1, 1) PROVE FALSE
  <2>1. Verified(region) /\ region.blocks[1].args = <<>>
    BY <1>1, <1>5 DEF RegionFixed, Verified
  <2>5. d[3] \in Nat
    <3>1. d[2] \in BlockIds(region) /\ d[3] \in 0..Len(OpsAt(region, d[2]))
      BY <1>2, DefinedShape
    <3>2. Len(OpsAt(region, d[2])) \in Nat
      BY <1>2, <3>1, TypedShapes
    <3> QED
      BY <3>1, <3>2
  <2>6. d[2] = 1
    BY <1>2, <1>5, <2>1, DominatorsShrink DEF Held
  <2>2. d[2] = 1 /\ d[3] = 0
    BY <1>5, <2>5, <2>6 DEF Held
  <2>3. ArgNames(region, 1) = {}
    BY <2>1 DEF ArgNames, ToSet
  <2>4. d[3] \notin DOMAIN OpsAt(region, 1)
    BY <1>2, <2>2, TypedShapes
  <2> QED
    BY <1>2, <2>2, <2>3, <2>4, DefinedShape
<1>6. RegionHeld
  BY <1>2, <1>5 DEF RegionHeld, Kept
<1>7. RegionPure
  <2> SUFFICES ASSUME Running, NEW b \in BlockIds(region), NEW p \in DOMAIN OpsAt(region, b),
                      OpsAt(region, b)[p].op \in Pure,
                      Held(region, <<OpsAt(region, b)[p].id, b, p>>, block, pos)
               PROVE  FALSE
    BY DEF RegionPure, Fresh
  <2>1. OpsAt(region, b)[p].op \notin Terminators
    BY DEF Pure, Terminators
  <2>2. <<OpsAt(region, b)[p].id, b, p>> \in Defined(region)
    BY <2>1, OpIsDefined
  <2> QED
    BY <1>2, <1>5, <2>2
<1>8. ReadsAreDefined
  BY <1>2 DEF ReadsAreDefined
<1>9. EnteredByHeader
  <2> SUFFICES ASSUME NEW l \in loops, l.header \notin l.latches, Running, block \in l.blocks
               PROVE  block = l.header
    BY DEF EnteredByHeader, HeaderComesFirst, Proper
  <2>1. checked = "" /\ Verified(region)
    BY <1>1, <1>2 DEF RegionsInit, Running, RegionFixed
  <2>2. l \in LoopsOf(region)
    BY <1>1, <2>1 DEF RegionFixed
  <2> QED
    BY <1>2, <2>1, <2>2, ProperLoop
<1>10. AccumulatorFolds
  <2> SUFFICES ASSUME NEW l \in loops, Running, came \in l.latches PROVE FALSE
    BY DEF AccumulatorFolds
  <2>1. checked = "" /\ Verified(region) /\ l \in LoopsOf(region)
    BY <1>1, <1>2 DEF RegionsInit, Running, RegionFixed
  <2>4. l.latches = {e.from : e \in {x \in Backedges(region) : x.to = l.header}}
    BY <2>1, LoopFacts
  <2>2. PICK e \in Backedges(region) : came = e.from
    BY <2>4
  <2>3. came \in BlockIds(region)
    BY <2>1, <2>2, BackedgeFacts DEF Verified
  <2> QED
    BY <1>2, <2>3, TypedShapes
<1> QED
  BY <1>1, <1>4, <1>6, <1>7, <1>8, <1>9, <1>10 DEF RegionInv

(* An operation that is no terminator. *)
LEMMA ExecuteKeeps == ASSUME RegionsAssumption, RegionInv, Execute PROVE RegionInv'
<1> DEFINE m == region
           o == OpsAt(region, block)[pos]
           here == <<o.id, block, pos>>
<1>1. /\ Running /\ Op = o /\ o.op \notin Terminators /\ steps < MaxSteps /\ Have
      /\ region' = region /\ checked' = checked /\ loops' = loops /\ lowered' = lowered
      /\ block' = block /\ pos' = pos + 1 /\ steps' = steps + 1 /\ outcome' = outcome
      /\ came' = came /\ before' = before
  BY DEF Execute, Fixed, Op
<1>2. PICK v : computed' = Bind(computed, o.id, v) /\
               (o.op # "unicode.property" => v = Result(input, computed, o))
  BY <1>1 DEF Execute
<1>3. /\ m \in TypedModules /\ Verified(m) /\ block \in BlockIds(m) /\ pos \in 1..Len(OpsAt(m, block))
      /\ steps \in 0..MaxSteps /\ DOMAIN computed \subseteq {d[1] : d \in Defined(m)}
      /\ DOMAIN OpsAt(m, block) = 1..Len(OpsAt(m, block)) /\ Len(OpsAt(m, block)) \in Nat
  BY <1>1, TypedShapes DEF RegionInv, RegionFixed, TypeOK
<1>4. pos # Len(OpsAt(m, block)) /\ pos + 1 \in 1..Len(OpsAt(m, block))
  <2>1. Ending(m, block).op \in Terminators
    BY <1>3 DEF Verified
  <2>2. o.op \notin Terminators
    BY <1>1
  <2>3. pos # Len(OpsAt(m, block))
    BY <2>1, <2>2 DEF Ending
  <2>4. pos \in Int /\ Len(OpsAt(m, block)) \in Int /\ 1 <= pos /\ pos <= Len(OpsAt(m, block))
    BY <1>3
  <2> QED
    BY <2>3, <2>4
<1>5. here \in Defined(m)
  BY <1>1, <1>3, OpIsDefined
<1>6. /\ DOMAIN computed' = DOMAIN computed \cup {o.id} /\ computed'[o.id] = v
      /\ \A w \in DOMAIN computed \ {o.id} : computed'[w] = computed[w]
  <2> HIDE DEF o
  <2> QED
    BY <1>2 DEF Bind
<1>7. RegionFixed' /\ Running'
  BY <1>1 DEF RegionInv, RegionFixed, Running
<1>8. TypeOK'
  <2>1. o.id \in {d[1] : d \in Defined(m)}
    BY <1>5
  <2>2. steps' \in 0..MaxSteps
    BY <1>1 DEF RegionInv, TypeOK, RegionsAssumption
  <2>3. DOMAIN computed' \subseteq {d[1] : d \in Defined(region)}
    BY <1>6, <2>1 DEF RegionInv, TypeOK
  <2>4. /\ block' \in BlockIds(region)
        /\ outcome' \in {"refused", "running", "missed", "exhausted", "returned", "unavailable"}
    BY <1>1 DEF RegionInv, TypeOK
  <2> QED
    BY <1>1, <1>4, <2>2, <2>3, <2>4 DEF TypeOK
<1>9. ASSUME NEW d \in Defined(m), Held(m, d, block, pos + 1)
      PROVE  Held(m, d, block, pos) \/ d = here
  <2>3. /\ d = <<d[1], d[2], d[3]>> /\ d[3] \in 0..Len(OpsAt(m, d[2])) /\ d[2] \in BlockIds(m)
        /\ d[3] # 0 => d[1] = OpsAt(m, d[2])[d[3]].id
    BY <1>3, DefinedShape
  <2>1. CASE d[2] = block /\ d[3] = pos
    BY <1>3, <2>1, <2>3
  <2>2. CASE ~(d[2] = block /\ d[3] = pos)
    <3>1. d[3] \in Int /\ pos \in Int
      BY <1>3, <2>3, TypedShapes
    <3> QED
      BY <1>9, <2>2, <3>1 DEF Held
  <2> QED
    BY <2>1, <2>2
<1>10. RegionHeld'
  BY <1>1, <1>6, <1>9 DEF RegionInv, RegionHeld, Kept
<1>11. RegionPure'
  <2>7. input' = input
    BY DEF Execute, Fixed
  <2>8. SUFFICES Fresh(m, input, block, pos + 1, computed')
    BY <1>1, <2>7 DEF RegionPure
  <2> SUFFICES ASSUME NEW b \in BlockIds(m), NEW p \in DOMAIN OpsAt(m, b),
                      OpsAt(m, b)[p].op \in Pure,
                      Held(m, <<OpsAt(m, b)[p].id, b, p>>, block, pos + 1)
               PROVE  computed'[OpsAt(m, b)[p].id] = Result(input, computed', OpsAt(m, b)[p])
    BY DEF Fresh
  <2> DEFINE x == OpsAt(m, b)[p]
             d == <<x.id, b, p>>
  <2>1. x.op \notin Terminators /\ d \in Defined(m)
    <3>1. x.op \notin Terminators
      BY DEF Pure, Terminators
    <3> QED
      BY <3>1, OpIsDefined
  <2>2. o.id \notin ToSet(x.args)
    <3> SUFFICES ASSUME o.id \in ToSet(x.args) PROVE FALSE
      OBVIOUS
    <3>1. Definition(m, o.id) = here
      BY <1>3, <1>5, DefinitionIs
    <3>2. Held(m, here, b, p)
      BY <1>3, <3>1, ReadsAreHeld
    <3>3. CASE b = block
      <4>1. p < pos + 1 /\ pos < p /\ p \in Int
        BY <3>2, <3>3, TypedShapes, <1>3 DEF Held
      <4> QED
        BY <1>3, <4>1
    <3>4. CASE b # block
      <4>1. b \in DominatorsOf(m)[block] /\ block \in DominatorsOf(m)[b]
        BY <3>2, <3>4 DEF Held
      <4> QED
        BY <1>3, <3>4, <4>1, DominatorsAreOrdered
    <3> QED
      BY <3>3, <3>4
  <2>3. Result(input, computed', x) = Result(input, computed, x)
    <3>1. ASSUME NEW w \in ToSet(x.args) PROVE computed'[w] = computed[w]
      <4>1. Definition(m, w) \in Defined(m) /\ Definition(m, w)[1] = w /\ Held(m, Definition(m, w), b, p)
        BY <1>3, ReadsAreHeld
      <4>2. Held(m, Definition(m, w), block, pos)
        <5>1. pos \in Int /\ (b = block => p <= pos) /\ (b # block => b \in DominatorsOf(m)[block])
          BY <1>3, TypedShapes DEF Held
        <5> QED
          BY <1>3, <5>1, OperandsStayHeld
      <4>3. w \in DOMAIN computed
        BY <1>1, <4>1, <4>2 DEF RegionInv, RegionHeld, Kept
      <4> QED
        BY <1>6, <2>2, <3>1, <4>3
    <3> QED
      BY <3>1, ResultSame
  <2>4. CASE d = here
    <3>1. b = block /\ p = pos /\ x = o
      BY <2>4
    <3>2. v = Result(input, computed, x)
      BY <1>2, <3>1 DEF Pure
    <3> QED
      BY <1>6, <2>3, <3>1, <3>2
  <2>5. CASE d # here
    <3>1. Held(m, d, block, pos)
      BY <1>9, <2>1, <2>5
    <3>2. x.id # o.id
      BY <1>3, <1>5, <2>1, <2>5 DEF Verified
    <3>3. x.id \in DOMAIN computed /\ computed[x.id] = Result(input, computed, x)
      BY <1>1, <2>1, <3>1 DEF RegionInv, RegionHeld, RegionPure, Kept, Fresh
    <3> QED
      BY <1>6, <2>3, <3>2, <3>3
  <2> QED
    BY <2>4, <2>5
<1>12. ReadsAreDefined' /\ EnteredByHeader'
  BY <1>1 DEF RegionInv, ReadsAreDefined, EnteredByHeader, HeaderComesFirst, Proper, Running
<1>13. AccumulatorFolds'
  BY <1>1, <1>3 DEF AccumulatorFolds
<1> QED
  BY <1>7, <1>8, <1>10, <1>11, <1>12, <1>13 DEF RegionInv

(* An edge to the next block. *)
LEMMA FollowKeeps == ASSUME RegionsAssumption, RegionInv, Follow PROVE RegionInv'
<1> DEFINE m == region
           o == OpsAt(region, block)[pos]
<1>1. PICK e \in Taken :
        /\ ToSet(e.args) \subseteq DOMAIN computed
        /\ computed' = Parallel(computed, [i \in DOMAIN e.args |-> region.blocks[e.to].args[i][1]], e.args)
        /\ block' = e.to /\ pos' = 1 /\ came' = block
        /\ before' = IF \E l \in loops : l.header = e.to /\ block \in l.latches THEN computed ELSE <<>>
  BY DEF Follow
<1> DEFINE targets == [i \in DOMAIN e.args |-> m.blocks[e.to].args[i][1]]
<1>2. /\ Running /\ o.op \in Terminators /\ steps < MaxSteps /\ steps' = steps + 1 /\ outcome' = outcome
      /\ region' = region /\ checked' = checked /\ loops' = loops /\ lowered' = lowered /\ input' = input
  BY DEF Follow, Fixed, Op, Terminators
<1>3. e \in m.edges /\ e.from = block
  BY <1>1 DEF Taken
<1>4. /\ m \in TypedModules /\ Verified(m) /\ block \in BlockIds(m) /\ pos \in 1..Len(OpsAt(m, block))
      /\ steps \in 0..MaxSteps /\ DOMAIN computed \subseteq {d[1] : d \in Defined(m)}
      /\ DOMAIN OpsAt(m, block) = 1..Len(OpsAt(m, block)) /\ Len(OpsAt(m, block)) \in Nat
      /\ Kept(m, block, pos, computed) /\ Fresh(m, input, block, pos, computed)
  BY <1>2, TypedShapes DEF RegionInv, RegionFixed, TypeOK, RegionHeld, RegionPure
<1>5. pos = Len(OpsAt(m, block)) /\ pos \in Int
  <2>1. pos \in DOMAIN OpsAt(m, block) /\ pos \in Int
    BY <1>4
  <2> QED
    BY <1>2, <1>4, <2>1, TypedShapes
<1>6. e.to \in BlockIds(m) /\ ~Repeats(m, e.to)
  BY <1>3, <1>4 DEF Verified
<1>7. /\ DOMAIN e.args = DOMAIN m.blocks[e.to].args
      /\ DOMAIN targets = DOMAIN e.args
      /\ \A i, j \in DOMAIN targets : targets[i] = targets[j] => i = j
      /\ \A i \in DOMAIN e.args : targets[i] = m.blocks[e.to].args[i][1]
      /\ ToSet(targets) = ArgNames(m, e.to)
  <2>1. Len(e.args) = Len(m.blocks[e.to].args)
    BY <1>3, <1>4, EdgeArguments
  <2>2. e.args \in Seq(STRING) /\ m.blocks[e.to].args \in Seq(STRING \X STRING)
    BY <1>3, <1>4, <1>6, TypedShapes DEF EdgeRecords, BlockRecords
  <2>3. DOMAIN e.args = DOMAIN m.blocks[e.to].args
    BY <2>1, <2>2
  <2>4. \A i, j \in DOMAIN targets : targets[i] = targets[j] => i = j
    BY <1>6, <2>3 DEF Repeats
  <2>5. ToSet(targets) = ArgNames(m, e.to)
    BY <2>3 DEF ToSet, ArgNames
  <2> QED
    BY <2>3, <2>4, <2>5
<1> HIDE DEF targets
<1>8. /\ DOMAIN computed' = DOMAIN computed \cup ToSet(targets)
      /\ \A i \in DOMAIN targets : computed'[targets[i]] = computed[e.args[i]]
      /\ \A w \in DOMAIN computed \ ToSet(targets) : computed'[w] = computed[w]
  <2>1. computed' = Parallel(computed, targets, e.args)
    BY <1>1 DEF targets
  <2>2. Distinct(targets)
    BY <1>7 DEF Distinct
  <2>3. Moved(computed', computed, targets, e.args)
    BY <2>1, <2>2, ParallelFacts
  <2> QED
    BY <2>3 DEF Moved
<1>9. RegionFixed' /\ Running'
  BY <1>2 DEF RegionInv, RegionFixed, Running
<1>10. ASSUME NEW w \in ToSet(targets) PROVE <<w, e.to, 0>> \in Defined(m)
  <2>1. PICK i \in DOMAIN targets : w = targets[i]
    BY DEF ToSet
  <2> QED
    BY <1>6, <1>7, <2>1, ArgIsDefined
<1>11. TypeOK'
  <2>1. ToSet(targets) \subseteq {d[1] : d \in Defined(m)}
    <3> SUFFICES ASSUME NEW w \in ToSet(targets) PROVE w \in {d[1] : d \in Defined(m)}
      OBVIOUS
    <3>1. <<w, e.to, 0>> \in Defined(m) /\ <<w, e.to, 0>>[1] = w
      BY <1>10
    <3> QED
      BY <3>1
  <2>2. 1 \in 1..Len(OpsAt(m, e.to))
    BY <1>4, <1>6, TypedShapes
  <2>3. DOMAIN computed' \subseteq {d[1] : d \in Defined(m)}
    BY <1>4, <1>8, <2>1
  <2>4. steps' \in 0..MaxSteps
    BY <1>2, <1>4 DEF RegionsAssumption
  <2> QED
    BY <1>1, <1>2, <1>6, <2>2, <2>3, <2>4 DEF RegionInv, TypeOK
<1>12. RegionHeld'
  <2> SUFFICES ASSUME NEW d \in Defined(m), Held(m, d, e.to, 1) PROVE d[1] \in DOMAIN computed'
    BY <1>1, <1>2 DEF RegionHeld, Kept
  <2>1. CASE d[2] = e.to /\ d[3] = 0
    <3>1. Len(OpsAt(m, d[2])) \in Nat /\ DOMAIN OpsAt(m, d[2]) = 1..Len(OpsAt(m, d[2]))
      BY <1>4, <1>6, <2>1, TypedShapes
    <3>2. d[1] \in ArgNames(m, e.to)
      <4>1. 0 \notin 1..Len(OpsAt(m, d[2]))
        BY <3>1
      <4> QED
        BY <1>4, <2>1, <3>1, <4>1, DefinedShape
    <3> QED
      BY <1>7, <1>8, <3>2
  <2>2. CASE Held(m, d, e.from, Len(OpsAt(m, e.from)))
    BY <1>3, <1>4, <1>5, <1>8, <2>2 DEF Kept
  <2> QED
    BY <1>3, <1>4, <2>1, <2>2, HeldAlongEdge
<1>13. RegionPure'
  <2> SUFFICES Fresh(m, input, e.to, 1, computed')
    BY <1>1, <1>2 DEF RegionPure
  <2> SUFFICES ASSUME NEW c \in BlockIds(m), NEW q \in DOMAIN OpsAt(m, c),
                      OpsAt(m, c)[q].op \in Pure,
                      Held(m, <<OpsAt(m, c)[q].id, c, q>>, e.to, 1)
               PROVE  computed'[OpsAt(m, c)[q].id] = Result(input, computed', OpsAt(m, c)[q])
    BY DEF Fresh
  <2> DEFINE x == OpsAt(m, c)[q]
             d == <<x.id, c, q>>
  <2>1. d \in Defined(m)
    <3>1. x.op \notin Terminators
      BY DEF Pure, Terminators
    <3> QED
      BY <3>1, OpIsDefined
  <2>2. q # 0
    BY <1>4, TypedShapes
  <2>3. c # e.to /\ c \in DominatorsOf(m)[e.to] /\ Held(m, d, block, pos)
    <3>1. d[2] = c /\ d[3] = q /\ Held(m, d, e.to, 1)
      OBVIOUS
    <3> HIDE DEF d
    <3> QED
      BY <1>3, <1>4, <1>5, <2>1, <2>2, <3>1, HeldAlongEdge
  <2>4. computed[x.id] = Result(input, computed, x) /\ x.id \in DOMAIN computed
    BY <1>4, <2>1, <2>3 DEF Fresh, Kept
  <2>5. x.id \notin ToSet(targets)
    <3> SUFFICES ASSUME x.id \in ToSet(targets) PROVE FALSE
      OBVIOUS
    <3>1. <<x.id, e.to, 0>> \in Defined(m)
      BY <1>10
    <3>2. d[1] = <<x.id, e.to, 0>>[1] /\ d # <<x.id, e.to, 0>>
      BY <2>2
    <3> HIDE DEF d
    <3> QED
      BY <1>4, <2>1, <3>1, <3>2 DEF Verified
  <2>6. ASSUME NEW w \in ToSet(x.args) PROVE computed'[w] = computed[w]
    <3>1. (c = block => q <= pos) /\ (c # block => c \in DominatorsOf(m)[block])
      <4>1. q \in Int
        BY <1>4, TypedShapes
      <4> QED
        BY <1>5, <2>3, <4>1 DEF Held
    <3>2. Definition(m, w) \in Defined(m) /\ Definition(m, w)[1] = w /\ Held(m, Definition(m, w), block, pos)
      BY <1>4, <1>5, <2>6, <3>1, OperandsStayHeld
    <3>3. w \in DOMAIN computed
      BY <1>4, <3>2 DEF Kept
    <3>4. w \notin ToSet(targets)
      <4> SUFFICES ASSUME w \in ToSet(targets) PROVE FALSE
        OBVIOUS
      <4>1. <<w, e.to, 0>> \in Defined(m) /\ <<w, e.to, 0>>[1] = w /\ <<w, e.to, 0>>[2] = e.to
        BY <1>10
      <4>2. Definition(m, w) = <<w, e.to, 0>>
        BY <1>4, <4>1, DefinitionIs
      <4>3. Held(m, <<w, e.to, 0>>, c, q)
        BY <1>4, <2>6, <4>2, ReadsAreHeld
      <4>4. e.to \in DominatorsOf(m)[c]
        BY <2>3, <4>1, <4>3 DEF Held
      <4> QED
        BY <1>4, <1>6, <2>3, <4>4, DominatorsAreOrdered
    <3> QED
      BY <1>8, <3>3, <3>4
  <2>7. Result(input, computed', x) = Result(input, computed, x)
    BY <2>6, ResultSame
  <2> QED
    BY <1>8, <2>4, <2>5, <2>7
<1>14. ReadsAreDefined'
  BY <1>2 DEF RegionInv, ReadsAreDefined
<1>15. ASSUME NEW l \in loops PROVE l \in LoopsOf(m) /\ checked = ""
  <2>1. checked = ""
    BY <1>2 DEF RegionInv, RegionFixed, Running
  <2> QED
    BY <2>1 DEF RegionInv, RegionFixed
<1>16. EnteredByHeader'
  <2> SUFFICES ASSUME NEW l \in loops, l.header \notin l.latches, e.to \in l.blocks, e.to # l.header
               PROVE  block \in l.blocks
    BY <1>1, <1>2 DEF EnteredByHeader, HeaderComesFirst, Proper
  <2> QED
    BY <1>3, <1>4, <1>15, ProperLoop
<1>17. AccumulatorFolds'
  <2> SUFFICES ASSUME NEW l \in loops, e.to = l.header, block \in l.latches, NEW r \in l.reductions
               PROVE  computed'[r.acc] = Result(input, before', r.update)
    BY <1>1, <1>2 DEF AccumulatorFolds
  <2>1. before' = computed
    BY <1>1
  <2>2. PICK i \in DOMAIN e.args : /\ r.acc = targets[i]
                                   /\ r.update \in UpdateOf(m, e, i)
    BY <1>3, <1>4, <1>7, <1>15, AccumulatorOf
  <2>3. LET d == Definition(m, e.args[i]) IN
        /\ d \in Defined(m) /\ d[1] = e.args[i] /\ Held(m, d, block, pos)
    BY <1>3, <1>4, <1>5, EdgeArguments
  <2>4. LET d == Definition(m, e.args[i]) IN
        d[3] # 0 /\ r.update = OpsAt(m, d[2])[d[3]] /\ r.update.op \in Pure
    BY <2>2 DEF UpdateOf, Pure
  <2> DEFINE d == Definition(m, e.args[i])
  <2>5. /\ d \in Defined(m) /\ d[1] = e.args[i] /\ Held(m, d, block, pos)
        /\ d[3] # 0 /\ r.update = OpsAt(m, d[2])[d[3]] /\ r.update.op \in Pure
    BY <2>3, <2>4
  <2> HIDE DEF d
  <2>6. /\ d = <<r.update.id, d[2], d[3]>> /\ d[2] \in BlockIds(m) /\ d[3] \in DOMAIN OpsAt(m, d[2])
        /\ r.update.id = e.args[i]
    BY <1>4, <2>5, DefinedShape
  <2>7. computed[r.update.id] = Result(input, computed, r.update)
    BY <1>4, <2>5, <2>6 DEF Fresh
  <2> QED
    BY <1>7, <1>8, <2>1, <2>2, <2>6, <2>7
<1> QED
  BY <1>9, <1>11, <1>12, <1>13, <1>14, <1>16, <1>17 DEF RegionInv

(* A verified module has what it reads at hand. *)
LEMMA NothingMissing == ASSUME RegionsAssumption, RegionInv, Running PROVE Have
<1>1. /\ region \in TypedModules /\ Verified(region) /\ block \in BlockIds(region)
      /\ pos \in DOMAIN OpsAt(region, block) /\ Kept(region, block, pos, computed)
  BY TypedShapes DEF RegionInv, RegionFixed, TypeOK, RegionHeld
<1>2. ASSUME NEW v \in ToSet(OpsAt(region, block)[pos].args) PROVE v \in DOMAIN computed
  BY <1>1, ReadsAreHeld DEF Kept
<1> QED
  BY <1>2 DEF Have, Op

LEMMA EndKeeps ==
  ASSUME RegionInv, NEW o \in {"missed", "exhausted", "returned"}, Ends0(o)
  PROVE  RegionInv'
<1>1. /\ outcome' = o /\ region' = region /\ checked' = checked /\ loops' = loops /\ lowered' = lowered
      /\ input' = input /\ block' = block /\ pos' = pos /\ computed' = computed /\ steps' = steps
      /\ came' = came /\ before' = before /\ ~Running'
  BY DEF Ends0, Fixed, Running
<1>2. RegionFixed' /\ TypeOK' /\ RegionHeld' /\ RegionPure'
  BY <1>1 DEF RegionInv, RegionFixed, TypeOK, RegionHeld, RegionPure
<1>3. ReadsAreDefined' /\ EnteredByHeader' /\ AccumulatorFolds'
  BY <1>1 DEF ReadsAreDefined, EnteredByHeader, HeaderComesFirst, AccumulatorFolds
<1> QED
  BY <1>2, <1>3 DEF RegionInv

LEMMA RegionNext ==
  ASSUME RegionsAssumption, RegionInv, RegionsNext \/ UNCHANGED regionsVars
  PROVE  RegionInv'
<1>1. CASE Execute
  BY <1>1, ExecuteKeeps
<1>2. CASE Miss
  BY <1>2, EndKeeps DEF Miss
<1>3. CASE Exhausted
  BY <1>3, EndKeeps DEF Exhausted
<1>4. CASE Follow
  BY <1>4, FollowKeeps
<1>5. CASE Return
  BY <1>5, EndKeeps DEF Return
<1>6. CASE Unavailable
  BY <1>6, NothingMissing DEF Unavailable
<1>7. CASE UNCHANGED regionsVars
  <2>1. /\ outcome' = outcome /\ region' = region /\ checked' = checked /\ loops' = loops /\ lowered' = lowered
        /\ input' = input /\ block' = block /\ pos' = pos /\ computed' = computed /\ steps' = steps
        /\ came' = came /\ before' = before
    BY <1>7 DEF regionsVars
  <2>2. RegionFixed' /\ TypeOK' /\ RegionHeld' /\ RegionPure'
    BY <2>1 DEF RegionInv, RegionFixed, TypeOK, RegionHeld, RegionPure, Running
  <2>3. ReadsAreDefined' /\ EnteredByHeader'
    BY <2>1 DEF RegionInv, ReadsAreDefined, EnteredByHeader, HeaderComesFirst, Proper, Running
  <2>4. AccumulatorFolds'
    BY <2>1 DEF RegionInv, AccumulatorFolds, Running
  <2> QED
    BY <2>2, <2>3, <2>4 DEF RegionInv
<1> QED
  BY <1>1, <1>2, <1>3, <1>4, <1>5, <1>6, <1>7 DEF RegionsNext


(* The statements of a block: one for each operation. *)
Stands(m, b, s) == \A p \in 1..Len(OpsAt(m, b)) : s[p].at = <<b, p>>
LEMMA LinesFacts ==
  ASSUME RegionsAssumption, NEW m \in TypedModules, NEW b \in BlockIds(m), NEW last
  PROVE  /\ Lines(m, b, last) \in Seq({Assign(<<b, i>>) : i \in DOMAIN OpsAt(m, b)} \cup {last})
         /\ Len(Lines(m, b, last)) = Len(OpsAt(m, b))
         /\ Lines(m, b, last)[Len(OpsAt(m, b))] = last
         /\ last.at = Ends(m, b) => Stands(m, b, Lines(m, b, last))
<1> DEFINE n == Len(OpsAt(m, b))
           L == [i \in 1..n |-> IF i = n THEN last ELSE Assign(<<b, i>>)]
           S == {Assign(<<b, i>>) : i \in 1..n} \cup {last}
<1>1. n \in Nat \ {0} /\ DOMAIN OpsAt(m, b) = 1..n
  BY TypedShapes
<1>2. Lines(m, b, last) = L
  BY <1>1 DEF Lines
<1> HIDE DEF n
<1>3. \A i \in 1..n : L[i] \in S
  OBVIOUS
<1>4. L \in Seq(S) /\ Len(L) = n /\ L[n] = last
  <2> HIDE DEF S
  <2>1. L \in [1..n -> S]
    BY <1>3
  <2> QED
    BY <1>1, <2>1
<1>5. ASSUME last.at = Ends(m, b), NEW p \in 1..n PROVE L[p].at = <<b, p>>
  <2>1. Assign(<<b, p>>).at = <<b, p>>
    BY DEF Assign
  <2> QED
    BY <1>5, <2>1 DEF Ends, n
<1> QED
  BY <1>1, <1>2, <1>4, <1>5 DEF n, Stands

FourParts(s, a, b, c, d) ==
  /\ Len(s) = Len(a) + Len(b) + Len(c) + Len(d) /\ DOMAIN s = 1..Len(s)
  /\ \A p \in 1..Len(a) : s[p] = a[p]
  /\ \A p \in 1..Len(b) : s[Len(a) + p] = b[p]
  /\ \A p \in 1..Len(c) : s[Len(a) + Len(b) + p] = c[p]
  /\ \A p \in 1..Len(d) : s[Len(a) + Len(b) + Len(c) + p] = d[p]
LEMMA Concatenated ==
  ASSUME NEW S, NEW a \in Seq(S), NEW b \in Seq(S), NEW c \in Seq(S), NEW d \in Seq(S)
  PROVE  FourParts(a \o b \o c \o d, a, b, c, d)
BY DEF FourParts

(* A canonical loop, and how the statements of the function lie.            *)
Handing(m, e) == [i \in DOMAIN m.blocks[e.to].args |-> m.blocks[e.to].args[i][1]]
Passed(m, s, e, to) == s.to = to /\ s.sources = e.args /\ s.targets = Handing(m, e)
Laid(m, code, h, body, exit) ==
  LET l1 == Len(OpsAt(m, 1))
      l2 == l1 + Len(OpsAt(m, h))
      l3 == l2 + Len(OpsAt(m, body))
      l4 == l3 + Len(OpsAt(m, exit))
  IN /\ h \in BlockIds(m) /\ body \in BlockIds(m) /\ exit \in BlockIds(m)
     /\ Ending(m, 1).op = "jump" /\ Ending(m, h).op = "branch"
     /\ Ending(m, body).op = "jump" /\ Ending(m, exit).op = "return"
     /\ \A e \in m.edges :
          /\ e.from = 1 => e.to = h /\ Passed(m, code[l1], e, l1 + 1)
          /\ e.from = h /\ e.kind = "branch_true" => e.to = body
          /\ e.from = h /\ e.kind = "branch_false" => e.to = exit /\ Passed(m, code[l2], e, l3 + 1)
          /\ e.from = body => e.to = h /\ Passed(m, code[l3], e, l1 + 1)
     /\ DOMAIN code = 1..l4
     /\ \A p \in 1..Len(OpsAt(m, 1)) : code[p].at = <<1, p>>
     /\ \A p \in 1..Len(OpsAt(m, h)) : code[l1 + p].at = <<h, p>>
     /\ \A p \in 1..Len(OpsAt(m, body)) : code[l2 + p].at = <<body, p>>
     /\ \A p \in 1..Len(OpsAt(m, exit)) : code[l3 + p].at = <<exit, p>>

(* An edge of a kind out of a block, by what the block ends with. *)
LEMMA EdgesOfEnding ==
  ASSUME RegionsAssumption, NEW m \in TypedModules, Verified(m), NEW b \in BlockIds(m)
  PROVE  LET o == Ending(m, b) IN
         /\ o.op = "return" => \A e \in m.edges : e.from # b
         /\ o.op = "jump" =>
              /\ \E e \in m.edges : e.from = b /\ e.kind = "jump" /\ e.to = o.to[1]
              /\ \A e, f \in m.edges : e.from = b /\ f.from = b => e = f
         /\ o.op = "branch" =>
              /\ \E e \in m.edges : e.from = b /\ e.kind = "branch_true" /\ e.to = o.to[1]
              /\ \E e \in m.edges : e.from = b /\ e.kind = "branch_false" /\ e.to = o.to[2]
              /\ \A e \in m.edges : e.from = b => \/ e.kind = "branch_true" /\ e.to = o.to[1]
                                                  \/ e.kind = "branch_false" /\ e.to = o.to[2]
              /\ \A e, f \in m.edges : e.from = b /\ f.from = b /\ e.kind = f.kind => e = f
<1> DEFINE o == Ending(m, b)
           X == {<<e.to, e.kind>> : e \in Outof(m, b)}
<1>1. X = ExpectedEdges(m, b)
  BY DEF Verified
<1>2. \A e \in m.edges : e.from = b => <<e.to, e.kind>> \in X
  BY DEF Outof
<1>3. \A x \in X : \E e \in m.edges : e.from = b /\ x = <<e.to, e.kind>>
  BY DEF Outof
<1>4. \A e, f \in m.edges : e.from = f.from /\ e.to = f.to /\ e.kind = f.kind => e = f
  BY DEF Verified
<1> HIDE DEF X
<1>5. CASE o.op = "return"
  <2>1. X = {}
    BY <1>1, <1>5 DEF ExpectedEdges
  <2> QED
    BY <1>2, <1>5, <2>1
<1>6. CASE o.op = "jump"
  <2>1. X = {<<o.to[1], "jump">>}
    BY <1>1, <1>6 DEF ExpectedEdges
  <2>2. \E e \in m.edges : e.from = b /\ e.kind = "jump" /\ e.to = o.to[1]
    BY <1>3, <2>1
  <2>3. ASSUME NEW e \in m.edges, NEW f \in m.edges, e.from = b, f.from = b PROVE e = f
    BY <1>2, <1>4, <2>1, <2>3
  <2> QED
    BY <1>6, <2>2, <2>3
<1>7. CASE o.op = "branch"
  <2>1. X = {<<o.to[1], "branch_true">>, <<o.to[2], "branch_false">>}
    BY <1>1, <1>7 DEF ExpectedEdges
  <2>2. \E e \in m.edges : e.from = b /\ e.kind = "branch_true" /\ e.to = o.to[1]
    BY <1>3, <2>1
  <2>3. \E e \in m.edges : e.from = b /\ e.kind = "branch_false" /\ e.to = o.to[2]
    BY <1>3, <2>1
  <2>4. ASSUME NEW e \in m.edges, e.from = b
        PROVE  \/ e.kind = "branch_true" /\ e.to = o.to[1]
               \/ e.kind = "branch_false" /\ e.to = o.to[2]
    BY <1>2, <2>1, <2>4
  <2>5. ASSUME NEW e \in m.edges, NEW f \in m.edges, e.from = b, f.from = b, e.kind = f.kind PROVE e = f
    BY <1>4, <2>4, <2>5
  <2> QED
    BY <1>7, <2>2, <2>3, <2>4, <2>5
<1> QED
  BY <1>5, <1>6, <1>7


LEMMA Layout ==
  ASSUME RegionsAssumption, NEW m \in TypedModules, Verified(m),
         Lower(m, LoopsOf(m)).code # <<>>
  PROVE  \E h, body, exit : Laid(m, Lower(m, LoopsOf(m)).code, h, body, exit)
<1> DEFINE ls == LoopsOf(m)
           l == CHOOSE x \in ls : TRUE
           h == l.header
           latch == CHOOSE b \in l.latches : TRUE
           body == Ending(m, h).to[1]
           exit == Ending(m, h).to[2]
           entries == {e \in m.edges : e.to = h /\ e.from \notin l.blocks /\ e.kind = "jump"}
           start == Len(OpsAt(m, 1)) + 1
           leave == start + Len(OpsAt(m, h)) + Len(OpsAt(m, body))
           the(kind, b) == CHOOSE e \in m.edges : e.from = b /\ e.kind = kind
           e1 == CHOOSE e \in entries : TRUE
           m1 == Move(Ends(m, 1), e1, m, start)
           m2 == Move(Ends(m, h), the("branch_false", h), m, leave)
           m3 == Move(Ends(m, body), the("jump", latch), m, start)
           m4 == Assign(Ends(m, exit))
           code == Lines(m, 1, m1) \o Lines(m, h, m2) \o Lines(m, body, m3) \o Lines(m, exit, m4)
<1>1. /\ Lower(m, ls).code = code
      /\ Plannable(m, ls)
      /\ Cardinality(l.latches) = 1 /\ Ending(m, h).op = "branch" /\ body \in l.blocks
      /\ Cardinality(entries) = 1 /\ Ending(m, latch).op = "jump"
      /\ Ending(m, 1).op = "jump" /\ Ending(m, body).op = "jump" /\ Ending(m, exit).op = "return"
      /\ {code[i].at : i \in DOMAIN code} = Positions(m)
  <2>1. Refused.code = <<>>
    BY DEF Refused
  <2>2. Plannable(m, ls)
    BY <2>1 DEF Lower
  <2> HIDE DEF ls
  <2>3. Lower(m, ls) # Refused
    BY <2>1 DEF ls
  <2>4. Lower(m, ls) = [code |-> code] /\ {code[i].at : i \in DOMAIN code} = Positions(m)
        /\ Cardinality(l.latches) = 1 /\ Ending(m, h).op = "branch" /\ body \in l.blocks
        /\ Cardinality(entries) = 1 /\ Ending(m, latch).op = "jump"
        /\ Ending(m, 1).op = "jump" /\ Ending(m, body).op = "jump" /\ Ending(m, exit).op = "return"
    BY <2>3, Zenon DEF Lower
  <2> HIDE DEF code, l, latch, body, exit, h, entries
  <2>5. Lower(m, ls).code = code
    BY <2>4
  <2> QED
    BY <2>2, <2>4, <2>5
<1> HIDE DEF ls, entries, code, latch
<1>2. l \in ls
  <2>1. Cardinality(ls) = 1
    BY <1>1 DEF Plannable
  <2>2. ls # {}
    BY <2>1, FS_EmptySet
  <2> QED
    BY <2>2
<1>3. e1 \in entries
  <2>1. entries # {}
    BY <1>1, FS_EmptySet
  <2> QED
    BY <2>1
<1>4. e1 \in m.edges /\ e1.to = h /\ e1.from \notin l.blocks /\ e1.kind = "jump"
      /\ e1.from \in BlockIds(m) /\ h \in BlockIds(m)
  BY <1>3 DEF entries, Verified
<1> HIDE DEF l
<1>5. /\ l.latches = {e.from : e \in {x \in Backedges(m) : x.to = h}}
      /\ \E e \in Backedges(m) : h = e.to
  BY <1>2, LoopFacts DEF ls
<1>6. \E e \in m.edges : e.from = latch /\ e.to = h /\ h \in DominatorsOf(m)[latch] /\ latch \in BlockIds(m)
  <2>1. l.latches # {}
    BY <1>5
  <2>2. latch \in l.latches
    BY <2>1 DEF latch
  <2>3. PICK e \in {x \in Backedges(m) : x.to = h} : latch = e.from
    BY <1>5, <2>2
  <2>4. e \in m.edges /\ e.to \in DominatorsOf(m)[e.from]
    BY <2>3, BackedgeFacts
  <2> QED
    BY <2>3, <2>4 DEF Verified
<1>7. /\ \E e \in m.edges : e.from = h /\ e.kind = "branch_true" /\ e.to = body
      /\ \E e \in m.edges : e.from = h /\ e.kind = "branch_false" /\ e.to = exit
      /\ \A e \in m.edges : e.from = h => \/ e.kind = "branch_true" /\ e.to = body
                                          \/ e.kind = "branch_false" /\ e.to = exit
      /\ \A e, f \in m.edges : e.from = h /\ f.from = h /\ e.kind = f.kind => e = f
  BY <1>1, <1>4, EdgesOfEnding
<1>8. body \in BlockIds(m) /\ exit \in BlockIds(m) /\ 1 \in BlockIds(m)
  BY <1>7, TypedShapes DEF Verified
<1> HIDE DEF body, exit, h
<1>9. \A e \in m.edges : e.from # exit
  BY <1>1, <1>8, EdgesOfEnding
<1>10. \A b \in {1, body, latch} : \A e, f \in m.edges : e.from = b /\ f.from = b => e = f
  BY <1>1, <1>6, <1>8, EdgesOfEnding
<1>11. latch # h /\ latch # exit /\ h # 1 /\ latch # 1
  <2>1. latch # h /\ latch # exit /\ h # 1
    BY <1>1
  <2>2. latch # 1
    BY <1>6, <2>1, DominatorsShrink
  <2> QED
    BY <2>1, <2>2
<1> DEFINE l1 == Len(OpsAt(m, 1))
           l2 == l1 + Len(OpsAt(m, h))
           l3 == l2 + Len(OpsAt(m, body))
           l4 == l3 + Len(OpsAt(m, exit))
           sets(b, last) == {Assign(<<b, i>>) : i \in DOMAIN OpsAt(m, b)} \cup {last}
           S == sets(1, m1) \cup sets(h, m2) \cup sets(body, m3) \cup sets(exit, m4)
           a1 == Lines(m, 1, m1)
           a2 == Lines(m, h, m2)
           a3 == Lines(m, body, m3)
           a4 == Lines(m, exit, m4)
<1>12. /\ m1.at = Ends(m, 1) /\ m1.to = start /\ m1.sources = e1.args /\ m1.targets = Handing(m, e1)
       /\ m2.at = Ends(m, h) /\ m2.to = leave /\ m2.sources = the("branch_false", h).args
       /\ m2.targets = Handing(m, the("branch_false", h))
       /\ m3.at = Ends(m, body) /\ m3.to = start /\ m3.sources = the("jump", latch).args
       /\ m3.targets = Handing(m, the("jump", latch))
       /\ m4.at = Ends(m, exit)
  BY DEF Move, Assign, Handing
<1> HIDE DEF m1, m2, m3, m4
<1>13. /\ a1 \in Seq(S) /\ Len(a1) = Len(OpsAt(m, 1)) /\ a1[Len(OpsAt(m, 1))] = m1
       /\ a2 \in Seq(S) /\ Len(a2) = Len(OpsAt(m, h)) /\ a2[Len(OpsAt(m, h))] = m2
       /\ a3 \in Seq(S) /\ Len(a3) = Len(OpsAt(m, body)) /\ a3[Len(OpsAt(m, body))] = m3
       /\ a4 \in Seq(S) /\ Len(a4) = Len(OpsAt(m, exit))
       /\ \A p \in 1..Len(OpsAt(m, 1)) : a1[p].at = <<1, p>>
       /\ \A p \in 1..Len(OpsAt(m, h)) : a2[p].at = <<h, p>>
       /\ \A p \in 1..Len(OpsAt(m, body)) : a3[p].at = <<body, p>>
       /\ \A p \in 1..Len(OpsAt(m, exit)) : a4[p].at = <<exit, p>>
  <2>1. a1 \in Seq(sets(1, m1)) /\ a2 \in Seq(sets(h, m2)) /\ a3 \in Seq(sets(body, m3)) /\ a4 \in Seq(sets(exit, m4))
    BY <1>4, <1>8, LinesFacts
  <2>2. a1 \in Seq(S) /\ a2 \in Seq(S) /\ a3 \in Seq(S) /\ a4 \in Seq(S)
    <3> HIDE DEF a1, a2, a3, a4, sets
    <3>1. /\ sets(1, m1) \subseteq S /\ sets(h, m2) \subseteq S
          /\ sets(body, m3) \subseteq S /\ sets(exit, m4) \subseteq S
      OBVIOUS
    <3> HIDE DEF S
    <3> QED
      BY <2>1, <3>1
  <2> HIDE DEF S, sets
  <2>3. Len(a1) = Len(OpsAt(m, 1)) /\ a1[Len(OpsAt(m, 1))] = m1 /\ Stands(m, 1, a1)
    BY <1>8, <1>12, LinesFacts
  <2>4. Len(a2) = Len(OpsAt(m, h)) /\ a2[Len(OpsAt(m, h))] = m2 /\ Stands(m, h, a2)
    <3>1. h \in BlockIds(m) /\ m2.at = Ends(m, h)
      BY <1>4, <1>12
    <3> QED
      BY <3>1, LinesFacts
  <2>5. Len(a3) = Len(OpsAt(m, body)) /\ a3[Len(OpsAt(m, body))] = m3 /\ Stands(m, body, a3)
    BY <1>8, <1>12, LinesFacts
  <2>6. Len(a4) = Len(OpsAt(m, exit)) /\ Stands(m, exit, a4)
    BY <1>8, <1>12, LinesFacts
  <2> HIDE DEF a1, a2, a3, a4
  <2> QED
    BY <2>2, <2>3, <2>4, <2>5, <2>6 DEF Stands
<1>14. code = a1 \o a2 \o a3 \o a4
  BY DEF code, m1, m2, m3, m4
<1>15. /\ Len(OpsAt(m, 1)) \in Nat \ {0} /\ Len(OpsAt(m, h)) \in Nat \ {0}
       /\ Len(OpsAt(m, body)) \in Nat \ {0} /\ Len(OpsAt(m, exit)) \in Nat \ {0}
  BY <1>4, <1>8, TypedShapes
<1> HIDE DEF a1, a2, a3, a4, S
<1>16. FourParts(code, a1, a2, a3, a4)
  <2>1. FourParts(a1 \o a2 \o a3 \o a4, a1, a2, a3, a4)
    BY <1>13, Concatenated
  <2> QED
    BY <1>14, <2>1
<1>17. /\ DOMAIN code = 1..l4
       /\ \A p \in 1..Len(OpsAt(m, 1)) : code[p].at = <<1, p>>
       /\ \A p \in 1..Len(OpsAt(m, h)) : code[l1 + p].at = <<h, p>>
       /\ \A p \in 1..Len(OpsAt(m, body)) : code[l2 + p].at = <<body, p>>
       /\ \A p \in 1..Len(OpsAt(m, exit)) : code[l3 + p].at = <<exit, p>>
       /\ code[l1] = m1 /\ code[l2] = m2 /\ code[l3] = m3
  <2>1. l4 = Len(code) /\ l1 = Len(a1) /\ l2 = Len(a1) + Len(a2) /\ l3 = Len(a1) + Len(a2) + Len(a3)
    BY <1>13, <1>15, <1>16 DEF FourParts
  <2>2. DOMAIN code = 1..l4
    BY <1>16, <2>1 DEF FourParts
  <2>3. \A p \in 1..Len(OpsAt(m, 1)) : code[p].at = <<1, p>>
    BY <1>13, <1>15, <1>16 DEF FourParts
  <2>4. \A p \in 1..Len(OpsAt(m, h)) : code[l1 + p].at = <<h, p>>
    BY <1>13, <1>15, <1>16 DEF FourParts
  <2>5. \A p \in 1..Len(OpsAt(m, body)) : code[l2 + p].at = <<body, p>>
    BY <1>13, <1>15, <1>16 DEF FourParts
  <2>6. \A p \in 1..Len(OpsAt(m, exit)) : code[l3 + p].at = <<exit, p>>
    <3> SUFFICES ASSUME NEW p \in 1..Len(OpsAt(m, exit)) PROVE code[l3 + p].at = <<exit, p>>
      OBVIOUS
    <3>1. a4[p].at = <<exit, p>> /\ p \in 1..Len(a4)
      BY <1>13
    <3>2. code[Len(a1) + Len(a2) + Len(a3) + p] = a4[p]
      BY <1>16, <3>1 DEF FourParts
    <3> QED
      BY <2>1, <3>1, <3>2
  <2>7. code[l1] = m1
    <3>1. Len(OpsAt(m, 1)) \in 1..Len(a1)
      BY <1>13, <1>15
    <3> QED
      BY <1>13, <1>16, <3>1 DEF FourParts
  <2>8. code[l2] = m2
    <3>1. Len(OpsAt(m, h)) \in 1..Len(a2)
      BY <1>13, <1>15
    <3>2. code[Len(a1) + Len(OpsAt(m, h))] = a2[Len(OpsAt(m, h))]
      BY <1>16, <3>1 DEF FourParts
    <3> QED
      BY <1>13, <3>2
  <2>9. code[l3] = m3
    <3>1. Len(OpsAt(m, body)) \in 1..Len(a3)
      BY <1>13, <1>15
    <3>2. code[Len(a1) + Len(a2) + Len(OpsAt(m, body))] = a3[Len(OpsAt(m, body))]
      BY <1>16, <3>1 DEF FourParts
    <3> QED
      BY <1>13, <3>2
  <2> QED
    BY <2>2, <2>3, <2>4, <2>5, <2>6, <2>7, <2>8, <2>9
<1>18. \A b \in BlockIds(m) : b \in {1, h, body, exit}
  <2> SUFFICES ASSUME NEW b \in BlockIds(m) PROVE b \in {1, h, body, exit}
    OBVIOUS
  <2>1. 1 \in DOMAIN OpsAt(m, b)
    BY TypedShapes
  <2>2. <<b, 1>> \in Positions(m)
    BY <2>1 DEF Positions
  <2>3. PICK i \in 1..l4 : code[i].at = <<b, 1>>
    BY <1>1, <1>17, <2>2
  <2>4. \/ i \in 1..Len(OpsAt(m, 1))
        \/ \E p \in 1..Len(OpsAt(m, h)) : i = l1 + p
        \/ \E p \in 1..Len(OpsAt(m, body)) : i = l2 + p
        \/ \E p \in 1..Len(OpsAt(m, exit)) : i = l3 + p
    <3>1. i \in 1..l1 \/ i - l1 \in 1..Len(OpsAt(m, h)) \/ i - l2 \in 1..Len(OpsAt(m, body)) \/ i - l3 \in 1..Len(OpsAt(m, exit))
      BY <1>15
    <3>2. i = l1 + (i - l1) /\ i = l2 + (i - l2) /\ i = l3 + (i - l3)
      BY <1>15
    <3> QED
      BY <3>1, <3>2
  <2>6. CASE i \in 1..Len(OpsAt(m, 1))
    BY <1>17, <2>3, <2>6
  <2>7. CASE \E p \in 1..Len(OpsAt(m, h)) : i = l1 + p
    <3>1. PICK p \in 1..Len(OpsAt(m, h)) : i = l1 + p
      BY <2>7
    <3>2. <<h, p>> = <<b, 1>>
      BY <1>17, <2>3, <3>1
    <3> QED
      BY <3>2
  <2>8. CASE \E p \in 1..Len(OpsAt(m, body)) : i = l2 + p
    <3>1. PICK p \in 1..Len(OpsAt(m, body)) : i = l2 + p
      BY <2>8
    <3>2. <<body, p>> = <<b, 1>>
      BY <1>17, <2>3, <3>1
    <3> QED
      BY <3>2
  <2>9. CASE \E p \in 1..Len(OpsAt(m, exit)) : i = l3 + p
    <3>1. PICK p \in 1..Len(OpsAt(m, exit)) : i = l3 + p
      BY <2>9
    <3>2. <<exit, p>> = <<b, 1>>
      BY <1>17, <2>3, <3>1
    <3> QED
      BY <3>2
  <2> QED
    BY <2>4, <2>6, <2>7, <2>8, <2>9
<1>19. e1.from = 1
  <2>1. e1.from # h
    BY <1>4, <1>7
  <2>2. e1.from # exit
    BY <1>4, <1>9
  <2>3. e1.from # body
    BY <1>1, <1>4
  <2> QED
    BY <1>4, <1>18, <2>1, <2>2, <2>3
<1>20. latch = body
  BY <1>6, <1>11, <1>18
<1>21. PICK e3 \in m.edges : e3.from = body /\ e3.to = h
  BY <1>6, <1>20
<1>22. the("jump", latch) = e3
  <2>1. \E e \in m.edges : e.from = body /\ e.kind = "jump"
    BY <1>1, <1>8, EdgesOfEnding
  <2>2. the("jump", latch) \in m.edges /\ the("jump", latch).from = body
    BY <1>20, <2>1
  <2> QED
    BY <1>10, <1>21, <2>2
<1>23. \A e \in m.edges : e.from = h /\ e.kind = "branch_false" => e = the("branch_false", h)
  BY <1>7
<1>24. ASSUME NEW e \in m.edges
       PROVE  /\ e.from = 1 => e.to = h /\ Passed(m, code[l1], e, l1 + 1)
              /\ e.from = h /\ e.kind = "branch_true" => e.to = body
              /\ e.from = h /\ e.kind = "branch_false" => e.to = exit /\ Passed(m, code[l2], e, l3 + 1)
              /\ e.from = body => e.to = h /\ Passed(m, code[l3], e, l1 + 1)
  <2> HIDE DEF the
  <2>1. e.from = 1 => e = e1
    BY <1>4, <1>10, <1>19
  <2>2. e.from = body => e = e3
    BY <1>10, <1>21
  <2>3. leave = l3 + 1 /\ start = l1 + 1
    BY <1>15
  <2>4. e.from = 1 => e.to = h /\ Passed(m, code[l1], e, l1 + 1)
    BY <1>4, <1>12, <1>17, <2>1, <2>3 DEF Passed
  <2>5. e.from = body => e.to = h /\ Passed(m, code[l3], e, l1 + 1)
    BY <1>12, <1>17, <1>21, <1>22, <2>2, <2>3 DEF Passed
  <2>6. e.from = h /\ e.kind = "branch_false" => e.to = exit /\ Passed(m, code[l2], e, l3 + 1)
    BY <1>7, <1>12, <1>17, <1>23, <2>3 DEF Passed
  <2>7. e.from = h /\ e.kind = "branch_true" => e.to = body
    BY <1>7
  <2> QED
    BY <2>4, <2>5, <2>6, <2>7
<1>25. Laid(m, code, h, body, exit)
  BY <1>1, <1>4, <1>8, <1>17, <1>24 DEF Laid
<1> QED
  BY <1>1, <1>25 DEF ls


Named(m) == {d[1] : d \in Defined(m)}

LEMMA TypeOfOp ==
  ASSUME RegionsAssumption, NEW m \in TypedModules, Verified(m), NEW b \in BlockIds(m), NEW p \in DOMAIN OpsAt(m, b),
         OpsAt(m, b)[p].op \notin Terminators
  PROVE  /\ Definition(m, OpsAt(m, b)[p].id) = <<OpsAt(m, b)[p].id, b, p>>
         /\ TypeOf(m, OpsAt(m, b)[p].id) = OpsAt(m, b)[p].type
<1> DEFINE d == <<OpsAt(m, b)[p].id, b, p>>
<1>1. d \in Defined(m) /\ d[1] = OpsAt(m, b)[p].id
  BY OpIsDefined
<1>2. Definition(m, OpsAt(m, b)[p].id) = d
  BY <1>1, DefinitionIs
<1>3. p # 0
  BY TypedShapes
<1> QED
  BY <1>2, <1>3 DEF TypeOf

LEMMA TypeOfArg ==
  ASSUME NEW m, Verified(m), NEW b \in BlockIds(m), NEW i \in DOMAIN m.blocks[b].args
  PROVE  /\ Definition(m, m.blocks[b].args[i][1]) = <<m.blocks[b].args[i][1], b, 0>>
         /\ TypeOf(m, m.blocks[b].args[i][1]) = m.blocks[b].args[i][2]
<1> DEFINE args == m.blocks[b].args
           v == args[i][1]
<1>1. Definition(m, v) = <<v, b, 0>>
  <2>1. <<v, b, 0>> \in Defined(m) /\ <<v, b, 0>>[1] = v
    BY ArgIsDefined
  <2> QED
    BY <2>1, DefinitionIs
<1>2. TypeOf(m, v) = (CHOOSE a \in ToSet(args) : a[1] = v)[2]
  BY <1>1 DEF TypeOf
<1>3. args[i] \in ToSet(args)
  BY DEF ToSet
<1>4. \A a \in ToSet(args) : a[1] = v => a = args[i]
  <2> SUFFICES ASSUME NEW j \in DOMAIN args, args[j][1] = v PROVE j = i
    BY DEF ToSet
  <2> QED
    BY DEF Verified, Repeats
<1>5. (CHOOSE a \in ToSet(args) : a[1] = v) = args[i]
  BY <1>3, <1>4
<1> QED
  BY <1>1, <1>2, <1>5

(* What the schema of an operation tells of its operands. *)
LEMMA OpTyped ==
  ASSUME RegionsAssumption, NEW m \in TypedModules, Verified(m), NEW b \in BlockIds(m), NEW p \in DOMAIN OpsAt(m, b)
  PROVE  LET o == OpsAt(m, b)[p] IN
         /\ o.op \notin Terminators /\ o.type = "builder" =>
              o.op \in {"sequence.builder.create", "sequence.builder.append"}
         /\ o.op = "sequence.builder.create" => o.type = "builder"
         /\ o.op = "sequence.builder.append" =>
              /\ o.type = "builder" /\ DOMAIN o.args = 1..2
              /\ TypeOf(m, o.args[1]) = "builder" /\ TypeOf(m, o.args[2]) = "int"
         /\ o.op = "unicode.property" => o.type = "bool"
         /\ o.op = "branch" => DOMAIN o.args = 1..1 /\ TypeOf(m, o.args[1]) = "bool"
<1> DEFINE o == OpsAt(m, b)[p]
           types == [i \in DOMAIN o.args |-> TypeOf(m, o.args[i])]
<1>1. WellTyped(m, o)
  <2>1. <<b, p>> \in Positions(m) /\ OpOf(m, <<b, p>>) = o
    BY DEF Positions, OpOf
  <2>2. OperationVerdict(m, DominatorsOf(m), <<b, p>>) = ""
    BY <2>1 DEF Verified
  <2> QED
    BY <2>1, <2>2 DEF OperationVerdict
<1> HIDE DEF o
<1>2. CASE o.op = "sequence.builder.append"
  <2>1. types = <<"builder", "int">> /\ o.type = "builder"
    BY <1>1, <1>2 DEF WellTyped
  <2>2. DOMAIN types = 1..2 /\ types[1] = "builder" /\ types[2] = "int"
    <3> HIDE DEF types
    <3> QED
      BY <2>1
  <2>3. DOMAIN o.args = 1..2
    BY <2>2
  <2>4. TypeOf(m, o.args[1]) = "builder" /\ TypeOf(m, o.args[2]) = "int"
    BY <2>2, <2>3
  <2> QED
    BY <1>2, <2>1, <2>3, <2>4 DEF o
<1>3. CASE o.op = "branch"
  <2>1. types = <<"bool">>
    BY <1>1, <1>3 DEF WellTyped
  <2>2. DOMAIN types = 1..1 /\ types[1] = "bool"
    <3> HIDE DEF types
    <3> QED
      BY <2>1
  <2>3. DOMAIN o.args = 1..1
    BY <2>2
  <2>4. TypeOf(m, o.args[1]) = "bool"
    BY <2>2, <2>3
  <2> QED
    BY <1>3, <2>3, <2>4 DEF o, Terminators
<1>4. CASE o.op \notin {"sequence.builder.append", "branch"}
  BY <1>1, <1>4 DEF WellTyped, o, Terminators
<1> QED
  BY <1>2, <1>3, <1>4

-----------------------------------------------------------------------------
(* A builder that is used no more, wherever control goes from here until it  *)
(* is defined again.                                                         *)
Beside(m, b, d) == {e.to : e \in Outof(m, b)} \ {d}
Dead(m, v, b, p) ==
  /\ \A q \in DOMAIN OpsAt(m, b) : q >= p => v \notin ToSet(OpsAt(m, b)[q].args)
  /\ \A e \in Outof(m, b) : v \notin ToSet(e.args)
  /\ Uses(m, v, AheadWithout(m, Beside(m, b, Definition(m, v)[2]), Definition(m, v)[2])) = {}
Live(m, v, b, p) ==
  /\ Held(m, Definition(m, v), b, p)
  /\ TypeOf(m, v) = "builder" => ~Dead(m, v, b, p)

LEMMA NamedIsDefined ==
  ASSUME NEW m, Verified(m), NEW v \in Named(m)
  PROVE  Definition(m, v) \in Defined(m) /\ Definition(m, v)[1] = v
<1>1. PICK d \in Defined(m) : d[1] = v
  BY DEF Named
<1> QED
  BY <1>1, DefinitionIs

LEMMA AheadFacts ==
  ASSUME RegionsAssumption, NEW m \in TypedModules, NEW S, NEW d
  PROVE  /\ S \subseteq AheadWithout(m, S, d)
         /\ \A e \in m.edges : e.to # d /\ e.from \in AheadWithout(m, S, d) => e.to \in AheadWithout(m, S, d)
         /\ \A T : T \subseteq AheadWithout(m, S, d) => AheadWithout(m, T, d) \subseteq AheadWithout(m, S, d)
<1> DEFINE X == {x \in m.edges : x.to # d}
           E == {<<e.from, e.to>> : e \in X}
           f == [e \in X |-> <<e.from, e.to>>]
           A == AheadWithout(m, S, d)
           W == S \cup {e.to : e \in m.edges}
<1>1. IsFiniteSet(E)
  <2>1. IsFiniteSet(X)
    BY TypedShapes, FS_Subset
  <2>2. {f[e] : e \in X} = E /\ DOMAIN f = X
    OBVIOUS
  <2> HIDE DEF f, X
  <2> QED
    BY <2>1, <2>2, ImageFinite
<1>2. \A T : AheadWithout(m, T, d) = Reached(E, T)
  BY DEF AheadWithout
<1>3. S \subseteq A
  <2>1. S \subseteq W /\ \A e \in E : e[1] \in W => e[2] \in W
    OBVIOUS
  <2> HIDE DEF W, E, A
  <2>2. S \subseteq Reached(E, S)
    BY <1>1, <2>1, ReachedLeast
  <2> QED
    BY <1>2, <2>2 DEF A
<1>4. ASSUME NEW e \in m.edges, e.to # d, e.from \in A PROVE e.to \in A
  <2> DEFINE x == <<e.from, e.to>>
  <2>1. x \in E /\ x[1] = e.from /\ x[2] = e.to
    BY <1>4
  <2>2. x[1] \in Reached(E, S)
    BY <1>2, <1>4, <2>1
  <2> HIDE DEF x, E
  <2>3. x[2] \in Reached(E, S)
    BY <1>1, <2>1, <2>2, ReachedCloses
  <2> QED
    BY <1>2, <2>1, <2>3
<1>5. ASSUME NEW T, T \subseteq A PROVE AheadWithout(m, T, d) \subseteq A
  <2>1. \A e \in E : e[1] \in A => e[2] \in A
    BY <1>4
  <2> HIDE DEF A, E
  <2>2. Reached(E, T) \subseteq A
    BY <1>1, <1>5, <2>1, ReachedLeast
  <2> QED
    BY <1>2, <2>2
<1> QED
  BY <1>3, <1>4, <1>5

(* Nothing uses v in the blocks of B. *)
LEMMA UsesFacts ==
  ASSUME NEW m, NEW v, NEW B
  PROVE  Uses(m, v, B) = {} <=>
           /\ \A b \in BlockIds(m) : b \in B => \A q \in DOMAIN OpsAt(m, b) : v \notin ToSet(OpsAt(m, b)[q].args)
           /\ \A e \in m.edges : e.from \in B => v \notin ToSet(e.args)
<1> DEFINE Os == {x \in Positions(m) : x[1] \in B /\ v \in ToSet(OpOf(m, x).args)}
           P == {e \in m.edges : e.from \in B /\ v \in ToSet(e.args)}
<1>1. Uses(m, v, B) = Os \cup P
  BY DEF Uses
<1>2. Os = {} <=> \A b \in BlockIds(m) : b \in B => \A q \in DOMAIN OpsAt(m, b) : v \notin ToSet(OpsAt(m, b)[q].args)
  <2>1. ASSUME NEW b \in BlockIds(m), b \in B, NEW q \in DOMAIN OpsAt(m, b), v \in ToSet(OpsAt(m, b)[q].args)
        PROVE  Os # {}
    <3>1. <<b, q>> \in Positions(m) /\ OpOf(m, <<b, q>>) = OpsAt(m, b)[q]
      BY DEF Positions, OpOf
    <3>2. <<b, q>> \in Os
      BY <2>1, <3>1
    <3> QED
      BY <3>2
  <2>2. ASSUME NEW x \in Os
        PROVE  \E b \in BlockIds(m) : b \in B /\ \E q \in DOMAIN OpsAt(m, b) : v \in ToSet(OpsAt(m, b)[q].args)
    <3>1. PICK b \in BlockIds(m) : x \in {b} \X DOMAIN OpsAt(m, b)
      BY DEF Positions
    <3>2. PICK q \in DOMAIN OpsAt(m, b) : x = <<b, q>>
      BY <3>1
    <3> QED
      BY <3>2 DEF OpOf
  <2> HIDE DEF Os
  <2> QED
    BY <2>1, <2>2
<1>3. P = {} <=> \A e \in m.edges : e.from \in B => v \notin ToSet(e.args)
  OBVIOUS
<1> HIDE DEF Os, P
<1> QED
  BY <1>1, <1>2, <1>3

(* A dead builder stays dead along an edge that does not define it. *)
LEMMA DeadStays ==
  ASSUME RegionsAssumption, NEW m \in TypedModules, Verified(m), NEW e \in m.edges, NEW v,
         Definition(m, v)[2] # e.to,
         Uses(m, v, AheadWithout(m, {e.to} \ {Definition(m, v)[2]}, Definition(m, v)[2])) = {}
  PROVE  Dead(m, v, e.to, 1)
<1> DEFINE d == Definition(m, v)[2]
           A == AheadWithout(m, {e.to} \ {d}, d)
<1> HIDE DEF d
<1>1. e.to \in BlockIds(m) /\ e.to \in A
  BY AheadFacts DEF d, Verified
<1>2. \A f \in m.edges : f.to # d /\ f.from \in A => f.to \in A
  BY AheadFacts
<1>3. AheadWithout(m, Beside(m, e.to, d), d) \subseteq A
  <2>1. Beside(m, e.to, d) \subseteq A
    BY <1>1, <1>2 DEF Beside, Outof
  <2> QED
    BY <2>1, AheadFacts
<1>4. /\ \A b \in BlockIds(m) : b \in A => \A q \in DOMAIN OpsAt(m, b) : v \notin ToSet(OpsAt(m, b)[q].args)
      /\ \A f \in m.edges : f.from \in A => v \notin ToSet(f.args)
  <2>1. Uses(m, v, A) = {}
    BY DEF d
  <2> HIDE DEF A
  <2> QED
    BY <2>1, UsesFacts
<1> HIDE DEF A
<1>5. Uses(m, v, AheadWithout(m, Beside(m, e.to, d), d)) = {}
  BY <1>3, <1>4, UsesFacts
<1>6. \A q \in DOMAIN OpsAt(m, e.to) : v \notin ToSet(OpsAt(m, e.to)[q].args)
  BY <1>1, <1>4
<1>7. \A f \in Outof(m, e.to) : v \notin ToSet(f.args)
  BY <1>1, <1>4 DEF Outof
<1> QED
  BY <1>5, <1>6, <1>7 DEF Dead, d

LEMMA DeadPasses ==
  ASSUME RegionsAssumption, NEW m \in TypedModules, Verified(m), NEW e \in m.edges, NEW v,
         Definition(m, v)[2] # e.to, NEW p, Dead(m, v, e.from, p)
  PROVE  Dead(m, v, e.to, 1)
<1> DEFINE d == Definition(m, v)[2]
           A == AheadWithout(m, Beside(m, e.from, d), d)
           B == AheadWithout(m, {e.to} \ {d}, d)
<1> HIDE DEF d
<1>1. {e.to} \ {d} \subseteq A
  <2>1. e.to \in Beside(m, e.from, d)
    BY DEF Beside, Outof, d
  <2> QED
    BY <2>1, AheadFacts
<1>2. B \subseteq A
  BY <1>1, AheadFacts
<1>3. Uses(m, v, A) = {}
  BY DEF Dead, d
<1> HIDE DEF A, B
<1>4. Uses(m, v, B) = {}
  BY <1>2, <1>3, UsesFacts
<1> QED
  BY <1>4, DeadStays DEF B, d

-----------------------------------------------------------------------------
(* The function's variables hold what the interpreter computed.              *)
Cell(m, nm, hp, v) == IF TypeOf(m, v) = "builder" THEN hp[nm[v]] ELSE nm[v]
Same(m, nm, hp, cp, b, p) ==
  /\ \A v \in Named(m) : Live(m, v, b, p) =>
       /\ v \in DOMAIN nm /\ v \in DOMAIN cp /\ Cell(m, nm, hp, v) = cp[v]
       /\ TypeOf(m, v) = "builder" => nm[v] \in 1..Len(hp)
  /\ \A u, v \in Named(m) :
       /\ Live(m, u, b, p) /\ TypeOf(m, u) = "builder"
       /\ Live(m, v, b, p) /\ TypeOf(m, v) = "builder"
       /\ nm[u] = nm[v]
       => u = v
  /\ \E S : hp \in Seq(S)

(* The statement of an operation does what _execute_operation does. *)
Does(m, o, row, nm, hp, nm2, hp2, v) ==
  CASE o.op = "sequence.builder.create" -> hp2 = Append(hp, <<>>) /\ nm2 = Bind(nm, o.id, Len(hp) + 1)
    [] o.op = "sequence.builder.append" ->
         /\ hp2 = [hp EXCEPT ![nm[o.args[1]]] = Append(@, nm[o.args[2]])]
         /\ nm2 = Bind(nm, o.id, nm[o.args[1]])
    [] o.op = "unicode.property" -> nm2 = Bind(nm, o.id, v) /\ hp2 = hp
    [] OTHER -> hp2 = hp /\ \E c : /\ nm2 = Bind(nm, o.id, Result(row, c, o))
                                   /\ \A w \in ToSet(o.args) : c[w] = Cell(m, nm, hp, w)

(* What is read is alive. *)
LEMMA ReadsAreLive ==
  ASSUME NEW m, Verified(m), NEW b \in BlockIds(m), NEW p \in DOMAIN OpsAt(m, b), p \in Int,
         NEW v \in ToSet(OpsAt(m, b)[p].args)
  PROVE  v \in Named(m) /\ Live(m, v, b, p)
<1>1. Definition(m, v) \in Defined(m) /\ Definition(m, v)[1] = v /\ Held(m, Definition(m, v), b, p)
  BY ReadsAreHeld
<1>2. v \in Named(m)
  BY <1>1 DEF Named
<1>3. ~Dead(m, v, b, p)
  BY DEF Dead
<1> QED
  BY <1>1, <1>2, <1>3 DEF Live

LEMMA HandedIsLive ==
  ASSUME NEW m, Verified(m), NEW e \in m.edges, NEW i \in DOMAIN e.args
  PROVE  /\ e.args[i] \in Named(m) /\ Live(m, e.args[i], e.from, Len(OpsAt(m, e.from)))
         /\ TypeOf(m, e.args[i]) = m.blocks[e.to].args[i][2]
<1>1. /\ Definition(m, e.args[i]) \in Defined(m) /\ Definition(m, e.args[i])[1] = e.args[i]
      /\ Held(m, Definition(m, e.args[i]), e.from, Len(OpsAt(m, e.from)))
      /\ TypeOf(m, e.args[i]) = m.blocks[e.to].args[i][2]
  BY EdgeArguments
<1>2. e.args[i] \in Named(m)
  BY <1>1 DEF Named
<1>3. ~Dead(m, e.args[i], e.from, Len(OpsAt(m, e.from)))
  <2>1. e.args[i] \in ToSet(e.args) /\ e \in Outof(m, e.from)
    BY DEF ToSet, Outof
  <2> QED
    BY <2>1 DEF Dead
<1> QED
  BY <1>1, <1>2, <1>3 DEF Live


(* A builder that was appended to is dead. *)
LEMMA AppendedIsDead ==
  ASSUME NEW m, Verified(m), Linear(m), NEW b \in BlockIds(m), NEW p \in DOMAIN OpsAt(m, b),
         OpsAt(m, b)[p].op = "sequence.builder.append", NEW w \in Named(m), w = OpsAt(m, b)[p].args[1],
         TypeOf(m, w) = "builder", p \in Int, \A q \in DOMAIN OpsAt(m, b) : q \in Int
  PROVE  Dead(m, w, b, p + 1)
<1> DEFINE x == <<b, p>>
           d == Definition(m, w)[2]
           Vs == {y[1] : y \in {z \in Defined(m) : TypeOf(m, z[1]) = "builder"}}
<1>1. w \in Vs
  <2>1. Definition(m, w) \in Defined(m) /\ Definition(m, w)[1] = w
    BY NamedIsDefined
  <2> QED
    BY <2>1
<1>2. x \in Positions(m) /\ OpOf(m, x) = OpsAt(m, b)[p] /\ x[1] = b /\ x[2] = p
  BY DEF Positions, OpOf
<1>3. /\ Uses(m, w, AheadWithout(m, {e.to : e \in Outof(m, x[1])} \ {d}, d)) = {}
      /\ \A e \in Outof(m, x[1]) : w \notin ToSet(e.args)
      /\ \A y \in Positions(m) : y[1] = x[1] /\ y[2] > x[2] => w \notin ToSet(OpOf(m, y).args)
  <2> HIDE DEF x
  <2> QED
    BY <1>1, <1>2 DEF Linear
<1>4. ASSUME NEW q \in DOMAIN OpsAt(m, b), q >= p + 1 PROVE w \notin ToSet(OpsAt(m, b)[q].args)
  <2>1. <<b, q>> \in Positions(m) /\ OpOf(m, <<b, q>>) = OpsAt(m, b)[q] /\ <<b, q>>[1] = b /\ <<b, q>>[2] = q
    BY DEF Positions, OpOf
  <2>2. q > p
    BY <1>4
  <2> HIDE DEF x
  <2> QED
    BY <1>2, <1>3, <2>1, <2>2
<1> QED
  BY <1>2, <1>3, <1>4 DEF Dead, Beside

LEMMA ExecuteSame ==
  ASSUME RegionsAssumption, NEW m \in TypedModules, Verified(m), Linear(m),
         NEW b \in BlockIds(m), NEW p \in DOMAIN OpsAt(m, b), OpsAt(m, b)[p].op \notin Terminators,
         NEW row, NEW nm, NEW hp, NEW cp, NEW v, NEW nm2, NEW hp2, Same(m, nm, hp, cp, b, p),
         OpsAt(m, b)[p].op # "unicode.property" => v = Result(row, cp, OpsAt(m, b)[p]),
         Does(m, OpsAt(m, b)[p], row, nm, hp, nm2, hp2, v)
  PROVE  Same(m, nm2, hp2, Bind(cp, OpsAt(m, b)[p].id, v), b, p + 1)
<1> DEFINE o == OpsAt(m, b)[p]
           cp2 == Bind(cp, o.id, v)
           here == <<o.id, b, p>>
<1>1. /\ p \in Int /\ p # 0 /\ \A q \in DOMAIN OpsAt(m, b) : q \in Int
      /\ Definition(m, o.id) = here /\ TypeOf(m, o.id) = o.type
  <2>1. DOMAIN OpsAt(m, b) = 1..Len(OpsAt(m, b))
    BY TypedShapes
  <2> QED
    BY <2>1, TypeOfOp
<1>2. ASSUME NEW u \in Named(m), Live(m, u, b, p + 1), u # o.id
      PROVE  Live(m, u, b, p)
  <2> DEFINE d == Definition(m, u)
  <2>1. d \in Defined(m) /\ d[1] = u
    BY NamedIsDefined
  <2> HIDE DEF d
  <2>2. /\ d[3] \in 0..Len(OpsAt(m, d[2])) /\ d[2] \in BlockIds(m)
        /\ d[3] # 0 => d[1] = OpsAt(m, d[2])[d[3]].id
    BY <2>1, DefinedShape
  <2>3. d[3] \in Int
    BY <2>2, TypedShapes
  <2>4. Held(m, d, b, p)
    <3>1. CASE d[2] = b /\ d[3] = p
      BY <1>1, <1>2, <2>1, <2>2, <3>1
    <3>2. CASE ~(d[2] = b /\ d[3] = p)
      <4>1. Held(m, d, b, p + 1)
        BY <1>2 DEF Live, d
      <4> QED
        BY <1>1, <2>3, <3>2, <4>1 DEF Held
    <3> QED
      BY <3>1, <3>2
  <2>5. Dead(m, u, b, p) => Dead(m, u, b, p + 1)
    <3>1. \A q \in DOMAIN OpsAt(m, b) : q >= p + 1 => q >= p
      BY <1>1
    <3> QED
      BY <3>1 DEF Dead
  <2> QED
    BY <1>2, <2>4, <2>5 DEF Live, d
<1>3. PICK S : hp \in Seq(S)
  BY DEF Same
<1>4. \A u \in Named(m) : Live(m, u, b, p) =>
        /\ u \in DOMAIN nm /\ u \in DOMAIN cp /\ Cell(m, nm, hp, u) = cp[u]
        /\ TypeOf(m, u) = "builder" => nm[u] \in 1..Len(hp)
  BY DEF Same
<1>5. \A u, w \in Named(m) :
        /\ Live(m, u, b, p) /\ TypeOf(m, u) = "builder"
        /\ Live(m, w, b, p) /\ TypeOf(m, w) = "builder"
        /\ nm[u] = nm[w]
        => u = w
  BY DEF Same
<1>6. \A w \in ToSet(o.args) : w \in Named(m) /\ Live(m, w, b, p)
  BY <1>1, ReadsAreLive
<1>7. PICK y : nm2 = Bind(nm, o.id, y)
  BY DEF Does
<1>8. /\ DOMAIN nm2 = DOMAIN nm \cup {o.id} /\ nm2[o.id] = y
      /\ \A w \in DOMAIN nm \ {o.id} : nm2[w] = nm[w]
      /\ DOMAIN cp2 = DOMAIN cp \cup {o.id} /\ cp2[o.id] = v
      /\ \A w \in DOMAIN cp \ {o.id} : cp2[w] = cp[w]
  <2> HIDE DEF o
  <2> QED
    BY <1>7 DEF Bind
<1> HIDE DEF cp2
<1>9. CASE o.op = "sequence.builder.append"
  <2> DEFINE w == o.args[1]
             r == nm[w]
  <2>1. /\ hp2 = [hp EXCEPT ![r] = Append(@, nm[o.args[2]])] /\ nm2 = Bind(nm, o.id, r)
        /\ o.type = "builder" /\ DOMAIN o.args = 1..2
        /\ TypeOf(m, w) = "builder" /\ TypeOf(m, o.args[2]) = "int"
    <3>1. /\ o.type = "builder" /\ DOMAIN o.args = 1..2
          /\ TypeOf(m, w) = "builder" /\ TypeOf(m, o.args[2]) = "int"
      BY <1>9, OpTyped
    <3>2. hp2 = [hp EXCEPT ![r] = Append(@, nm[o.args[2]])] /\ nm2 = Bind(nm, o.id, r)
      BY <1>9 DEF Does
    <3> QED
      BY <3>1, <3>2
  <2>2. w \in ToSet(o.args) /\ o.args[2] \in ToSet(o.args)
    BY <2>1 DEF ToSet
  <2>3. /\ w \in Named(m) /\ Live(m, w, b, p) /\ o.args[2] \in Named(m) /\ Live(m, o.args[2], b, p)
    BY <1>6, <2>2
  <2>4. r \in 1..Len(hp) /\ hp[r] = cp[w] /\ nm[o.args[2]] = cp[o.args[2]]
    BY <1>4, <2>1, <2>3 DEF Cell
  <2>5. Dead(m, w, b, p + 1)
    BY <1>1, <1>9, <2>1, <2>3, AppendedIsDead
  <2>6. v = Append(cp[w], cp[o.args[2]])
    <3>1. v = Result(row, cp, o)
      BY <1>9
    <3> DEFINE a == [i \in DOMAIN o.args |-> cp[o.args[i]]]
    <3>2. Result(row, cp, o) = Append(a[1], a[2])
      BY <1>9, Zenon DEF Result
    <3>3. a[1] = cp[o.args[1]] /\ a[2] = cp[o.args[2]]
      BY <2>1
    <3> HIDE DEF a
    <3> QED
      BY <1>9, <2>1, <3>1, <3>2, <3>3
  <2>7. y = r
    <3>1. Bind(nm, o.id, r)[o.id] = r
      BY DEF Bind
    <3> QED
      BY <1>8, <2>1, <3>1
  <2>8. /\ Len(hp2) = Len(hp) /\ hp2[r] = v /\ hp2 \in Seq(S \cup {v})
        /\ \A q \in 1..Len(hp) : q # r => hp2[q] = hp[q]
    <3>1. hp2 = [hp EXCEPT ![r] = v]
      BY <2>1, <2>4, <2>6
    <3> QED
      BY <1>3, <2>4, <3>1
  <2>9. ASSUME NEW u \in Named(m), Live(m, u, b, p + 1), u # o.id
        PROVE  /\ u \in DOMAIN nm2 /\ u \in DOMAIN cp2 /\ Cell(m, nm2, hp2, u) = cp2[u]
               /\ TypeOf(m, u) = "builder" => nm2[u] \in 1..Len(hp2) /\ nm2[u] = nm[u] /\ nm[u] # r
    <3>1. Live(m, u, b, p)
      BY <1>2, <2>9
    <3>2. TypeOf(m, u) = "builder" => u # w
      BY <2>5, <2>9 DEF Live
    <3>3. TypeOf(m, u) = "builder" => nm[u] # r
      BY <1>5, <2>1, <2>3, <3>1, <3>2
    <3>4. /\ u \in DOMAIN nm /\ u \in DOMAIN cp /\ Cell(m, nm, hp, u) = cp[u]
          /\ TypeOf(m, u) = "builder" => nm[u] \in 1..Len(hp)
      BY <1>4, <3>1
    <3>5. nm2[u] = nm[u] /\ cp2[u] = cp[u] /\ u \in DOMAIN nm2 /\ u \in DOMAIN cp2
      BY <1>8, <2>9, <3>4
    <3>6. TypeOf(m, u) = "builder" => hp2[nm[u]] = hp[nm[u]]
      BY <2>8, <3>3, <3>4
    <3> QED
      BY <2>8, <3>3, <3>4, <3>5, <3>6 DEF Cell
  <2>10. TypeOf(m, o.id) = "builder" /\ nm2[o.id] = r /\ cp2[o.id] = v /\ o.id \in DOMAIN nm2 /\ o.id \in DOMAIN cp2
    BY <1>1, <1>8, <2>1, <2>7
  <2> HIDE DEF r, w, o
  <2>11. \A u \in Named(m) : Live(m, u, b, p + 1) =>
        /\ u \in DOMAIN nm2 /\ u \in DOMAIN cp2 /\ Cell(m, nm2, hp2, u) = cp2[u]
        /\ TypeOf(m, u) = "builder" => nm2[u] \in 1..Len(hp2)
    BY <2>4, <2>8, <2>9, <2>10 DEF Cell
  <2>12. ASSUME NEW u \in Named(m), NEW t \in Named(m), nm2[u] = nm2[t],
                Live(m, u, b, p + 1), TypeOf(m, u) = "builder", Live(m, t, b, p + 1), TypeOf(m, t) = "builder"
         PROVE  u = t
    <3>1. CASE u = o.id \/ t = o.id
      BY <2>9, <2>10, <2>12, <3>1
    <3>2. CASE u # o.id /\ t # o.id
      BY <1>2, <1>5, <2>9, <2>12, <3>2
    <3> QED
      BY <3>1, <3>2
  <2> QED
    BY <2>8, <2>11, <2>12 DEF Same, cp2, o
<1>10. CASE o.op = "sequence.builder.create"
  <2>1. hp2 = Append(hp, <<>>) /\ nm2 = Bind(nm, o.id, Len(hp) + 1) /\ o.type = "builder" /\ v = <<>>
    <3>1. o.type = "builder"
      BY <1>10, OpTyped
    <3>2. hp2 = Append(hp, <<>>) /\ nm2 = Bind(nm, o.id, Len(hp) + 1)
      BY <1>10 DEF Does
    <3>3. v = <<>>
      BY <1>10 DEF Result
    <3> QED
      BY <3>1, <3>2, <3>3
  <2>2. y = Len(hp) + 1
    <3>1. Bind(nm, o.id, Len(hp) + 1)[o.id] = Len(hp) + 1
      BY DEF Bind
    <3> QED
      BY <1>8, <2>1, <3>1
  <2>3. /\ Len(hp2) = Len(hp) + 1 /\ Len(hp) \in Nat /\ hp2[Len(hp) + 1] = v /\ hp2 \in Seq(S \cup {v})
        /\ \A q \in 1..Len(hp) : hp2[q] = hp[q]
    BY <1>3, <2>1
  <2>4. ASSUME NEW u \in Named(m), Live(m, u, b, p + 1), u # o.id
        PROVE  /\ u \in DOMAIN nm2 /\ u \in DOMAIN cp2 /\ Cell(m, nm2, hp2, u) = cp2[u]
               /\ TypeOf(m, u) = "builder" => nm2[u] \in 1..Len(hp) /\ nm2[u] = nm[u]
    <3>1. Live(m, u, b, p)
      BY <1>2, <2>4
    <3>4. /\ u \in DOMAIN nm /\ u \in DOMAIN cp /\ Cell(m, nm, hp, u) = cp[u]
          /\ TypeOf(m, u) = "builder" => nm[u] \in 1..Len(hp)
      BY <1>4, <3>1
    <3>5. nm2[u] = nm[u] /\ cp2[u] = cp[u] /\ u \in DOMAIN nm2 /\ u \in DOMAIN cp2
      BY <1>8, <2>4, <3>4
    <3> QED
      BY <2>3, <3>4, <3>5 DEF Cell
  <2>10. TypeOf(m, o.id) = "builder" /\ nm2[o.id] = Len(hp) + 1 /\ cp2[o.id] = v /\ o.id \in DOMAIN nm2 /\ o.id \in DOMAIN cp2
    BY <1>1, <1>8, <2>1, <2>2
  <2> HIDE DEF o
  <2>11. \A u \in Named(m) : Live(m, u, b, p + 1) =>
        /\ u \in DOMAIN nm2 /\ u \in DOMAIN cp2 /\ Cell(m, nm2, hp2, u) = cp2[u]
        /\ TypeOf(m, u) = "builder" => nm2[u] \in 1..Len(hp2)
    <3> SUFFICES ASSUME NEW u \in Named(m), Live(m, u, b, p + 1)
                 PROVE  /\ u \in DOMAIN nm2 /\ u \in DOMAIN cp2 /\ Cell(m, nm2, hp2, u) = cp2[u]
                        /\ TypeOf(m, u) = "builder" => nm2[u] \in 1..Len(hp2)
      OBVIOUS
    <3>1. CASE u = o.id
      BY <2>3, <2>10, <3>1 DEF Cell
    <3>2. CASE u # o.id
      BY <2>3, <2>4, <3>2
    <3> QED
      BY <3>1, <3>2
  <2>12. ASSUME NEW u \in Named(m), NEW t \in Named(m), nm2[u] = nm2[t],
                Live(m, u, b, p + 1), TypeOf(m, u) = "builder", Live(m, t, b, p + 1), TypeOf(m, t) = "builder"
         PROVE  u = t
    <3>1. CASE u = o.id /\ t # o.id
      BY <2>3, <2>4, <2>10, <2>12, <3>1
    <3>3. CASE u # o.id /\ t = o.id
      BY <2>3, <2>4, <2>10, <2>12, <3>3
    <3>2. CASE u # o.id /\ t # o.id
      BY <1>2, <1>5, <2>4, <2>12, <3>2
    <3> QED
      BY <3>1, <3>2, <3>3
  <2> QED
    BY <2>3, <2>11, <2>12 DEF Same, cp2, o
<1>11. CASE o.op \notin {"sequence.builder.append", "sequence.builder.create"}
  <2>1. hp2 = hp /\ o.type # "builder"
    <3>1. o.type # "builder"
      BY <1>11, OpTyped
    <3>2. hp2 = hp
      BY <1>11 DEF Does
    <3> QED
      BY <3>1, <3>2
  <2>2. y = v
    <3>1. CASE o.op = "unicode.property"
      <4>1. nm2 = Bind(nm, o.id, v)
        BY <3>1 DEF Does
      <4>2. Bind(nm, o.id, v)[o.id] = v
        BY DEF Bind
      <4> QED
        BY <1>8, <4>1, <4>2
    <3>2. CASE o.op # "unicode.property"
      <4>1. PICK c : /\ nm2 = Bind(nm, o.id, Result(row, c, o))
                     /\ \A w \in ToSet(o.args) : c[w] = Cell(m, nm, hp, w)
        BY <1>11, <3>2 DEF Does
      <4>2. \A w \in ToSet(o.args) : c[w] = cp[w]
        BY <1>4, <1>6, <4>1
      <4>3. Result(row, c, o) = Result(row, cp, o)
        <5> HIDE DEF o
        <5> QED
          BY <4>2, ResultSame
      <4>4. v = Result(row, cp, o)
        BY <3>2
      <4>5. Bind(nm, o.id, v)[o.id] = v
        BY DEF Bind
      <4> HIDE DEF o
      <4> QED
        BY <1>8, <4>1, <4>3, <4>4, <4>5
    <3> QED
      BY <3>1, <3>2
  <2>4. ASSUME NEW u \in Named(m), Live(m, u, b, p + 1), u # o.id
        PROVE  /\ u \in DOMAIN nm2 /\ u \in DOMAIN cp2 /\ Cell(m, nm2, hp, u) = cp2[u]
               /\ TypeOf(m, u) = "builder" => nm2[u] \in 1..Len(hp) /\ nm2[u] = nm[u]
    <3>1. Live(m, u, b, p)
      BY <1>2, <2>4
    <3>4. /\ u \in DOMAIN nm /\ u \in DOMAIN cp /\ Cell(m, nm, hp, u) = cp[u]
          /\ TypeOf(m, u) = "builder" => nm[u] \in 1..Len(hp)
      BY <1>4, <3>1
    <3>5. nm2[u] = nm[u] /\ cp2[u] = cp[u] /\ u \in DOMAIN nm2 /\ u \in DOMAIN cp2
      BY <1>8, <2>4, <3>4
    <3> QED
      BY <3>4, <3>5 DEF Cell
  <2>10. TypeOf(m, o.id) # "builder" /\ nm2[o.id] = v /\ cp2[o.id] = v /\ o.id \in DOMAIN nm2 /\ o.id \in DOMAIN cp2
    BY <1>1, <1>8, <2>1, <2>2
  <2> HIDE DEF o
  <2>11. \A u \in Named(m) : Live(m, u, b, p + 1) =>
        /\ u \in DOMAIN nm2 /\ u \in DOMAIN cp2 /\ Cell(m, nm2, hp, u) = cp2[u]
        /\ TypeOf(m, u) = "builder" => nm2[u] \in 1..Len(hp)
    BY <2>4, <2>10 DEF Cell
  <2>12. ASSUME NEW u \in Named(m), NEW t \in Named(m), nm2[u] = nm2[t],
                Live(m, u, b, p + 1), TypeOf(m, u) = "builder", Live(m, t, b, p + 1), TypeOf(m, t) = "builder"
         PROVE  u = t
    <3>1. u # o.id /\ t # o.id
      BY <2>10, <2>12
    <3> QED
      BY <1>2, <1>5, <2>4, <2>12, <3>1
  <2> QED
    BY <1>3, <2>1, <2>11, <2>12 DEF Same, cp2, o
<1> QED
  BY <1>9, <1>10, <1>11


(* An edge is handed no builder twice, and one that it is handed lives on    *)
(* under the name of the argument only.                                      *)
LEMMA HandedOnce ==
  ASSUME RegionsAssumption, NEW m \in TypedModules, Verified(m), Linear(m), NEW e \in m.edges,
         NEW i \in DOMAIN e.args, TypeOf(m, e.args[i]) = "builder"
  PROVE  /\ \A j \in DOMAIN e.args : e.args[j] = e.args[i] => i = j
         /\ Definition(m, e.args[i])[2] # e.to => Dead(m, e.args[i], e.to, 1)
<1> DEFINE v == e.args[i]
           d == Definition(m, v)[2]
           Vs == {y[1] : y \in {z \in Defined(m) : TypeOf(m, z[1]) = "builder"}}
           X == {j \in DOMAIN e.args : e.args[j] = v}
<1>1. v \in Vs
  <2>1. v \in Named(m)
    BY HandedIsLive
  <2>2. Definition(m, v) \in Defined(m) /\ Definition(m, v)[1] = v
    BY <2>1, NamedIsDefined
  <2> HIDE DEF v
  <2>3. TypeOf(m, Definition(m, v)[1]) = "builder"
    BY <2>2 DEF v
  <2> QED
    BY <2>2, <2>3
<1>2. /\ Cardinality(X) <= 1
      /\ v \in ToSet(e.args) => Uses(m, v, AheadWithout(m, {e.to} \ {d}, d)) = {}
  <2> HIDE DEF Vs, v
  <2>1. \A w \in Vs : Cardinality({j \in DOMAIN e.args : e.args[j] = w}) <= 1
    BY DEF Linear, Vs
  <2>2. \A w \in Vs : w \in ToSet(e.args) =>
          Uses(m, w, AheadWithout(m, {e.to} \ {Definition(m, w)[2]}, Definition(m, w)[2])) = {}
    BY DEF Linear, Vs
  <2> QED
    BY <1>1, <2>1, <2>2
<1>3. v \in ToSet(e.args)
  BY DEF ToSet
<1>4. d # e.to => Dead(m, v, e.to, 1)
  BY <1>2, <1>3, DeadStays
<1>5. ASSUME NEW j \in DOMAIN e.args, e.args[j] = v PROVE i = j
  <2>1. e.args \in Seq(STRING)
    BY TypedShapes DEF EdgeRecords
  <2>2. IsFiniteSet(DOMAIN e.args)
    <3>1. DOMAIN e.args = 1..Len(e.args) /\ Len(e.args) \in Int
      BY <2>1
    <3>2. IsFiniteSet(1..Len(e.args))
      BY <3>1, FS_Interval
    <3> QED
      BY <3>1, <3>2
  <2>3. IsFiniteSet(X)
    BY <2>2, FS_Subset
  <2>4. Cardinality(X) \in Nat
    BY <2>3, FS_CardinalityType
  <2>5. i \in X /\ j \in X
    BY <1>5
  <2> HIDE DEF X
  <2>6. Cardinality(X) # 0
    BY <2>3, <2>5, FS_EmptySet
  <2>7. Cardinality(X) = 1
    BY <1>2, <2>4, <2>6
  <2>8. PICK x : X = {x}
    BY <2>3, <2>7, FS_Singleton
  <2> QED
    BY <2>5, <2>8
<1> QED
  BY <1>4, <1>5

LEMMA FollowSame ==
  ASSUME RegionsAssumption, NEW m \in TypedModules, Verified(m), Linear(m), NEW e \in m.edges,
         NEW nm, NEW hp, NEW cp, NEW nm2, NEW cp2,
         Same(m, nm, hp, cp, e.from, Len(OpsAt(m, e.from))),
         Moved(nm2, nm, Handing(m, e), e.args), Moved(cp2, cp, Handing(m, e), e.args)
  PROVE  Same(m, nm2, hp, cp2, e.to, 1)
<1> DEFINE b == e.from
           p == Len(OpsAt(m, e.from))
           c == e.to
           args == m.blocks[c].args
           targets == Handing(m, e)
<1>1. DOMAIN targets = DOMAIN args /\ DOMAIN args = DOMAIN e.args /\ \A i \in DOMAIN args : targets[i] = args[i][1]
  <2>1. Len(e.args) = Len(args)
    BY EdgeArguments
  <2>2. c \in BlockIds(m)
    BY DEF Verified
  <2>3. e.args \in Seq(STRING) /\ args \in Seq(STRING \X STRING)
    BY <2>2, TypedShapes DEF EdgeRecords, BlockRecords
  <2>4. DOMAIN args = DOMAIN e.args
    <3> HIDE DEF args
    <3> QED
      BY <2>1, <2>3
  <2> QED
    BY <2>4 DEF Handing
<1>2. c \in BlockIds(m) /\ b \in BlockIds(m)
  BY DEF Verified
<1>3. \A i \in DOMAIN args : /\ Definition(m, targets[i]) = <<targets[i], c, 0>>
                             /\ TypeOf(m, targets[i]) = args[i][2]
  BY <1>1, <1>2, TypeOfArg
<1>4. \A i \in DOMAIN args : /\ e.args[i] \in Named(m) /\ Live(m, e.args[i], b, p)
                             /\ TypeOf(m, e.args[i]) = args[i][2]
  BY <1>1, HandedIsLive
<1> HIDE DEF targets
<1>5. /\ DOMAIN nm2 = DOMAIN nm \cup ToSet(targets) /\ DOMAIN cp2 = DOMAIN cp \cup ToSet(targets)
      /\ \A i \in DOMAIN targets : nm2[targets[i]] = nm[e.args[i]] /\ cp2[targets[i]] = cp[e.args[i]]
      /\ \A v \in DOMAIN nm \ ToSet(targets) : nm2[v] = nm[v]
      /\ \A v \in DOMAIN cp \ ToSet(targets) : cp2[v] = cp[v]
  BY DEF Moved, targets
<1>6. \A v \in Named(m) : Live(m, v, b, p) =>
        /\ v \in DOMAIN nm /\ v \in DOMAIN cp /\ Cell(m, nm, hp, v) = cp[v]
        /\ TypeOf(m, v) = "builder" => nm[v] \in 1..Len(hp)
  BY DEF Same
<1>7. \A u, w \in Named(m) :
        /\ Live(m, u, b, p) /\ TypeOf(m, u) = "builder"
        /\ Live(m, w, b, p) /\ TypeOf(m, w) = "builder"
        /\ nm[u] = nm[w]
        => u = w
  BY DEF Same
<1>8. ASSUME NEW v \in Named(m), Live(m, v, c, 1), v \notin ToSet(targets)
      PROVE  Live(m, v, b, p) /\ Definition(m, v)[2] # c
  <2> DEFINE d == Definition(m, v)
  <2>1. d \in Defined(m) /\ d[1] = v /\ Held(m, d, c, 1)
    BY <1>8, NamedIsDefined DEF Live
  <2> HIDE DEF d
  <2>2. ~(d[2] = c /\ d[3] = 0)
    <3> SUFFICES ASSUME d[2] = c, d[3] = 0 PROVE FALSE
      OBVIOUS
    <3>1. 0 \notin DOMAIN OpsAt(m, c)
      BY <1>2, TypedShapes
    <3>2. d[1] \in ArgNames(m, c)
      BY <2>1, <3>1, DefinedShape
    <3>3. PICK i \in DOMAIN args : v = args[i][1]
      BY <2>1, <3>2 DEF ArgNames, ToSet
    <3>4. v = targets[i] /\ i \in DOMAIN targets
      BY <1>1, <3>3
    <3> QED
      BY <1>8, <3>4 DEF ToSet
  <2>3. d[2] # c /\ Held(m, d, b, p)
    BY <2>1, <2>2, HeldAlongEdge
  <2>4. Dead(m, v, b, p) => Dead(m, v, c, 1)
    BY <2>3, DeadPasses DEF d
  <2> QED
    BY <1>8, <2>3, <2>4 DEF Live, d
<1>9. ASSUME NEW v \in Named(m), Live(m, v, c, 1)
      PROVE  /\ v \in DOMAIN nm2 /\ v \in DOMAIN cp2 /\ Cell(m, nm2, hp, v) = cp2[v]
             /\ TypeOf(m, v) = "builder" => nm2[v] \in 1..Len(hp)
  <2>1. CASE v \in ToSet(targets)
    <3>1. PICK i \in DOMAIN targets : v = targets[i]
      BY <2>1 DEF ToSet
    <3>2. nm2[v] = nm[e.args[i]] /\ cp2[v] = cp[e.args[i]] /\ TypeOf(m, v) = TypeOf(m, e.args[i])
      BY <1>1, <1>3, <1>4, <1>5, <3>1
    <3>3. e.args[i] \in Named(m) /\ Live(m, e.args[i], b, p)
      BY <1>1, <1>4, <3>1
    <3> QED
      BY <1>5, <1>6, <2>1, <3>2, <3>3 DEF Cell
  <2>2. CASE v \notin ToSet(targets)
    <3>1. Live(m, v, b, p)
      BY <1>8, <1>9, <2>2
    <3>2. v \in DOMAIN nm /\ v \in DOMAIN cp /\ nm2[v] = nm[v] /\ cp2[v] = cp[v]
      BY <1>5, <1>6, <2>2, <3>1
    <3> QED
      BY <1>5, <1>6, <3>1, <3>2 DEF Cell
  <2> QED
    BY <2>1, <2>2
<1> DEFINE from(v) == IF v \in ToSet(targets) THEN e.args[CHOOSE i \in DOMAIN targets : v = targets[i]] ELSE v
<1>10. ASSUME NEW v \in Named(m), Live(m, v, c, 1), TypeOf(m, v) = "builder"
       PROVE  /\ from(v) \in Named(m) /\ Live(m, from(v), b, p) /\ TypeOf(m, from(v)) = "builder"
              /\ nm2[v] = nm[from(v)]
  <2>1. CASE v \in ToSet(targets)
    <3>1. PICK i \in DOMAIN targets : v = targets[i] /\ from(v) = e.args[i]
      <4>1. \E i \in DOMAIN targets : v = targets[i]
        BY <2>1 DEF ToSet
      <4> QED
        BY <2>1, <4>1
    <3> QED
      BY <1>1, <1>3, <1>4, <1>5, <1>10, <3>1
  <2>2. CASE v \notin ToSet(targets)
    <3>1. Live(m, v, b, p) /\ from(v) = v
      BY <1>8, <1>10, <2>2
    <3> QED
      BY <1>5, <1>6, <1>10, <2>2, <3>1
  <2> QED
    BY <2>1, <2>2
<1>11. ASSUME NEW u \in Named(m), NEW v \in Named(m), nm2[u] = nm2[v],
              Live(m, u, c, 1), TypeOf(m, u) = "builder", Live(m, v, c, 1), TypeOf(m, v) = "builder"
       PROVE  u = v
  <2>1. from(u) = from(v)
    <3>1. /\ from(u) \in Named(m) /\ Live(m, from(u), b, p) /\ TypeOf(m, from(u)) = "builder"
          /\ nm2[u] = nm[from(u)]
      BY <1>10, <1>11
    <3>2. /\ from(v) \in Named(m) /\ Live(m, from(v), b, p) /\ TypeOf(m, from(v)) = "builder"
          /\ nm2[v] = nm[from(v)]
      BY <1>10, <1>11
    <3> HIDE DEF from
    <3> QED
      BY <1>7, <1>11, <3>1, <3>2
  <2>2. CASE u \in ToSet(targets)
    <3>1. PICK i \in DOMAIN targets : u = targets[i] /\ from(u) = e.args[i]
      <4>1. \E i \in DOMAIN targets : u = targets[i]
        BY <2>2 DEF ToSet
      <4> QED
        BY <2>2, <4>1
    <3>2. i \in DOMAIN e.args /\ TypeOf(m, e.args[i]) = "builder"
      BY <1>1, <1>10, <1>11, <3>1
    <3>3. CASE v \in ToSet(targets)
      <4>1. PICK j \in DOMAIN targets : v = targets[j] /\ from(v) = e.args[j]
        <5>1. \E j \in DOMAIN targets : v = targets[j]
          BY <3>3 DEF ToSet
        <5> QED
          BY <3>3, <5>1
      <4>2. i = j
        BY <1>1, <2>1, <3>1, <3>2, <4>1, HandedOnce
      <4> QED
        BY <3>1, <4>1, <4>2
    <3>4. CASE v \notin ToSet(targets)
      <4>1. v = e.args[i] /\ Definition(m, v)[2] # c
        BY <1>8, <1>11, <2>1, <3>1, <3>4
      <4>2. Dead(m, v, c, 1)
        BY <3>2, <4>1, HandedOnce
      <4> QED
        BY <1>11, <4>2 DEF Live
    <3> QED
      BY <3>3, <3>4
  <2>3. CASE v \in ToSet(targets) /\ u \notin ToSet(targets)
    <3>1. PICK i \in DOMAIN targets : v = targets[i] /\ from(v) = e.args[i]
      <4>1. \E i \in DOMAIN targets : v = targets[i]
        BY <2>3 DEF ToSet
      <4> QED
        BY <2>3, <4>1
    <3>2. i \in DOMAIN e.args /\ TypeOf(m, e.args[i]) = "builder"
      BY <1>1, <1>10, <1>11, <3>1
    <3>3. u = e.args[i] /\ Definition(m, u)[2] # c
      BY <1>8, <1>11, <2>1, <2>3, <3>1
    <3>4. Dead(m, u, c, 1)
      BY <3>2, <3>3, HandedOnce
    <3> QED
      BY <1>11, <3>4 DEF Live
  <2>4. CASE u \notin ToSet(targets) /\ v \notin ToSet(targets)
    BY <2>1, <2>4
  <2> QED
    BY <2>2, <2>3, <2>4
<1>12. \E S : hp \in Seq(S)
  BY DEF Same
<1> QED
  BY <1>9, <1>11, <1>12 DEF Same


Reaches(m, h, body, exit, n, b, p) ==
  LET l1 == Len(OpsAt(m, 1))
      l2 == l1 + Len(OpsAt(m, h))
      l3 == l2 + Len(OpsAt(m, body))
  IN \/ b = 1 /\ n = p
     \/ b = h /\ n = l1 + p
     \/ b = body /\ n = l2 + p
     \/ b = exit /\ n = l3 + p
Simulated == Running /\ Compiled /\ Linear(region) /\ BareBody(region)
Places(m, code, n, b, p) ==
  \E h, body, exit : Laid(m, code, h, body, exit) /\ Reaches(m, h, body, exit, n, b, p)
LinesUp ==
  Simulated =>
    /\ Places(region, lowered.code, line, block, pos)
    /\ Same(region, names, heap, computed, block, pos)

LEMMA NothingHeld ==
  ASSUME RegionsAssumption, NEW m \in TypedModules, Verified(m), NEW d \in Defined(m)
  PROVE  ~Held(m, d, 1, 1)
<1> SUFFICES ASSUME Held(m, d, 1, 1) PROVE FALSE
  OBVIOUS
<1>1. d[2] \in BlockIds(m) /\ d[3] \in 0..Len(OpsAt(m, d[2]))
  BY DefinedShape
<1>2. d[3] \in Nat
  BY <1>1, TypedShapes
<1>3. d[2] = 1
  BY DominatorsShrink DEF Held
<1>4. d[3] = 0
  BY <1>2, <1>3 DEF Held
<1>5. ArgNames(m, 1) = {}
  <2>1. m.blocks[1].args = <<>>
    BY DEF Verified
  <2>2. ToSet(m.blocks[1].args) = {}
    BY <2>1 DEF ToSet
  <2> QED
    BY <2>2 DEF ArgNames
<1>6. d[3] \notin DOMAIN OpsAt(m, 1)
  BY <1>1, <1>3, <1>4, TypedShapes
<1> QED
  BY <1>3, <1>5, <1>6, DefinedShape

LEMMA LowerInit == ASSUME RegionsAssumption, RegionsInit PROVE LinesUp
<1> SUFFICES ASSUME Simulated
             PROVE  /\ Places(region, lowered.code, line, block, pos)
                    /\ Same(region, names, heap, computed, block, pos)
  BY DEF LinesUp
<1>1. /\ region \in TypedModules /\ Verified(region) /\ lowered = Lower(region, LoopsOf(region))
      /\ lowered.code # <<>>
  BY RegionInit DEF RegionInv, RegionFixed, Simulated, Compiled
<1>2. block = 1 /\ pos = 1 /\ line = 1 /\ names = <<>> /\ heap = <<>> /\ computed = <<>>
  BY DEF RegionsInit
<1>3. Places(region, lowered.code, line, block, pos)
  <2>1. PICK h, body, exit : Laid(region, lowered.code, h, body, exit)
    BY <1>1, Layout
  <2> QED
    BY <1>2, <2>1 DEF Places, Reaches
<1>4. Same(region, names, heap, computed, block, pos)
  <2>1. ASSUME NEW v \in Named(region) PROVE ~Live(region, v, 1, 1)
    BY <1>1, NamedIsDefined, NothingHeld DEF Live
  <2>2. heap \in Seq({})
    BY <1>2
  <2> QED
    BY <1>2, <2>1, <2>2 DEF Same
<1> QED
  BY <1>3, <1>4

(* Where the function stands. *)
LEMMA StandsThere ==
  ASSUME RegionsAssumption, NEW m \in TypedModules, NEW code, NEW n, NEW b \in BlockIds(m),
         NEW p \in 1..Len(OpsAt(m, b)), Places(m, code, n, b, p)
  PROVE  n \in DOMAIN code /\ code[n].at = <<b, p>>
<1>1. PICK h, body, exit : Laid(m, code, h, body, exit) /\ Reaches(m, h, body, exit, n, b, p)
  BY DEF Places
<1>2. /\ Len(OpsAt(m, 1)) \in Nat /\ Len(OpsAt(m, h)) \in Nat
      /\ Len(OpsAt(m, body)) \in Nat /\ Len(OpsAt(m, exit)) \in Nat
  BY <1>1, TypedShapes DEF Laid
<1>3. CASE b = 1 /\ n = p
  BY <1>1, <1>2, <1>3 DEF Laid
<1>4. CASE b = h /\ n = Len(OpsAt(m, 1)) + p
  BY <1>1, <1>2, <1>4 DEF Laid
<1>5. CASE b = body /\ n = Len(OpsAt(m, 1)) + Len(OpsAt(m, h)) + p
  BY <1>1, <1>2, <1>5 DEF Laid
<1>6. CASE b = exit /\ n = Len(OpsAt(m, 1)) + Len(OpsAt(m, h)) + Len(OpsAt(m, body)) + p
  BY <1>1, <1>2, <1>6 DEF Laid
<1> QED
  BY <1>1, <1>3, <1>4, <1>5, <1>6 DEF Reaches

LEMMA Standing ==
  ASSUME RegionsAssumption, RegionInv, Running
  PROVE  /\ region \in TypedModules /\ Verified(region) /\ block \in BlockIds(region)
         /\ pos \in 1..Len(OpsAt(region, block)) /\ pos \in DOMAIN OpsAt(region, block) /\ pos \in Int
<1>1. region \in TypedModules /\ (outcome # "refused" => Verified(region))
  BY DEF RegionInv, RegionFixed
<1>2. Verified(region)
  BY <1>1 DEF Running
<1>3. block \in BlockIds(region) /\ pos \in 1..Len(OpsAt(region, block))
  BY DEF RegionInv, TypeOK
<1>4. Len(OpsAt(region, block)) \in Nat /\ DOMAIN OpsAt(region, block) = 1..Len(OpsAt(region, block))
  BY <1>1, <1>3, TypedShapes
<1> QED
  BY <1>1, <1>2, <1>3, <1>4

LEMMA LoweredFollows == ASSUME RegionsAssumption, RegionInv, LinesUp PROVE LoweredAgrees
<1> SUFFICES ASSUME Simulated
             PROVE  /\ line \in DOMAIN lowered.code /\ Statement.at = <<block, pos>>
                    /\ \A v \in ToSet(Op.args) : v \in DOMAIN names /\ Content(v) = computed[v]
  BY DEF LoweredAgrees, Agrees, Simulated
<1>1. /\ region \in TypedModules /\ Verified(region) /\ block \in BlockIds(region)
      /\ pos \in 1..Len(OpsAt(region, block)) /\ pos \in DOMAIN OpsAt(region, block) /\ pos \in Int
  BY Standing DEF Simulated
<1>2. Places(region, lowered.code, line, block, pos) /\ Same(region, names, heap, computed, block, pos)
  BY DEF LinesUp
<1>3. line \in DOMAIN lowered.code /\ Statement.at = <<block, pos>>
  BY <1>1, <1>2, StandsThere DEF Statement
<1>4. ASSUME NEW v \in ToSet(OpsAt(region, block)[pos].args)
      PROVE  v \in DOMAIN names /\ Content(v) = computed[v]
  <2>1. v \in Named(region) /\ Live(region, v, block, pos)
    BY <1>1, ReadsAreLive
  <2> QED
    BY <1>2, <2>1 DEF Same, Content, Cell
<1> QED
  BY <1>3, <1>4 DEF Op

LEMMA LowerExecute == ASSUME RegionsAssumption, RegionInv, LinesUp, Execute PROVE LinesUp'
<1> DEFINE m == region
           o == OpsAt(region, block)[pos]
<1>1. /\ Running /\ Op = o /\ o.op \notin Terminators
      /\ region' = region /\ lowered' = lowered /\ block' = block /\ pos' = pos + 1 /\ outcome' = outcome
  BY DEF Execute, Fixed, Op
<1> SUFFICES ASSUME Simulated
             PROVE  /\ Places(region, lowered.code, line', block, pos + 1)
                    /\ Same(region, names', heap', computed', block, pos + 1)
  BY <1>1 DEF LinesUp, Simulated, Running, Compiled
<1>2. PICK v : /\ computed' = Bind(computed, o.id, v)
               /\ o.op # "unicode.property" => v = Result(input, computed, o)
               /\ Assigned(o, v) /\ line' = line + 1
  BY <1>1 DEF Execute, Simulated
<1>3. /\ m \in TypedModules /\ Verified(m) /\ Linear(m) /\ block \in BlockIds(m) /\ pos \in 1..Len(OpsAt(m, block))
      /\ pos \in DOMAIN OpsAt(m, block) /\ pos \in Int
      /\ Places(m, lowered.code, line, block, pos) /\ Same(m, names, heap, computed, block, pos)
  <2>1. Linear(m)
    BY DEF Simulated
  <2>2. Places(m, lowered.code, line, block, pos) /\ Same(m, names, heap, computed, block, pos)
    BY DEF LinesUp
  <2> QED
    BY <1>1, <2>1, <2>2, Standing
<1>4. Places(m, lowered.code, line', block, pos + 1)
  <2>1. PICK h, body, exit : Laid(m, lowered.code, h, body, exit) /\ Reaches(m, h, body, exit, line, block, pos)
    BY <1>3 DEF Places
  <2>2. /\ Len(OpsAt(m, 1)) \in Nat /\ Len(OpsAt(m, h)) \in Nat /\ Len(OpsAt(m, body)) \in Nat
    BY <1>3, <2>1, TypedShapes DEF Laid
  <2>3. Reaches(m, h, body, exit, line + 1, block, pos + 1)
    BY <1>3, <2>1, <2>2 DEF Reaches
  <2> QED
    BY <1>2, <2>1, <2>3 DEF Places
<1>5. Does(m, o, input, names, heap, names', heap', v)
  <2>1. \A w : Content(w) = Cell(m, names, heap, w)
    BY DEF Content, Cell
  <2>2. CASE o.op = "sequence.builder.create"
    BY <1>2, <2>2 DEF Assigned, Does
  <2>3. CASE o.op = "sequence.builder.append"
    BY <1>2, <2>3 DEF Assigned, Does
  <2>4. CASE o.op = "unicode.property"
    BY <1>2, <2>4 DEF Assigned, Does
  <2>5. CASE o.op \notin {"sequence.builder.create", "sequence.builder.append", "unicode.property"}
    <3>1. names' = Bind(names, o.id, Result(input, Contents(o), o)) /\ heap' = heap
      BY <1>2, <2>5 DEF Assigned
    <3>2. \A w \in ToSet(o.args) : Contents(o)[w] = Cell(m, names, heap, w)
      BY <2>1 DEF Contents
    <3> HIDE DEF o
    <3>3. \E c : /\ names' = Bind(names, o.id, Result(input, c, o))
                 /\ \A w \in ToSet(o.args) : c[w] = Cell(m, names, heap, w)
      BY <3>1, <3>2
    <3> QED
      BY <2>5, <3>1, <3>3 DEF Does
  <2> QED
    BY <2>2, <2>3, <2>4, <2>5
<1>6. Same(m, names', heap', Bind(computed, o.id, v), block, pos + 1)
  BY <1>1, <1>2, <1>3, <1>5, ExecuteSame
<1> QED
  BY <1>2, <1>4, <1>6

LEMMA LowerFollow == ASSUME RegionsAssumption, RegionInv, LinesUp, Follow PROVE LinesUp'
<1> DEFINE m == region
           o == OpsAt(region, block)[pos]
           code == lowered.code
<1>1. PICK e \in Taken :
        /\ computed' = Parallel(computed, [i \in DOMAIN e.args |-> region.blocks[e.to].args[i][1]], e.args)
        /\ block' = e.to /\ pos' = 1
  BY DEF Follow
<1>2. /\ Running /\ Op = o /\ o.op \in {"jump", "branch"} /\ o.op \in Terminators
      /\ region' = region /\ lowered' = lowered /\ outcome' = outcome /\ heap' = heap
  BY DEF Follow, Fixed, Op, Terminators
<1> SUFFICES ASSUME Simulated
             PROVE  /\ Places(region, lowered.code, line', e.to, 1)
                    /\ Same(region, names', heap, computed', e.to, 1)
  BY <1>1, <1>2 DEF LinesUp, Simulated, Running, Compiled
<1>3. /\ e \in m.edges /\ e.from = block
      /\ o.op = "branch" => e.kind = IF computed[o.args[1]] THEN "branch_true" ELSE "branch_false"
  BY <1>1, <1>2 DEF Taken
<1>4. /\ m \in TypedModules /\ Verified(m) /\ Linear(m) /\ BareBody(m)
      /\ block \in BlockIds(m) /\ pos \in 1..Len(OpsAt(m, block))
      /\ pos \in DOMAIN OpsAt(m, block) /\ pos \in Int /\ pos = Len(OpsAt(m, block)) /\ o = Ending(m, block)
      /\ Places(m, code, line, block, pos) /\ Same(m, names, heap, computed, block, pos)
  <2>1. Linear(m) /\ BareBody(m)
    BY DEF Simulated
  <2>2. Places(m, code, line, block, pos) /\ Same(m, names, heap, computed, block, pos)
    BY DEF LinesUp
  <2>3. /\ m \in TypedModules /\ Verified(m) /\ block \in BlockIds(m) /\ pos \in 1..Len(OpsAt(m, block))
        /\ pos \in DOMAIN OpsAt(m, block) /\ pos \in Int
    BY <1>2, Standing
  <2>4. pos = Len(OpsAt(m, block))
    <3>1. <<block, pos>> \in Positions(m) /\ OpOf(m, <<block, pos>>) = o
      BY <2>3 DEF Positions, OpOf
    <3>2. <<block, pos>> = Ends(m, block)
      BY <1>2, <2>3, <3>1 DEF RegionsAssumption
    <3> QED
      BY <3>2 DEF Ends
  <2>5. o = Ending(m, block)
    BY <2>4 DEF Ending
  <2> QED
    BY <2>1, <2>2, <2>3, <2>4, <2>5
<1>5. IF o.op = "branch" /\ names[o.args[1]] THEN line' = line + 1 /\ names' = names
      ELSE line' = code[line].to /\ names' = Parallel(names, code[line].targets, code[line].sources)
  BY <1>2 DEF Follow, Simulated, Statement
<1>6. o.op = "branch" => names[o.args[1]] = computed[o.args[1]]
  <2> SUFFICES ASSUME o.op = "branch" PROVE names[o.args[1]] = computed[o.args[1]]
    OBVIOUS
  <2>1. DOMAIN o.args = 1..1 /\ TypeOf(m, o.args[1]) = "bool"
    BY <1>4, OpTyped
  <2>2. o.args[1] \in ToSet(o.args)
    BY <2>1 DEF ToSet
  <2>3. o.args[1] \in Named(m) /\ Live(m, o.args[1], block, pos)
    BY <1>4, <2>2, ReadsAreLive
  <2> QED
    BY <1>4, <2>1, <2>3 DEF Same, Cell
<1>7. Distinct(Handing(m, e)) /\ [i \in DOMAIN e.args |-> m.blocks[e.to].args[i][1]] = Handing(m, e)
  <2>1. Len(e.args) = Len(m.blocks[e.to].args) /\ e.to \in BlockIds(m) /\ ~Repeats(m, e.to)
    BY <1>3, <1>4, EdgeArguments DEF Verified
  <2>2. e.args \in Seq(STRING) /\ m.blocks[e.to].args \in Seq(STRING \X STRING)
    BY <1>3, <1>4, <2>1, TypedShapes DEF EdgeRecords, BlockRecords
  <2>3. DOMAIN e.args = DOMAIN m.blocks[e.to].args
    BY <2>1, <2>2
  <2> QED
    BY <2>1, <2>3 DEF Handing, Distinct, Repeats
<1>8. Moved(computed', computed, Handing(m, e), e.args)
  <2>1. computed' = Parallel(computed, Handing(m, e), e.args)
    BY <1>1, <1>7
  <2> QED
    BY <1>7, <2>1, ParallelFacts
<1>9. Moved(Parallel(names, Handing(m, e), e.args), names, Handing(m, e), e.args)
  BY <1>7, ParallelFacts
<1>10. PICK h, body, exit : Laid(m, code, h, body, exit) /\ Reaches(m, h, body, exit, line, block, pos)
  BY <1>4 DEF Places
<1> DEFINE l1 == Len(OpsAt(m, 1))
           l2 == l1 + Len(OpsAt(m, h))
           l3 == l2 + Len(OpsAt(m, body))
<1>11. l1 \in Nat /\ l2 \in Nat /\ l3 \in Nat
  BY <1>4, <1>10, TypedShapes DEF Laid
<1> HIDE DEF o, code
<1>12. Moved(names', names, Handing(m, e), e.args) /\ Reaches(m, h, body, exit, line', e.to, 1)
  <2>1. CASE block = 1 /\ line = pos
    <3>1. line = l1 /\ o.op # "branch"
      BY <1>4, <1>10, <2>1 DEF Laid
    <3>2. e.to = h /\ Passed(m, code[l1], e, l1 + 1)
      BY <1>3, <1>10, <2>1 DEF Laid
    <3>3. line' = l1 + 1 /\ names' = Parallel(names, Handing(m, e), e.args)
      BY <1>5, <3>1, <3>2 DEF Passed
    <3> QED
      BY <1>9, <3>2, <3>3 DEF Reaches
  <2>2. CASE block = h /\ line = l1 + pos
    <3>1. line = l2 /\ o.op = "branch"
      BY <1>4, <1>10, <2>2 DEF Laid
    <3>2. CASE names[o.args[1]]
      <4>1. e.kind = "branch_true" /\ e.to = body
        BY <1>3, <1>6, <1>10, <2>2, <3>1, <3>2 DEF Laid
      <4>2. line' = l2 + 1 /\ names' = names
        BY <1>5, <3>1, <3>2
      <4>3. m.blocks[e.to].args = <<>>
        BY <1>3, <1>4, <4>1 DEF BareBody
      <4>4. DOMAIN Handing(m, e) = {} /\ ToSet(Handing(m, e)) = {}
        BY <4>3 DEF Handing, ToSet
      <4>5. Moved(names', names, Handing(m, e), e.args)
        BY <4>2, <4>4 DEF Moved
      <4> QED
        BY <4>1, <4>2, <4>5 DEF Reaches
    <3>3. CASE ~names[o.args[1]]
      <4>1. e.kind = "branch_false"
        BY <1>3, <1>6, <3>1, <3>3
      <4>2. e.to = exit /\ Passed(m, code[l2], e, l3 + 1)
        BY <1>3, <1>10, <2>2, <4>1 DEF Laid
      <4>3. line' = l3 + 1 /\ names' = Parallel(names, Handing(m, e), e.args)
        BY <1>5, <3>1, <3>3, <4>2 DEF Passed
      <4> QED
        BY <1>9, <4>2, <4>3 DEF Reaches
    <3> QED
      BY <3>2, <3>3
  <2>3. CASE block = body /\ line = l2 + pos
    <3>1. line = l3 /\ o.op # "branch"
      BY <1>4, <1>10, <2>3 DEF Laid
    <3>2. e.to = h /\ Passed(m, code[l3], e, l1 + 1)
      BY <1>3, <1>10, <2>3 DEF Laid
    <3>3. line' = l1 + 1 /\ names' = Parallel(names, Handing(m, e), e.args)
      BY <1>5, <3>1, <3>2 DEF Passed
    <3> QED
      BY <1>9, <3>2, <3>3 DEF Reaches
  <2>4. CASE block = exit /\ line = l3 + pos
    BY <1>2, <1>4, <1>10, <2>4 DEF Laid
  <2> QED
    BY <1>10, <2>1, <2>2, <2>3, <2>4 DEF Reaches
<1>13. Same(m, names', heap, computed', e.to, 1)
  BY <1>3, <1>4, <1>8, <1>12, FollowSame
<1>14. Places(m, code, line', e.to, 1)
  BY <1>10, <1>12 DEF Places
<1> QED
  BY <1>13, <1>14 DEF code

LEMMA LowerNext ==
  ASSUME RegionsAssumption, RegionInv, LinesUp, RegionsNext \/ UNCHANGED regionsVars
  PROVE  LinesUp'
<1>1. CASE Execute
  BY <1>1, LowerExecute
<1>2. CASE Follow
  BY <1>2, LowerFollow
<1>3. CASE UNCHANGED regionsVars
  <2>1. /\ outcome' = outcome /\ region' = region /\ lowered' = lowered /\ line' = line /\ block' = block
        /\ pos' = pos /\ names' = names /\ heap' = heap /\ computed' = computed
    BY <1>3 DEF regionsVars
  <2> QED
    BY <2>1 DEF LinesUp, Simulated, Running, Compiled
<1>4. CASE Miss \/ Exhausted \/ Return \/ Unavailable
  <2>1. outcome' # "running"
    BY <1>4 DEF Miss, Exhausted, Return, Unavailable, Ends0
  <2> QED
    BY <2>1 DEF LinesUp, Simulated, Running
<1> QED
  BY <1>1, <1>2, <1>3, <1>4 DEF RegionsNext

-----------------------------------------------------------------------------
(* What is true of every module the run starts from, as long as it lasts. *)
RegionsHold == part = "regions" => RegionInv /\ LinesUp

(* A verified module reads only what it computed, its loops are entered       *)
(* through their header, an accumulator changes by its reduction alone, and   *)
(* the function that is generated for a canonical loop computes what the      *)
(* reference does (typed_verifier.py:438, typed_analysis.py:572,              *)
(* typed_loop.py:797).                                                        *)
THEOREM TypedModulesAgree == Spec => []TypedRegionsAgree
<1>1. Init => RegionsHold
  <2> SUFFICES ASSUME Init, part = "regions" PROVE RegionInv /\ LinesUp
    BY DEF RegionsHold
  <2>1. RegionsInit
    BY DEF Init
  <2> QED
    BY <2>1, CompilerAssumption, RegionInit, LowerInit
<1>2. RegionsHold /\ [Next]_vars => RegionsHold'
  <2> SUFFICES ASSUME RegionsHold, [Next]_vars, part' = "regions" PROVE RegionInv' /\ LinesUp'
    BY DEF RegionsHold
  <2>1. part' = part /\ (RegionsNext \/ UNCHANGED regionsVars)
    <3>1. CASE Next
      BY <3>1 DEF Next, BreakStep, CoreStep, PassesStep, RegionsStep, ReuseStep
    <3>2. CASE UNCHANGED vars
      BY <3>2 DEF vars
    <3> QED
      BY <3>1, <3>2
  <2>2. RegionInv /\ LinesUp
    BY <2>1 DEF RegionsHold
  <2> QED
    BY <2>1, <2>2, CompilerAssumption, RegionNext, LowerNext
<1>3. RegionsHold => TypedRegionsAgree
  <2> SUFFICES ASSUME part = "regions", RegionInv, LinesUp
               PROVE  /\ TypeOK /\ ReadsAreDefined /\ EnteredByHeader
                      /\ AccumulatorFolds /\ LoweredAgrees
    BY DEF RegionsHold, TypedRegionsAgree
  <2> QED
    BY CompilerAssumption, LoweredFollows DEF RegionInv
<1> QED
  BY <1>1, <1>2, <1>3, PTL DEF Spec
-----------------------------------------------------------------------------
(* The core: regions, and suffixes that resume after one. *)
(* The module's own copies of two operators. *)
LEMMA CoreSame ==
  /\ \A E, S : Core!Reached(E, S) = Reached(E, S)
  /\ \A E : Core!IsFiniteSet(E) <=> IsFiniteSet(E)
<1>1. ASSUME NEW E, NEW S PROVE Core!Reached(E, S) = Reached(E, S)
  BY DEF Core!Reached, Reached, Core!Beyond, Beyond, Core!Cardinality, Cardinality
<1>2. ASSUME NEW E PROVE Core!IsFiniteSet(E) <=> IsFiniteSet(E)
  BY DEF Core!IsFiniteSet, IsFiniteSet
<1> QED
  BY <1>1, <1>2

LEMMA CoreShapes ==
  ASSUME Core!CoreAssumption, NEW m \in Modules
  PROVE  /\ Len(m.ops) \in Nat \ {0} /\ DOMAIN m.ops = 1..Len(m.ops) /\ IsFiniteSet(m.edges)
         /\ \A i \in DOMAIN m.ops : m.ops[i] \in Core!OperationRecords
         /\ \A i \in DOMAIN m.ops :
              m.ops[i].op \in Core!Terminators => \A j \in DOMAIN m.ops : m.ops[j].block = m.ops[i].block => j <= i
<1>1. /\ m.ops \in Seq(Core!OperationRecords) /\ Len(m.ops) > 0 /\ IsFiniteSet(m.edges)
      /\ \A i \in DOMAIN m.ops :
           m.ops[i].op \in Core!Terminators => \A j \in Core!PositionsOf(m, m.ops[i].block) : j <= i
  BY CoreSame DEF Core!CoreAssumption
<1>2. ASSUME NEW i \in DOMAIN m.ops, m.ops[i].op \in Core!Terminators, NEW j \in DOMAIN m.ops,
             m.ops[j].block = m.ops[i].block
      PROVE  j <= i
  BY <1>1, <1>2 DEF Core!PositionsOf
<1> QED
  BY <1>1, <1>2

(* A set of numbers up to n has a least and a greatest one. *)
LEMMA FirstAndFinal ==
  ASSUME NEW n \in Nat, NEW S \in SUBSET (1..n), S # {}
  PROVE  Core!First(S) \in S /\ Core!Final(S) \in S /\ \A i \in S : Core!First(S) <= i /\ i <= Core!Final(S)
<1> DEFINE Good(s) == s = {} \/ ((\E x \in s : \A y \in s : x <= y) /\ (\E x \in s : \A y \in s : y <= x))
           T == {s \in SUBSET (1..n) : Good(s)}
<1>1. IsFiniteSet(1..n)
  BY FS_Interval
<1>2. {} \in T
  OBVIOUS
<1>3. ASSUME NEW s \in SUBSET (1..n), s \in T, NEW x \in (1..n) \ s PROVE s \cup {x} \in T
  <2>1. CASE s = {}
    BY <2>1
  <2>2. CASE s # {}
    <3>1. PICK lo \in s : \A y \in s : lo <= y
      BY <1>3, <2>2
    <3>2. PICK hi \in s : \A y \in s : y <= hi
      BY <1>3, <2>2
    <3>3. \E a \in s \cup {x} : \A y \in s \cup {x} : a <= y
      <4>1. CASE lo <= x
        BY <3>1, <4>1
      <4>2. CASE x <= lo
        BY <3>1, <4>2
      <4> QED
        BY <4>1, <4>2
    <3>4. \E a \in s \cup {x} : \A y \in s \cup {x} : y <= a
      <4>1. CASE x <= hi
        BY <3>2, <4>1
      <4>2. CASE hi <= x
        BY <3>2, <4>2
      <4> QED
        BY <4>1, <4>2
    <3> QED
      BY <3>3, <3>4
  <2> QED
    BY <2>1, <2>2
<1> HIDE DEF T
<1>4. 1..n \in T \/ TRUE
  OBVIOUS
<1>5. IsFiniteSet(S)
  BY <1>1, FS_Subset
<1>6. S \in T
  <2> DEFINE U == {s \in SUBSET S : s \in T}
  <2>1. {} \in U
    BY <1>2
  <2>2. ASSUME NEW s \in SUBSET S, s \in U, NEW x \in S \ s PROVE s \cup {x} \in U
    BY <1>3, <2>2
  <2>3. S \in U
    <3> HIDE DEF U
    <3> QED
      BY <1>5, <2>1, <2>2, SetInduction
  <2> QED
    BY <2>3
<1>7. (\E x \in S : \A y \in S : x <= y) /\ (\E x \in S : \A y \in S : y <= x)
  BY <1>6 DEF T
<1> QED
  BY <1>7 DEF Core!First, Core!Final

CoreVerified(m) ==
  /\ \A i, j, k \in DOMAIN m.ops : i < j /\ j < k /\ m.ops[i].block = m.ops[k].block => m.ops[j].block = m.ops[i].block
  /\ \A b \in Core!BlocksOf(m) : m.ops[Core!Final(Core!PositionsOf(m, b))].op \in Core!Terminators
  /\ \A e \in m.edges : e[1] \in Core!BlocksOf(m) /\ e[2] \in Core!BlocksOf(m)
  /\ Core!Expected(m) \subseteq m.edges
  /\ \A i \in DOMAIN m.ops :
       /\ Core!ToSet(m.ops[i].args) \subseteq DOMAIN m.ops
       /\ m.ops[i].op \in {"branch", "jump"} => Core!TargetsOf(m, i) \subseteq Core!BlocksOf(m)

LEMMA OperationFacts ==
  ASSUME NEW m, NEW i, Core!OperationVerdict(m, i) = ""
  PROVE  /\ Core!ToSet(m.ops[i].args) \subseteq Core!Seen(m, i)
         /\ m.ops[i].op \in {"branch", "jump"} => Core!TargetsOf(m, i) \subseteq Core!BlocksOf(m)
<1>1. Core!ToSet(m.ops[i].args) \subseteq Core!Seen(m, i) /\ Core!Schema(m, i) = ""
  BY DEF Core!OperationVerdict
<1>2. CASE m.ops[i].op = "branch"
  BY <1>1, <1>2 DEF Core!Schema
<1>3. CASE m.ops[i].op = "jump"
  BY <1>1, <1>3 DEF Core!Schema
<1> QED
  BY <1>1, <1>2, <1>3

LEMMA LowerIsWithin ==
  ASSUME NEW n \in Nat, NEW x \in 1..n
  PROVE  \A y \in 1..(x - 1) : y \in 1..n
<1>1. x \in Nat /\ x <= n /\ x - 1 \in Int
  OBVIOUS
<1>2. ASSUME NEW y \in 1..(x - 1) PROVE y \in 1..n
  <2>1. y \in Int /\ 1 <= y /\ y <= x - 1
    BY <1>1, <1>2
  <2> QED
    BY <1>1, <2>1
<1> QED
  BY <1>2

LEMMA CoreVerifiedFacts ==
  ASSUME Core!CoreAssumption, NEW m \in Modules, Core!Verify(m) = "" PROVE CoreVerified(m)
<1>0. Len(m.ops) \in Nat /\ DOMAIN m.ops = 1..Len(m.ops)
  BY CoreShapes
<1>1. /\ ~ \E i, j, k \in 1..Len(m.ops) : /\ i < j /\ j < k
                                         /\ m.ops[i].block = m.ops[k].block
                                         /\ m.ops[j].block # m.ops[i].block
      /\ ~ \E b \in Core!BlocksOf(m) : m.ops[Core!Final(Core!PositionsOf(m, b))].op \notin Core!Terminators
      /\ ~ \E e \in m.edges : {e[1], e[2]} \ Core!BlocksOf(m) # {}
      /\ {e \in m.edges : e[3] # "exception"} = Core!Expected(m)
  BY DEF Core!Verify
<1>2. {i \in 1..Len(m.ops) : Core!OperationVerdict(m, i) # ""} = {}
  <2> DEFINE bad == {i \in 1..Len(m.ops) : Core!OperationVerdict(m, i) # ""}
  <2> SUFFICES ASSUME bad # {} PROVE FALSE
    OBVIOUS
  <2>1. Core!OperationVerdict(m, Core!First(bad)) # ""
    <3>1. Core!First(bad) \in bad
      <4>1. bad \in SUBSET (1..Len(m.ops))
        OBVIOUS
      <4> HIDE DEF bad
      <4> QED
        BY <1>0, <4>1, FirstAndFinal
    <3> QED
      BY <3>1
  <2>2. Core!Verify(m) = Core!OperationVerdict(m, Core!First(bad))
    BY DEF Core!Verify
  <2> QED
    BY <2>1, <2>2
<1>3. \A i \in DOMAIN m.ops : Core!OperationVerdict(m, i) = ""
  BY <1>0, <1>2
<1>4. ASSUME NEW i \in DOMAIN m.ops
      PROVE  /\ Core!ToSet(m.ops[i].args) \subseteq DOMAIN m.ops
             /\ m.ops[i].op \in {"branch", "jump"} => Core!TargetsOf(m, i) \subseteq Core!BlocksOf(m)
  <2>1. Core!Seen(m, i) \subseteq DOMAIN m.ops
    <3>1. i \in 1..Len(m.ops)
      BY <1>0
    <3>2. \A j \in 1..(i - 1) : j \in 1..Len(m.ops)
      <4>1. Len(m.ops) \in Nat
        BY <1>0
      <4> QED
        BY <3>1, <4>1, LowerIsWithin
    <3> QED
      BY <1>0, <3>2 DEF Core!Seen
  <2> QED
    BY <1>3, <2>1, OperationFacts
<1> QED
  BY <1>0, <1>1, <1>4 DEF CoreVerified

LEMMA EndsItsBlock ==
  ASSUME Core!CoreAssumption, NEW m \in Modules, CoreVerified(m), NEW n \in DOMAIN m.ops, m.ops[n].op \in Core!Terminators
  PROVE  n = Core!Final(Core!PositionsOf(m, m.ops[n].block)) /\ m.ops[n].block \in Core!BlocksOf(m)
<1> DEFINE S == Core!PositionsOf(m, m.ops[n].block)
<1>1. Len(m.ops) \in Nat /\ DOMAIN m.ops = 1..Len(m.ops) /\ \A j \in S : j <= n
  BY CoreShapes DEF Core!PositionsOf
<1>2. S \in SUBSET (1..Len(m.ops)) /\ n \in S
  BY <1>1 DEF Core!PositionsOf
<1>3. Core!Final(S) \in S /\ n <= Core!Final(S)
  <2> HIDE DEF S
  <2> QED
    BY <1>1, <1>2, FirstAndFinal
<1>4. n \in Int /\ Core!Final(S) \in Int
  <2> HIDE DEF S
  <2> QED
    BY <1>1, <1>2, <1>3
<1>5. Core!Final(S) <= n
  <2> HIDE DEF S
  <2> QED
    BY <1>1, <1>3
<1> QED
  BY <1>3, <1>4, <1>5 DEF Core!BlocksOf

LEMMA GoesOn ==
  ASSUME Core!CoreAssumption, NEW m \in Modules, CoreVerified(m), NEW n \in DOMAIN m.ops, m.ops[n].op \notin Core!Terminators
  PROVE  n + 1 \in DOMAIN m.ops /\ m.ops[n + 1].block = m.ops[n].block
<1> DEFINE S == Core!PositionsOf(m, m.ops[n].block)
           f == Core!Final(S)
<1>1. Len(m.ops) \in Nat /\ DOMAIN m.ops = 1..Len(m.ops)
  BY CoreShapes
<1>2. S \in SUBSET (1..Len(m.ops)) /\ n \in S
  BY <1>1 DEF Core!PositionsOf
<1>3. f \in S /\ n <= f
  <2> HIDE DEF S
  <2> QED
    BY <1>1, <1>2, FirstAndFinal
<1>4. m.ops[f].op \in Core!Terminators
  <2>1. m.ops[n].block \in Core!BlocksOf(m)
    BY DEF Core!BlocksOf
  <2> QED
    BY <2>1 DEF CoreVerified
<1>5. f \in DOMAIN m.ops /\ m.ops[f].block = m.ops[n].block
  BY <1>3 DEF Core!PositionsOf
<1> HIDE DEF f, S
<1>6. n < f
  BY <1>1, <1>3, <1>4, <1>5
<1>7. n \in Nat /\ f \in Nat /\ n + 1 \in DOMAIN m.ops
  BY <1>1, <1>5, <1>6
<1>8. CASE n + 1 = f
  BY <1>5, <1>7, <1>8
<1>9. CASE n + 1 < f
  <2>1. n < n + 1
    BY <1>7
  <2> QED
    BY <1>5, <1>7, <1>9, <2>1 DEF CoreVerified
<1> QED
  BY <1>6, <1>7, <1>8, <1>9

LEMMA Enters ==
  ASSUME Core!CoreAssumption, NEW m \in Modules, NEW b \in Core!BlocksOf(m)
  PROVE  Core!First(Core!PositionsOf(m, b)) \in DOMAIN m.ops /\ m.ops[Core!First(Core!PositionsOf(m, b))].block = b
<1> DEFINE S == Core!PositionsOf(m, b)
<1>1. Len(m.ops) \in Nat /\ DOMAIN m.ops = 1..Len(m.ops)
  BY CoreShapes
<1>2. S \in SUBSET (1..Len(m.ops)) /\ S # {}
  BY <1>1 DEF Core!PositionsOf, Core!BlocksOf
<1>3. Core!First(S) \in S
  <2> HIDE DEF S
  <2> QED
    BY <1>1, <1>2, FirstAndFinal
<1> QED
  BY <1>3 DEF Core!PositionsOf

Leads(m, n, b) == b \in Core!BlocksOf(m) /\ \E e \in m.edges : e[1] = m.ops[n].block /\ e[2] = b

LEMMA BranchLeads ==
  ASSUME Core!CoreAssumption, NEW m \in Modules, CoreVerified(m), NEW n \in DOMAIN m.ops,
         m.ops[n].op = "branch", NEW b \in Core!ToSet(m.ops[n].to)
  PROVE  Leads(m, n, b)
<1> DEFINE o == m.ops[n]
<1>1. o \in Core!OperationRecords /\ Len(o.to) = 2
  BY CoreShapes, CoreSame DEF Core!CoreAssumption
<1>2. b = o.to[1] \/ b = o.to[2]
  <2>1. o.to \in Seq(Nat)
    BY <1>1 DEF Core!OperationRecords
  <2>2. DOMAIN o.to = 1..2
    BY <1>1, <2>1
  <2> QED
    BY <2>2 DEF Core!ToSet
<1>3. n = Core!Final(Core!PositionsOf(m, o.block)) /\ o.block \in Core!BlocksOf(m)
  BY EndsItsBlock DEF Core!Terminators
<1>4. {<<o.block, o.to[1], "branch_true">>, <<o.block, o.to[2], "branch_false">>} \subseteq Core!Expected(m)
  BY <1>3 DEF Core!Expected
<1>5. {<<o.block, o.to[1], "branch_true">>, <<o.block, o.to[2], "branch_false">>} \subseteq m.edges
  BY <1>4 DEF CoreVerified
<1>6. b \in Core!BlocksOf(m)
  BY DEF CoreVerified, Core!TargetsOf
<1> HIDE DEF o
<1>7. \E e \in m.edges : e[1] = o.block /\ e[2] = b
  BY <1>2, <1>5
<1> QED
  BY <1>6, <1>7 DEF Leads, o

LEMMA JumpLeads ==
  ASSUME Core!CoreAssumption, NEW m \in Modules, CoreVerified(m), NEW n \in DOMAIN m.ops, m.ops[n].op = "jump"
  PROVE  Leads(m, n, m.ops[n].to[1])
<1> DEFINE o == m.ops[n]
<1>1. o \in Core!OperationRecords /\ Len(o.to) > 0
  BY CoreShapes, CoreSame DEF Core!CoreAssumption
<1>2. o.to[1] \in Core!ToSet(o.to)
  <2>1. o.to \in Seq(Nat)
    BY <1>1 DEF Core!OperationRecords
  <2>2. 1 \in DOMAIN o.to
    BY <1>1, <2>1
  <2> QED
    BY <2>2 DEF Core!ToSet
<1>3. n = Core!Final(Core!PositionsOf(m, o.block)) /\ o.block \in Core!BlocksOf(m)
  BY EndsItsBlock DEF Core!Terminators
<1>4. <<o.block, o.to[1], "jump">> \in Core!Expected(m)
  BY <1>3 DEF Core!Expected
<1>5. <<o.block, o.to[1], "jump">> \in m.edges
  BY <1>4 DEF CoreVerified
<1>6. o.to[1] \in Core!BlocksOf(m)
  BY <1>2 DEF CoreVerified, Core!TargetsOf
<1> HIDE DEF o
<1>7. \E e \in m.edges : e[1] = o.block /\ e[2] = o.to[1]
  BY <1>5
<1> QED
  BY <1>6, <1>7 DEF Leads, o

(* Where a value was computed, or a region stands, leads to the operation at *)
(* hand.                                                                     *)
After(m, v, n) ==
  \/ m.ops[v].block = m.ops[n].block /\ v < n
  \/ m.ops[n].block \in Core!ReachableBy(m, Core!SuccessorsOf(m, m.ops[v].block))

LEMMA AfterStep ==
  ASSUME Core!CoreAssumption, NEW m \in Modules, CoreVerified(m), NEW n \in DOMAIN m.ops, m.ops[n].op \notin Core!Terminators,
         NEW v \in DOMAIN m.ops, v = n \/ After(m, v, n)
  PROVE  After(m, v, n + 1)
<1>1. n + 1 \in DOMAIN m.ops /\ m.ops[n + 1].block = m.ops[n].block
  BY GoesOn
<1>2. n \in Nat /\ v \in Nat
  BY CoreShapes
<1> QED
  BY <1>1, <1>2 DEF After

LEMMA AfterGoto ==
  ASSUME Core!CoreAssumption, NEW m \in Modules, CoreVerified(m), NEW n \in DOMAIN m.ops,
         NEW v \in DOMAIN m.ops, v = n \/ After(m, v, n), NEW b, Leads(m, n, b)
  PROVE  After(m, v, Core!First(Core!PositionsOf(m, b)))
<1> DEFINE R == Core!ReachableBy(m, Core!SuccessorsOf(m, m.ops[v].block))
<1>1. PICK e \in m.edges : e[1] = m.ops[n].block /\ e[2] = b
  BY DEF Leads
<1>2. m.ops[Core!First(Core!PositionsOf(m, b))].block = b
  BY Enters DEF Leads
<1>3. IsFiniteSet(m.edges)
  BY CoreShapes
<1>4. b \in R
  <2>1. CASE m.ops[n].block = m.ops[v].block
    <3>1. b \in Core!SuccessorsOf(m, m.ops[v].block)
      BY <1>1, <2>1 DEF Core!SuccessorsOf
    <3> DEFINE S == Core!SuccessorsOf(m, m.ops[v].block)
    <3>2. S \subseteq Reached(m.edges, S)
      <4> HIDE DEF S
      <4>1. \A x \in m.edges : x[1] \in Reached(m.edges, S) => x[2] \in Reached(m.edges, S)
        BY <1>3, ReachedCloses
      <4>2. S \subseteq S \cup {x[2] : x \in m.edges}
        OBVIOUS
      <4>3. \A x \in m.edges : x[1] \in S \cup {y[2] : y \in m.edges} => x[2] \in S \cup {y[2] : y \in m.edges}
        OBVIOUS
      <4> QED
        BY <1>3, <4>2, <4>3, ReachedLeast
    <3> QED
      BY <3>1, <3>2, CoreSame DEF Core!ReachableBy
  <2>2. CASE m.ops[n].block \in R
    <3>1. e[1] \in Reached(m.edges, Core!SuccessorsOf(m, m.ops[v].block))
      BY <1>1, <2>2, CoreSame DEF Core!ReachableBy
    <3>2. e[2] \in Reached(m.edges, Core!SuccessorsOf(m, m.ops[v].block))
      BY <1>3, <3>1, ReachedCloses
    <3> QED
      BY <1>1, <3>2, CoreSame DEF Core!ReachableBy
  <2> QED
    BY <2>1, <2>2 DEF After
<1> QED
  BY <1>2, <1>4 DEF After

LEMMA SuffixIsAfter ==
  ASSUME Core!CoreAssumption, NEW m \in Modules, NEW i \in DOMAIN m.ops, NEW n \in DOMAIN m.ops
  PROVE  n \in Core!Suffix(m, i) <=> After(m, i, n)
<1>1. n \in Nat /\ i \in Nat
  BY CoreShapes
<1> DEFINE R == Core!ReachableBy(m, Core!SuccessorsOf(m, m.ops[i].block))
<1>2. n \in UNION {Core!PositionsOf(m, c) : c \in R} <=> m.ops[n].block \in R
  <2> HIDE DEF R
  <2> QED
    BY DEF Core!PositionsOf
<1>3. n \in {j \in Core!PositionsOf(m, m.ops[i].block) : j > i} <=> m.ops[i].block = m.ops[n].block /\ i < n
  BY <1>1 DEF Core!PositionsOf
<1>4. Core!Suffix(m, i) = {j \in Core!PositionsOf(m, m.ops[i].block) : j > i} \cup (UNION {Core!PositionsOf(m, c) : c \in R})
  BY DEF Core!Suffix
<1> HIDE DEF R
<1>5. n \in Core!Suffix(m, i) <=> (m.ops[i].block = m.ops[n].block /\ i < n) \/ m.ops[n].block \in R
  BY <1>2, <1>3, <1>4
<1> QED
  BY <1>5 DEF After, R

(* The resumed suffix of the region at i holds what the whole execution does. *)
Carries(m, i, n, vals, suff) ==
  /\ After(m, i, n)
  /\ \A v \in DOMAIN vals : v \in Core!Suffix(m, i) \cup Core!LiveNames(m, i) => v \in DOMAIN suff /\ suff[v] = vals[v]
Computed(m, n, vals) == \A v \in DOMAIN vals : After(m, v, n)

CoreInv ==
  /\ module \in Modules /\ Core!TypeOK
  /\ Core!Running =>
       /\ CoreVerified(module) /\ at \in DOMAIN Core!Ops
       /\ Computed(module, at, values)
       /\ resumed => \E i \in DOMAIN Core!Ops : Carries(module, i, at, values, suffix)

LEMMA CoreInitially ==
  ASSUME Core!CoreAssumption, Core!Init PROVE CoreInv
<1>1. /\ module \in Modules /\ verdict = Core!Verify(module) /\ at = (IF verdict = "" THEN 1 ELSE 0)
      /\ values = <<>> /\ resumed = FALSE /\ suffix = <<>>
  BY DEF Core!Init
<1>2. Len(Core!Ops) \in Nat \ {0} /\ DOMAIN Core!Ops = 1..Len(Core!Ops)
  BY <1>1, CoreShapes DEF Core!Ops
<1>3. DOMAIN values = {} /\ DOMAIN suffix = {}
  <2>1. values = <<>> /\ suffix = <<>>
    BY <1>1
  <2>2. DOMAIN <<>> = {}
    OBVIOUS
  <2> QED
    BY <2>1, <2>2
<1>4. at \in 0..Len(Core!Ops) /\ (at # 0 => at \in DOMAIN Core!Ops /\ verdict = "")
  <2>1. (at = 1 /\ verdict = "") \/ at = 0
    BY <1>1
  <2>2. 1 \in 1..Len(Core!Ops) /\ 1 \in 0..Len(Core!Ops) /\ 0 \in 0..Len(Core!Ops)
    BY <1>2
  <2> QED
    BY <1>2, <2>1, <2>2
<1>5. Core!TypeOK
  <2>1. resumed \in BOOLEAN
    BY <1>1
  <2> QED
    BY <1>3, <1>4, <2>1 DEF Core!TypeOK, Core!Running
<1>6. Core!Running => CoreVerified(module)
  BY <1>1, CoreVerifiedFacts DEF Core!Running
<1>7. Computed(module, at, values)
  BY <1>3 DEF Computed
<1> QED
  BY <1>1, <1>4, <1>5, <1>6, <1>7 DEF CoreInv, Core!Running

(* Control goes on at n, and what was computed stays. *)
LEMMA CarriesOn ==
  ASSUME Core!CoreAssumption, NEW m \in Modules, CoreVerified(m), NEW n \in DOMAIN m.ops, NEW b, Leads(m, n, b),
         NEW i \in DOMAIN m.ops, NEW vals, NEW suff, Carries(m, i, n, vals, suff)
  PROVE  Carries(m, i, Core!First(Core!PositionsOf(m, b)), vals, suff)
BY AfterGoto DEF Carries

LEMMA CoreGoes ==
  ASSUME Core!CoreAssumption, CoreInv, Core!Running, NEW b, Leads(module, at, b), Core!Goto(b)
  PROVE  CoreInv'
<1>1. /\ module \in Modules /\ Core!TypeOK /\ CoreVerified(module) /\ at \in DOMAIN Core!Ops
      /\ Computed(module, at, values)
      /\ resumed => \E i \in DOMAIN Core!Ops : Carries(module, i, at, values, suffix)
  BY DEF CoreInv
<1>2. /\ at' = Core!First(Core!PositionsOf(module, b)) /\ module' = module /\ verdict' = verdict /\ values' = values
      /\ resumed' = resumed /\ suffix' = suffix
  BY DEF Core!Goto
<1>3. at' \in DOMAIN Core!Ops
  BY <1>1, <1>2, Enters DEF Leads, Core!Ops
<1>4. Len(Core!Ops) \in Nat /\ DOMAIN Core!Ops = 1..Len(Core!Ops)
  BY <1>1, CoreShapes DEF Core!Ops
<1>5. Core!TypeOK'
  <2>1. Core!Ops' = Core!Ops
    BY <1>2 DEF Core!Ops
  <2>2. at' \in 0..Len(Core!Ops)
    BY <1>3, <1>4
  <2>3. verdict' = "" /\ DOMAIN values' \subseteq DOMAIN Core!Ops /\ DOMAIN suffix' \subseteq DOMAIN Core!Ops
    BY <1>1, <1>2 DEF Core!TypeOK
  <2>4. resumed' \in BOOLEAN
    BY <1>1, <1>2 DEF Core!TypeOK
  <2> QED
    BY <2>1, <2>2, <2>3, <2>4 DEF Core!TypeOK
<1>6. Computed(module, at', values)
  <2>1. ASSUME NEW v \in DOMAIN values PROVE After(module, v, at')
    <3>1. v \in DOMAIN module.ops
      BY <1>1 DEF Core!TypeOK, Core!Ops
    <3>2. After(module, v, at)
      BY <1>1 DEF Computed
    <3> QED
      BY <1>1, <1>2, <3>1, <3>2, AfterGoto DEF Core!Ops
  <2> QED
    BY <2>1 DEF Computed
<1>7. resumed => \E i \in DOMAIN Core!Ops : Carries(module, i, at', values, suffix)
  BY <1>1, <1>2, CarriesOn DEF Core!Ops
<1> QED
  BY <1>1, <1>2, <1>3, <1>5, <1>6, <1>7 DEF CoreInv, Core!Running, Core!Ops

LEMMA AssignedFacts ==
  ASSUME NEW store
  PROVE  /\ DOMAIN Core!Assigned(store) = DOMAIN store \cup {at}
         /\ \A v \in DOMAIN store : v # at => Core!Assigned(store)[v] = store[v]
         /\ Core!Assigned(store)[at] = IF at \in DOMAIN values THEN 3 - values[at] ELSE 1
BY DEF Core!Assigned

LEMMA CoreExecutes ==
  ASSUME Core!CoreAssumption, CoreInv, Core!Execute
  PROVE  CoreInv'
<1>1. /\ module \in Modules /\ Core!TypeOK /\ CoreVerified(module) /\ at \in DOMAIN Core!Ops
      /\ Computed(module, at, values)
      /\ resumed => \E i \in DOMAIN Core!Ops : Carries(module, i, at, values, suffix)
  BY DEF CoreInv, Core!Execute
<1>2. /\ at' = at + 1 /\ module' = module /\ verdict' = verdict /\ values' = Core!Assigned(values)
      /\ resumed' = resumed /\ suffix' = (IF resumed THEN Core!Assigned(suffix) ELSE suffix)
      /\ module.ops[at].op \notin Core!Terminators
  BY DEF Core!Execute, Core!Op, Core!Ops
<1>3. at' \in DOMAIN Core!Ops
  BY <1>1, <1>2, GoesOn DEF Core!Ops
<1>4. Len(Core!Ops) \in Nat /\ DOMAIN Core!Ops = 1..Len(Core!Ops)
  BY <1>1, CoreShapes DEF Core!Ops
<1>5. /\ DOMAIN values' = DOMAIN values \cup {at} /\ DOMAIN suffix' \subseteq DOMAIN suffix \cup {at}
  BY <1>2, AssignedFacts
<1>6. Core!TypeOK'
  <2>1. Core!Ops' = Core!Ops
    BY <1>2 DEF Core!Ops
  <2>2. at' \in 0..Len(Core!Ops)
    BY <1>3, <1>4
  <2>3. verdict' = ""
    BY <1>1, <1>2 DEF Core!TypeOK, Core!Execute
  <2>4. DOMAIN values' \subseteq DOMAIN Core!Ops /\ DOMAIN suffix' \subseteq DOMAIN Core!Ops
    BY <1>1, <1>5 DEF Core!TypeOK
  <2>5. resumed' \in BOOLEAN
    BY <1>1, <1>2 DEF Core!TypeOK
  <2> QED
    BY <2>1, <2>2, <2>3, <2>4, <2>5 DEF Core!TypeOK
<1>7. Computed(module, at', values')
  <2>1. ASSUME NEW v \in DOMAIN values' PROVE After(module, v, at')
    <3>1. v \in DOMAIN module.ops
      BY <1>1, <1>5 DEF Core!TypeOK, Core!Ops
    <3>2. v = at \/ After(module, v, at)
      BY <1>1, <1>5 DEF Computed
    <3> QED
      BY <1>1, <1>2, <3>1, <3>2, AfterStep DEF Core!Ops
  <2> QED
    BY <2>1 DEF Computed
<1>8. ASSUME resumed PROVE \E i \in DOMAIN Core!Ops : Carries(module, i, at', values', suffix')
  <2>1. PICK i \in DOMAIN Core!Ops : Carries(module, i, at, values, suffix)
    BY <1>1, <1>8
  <2>2. After(module, i, at) /\ \A v \in DOMAIN values :
           v \in Core!Suffix(module, i) \cup Core!LiveNames(module, i) => v \in DOMAIN suffix /\ suffix[v] = values[v]
    BY <2>1 DEF Carries
  <2>3. After(module, i, at')
    BY <1>1, <1>2, <2>2, AfterStep DEF Core!Ops
  <2>4. ASSUME NEW v \in DOMAIN values', v \in Core!Suffix(module, i) \cup Core!LiveNames(module, i)
        PROVE  v \in DOMAIN suffix' /\ suffix'[v] = values'[v]
    <3>1. suffix' = Core!Assigned(suffix) /\ values' = Core!Assigned(values)
      BY <1>2, <1>8
    <3>2. CASE v = at
      BY <3>1, <3>2, AssignedFacts
    <3>3. CASE v # at
      <4>1. v \in DOMAIN values /\ v \in DOMAIN suffix /\ suffix[v] = values[v]
        BY <1>5, <2>2, <2>4, <3>3
      <4> QED
        BY <3>1, <3>3, <4>1, AssignedFacts
    <3> QED
      BY <3>2, <3>3
  <2> QED
    BY <2>3, <2>4 DEF Carries
<1> QED
  BY <1>1, <1>2, <1>3, <1>6, <1>7, <1>8 DEF CoreInv, Core!Running, Core!Ops

(* Reachability is transitive. *)
LEMMA ReachesOn ==
  ASSUME Core!CoreAssumption, NEW m \in Modules, NEW b, NEW c, NEW d,
         c \in Core!ReachableBy(m, Core!SuccessorsOf(m, b)), d \in Core!ReachableBy(m, Core!SuccessorsOf(m, c))
  PROVE  d \in Core!ReachableBy(m, Core!SuccessorsOf(m, b))
<1> DEFINE R == Reached(m.edges, Core!SuccessorsOf(m, b))
<1>1. IsFiniteSet(m.edges)
  BY CoreShapes
<1>2. \A e \in m.edges : e[1] \in R => e[2] \in R
  BY <1>1, ReachedCloses
<1>3. Core!SuccessorsOf(m, c) \subseteq R
  BY <1>2, CoreSame DEF Core!SuccessorsOf, Core!ReachableBy
<1>4. Reached(m.edges, Core!SuccessorsOf(m, c)) \subseteq R
  <2> HIDE DEF R
  <2> QED
    BY <1>1, <1>2, <1>3, ReachedLeast
<1> QED
  BY <1>4, CoreSame DEF Core!ReachableBy

(* Of what a resumption is about to compute nothing is there yet. *)
LEMMA SuffixIsAhead ==
  ASSUME Core!CoreAssumption, NEW m \in Modules, NEW i \in DOMAIN m.ops, NEW n \in DOMAIN m.ops, NEW v \in DOMAIN m.ops,
         n = i + 1, m.ops[i].block = m.ops[n].block, ~Core!Cyclic(m, i), After(m, v, n)
  PROVE  v \notin Core!Suffix(m, i)
<1> SUFFICES ASSUME v \in Core!Suffix(m, i) PROVE FALSE
  OBVIOUS
<1>1. n \in Nat /\ i \in Nat /\ v \in Nat
  BY CoreShapes
<1>2. After(m, i, v)
  BY SuffixIsAfter
<1>3. m.ops[i].block \notin Core!ReachableBy(m, Core!SuccessorsOf(m, m.ops[i].block))
  BY CoreSame DEF Core!Cyclic
<1>4. CASE m.ops[i].block = m.ops[v].block /\ i < v
  BY <1>1, <1>3, <1>4 DEF After
<1>5. CASE m.ops[v].block \in Core!ReachableBy(m, Core!SuccessorsOf(m, m.ops[i].block))
  <2>1. m.ops[n].block \in Core!ReachableBy(m, Core!SuccessorsOf(m, m.ops[v].block))
    BY <1>3, <1>5 DEF After
  <2> QED
    BY <1>3, <1>5, <2>1, ReachesOn
<1> QED
  BY <1>2, <1>4, <1>5 DEF After

LEMMA CoreResumes ==
  ASSUME Core!CoreAssumption, CoreInv, Core!Resume
  PROVE  CoreInv'
<1> DEFINE i == at - 1
<1>1. /\ module \in Modules /\ Core!TypeOK /\ CoreVerified(module) /\ at \in DOMAIN Core!Ops
      /\ Computed(module, at, values)
  BY DEF CoreInv, Core!Resume
<1>2. /\ at' = at /\ module' = module /\ verdict' = verdict /\ values' = values
      /\ resumed' = TRUE /\ suffix' = [v \in Core!LiveNames(module, i) |-> values[v]]
      /\ Core!Ops[i].block = Core!Ops[at].block /\ i \in DOMAIN values
      /\ ~Core!Cyclic(module, i) /\ Core!LiveNames(module, i) \subseteq DOMAIN values
  BY DEF Core!Resume, Core!Op
<1>3. DOMAIN values \subseteq DOMAIN Core!Ops /\ DOMAIN suffix' = Core!LiveNames(module, i)
  BY <1>1, <1>2 DEF Core!TypeOK
<1>4. Core!TypeOK'
  BY <1>1, <1>2, <1>3 DEF Core!TypeOK, Core!Running, Core!Ops
<1>5. at \in Nat /\ i \in Nat /\ at = i + 1 /\ i \in DOMAIN module.ops
  BY <1>1, <1>2, <1>3, CoreShapes DEF Core!Ops
<1>6. After(module, i, at)
  BY <1>2, <1>5 DEF After, Core!Ops
<1> HIDE DEF i
<1>7. ASSUME NEW v \in DOMAIN values', v \in Core!Suffix(module, i) \cup Core!LiveNames(module, i)
      PROVE  v \in DOMAIN suffix' /\ suffix'[v] = values'[v]
  <2>1. After(module, v, at) /\ v \in DOMAIN module.ops
    BY <1>1, <1>2, <1>3, <1>7 DEF Computed, Core!Ops
  <2>2. v \notin Core!Suffix(module, i)
    BY <1>1, <1>2, <1>5, <2>1, SuffixIsAhead DEF Core!Ops
  <2> QED
    BY <1>2, <1>7, <2>2
<1>8. Carries(module, i, at', values', suffix')
  BY <1>2, <1>6, <1>7 DEF Carries
<1> QED
  BY <1>1, <1>2, <1>4, <1>5, <1>8 DEF CoreInv, Core!Running, Core!Ops

LEMMA CoreRaises ==
  ASSUME Core!CoreAssumption, CoreInv, Core!Raise
  PROVE  CoreInv' \/ (at' = 0 /\ UNCHANGED <<module, verdict, values, resumed, suffix>>)
<1> DEFINE handlers == {e[2] : e \in {x \in module.edges : x[1] = Core!Op.block /\ x[3] = "exception"}}
<1>1. module \in Modules /\ CoreVerified(module) /\ Core!Running
  BY DEF CoreInv, Core!Raise
<1>2. CASE handlers = {}
  BY <1>2 DEF Core!Raise
<1>3. CASE handlers # {}
  <2>1. PICK b \in handlers : Core!Goto(b)
    BY <1>3 DEF Core!Raise
  <2>2. PICK e \in module.edges : e[1] = Core!Op.block /\ e[2] = b
    BY <2>1
  <2>3. Leads(module, at, b)
    BY <1>1, <2>2 DEF Leads, CoreVerified, Core!Op, Core!Ops
  <2> HIDE DEF handlers
  <2> QED
    BY <1>1, <2>1, <2>3, CoreGoes
<1> QED
  BY <1>2, <1>3

LEMMA CoreStops ==
  ASSUME Core!CoreAssumption, CoreInv, at' = 0, UNCHANGED <<module, verdict, values, resumed, suffix>>
  PROVE  CoreInv'
<1>1. module \in Modules /\ Core!TypeOK /\ Core!Ops' = Core!Ops /\ ~Core!Running'
  BY DEF CoreInv, Core!Ops, Core!Running
<1>2. at' \in 0..Len(Core!Ops)
  <2>1. Len(Core!Ops) \in Nat
    BY <1>1, CoreShapes DEF Core!Ops
  <2> QED
    BY <2>1
<1>3. Core!TypeOK'
  <2>1. resumed' \in BOOLEAN
    BY <1>1 DEF Core!TypeOK
  <2> QED
    BY <1>1, <1>2, <2>1 DEF Core!TypeOK
<1> QED
  BY <1>1, <1>3 DEF CoreInv

LEMMA CoreNext ==
  ASSUME Core!CoreAssumption, CoreInv, Core!Next \/ UNCHANGED Core!vars
  PROVE  CoreInv'
<1>1. CASE Core!Execute
  BY <1>1, CoreExecutes
<1>2. CASE Core!Resume
  BY <1>2, CoreResumes
<1>3. CASE Core!Branch
  <2>1. PICK b \in Core!ToSet(Core!Op.to) : Core!Goto(b)
    BY <1>3 DEF Core!Branch
  <2>2. module \in Modules /\ CoreVerified(module) /\ Core!Running /\ at \in DOMAIN module.ops
        /\ module.ops[at].op = "branch" /\ b \in Core!ToSet(module.ops[at].to)
    BY <1>3, <2>1 DEF CoreInv, Core!Branch, Core!Op, Core!Ops
  <2>3. Leads(module, at, b)
    BY <2>2, BranchLeads
  <2> QED
    BY <2>1, <2>2, <2>3, CoreGoes
<1>4. CASE Core!Jump
  <2>1. Core!Goto(module.ops[at].to[1])
    BY <1>4 DEF Core!Jump, Core!Op, Core!Ops
  <2>2. module \in Modules /\ CoreVerified(module) /\ Core!Running /\ at \in DOMAIN module.ops
        /\ module.ops[at].op = "jump"
    BY <1>4 DEF CoreInv, Core!Jump, Core!Op, Core!Ops
  <2>3. Leads(module, at, module.ops[at].to[1])
    BY <2>2, JumpLeads
  <2> QED
    BY <2>1, <2>2, <2>3, CoreGoes
<1>5. CASE Core!Raise
  BY <1>5, CoreRaises, CoreStops
<1>6. CASE Core!Return
  BY <1>6, CoreStops DEF Core!Return
<1>7. CASE UNCHANGED Core!vars
  BY <1>7 DEF Core!vars, CoreInv, Core!TypeOK, Core!Running, Core!Ops
<1> QED
  BY <1>1, <1>2, <1>3, <1>4, <1>5, <1>6, <1>7 DEF Core!Next

LEMMA CoreResumesRight ==
  ASSUME Core!CoreAssumption, CoreInv
  PROVE  Core!ResumeAgrees
<1> SUFFICES ASSUME Core!Running, resumed, NEW v \in Core!ToSet(Core!Op.args) \cap DOMAIN values
             PROVE  v \in DOMAIN suffix /\ suffix[v] = values[v]
  BY DEF Core!ResumeAgrees
<1>1. module \in Modules /\ at \in DOMAIN module.ops
  BY DEF CoreInv, Core!Ops
<1>2. PICK i \in DOMAIN module.ops : Carries(module, i, at, values, suffix)
  BY DEF CoreInv, Core!Ops
<1>3. at \in Core!Suffix(module, i)
  BY <1>1, <1>2, SuffixIsAfter DEF Carries
<1>4. v \in Core!Suffix(module, i) \cup Core!LiveNames(module, i)
  BY <1>3 DEF Core!LiveNames, Core!Op, Core!Ops
<1> QED
  BY <1>2, <1>4 DEF Carries

LEMMA RegionsAreSymmetric ==
  ASSUME Core!CoreAssumption, NEW m \in Modules, NEW i \in DOMAIN m.ops, NEW j \in DOMAIN m.ops
  PROVE  i \in Core!RegionOf(m, i) /\ (i \in Core!RegionOf(m, j) => j \in Core!RegionOf(m, i))
<1>1. i \in Nat /\ j \in Nat /\ DOMAIN m.ops \subseteq Nat
  BY CoreShapes
<1> DEFINE Between(a, b, k) == (a <= k /\ k <= b) \/ (b <= k /\ k <= a)
<1>2. ASSUME NEW a \in DOMAIN m.ops, NEW b \in DOMAIN m.ops
      PROVE  b \in Core!RegionOf(m, a) <=>
               \/ Core!Barrier(m, a) /\ a = b
               \/ ~Core!Barrier(m, a) /\ m.ops[b].block = m.ops[a].block
                    /\ \A k \in DOMAIN m.ops : Between(a, b, k) => ~Core!Barrier(m, k)
  BY DEF Core!RegionOf, Core!PositionsOf
<1>3. Between(i, j, i) /\ Between(i, j, j) /\ Between(j, i, i) /\ Between(j, i, j)
      /\ (\A k : Between(i, j, k) <=> Between(j, i, k)) /\ (\A k \in DOMAIN m.ops : Between(i, i, k) => k = i)
  BY <1>1
<1> HIDE DEF Between
<1> QED
  BY <1>2, <1>3

LEMMA CoreRegionsSuffice ==
  ASSUME Core!CoreAssumption, CoreInv
  PROVE  Core!RegionsSuffice
<1> DEFINE r == Core!RegionOf(module, at)
<1> SUFFICES ASSUME Core!Running, NEW v \in Core!ToSet(Core!Op.args) \cap DOMAIN values, v \notin r
             PROVE  v \in Core!EntryValues(module, r) /\ v \in Core!ExitValues(module, Core!RegionOf(module, v))
  BY DEF Core!RegionsSuffice
<1>1. module \in Modules /\ at \in DOMAIN module.ops /\ v \in DOMAIN module.ops /\ v \in Core!ToSet(module.ops[at].args)
  BY DEF CoreInv, Core!TypeOK, Core!Op, Core!Ops
<1>2. at \in r /\ v \in Core!RegionOf(module, v) /\ at \notin Core!RegionOf(module, v)
  BY <1>1, RegionsAreSymmetric
<1> HIDE DEF r
<1> QED
  BY <1>1, <1>2 DEF Core!EntryValues, Core!ExitValues

-----------------------------------------------------------------------------
(* Passes, and the analyses that are kept between them. *)
(* The record AnalysisManager computes, and all it may hold. *)
RecordOf(k, m) == [kind |-> k, of |-> m, entries |-> Passes!Compute(k, m)]
RecordsOf(m) == {RecordOf(k, m) : k \in Passes!AnalysisKind}
KindsOf(held) == {r.kind : r \in held}

LEMMA RecordFacts ==
  ASSUME NEW m, NEW r \in RecordsOf(m)
  PROVE  r.kind \in Passes!AnalysisKind /\ r.of = m /\ r.entries = Passes!Compute(r.kind, m) /\ r = RecordOf(r.kind, m)
BY DEF RecordsOf, RecordOf

(* Kind by kind, a pick among records of the module is the record. *)
LEMMA RecordIsPicked ==
  ASSUME NEW m, NEW held \in SUBSET RecordsOf(m), NEW k, \E r \in held : r.kind = k
  PROVE  /\ (CHOOSE r \in held : r.kind = k) = RecordOf(k, m) /\ RecordOf(k, m) \in held
         /\ (CHOOSE r \in held : r.kind = k /\ r.of = m) = RecordOf(k, m)
<1>1. \A r \in held : r.kind = k => r = RecordOf(k, m) /\ r.of = m
  BY RecordFacts
<1> QED
  BY <1>1

LEMMA RequireFacts ==
  ASSUME NEW m, NEW held \in SUBSET RecordsOf(m), NEW kinds \in SUBSET Passes!AnalysisKind
  PROVE  /\ Passes!Require(held, m, kinds) \subseteq RecordsOf(m)
         /\ KindsOf(Passes!Require(held, m, kinds)) = KindsOf(held) \cup kinds
<1> DEFINE got(k) == IF \E r \in held : r.kind = k /\ r.of = m THEN CHOOSE r \in held : r.kind = k /\ r.of = m
                     ELSE [kind |-> k, of |-> m, entries |-> Passes!Compute(k, m)]
<1>1. ASSUME NEW k \in kinds PROVE got(k) = RecordOf(k, m)
  <2>1. CASE \E r \in held : r.kind = k /\ r.of = m
    BY <2>1, RecordIsPicked
  <2>2. CASE ~ \E r \in held : r.kind = k /\ r.of = m
    BY <2>2 DEF RecordOf
  <2> QED
    BY <2>1, <2>2
<1>2. Passes!Require(held, m, kinds) = {r \in held : r.kind \notin kinds} \cup {got(k) : k \in kinds}
  BY DEF Passes!Require
<1> HIDE DEF got
<1>3. Passes!Require(held, m, kinds) = {r \in held : r.kind \notin kinds} \cup {RecordOf(k, m) : k \in kinds}
  BY <1>1, <1>2
<1>4. \A k \in kinds : RecordOf(k, m) \in RecordsOf(m) /\ RecordOf(k, m).kind = k
  BY DEF RecordsOf, RecordOf
<1>5. Passes!Require(held, m, kinds) \subseteq RecordsOf(m)
  BY <1>3, <1>4
<1>6. ASSUME NEW k PROVE k \in KindsOf(Passes!Require(held, m, kinds)) <=> k \in KindsOf(held) \/ k \in kinds
  BY <1>3, <1>4 DEF KindsOf
<1> QED
  BY <1>5, <1>6

(* What a claim that is not stale carries over is of the new module. *)
LEMMA CarriedFacts ==
  ASSUME NEW m, NEW n, NEW held \in SUBSET RecordsOf(m), NEW claimed \in SUBSET Passes!AnalysisKind,
         claimed \subseteq KindsOf(held), ~Passes!Stale(held, n, claimed)
  PROVE  /\ Passes!Carried(held, n, claimed) \subseteq RecordsOf(n)
         /\ \A k \in claimed : Passes!Compute(k, n) = Passes!Compute(k, m)
<1>1. ASSUME NEW k \in claimed PROVE Passes!Compute(k, n) = Passes!Compute(k, m)
  <2>1. \E r \in held : r.kind = k
    BY DEF KindsOf
  <2>2. Passes!Entries(held, k) = RecordOf(k, m).entries
    BY <2>1, RecordIsPicked DEF Passes!Entries
  <2>3. Passes!Entries(held, k) = Passes!Compute(k, n)
    BY DEF Passes!Stale
  <2> QED
    BY <2>2, <2>3 DEF RecordOf
<1>2. ASSUME NEW r \in held, r.kind \in claimed PROVE [r EXCEPT !.of = n] = RecordOf(r.kind, n)
  <2>1. r = [kind |-> r.kind, of |-> m, entries |-> Passes!Compute(r.kind, m)]
    BY RecordFacts DEF RecordOf
  <2>2. [r EXCEPT !.of = n] = [kind |-> r.kind, of |-> n, entries |-> Passes!Compute(r.kind, m)]
    BY <2>1
  <2> QED
    BY <1>1, <1>2, <2>2 DEF RecordOf
<1>3. Passes!Carried(held, n, claimed) \subseteq RecordsOf(n)
  <2>1. ASSUME NEW s \in Passes!Carried(held, n, claimed) PROVE s \in RecordsOf(n)
    <3>1. PICK r \in held : r.kind \in claimed /\ s = [r EXCEPT !.of = n]
      BY DEF Passes!Carried
    <3>2. s = RecordOf(r.kind, n)
      BY <1>2, <3>1
    <3> QED
      BY <3>1, <3>2 DEF RecordsOf
  <2> QED
    BY <2>1
<1> QED
  BY <1>1, <1>3

PassesInv ==
  /\ source \in PassModules /\ working \in PassModules
  /\ promised \subseteq Passes!AnalysisKind /\ passes \in 0..(MaxIterations + 1)
  /\ records \in SUBSET RecordsOf(working)
  /\ status \in {"running", "compiled"} => Passes!VerifyModule(working) /\ Len(working) <= MaxNodes
  /\ status = "compiled" => KindsOf(records) = Passes!AnalysisKind
  /\ Passes!PromisesKept

LEMMA PassesInitially ==
  ASSUME Passes!PassesAssumption, Passes!Init PROVE PassesInv
<1>1. Len(source) \in Nat
  BY DEF Passes!Init, Passes!PassesAssumption
<1> QED
  BY <1>1 DEF Passes!Init, PassesInv, Passes!PassesAssumption, Passes!PromisesKept, KindsOf

LEMMA PassesRejects ==
  ASSUME PassesInv, NEW why, why \notin {"running", "compiled"}, Passes!Rejects(why), records' \in SUBSET RecordsOf(working)
  PROVE  PassesInv'
BY DEF PassesInv, Passes!Rejects, Passes!PromisesKept

LEMMA PassKeeps ==
  ASSUME Passes!PassesAssumption, PassesInv, NEW result \in PassModules, NEW needed \in Needs, NEW claimed \in Claims,
         Passes!Pass(result, needed, claimed)
  PROVE  PassesInv'
<1> DEFINE held == Passes!Require(records, working, needed)
           all == Passes!Require(held, working, claimed)
<1>1. needed \in SUBSET Passes!AnalysisKind /\ claimed \in SUBSET Passes!AnalysisKind /\ records \in SUBSET RecordsOf(working)
  BY DEF Passes!PassesAssumption, PassesInv
<1>2. held \in SUBSET RecordsOf(working)
  BY <1>1, RequireFacts
<1>3. all \in SUBSET RecordsOf(working) /\ claimed \subseteq KindsOf(all)
  <2> HIDE DEF held
  <2> QED
    <3>1. KindsOf(all) = KindsOf(held) \cup claimed /\ all \subseteq RecordsOf(working)
      BY <1>1, <1>2, RequireFacts
    <3> HIDE DEF all
    <3> QED
      BY <3>1
<1>4. /\ status = "running" /\ passes > 0
      /\ IF Len(result) > MaxNodes THEN Passes!Rejects("budget_exceeded") /\ records' = held
         ELSE IF ~Passes!VerifyModule(result) THEN Passes!Rejects("verify_failed") /\ records' = held
         ELSE IF result = working
         THEN /\ records' = held /\ promised' = promised \cap claimed /\ passes' = passes - 1
              /\ UNCHANGED <<source, working, status>>
         ELSE IF Passes!Stale(all, result, claimed) THEN Passes!Rejects("analysis_conflict") /\ records' = all
         ELSE /\ working' = result
              /\ records' = Passes!Carried(all, result, claimed)
              /\ promised' = promised \cap claimed /\ passes' = passes - 1
              /\ UNCHANGED <<source, status>>
  BY DEF Passes!Pass
<1>5. Len(result) \in Nat /\ MaxNodes \in Nat /\ MaxIterations \in Nat
  BY DEF Passes!PassesAssumption
<1>6. passes \in Nat /\ passes - 1 \in 0..(MaxIterations + 1)
  BY <1>4, <1>5 DEF PassesInv
<1> HIDE DEF held, all
<1>7. CASE Passes!Rejects("budget_exceeded") /\ records' = held
  BY <1>2, <1>7, PassesRejects
<1>8. CASE Passes!Rejects("verify_failed") /\ records' = held
  BY <1>2, <1>8, PassesRejects
<1>9. CASE Passes!Rejects("analysis_conflict") /\ records' = all
  BY <1>3, <1>9, PassesRejects
<1>10. CASE /\ records' = held /\ promised' = promised \cap claimed /\ passes' = passes - 1
            /\ UNCHANGED <<source, working, status>>
  BY <1>2, <1>4, <1>6, <1>10 DEF PassesInv, Passes!PromisesKept
<1>11. CASE /\ Len(result) <= MaxNodes /\ Passes!VerifyModule(result) /\ ~Passes!Stale(all, result, claimed)
            /\ working' = result /\ records' = Passes!Carried(all, result, claimed)
            /\ promised' = promised \cap claimed /\ passes' = passes - 1
            /\ UNCHANGED <<source, status>>
  <2>1. /\ Passes!Carried(all, result, claimed) \subseteq RecordsOf(result)
        /\ \A k \in claimed : Passes!Compute(k, result) = Passes!Compute(k, working)
    BY <1>1, <1>3, <1>11, CarriedFacts
  <2>2. \A k \in promised' : Passes!Compute(k, working') = Passes!Compute(k, source')
    BY <1>4, <1>11, <2>1 DEF PassesInv, Passes!PromisesKept
  <2> QED
    BY <1>4, <1>6, <1>11, <2>1, <2>2 DEF PassesInv, Passes!PromisesKept
<1> QED
  BY <1>4, <1>5, <1>7, <1>8, <1>9, <1>10, <1>11

LEMMA PassesNext ==
  ASSUME Passes!PassesAssumption, PassesInv, Passes!Next \/ UNCHANGED Passes!vars
  PROVE  PassesInv'
<1>1. CASE Passes!OutOfTime
  <2>1. Passes!Rejects("budget_exceeded") /\ records' = records
    BY <1>1 DEF Passes!OutOfTime
  <2> QED
    BY <2>1, PassesRejects DEF PassesInv
<1>2. CASE Passes!Summarise
  <2>1. /\ status = "running" /\ records' = Passes!Require(records, working, Passes!AnalysisKind) /\ status' = "compiled"
        /\ UNCHANGED <<source, working, promised, passes>>
    BY <1>2 DEF Passes!Summarise
  <2>2. records \in SUBSET RecordsOf(working)
    BY DEF PassesInv
  <2>3. KindsOf(records) \subseteq Passes!AnalysisKind
    BY <2>2, RecordFacts DEF KindsOf
  <2>4. records' \subseteq RecordsOf(working) /\ KindsOf(records') = KindsOf(records) \cup Passes!AnalysisKind
    BY <2>1, <2>2, RequireFacts
  <2>5. KindsOf(records') = Passes!AnalysisKind
    BY <2>3, <2>4
  <2> QED
    BY <2>1, <2>4, <2>5 DEF PassesInv, Passes!PromisesKept, KindsOf
<1>3. CASE \E m \in PassModules, n \in Needs, c \in Claims : Passes!Pass(m, n, c)
  BY <1>3, PassKeeps
<1>4. CASE UNCHANGED Passes!vars
  BY <1>4 DEF Passes!vars, PassesInv, Passes!PromisesKept
<1> QED
  BY <1>1, <1>2, <1>3, <1>4 DEF Passes!Next

-----------------------------------------------------------------------------
(* Live at i is what was computed before i and is used from there on. *)
UsedFrom(m, i) == UNION {m[j].operands : j \in i..Len(m)}
ResultsBefore(m, i) == {m[j].result : j \in 1..(i - 1)}
LiveAt(m, i) == ResultsBefore(m, i) \cap UsedFrom(m, i)
LiveEquation(m, f) ==
  f = [i \in 1..(Len(m) + 1) |-> IF i > Len(m) THEN {} ELSE (f[i + 1] \ {m[i].result}) \cup m[i].operands]

LEMMA UsedUnfolds ==
  ASSUME NEW m, Len(m) \in Nat, NEW i \in 1..Len(m)
  PROVE  UsedFrom(m, i) = m[i].operands \cup UsedFrom(m, i + 1)
<1>1. i..Len(m) = {i} \cup ((i + 1)..Len(m))
  OBVIOUS
<1> QED
  BY <1>1 DEF UsedFrom

LEMMA BeforeUnfolds ==
  ASSUME NEW m, Len(m) \in Nat, NEW i \in 1..Len(m)
  PROVE  ResultsBefore(m, i + 1) = ResultsBefore(m, i) \cup {m[i].result}
<1>1. 1..((i + 1) - 1) = (1..(i - 1)) \cup {i}
  OBVIOUS
<1> QED
  BY <1>1 DEF ResultsBefore

LEMMA LiveUnfolds ==
  ASSUME Passes!PassesAssumption, NEW m \in PassModules, Passes!VerifyModule(m), NEW i \in 1..Len(m)
  PROVE  LiveAt(m, i) = (LiveAt(m, i + 1) \ {m[i].result}) \cup m[i].operands
<1>1. Len(m) \in Nat /\ DOMAIN m = 1..Len(m)
  BY DEF Passes!PassesAssumption
<1>2. UsedFrom(m, i) = m[i].operands \cup UsedFrom(m, i + 1) /\ ResultsBefore(m, i + 1) = ResultsBefore(m, i) \cup {m[i].result}
  BY <1>1, UsedUnfolds, BeforeUnfolds
<1>3. m[i].operands \subseteq ResultsBefore(m, i)
  BY <1>1 DEF Passes!VerifyModule, ResultsBefore
<1>4. ASSUME NEW x \in ResultsBefore(m, i), x \in UsedFrom(m, i + 1) PROVE x # m[i].result
  <2>1. PICK j \in 1..(i - 1) : x = m[j].result
    BY <1>4 DEF ResultsBefore
  <2>2. PICK k \in (i + 1)..Len(m) : x \in m[k].operands
    BY <1>4 DEF UsedFrom
  <2>3. k \in DOMAIN m /\ j \in DOMAIN m /\ j # i
    BY <1>1, <2>1, <2>2
  <2>4. x # ""
    BY <2>2, <2>3 DEF Passes!VerifyModule
  <2> SUFFICES ASSUME x = m[i].result PROVE FALSE
    OBVIOUS
  <2>5. i \in Passes!Results(m) /\ j \in Passes!Results(m)
    BY <1>1, <2>1, <2>3, <2>4 DEF Passes!Results
  <2> QED
    BY <2>1, <2>3, <2>5 DEF Passes!VerifyModule
<1> QED
  BY <1>2, <1>3, <1>4 DEF LiveAt

LEMMA LivenessIs ==
  ASSUME Passes!PassesAssumption, NEW m \in PassModules, Passes!VerifyModule(m)
  PROVE  Passes!Liveness(m) = [i \in DOMAIN m |-> LiveAt(m, i)]
<1> DEFINE n == Len(m)
           f == CHOOSE g : LiveEquation(m, g)
           h == [i \in 1..(n + 1) |-> LiveAt(m, i)]
<1>1. n \in Nat /\ DOMAIN m = 1..n
  BY DEF Passes!PassesAssumption
<1>2. LiveAt(m, n + 1) = {}
  <2>1. (n + 1)..n = {}
    BY <1>1
  <2> QED
    BY <2>1 DEF LiveAt, UsedFrom
<1>3. LiveEquation(m, h)
  <2> DEFINE rhs(i) == IF i > Len(m) THEN {} ELSE (h[i + 1] \ {m[i].result}) \cup m[i].operands
  <2>1. ASSUME NEW i \in 1..(n + 1) PROVE LiveAt(m, i) = rhs(i)
    <3>1. CASE i = n + 1
      <4>1. i > Len(m) /\ LiveAt(m, i) = {}
        BY <1>1, <1>2, <3>1
      <4> QED
        BY <4>1
    <3>2. CASE i # n + 1
      <4>1. i \in 1..n /\ i + 1 \in 1..(n + 1) /\ ~(i > n)
        BY <1>1, <3>2
      <4>2. h[i + 1] = LiveAt(m, i + 1)
        BY <4>1
      <4>3. LiveAt(m, i) = (LiveAt(m, i + 1) \ {m[i].result}) \cup m[i].operands
        BY <4>1, LiveUnfolds
      <4> QED
        BY <4>1, <4>2, <4>3
    <3> QED
      BY <3>1, <3>2
  <2>2. h = [i \in 1..(n + 1) |-> rhs(i)]
    BY <2>1
  <2> QED
    BY <2>2 DEF LiveEquation
<1>4. LiveEquation(m, f)
  BY <1>3
<1>5. Passes!Liveness(m) = [i \in DOMAIN m |-> f[i]]
  BY DEF Passes!Liveness, LiveEquation
<1> HIDE DEF f, h, n
<1>6. \A i \in 1..(n + 1) : f[i] = IF i > n THEN {} ELSE (f[i + 1] \ {m[i].result}) \cup m[i].operands
  BY <1>4 DEF LiveEquation, n
<1> DEFINE T == {d \in 0..n : f[(n + 1) - d] = LiveAt(m, (n + 1) - d) /\ \A i \in ((n + 1) - d)..n : f[i] = LiveAt(m, i)}
<1>7. 0 \in T
  <2>1. n + 1 \in 1..(n + 1) /\ n + 1 > n /\ (n + 1) - 0 = n + 1 /\ 0 \in 0..n
    BY <1>1
  <2>2. f[n + 1] = LiveAt(m, n + 1)
    BY <1>2, <1>6, <2>1
  <2>3. \A i \in (n + 1)..n : FALSE
    BY <1>1
  <2>4. f[(n + 1) - 0] = LiveAt(m, (n + 1) - 0) /\ \A i \in ((n + 1) - 0)..n : f[i] = LiveAt(m, i)
    BY <2>1, <2>2, <2>3
  <2> QED
    BY <2>1, <2>4
<1>8. ASSUME NEW d \in 0..n, d < n, d \in T PROVE d + 1 \in T
  <2> DEFINE i == n - d
  <2>1. i \in 1..n /\ i = (n + 1) - (d + 1) /\ i + 1 = (n + 1) - d /\ i \in 1..(n + 1) /\ ~(i > n)
    BY <1>1, <1>8
  <2>2. f[i] = (f[i + 1] \ {m[i].result}) \cup m[i].operands
    BY <1>6, <2>1
  <2>3. LiveAt(m, i) = (LiveAt(m, i + 1) \ {m[i].result}) \cup m[i].operands
    BY <2>1, LiveUnfolds DEF n
  <2>4. f[i + 1] = LiveAt(m, i + 1)
    BY <1>8, <2>1
  <2>5. f[i] = LiveAt(m, i)
    BY <2>2, <2>3, <2>4
  <2>6. ASSUME NEW j \in i..n PROVE j = i \/ j \in (i + 1)..n
    <3> HIDE DEF n, i
    <3> QED
      BY <1>1, <2>1
  <2>7. \A j \in i..n : f[j] = LiveAt(m, j)
    BY <1>8, <2>1, <2>5, <2>6
  <2> QED
    BY <1>1, <1>8, <2>1, <2>5, <2>7
<1>9. n \in T
  <2> HIDE DEF T, n
  <2> QED
    BY <1>1, <1>7, <1>8, IntervalInduction
<1>10. \A i \in 1..n : f[i] = LiveAt(m, i)
  <2>1. (n + 1) - n = 1
    BY <1>1
  <2> QED
    BY <1>9, <2>1
<1> QED
  BY <1>1, <1>5, <1>10

LEMMA PassesFollow ==
  ASSUME Passes!PassesAssumption, PassesInv
  PROVE  Passes!TypeOK /\ Passes!AnalysesAreCurrent /\ Passes!PromisesKept /\ Passes!LiveIsUsedLater
<1>1. Passes!TypeOK
  <2>1. \A r, s \in records : r.kind = s.kind => r = s
    BY RecordFacts DEF PassesInv
  <2> QED
    BY <2>1 DEF Passes!TypeOK, PassesInv
<1>2. Passes!AnalysesAreCurrent
  <2>1. \A r \in records : r.of = working /\ r.entries = Passes!Compute(r.kind, working)
    BY RecordFacts DEF PassesInv
  <2> QED
    BY <2>1 DEF Passes!AnalysesAreCurrent, PassesInv, KindsOf
<1>3. Passes!LiveIsUsedLater
  <2> SUFFICES ASSUME Passes!VerifyModule(working), NEW i \in DOMAIN working PROVE Passes!Liveness(working)[i] = LiveAt(working, i)
    BY DEF Passes!LiveIsUsedLater, LiveAt, ResultsBefore, UsedFrom
  <2>1. working \in PassModules
    BY DEF PassesInv
  <2> QED
    BY <2>1, LivenessIs
<1> QED
  BY <1>1, <1>2, <1>3 DEF PassesInv

-----------------------------------------------------------------------------
CoreHolds == part = "core" => CoreInv
PassesHold == part = "passes" => PassesInv

(* A suffix resumed after a Python region computes what the whole execution   *)
(* does, every value a region reads is given out by the one that computes it  *)
(* (reference.py:268, region.py), and whatever passes rewrite and claim, the  *)
(* analyses held are those of the module in hand (analyses.py:308-360).       *)
THEOREM SuffixesAndAnalysesAgree == Spec => []RegionsAgree
<1>1. Init => CoreHolds /\ PassesHold
  <2>1. ASSUME Init, part = "core" PROVE CoreInv
    <3>1. Core!Init
      BY <2>1 DEF Init
    <3> QED
      BY <3>1, CompilerAssumption, CoreInitially
  <2>2. ASSUME Init, part = "passes" PROVE PassesInv
    <3>1. Passes!Init
      BY <2>2 DEF Init
    <3> QED
      BY <3>1, CompilerAssumption, PassesInitially
  <2> QED
    BY <2>1, <2>2 DEF CoreHolds, PassesHold
<1>2. CoreHolds /\ [Next]_vars => CoreHolds'
  <2> SUFFICES ASSUME CoreHolds, [Next]_vars, part' = "core" PROVE CoreInv'
    BY DEF CoreHolds
  <2>1. part' = part /\ (Core!Next \/ UNCHANGED coreVars)
    <3>1. CASE Next
      BY <3>1 DEF Next, BreakStep, CoreStep, PassesStep, RegionsStep, ReuseStep
    <3>2. CASE UNCHANGED vars
      BY <3>2 DEF vars
    <3> QED
      BY <3>1, <3>2
  <2>2. CoreInv /\ (Core!Next \/ UNCHANGED Core!vars)
    BY <2>1 DEF CoreHolds, coreVars, Core!vars
  <2> QED
    BY <2>2, CompilerAssumption, CoreNext
<1>3. PassesHold /\ [Next]_vars => PassesHold'
  <2> SUFFICES ASSUME PassesHold, [Next]_vars, part' = "passes" PROVE PassesInv'
    BY DEF PassesHold
  <2>1. part' = part /\ (Passes!Next \/ UNCHANGED passesVars)
    <3>1. CASE Next
      BY <3>1 DEF Next, BreakStep, CoreStep, PassesStep, RegionsStep, ReuseStep
    <3>2. CASE UNCHANGED vars
      BY <3>2 DEF vars
    <3> QED
      BY <3>1, <3>2
  <2>2. PassesInv /\ (Passes!Next \/ UNCHANGED Passes!vars)
    BY <2>1 DEF PassesHold, passesVars, Passes!vars
  <2> QED
    BY <2>2, CompilerAssumption, PassesNext
<1>4. CoreHolds /\ PassesHold => RegionsAgree
  <2>1. ASSUME CoreHolds, part = "core" PROVE Core!TypeOK /\ Core!ResumeAgrees /\ Core!RegionsSuffice
    <3>1. CoreInv
      BY <2>1 DEF CoreHolds
    <3> QED
      BY <3>1, CompilerAssumption, CoreResumesRight, CoreRegionsSuffice DEF CoreInv
  <2>2. ASSUME PassesHold, part = "passes"
        PROVE  /\ Passes!TypeOK /\ Passes!AnalysesAreCurrent
               /\ Passes!PromisesKept /\ Passes!LiveIsUsedLater
    <3>1. PassesInv
      BY <2>2 DEF PassesHold
    <3> QED
      BY <3>1, CompilerAssumption, PassesFollow
  <2> QED
    BY <2>1, <2>2 DEF RegionsAgree
<1> QED
  BY <1>1, <1>2, <1>3, <1>4, PTL DEF Spec

=============================================================================

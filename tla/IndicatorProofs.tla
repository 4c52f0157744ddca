--------------------------- MODULE IndicatorProofs ---------------------------
(***************************************************************************)
(* Proofs about the two services that work on indicators: Composer, which   *)
(* computes them, for any codes, formulas, catalog, prices and any size of  *)
(* the stack; and Forecaster, which forecasts them, for any goals,          *)
(* indicators and links and any bound on readings and failures.             *)
(*                                                                         *)
(* Both have a process pc with work todo.  Forecaster is an instance, F,    *)
(* with these two names in common with Composer and its other variables     *)
(* declared here.  Each theorem is about one specification and says nothing *)
(* of the other's variables.                                               *)
(***************************************************************************)
EXTENDS Composer, WellFoundedInduction, TLAPS

-----------------------------------------------------------------------------
\* An error, no answer and a number are told apart.
LEMMA NoFraction == Failed \notin Fraction /\ NoAnswer \notin Fraction
                    /\ Failed # NoAnswer
<1>1. \A f \in Fraction : f[1] \in Int
  BY DEF Fraction
<1>2. Len(Failed) = 1 /\ Len(NoAnswer) = 1 /\ \A f \in Fraction : Len(f) = 2
  BY DEF Failed, NoAnswer, Fraction
<1>3. Failed[1] # NoAnswer[1]
  BY DEF Failed, NoAnswer
<1> QED BY <1>2, <1>3

\* An integer is a fraction.
LEMMA NumberType == \A n \in Int : Number(n) \in Fraction
BY DEF Number, Fraction

\* Denominators stay other than zero.
LEMMA Product == \A m, n \in Int \ {0} : m * n \in Int \ {0}
OBVIOUS

\* Arithmetic on fractions gives a fraction or an error.
LEMMA CombineType ==
    ASSUME NEW op, NEW l \in Fraction, NEW r \in Fraction
    PROVE  Combine(op, l, r) \in Fraction \cup {Failed}
<1>1. PICK l1 \in Int, l2 \in Int \ {0} : l = <<l1, l2>>
  BY DEF Fraction
<1>2. PICK r1 \in Int, r2 \in Int \ {0} : r = <<r1, r2>>
  BY DEF Fraction
<1>3. l2 * r2 \in Int \ {0}
  BY Product
<1>4. r1 # 0 => l2 * r1 \in Int \ {0}
  BY Product
<1>5. l1 * r2 + r1 * l2 \in Int /\ l1 * r2 - r1 * l2 \in Int /\ l1 * r1 \in Int
      /\ l1 * r2 \in Int
  OBVIOUS
<1> DEFINE sum == <<l1 * r2 + r1 * l2, l2 * r2>>
           diff == <<l1 * r2 - r1 * l2, l2 * r2>>
           prod == <<l1 * r1, l2 * r2>>
           quot == <<l1 * r2, l2 * r1>>
<1>6. sum \in Fraction /\ diff \in Fraction /\ prod \in Fraction
      /\ (r1 # 0 => quot \in Fraction)
  BY <1>3, <1>4, <1>5 DEF Fraction
<1>7. Combine(op, l, r) \in {sum, diff, prod, Failed} \cup (IF r1 # 0 THEN {quot} ELSE {})
  <2> HIDE DEF Failed
  <2> QED BY <1>1, <1>2 DEF Combine
<1> QED BY <1>6, <1>7

\* A set of numbers that is not empty has a least one.
LEMMA Least ==
    ASSUME NEW T \in SUBSET Nat, T # {}
    PROVE  \E m \in T : \A k \in T : m <= k
<1>1. PICK m \in T : \A k \in T : <<k, m>> \notin OpToRel(<, Nat)
  BY WFMin, NatLessThanWellFounded, Zenon
<1>2. \A k \in T : ~ (k < m)
  BY <1>1, Zenon DEF OpToRel
<1> QED BY <1>2

-----------------------------------------------------------------------------
\* The recursion is well-defined.
Solves(P, n) ==
    P = [p \in Formulas \X (0 .. n) |->
           IF p[2] = 0 THEN {} ELSE Meaning(P, p[1], p[2] - 1)]

\* What a node means depends on the interpretation at that depth only.
LEMMA MeaningLocal ==
    ASSUME Parameters, TypeOK, NEW P, NEW Q, NEW node \in Formulas, NEW d \in Nat,
           \A n \in Formulas : P[<<n, d>>] = Q[<<n, d>>]
    PROVE  Meaning(P, node, d) = Meaning(Q, node, d)
<1>1. CASE node = Malformed
  BY <1>1 DEF Meaning, Malformed
<1>2. CASE node.kind = "scalar"
  BY <1>2 DEF Meaning
<1>3. CASE node.kind = "op" /\ {node.left, node.right} \subseteq Formulas
  <2>1. P[<<node.left, d>>] = Q[<<node.left, d>>]
        /\ P[<<node.right, d>>] = Q[<<node.right, d>>]
    BY <1>3
  <2> DEFINE F(A, B) == UNION {IF l = Failed THEN {Failed}
                               ELSE {IF r = Failed THEN Failed
                                     ELSE Combine(node.op, l, r) :
                                        r \in B} : l \in A}
  <2>2. Meaning(P, node, d) = F(P[<<node.left, d>>], P[<<node.right, d>>])
    BY <1>3 DEF Meaning
  <2>3. Meaning(Q, node, d) = F(Q[<<node.left, d>>], Q[<<node.right, d>>])
    BY <1>3 DEF Meaning
  <2> HIDE DEF F
  <2> QED BY <2>1, <2>2, <2>3
<1>4. CASE node.kind = "code" /\ node.code \in Codes
  <2> DEFINE c == node.code
             E(V, def) == CASE def = Missing /\ Catalog[c] = Direct -> Newest(c)
                    [] def = Direct \/ (def = Missing /\ Catalog[c] = Missing) -> {Failed}
                    [] OTHER -> V[<<IF def = Missing THEN Catalog[c] ELSE def, d>>]
  <2>1. Meaning(P, node, d) = UNION {E(P, def) : def \in sawDefs[c]}
    BY <1>4 DEF Meaning
  <2>2. Meaning(Q, node, d) = UNION {E(Q, def) : def \in sawDefs[c]}
    BY <1>4 DEF Meaning
  <2>3. ASSUME NEW def \in sawDefs[c] PROVE E(P, def) = E(Q, def)
    <3>1. def \in Formulas \cup {Missing, Direct}
          /\ Catalog[c] \in Formulas \cup {Missing, Direct}
      BY <1>4 DEF TypeOK, Parameters
    <3> HIDE DEF c
    <3>2. CASE def = Missing /\ Catalog[c] = Direct
      BY <3>2
    <3>3. CASE def = Direct \/ (def = Missing /\ Catalog[c] = Missing)
      BY <3>3 DEF Direct, Missing
    <3>4. CASE ~ (def = Missing /\ Catalog[c] = Direct)
               /\ ~ (def = Direct \/ (def = Missing /\ Catalog[c] = Missing))
      <4>1. (IF def = Missing THEN Catalog[c] ELSE def) \in Formulas
        BY <3>1, <3>4
      <4>2. P[<<IF def = Missing THEN Catalog[c] ELSE def, d>>]
               = Q[<<IF def = Missing THEN Catalog[c] ELSE def, d>>]
        BY <4>1
      <4> QED BY <3>4, <4>2
    <3> QED BY <3>2, <3>3, <3>4
  <2> HIDE DEF E
  <2> QED BY <2>1, <2>2, <2>3
<1> QED BY <1>1, <1>2, <1>3, <1>4 DEF Parameters

\* So there is a function that solves the recursion: if not, there would be a least
\* depth without one, and the solution for the depth before extends to it.
LEMMA PossibleExists ==
    ASSUME Parameters, TypeOK
    PROVE  \E P : Solves(P, MaxDepth)
<1> DEFINE T == {n \in 0 .. MaxDepth : ~ \E P : Solves(P, n)}
<1>1. SUFFICES ASSUME T # {} PROVE FALSE
  BY DEF Parameters
<1>2. T \in SUBSET Nat
  BY DEF Parameters
<1>3. PICK m \in T : \A k \in T : m <= k
  <2> HIDE DEF T
  <2> QED BY <1>1, <1>2, Least
<1>4. m \in Nat /\ m <= MaxDepth /\ ~ \E P : Solves(P, m)
  BY <1>3 DEF Parameters
<1>5. CASE m = 0
  <2> DEFINE P == [p \in Formulas \X (0 .. 0) |-> {}]
  <2>1. P = [p \in Formulas \X (0 .. 0) |->
               IF p[2] = 0 THEN {} ELSE Meaning(P, p[1], p[2] - 1)]
    OBVIOUS
  <2>2. Solves(P, 0)
    BY <2>1 DEF Solves
  <2> QED BY <1>4, <1>5, <2>2
<1>6. CASE m # 0
  <2>1. m - 1 \in Nat /\ m - 1 \notin T
    BY <1>3, <1>4, <1>6
  <2>2. PICK P : Solves(P, m - 1)
    BY <2>1, <1>4 DEF Parameters
  <2> DEFINE Q == [p \in Formulas \X (0 .. m) |->
                     IF p[2] = 0 THEN {} ELSE Meaning(P, p[1], p[2] - 1)]
  <2>3. ASSUME NEW n \in Formulas, NEW d \in 0 .. m - 1 PROVE P[<<n, d>>] = Q[<<n, d>>]
    <3>1. <<n, d>> \in Formulas \X (0 .. m - 1) /\ <<n, d>> \in Formulas \X (0 .. m)
      BY <1>4
    <3>2. P[<<n, d>>] = IF d = 0 THEN {} ELSE Meaning(P, n, d - 1)
      BY <2>2, <3>1 DEF Solves
    <3>3. Q[<<n, d>>] = IF d = 0 THEN {} ELSE Meaning(P, n, d - 1)
      BY <3>1
    <3> QED BY <3>2, <3>3
  <2>4. ASSUME NEW p \in Formulas \X (0 .. m), p[2] # 0
        PROVE  Meaning(P, p[1], p[2] - 1) = Meaning(Q, p[1], p[2] - 1)
    <3>1. p[1] \in Formulas /\ p[2] - 1 \in 0 .. m - 1 /\ p[2] - 1 \in Nat
      BY <2>4, <1>4
    <3>2. \A n \in Formulas : P[<<n, p[2] - 1>>] = Q[<<n, p[2] - 1>>]
      BY <3>1, <2>3
    <3> HIDE DEF Q
    <3> QED BY <3>1, <3>2, MeaningLocal
  <2>5. Q = [p \in Formulas \X (0 .. m) |->
               IF p[2] = 0 THEN {} ELSE Meaning(Q, p[1], p[2] - 1)]
    <3> DEFINE f(p) == IF p[2] = 0 THEN {} ELSE Meaning(P, p[1], p[2] - 1)
               g(p) == IF p[2] = 0 THEN {} ELSE Meaning(Q, p[1], p[2] - 1)
    <3>1. \A p \in Formulas \X (0 .. m) : f(p) = g(p)
      <4> HIDE DEF Q
      <4> QED BY <2>4
    <3>2. Q = [p \in Formulas \X (0 .. m) |-> f(p)]
      OBVIOUS
    <3> HIDE DEF f, g, Q
    <3>3. Q = [p \in Formulas \X (0 .. m) |-> g(p)]
      BY <3>1, <3>2
    <3> QED BY <3>3 DEF g
  <2>6. Solves(Q, m)
    BY <2>5, Zenon DEF Solves
  <2> QED BY <1>4, <2>6
<1> QED BY <1>5, <1>6

\* Possible, which is chosen to solve it, does.
LEMMA PossibleSolves ==
    ASSUME Parameters, TypeOK
    PROVE  Solves(Possible, MaxDepth)
<1>1. PICK P : Solves(P, MaxDepth)
  BY PossibleExists
<1>2. Possible = CHOOSE Q : Solves(Q, MaxDepth)
  BY Zenon DEF Possible, Solves
<1> QED BY <1>1, <1>2, Zenon

\* It is one of the interpretations the invariant speaks of.
LEMMA PossibleClosed ==
    ASSUME Parameters, TypeOK
    PROVE  Closed(Possible)
<1> SUFFICES ASSUME NEW node \in Formulas, NEW d \in 1 .. MaxDepth
             PROVE  Meaning(Possible, node, d - 1) = Possible[<<node, d>>]
  BY DEF Closed
<1>1. <<node, d>> \in Formulas \X (0 .. MaxDepth) /\ d # 0
  BY DEF Parameters
<1>2. Possible = [p \in Formulas \X (0 .. MaxDepth) |->
                    IF p[2] = 0 THEN {} ELSE Meaning(Possible, p[1], p[2] - 1)]
  BY PossibleSolves, Zenon DEF Solves
<1> HIDE DEF Possible
<1> QED BY <1>1, <1>2

-----------------------------------------------------------------------------
\* What a step leaves to do.
LEMMA ConcatShape ==
    ASSUME NEW X, NEW a \in Seq(X), NEW b \in Seq(X)
    PROVE  /\ a \o b \in Seq(X) /\ Len(a \o b) = Len(a) + Len(b)
           /\ \A i \in 1 .. Len(a \o b) :
                 (a \o b)[i] = IF i <= Len(a) THEN a[i] ELSE b[i - Len(a)]
OBVIOUS

\* Push: the nodes come first, at one depth, then what was left.
LEMMA PushShape ==
    ASSUME NEW X, NEW t \in Seq(X), t # <<>>, NEW Y, NEW nodes \in Seq(Y), NEW D,
           \A i \in 1 .. Len(nodes) : <<D, nodes[i]>> \in X,
           NEW u, u = [i \in DOMAIN nodes |-> <<D, nodes[i]>>] \o Tail(t)
    PROVE  /\ u \in Seq(X) /\ Len(u) = Len(nodes) + Len(t) - 1
           /\ \A i \in 1 .. Len(nodes) : u[i] = <<D, nodes[i]>>
           /\ \A i \in (Len(nodes) + 1) .. Len(u) : u[i] = t[i - Len(nodes) + 1]
<1> DEFINE h == [i \in DOMAIN nodes |-> <<D, nodes[i]>>]
<1>1. h \in Seq(X) /\ Len(h) = Len(nodes)
      /\ \A i \in 1 .. Len(nodes) : h[i] = <<D, nodes[i]>>
  OBVIOUS
<1>2. Tail(t) \in Seq(X) /\ Len(Tail(t)) = Len(t) - 1 /\ Len(t) >= 1
      /\ \A i \in 1 .. Len(t) - 1 : Tail(t)[i] = t[i + 1]
  OBVIOUS
<1>3. u = h \o Tail(t)
  OBVIOUS
<1> HIDE DEF h
<1>4. Len(nodes) \in Nat
  OBVIOUS
<1>5. u \in Seq(X) /\ Len(u) = Len(h) + Len(Tail(t))
      /\ \A i \in 1 .. Len(u) : u[i] = IF i <= Len(h) THEN h[i] ELSE Tail(t)[i - Len(h)]
  <2> DEFINE b == Tail(t)
  <2>1. h \in Seq(X) /\ b \in Seq(X) /\ u = h \o b
    BY <1>1, <1>2, <1>3
  <2> HIDE DEF b
  <2>2. /\ h \o b \in Seq(X) /\ Len(h \o b) = Len(h) + Len(b)
        /\ \A i \in 1 .. Len(h \o b) :
              (h \o b)[i] = IF i <= Len(h) THEN h[i] ELSE b[i - Len(h)]
    <3> HIDE <1>3
    <3> QED BY <2>1, ConcatShape, Zenon
  <2> QED BY <2>1, <2>2, Zenon DEF b
<1>6. ASSUME NEW i \in (Len(nodes) + 1) .. Len(u) PROVE u[i] = t[i - Len(nodes) + 1]
  <2>1. i - Len(nodes) \in 1 .. Len(t) - 1 /\ i \in 1 .. Len(u) /\ ~ (i <= Len(h))
    BY <1>1, <1>2, <1>4, <1>5
  <2> QED BY <2>1, <1>1, <1>2, <1>5
<1> QED BY <1>1, <1>2, <1>4, <1>5, <1>6

\* What is left after the first step.
LEMMA TailShape ==
    ASSUME NEW X, NEW t \in Seq(X), t # <<>>
    PROVE  /\ Tail(t) \in Seq(X) /\ Len(Tail(t)) = Len(t) - 1 /\ Len(t) \in Nat \ {0}
           /\ \A i \in 1 .. Len(t) - 1 : Tail(t)[i] = t[i + 1]
OBVIOUS

\* An operand that is put on the stack.
LEMMA ConsShape ==
    ASSUME NEW X, NEW s \in Seq(X), NEW v \in X
    PROVE  /\ <<v>> \o s \in Seq(X) /\ Len(<<v>> \o s) = Len(s) + 1
           /\ (<<v>> \o s)[1] = v /\ \A i \in 1 .. Len(s) : (<<v>> \o s)[i + 1] = s[i]
OBVIOUS

-----------------------------------------------------------------------------
\* What an interpretation gives each kind of node.
LEMMA LeafMeaning ==
    ASSUME Parameters, NEW V, Closed(V), NEW node \in Formulas, NEW d \in 1 .. MaxDepth
    PROVE  /\ node.kind = "malformed" => Failed \in V[<<node, d>>]
           /\ node.kind = "scalar" => Number(node.n) \in V[<<node, d>>]
<1>1. Meaning(V, node, d - 1) \subseteq V[<<node, d>>]
  BY DEF Closed
<1>2. node.kind = "malformed" => Meaning(V, node, d - 1) = {Failed}
  BY DEF Meaning
<1>3. node.kind = "scalar" => Meaning(V, node, d - 1) = {Number(node.n)}
  BY DEF Meaning
<1> QED BY <1>1, <1>2, <1>3

\* operations, where an error of the left operand ends it all,
LEMMA OpMeaning ==
    ASSUME Parameters, NEW V, Closed(V), NEW node \in Formulas, node.kind = "op",
           NEW d \in 1 .. MaxDepth, NEW l \in V[<<node.left, d - 1>>]
    PROVE  /\ l = Failed => Failed \in V[<<node, d>>]
           /\ l # Failed => \A r \in V[<<node.right, d - 1>>] :
                 (IF r = Failed THEN Failed ELSE Combine(node.op, l, r))
                    \in V[<<node, d>>]
<1>1. Meaning(V, node, d - 1) \subseteq V[<<node, d>>]
  BY DEF Closed
<1> DEFINE E(a) == IF a = Failed THEN {Failed}
                   ELSE {IF r = Failed THEN Failed ELSE Combine(node.op, a, r) :
                            r \in V[<<node.right, d - 1>>]}
<1>2. Meaning(V, node, d - 1) = UNION {E(a) : a \in V[<<node.left, d - 1>>]}
  BY DEF Meaning
<1>3. E(l) \subseteq V[<<node, d>>]
  <2> HIDE DEF E
  <2> QED BY <1>1, <1>2
<1> QED BY <1>3

\* and codes, by a definition the code had.
LEMMA CodeMeaning ==
    ASSUME Parameters, NEW V, Closed(V), NEW c \in Codes, NEW d \in 1 .. MaxDepth,
           NEW def \in sawDefs[c]
    PROVE  CASE def = Missing /\ Catalog[c] = Direct ->
                   Newest(c) \subseteq V[<<Code(c), d>>]
             [] def = Direct \/ (def = Missing /\ Catalog[c] = Missing) ->
                   Failed \in V[<<Code(c), d>>]
             [] OTHER ->
                   V[<<IF def = Missing THEN Catalog[c] ELSE def, d - 1>>]
                      \subseteq V[<<Code(c), d>>]
<1> DEFINE E(f) == CASE f = Missing /\ Catalog[c] = Direct -> Newest(c)
                     [] f = Direct \/ (f = Missing /\ Catalog[c] = Missing) -> {Failed}
                     [] OTHER -> V[<<IF f = Missing THEN Catalog[c] ELSE f, d - 1>>]
<1>1. Code(c) \in Formulas /\ Code(c).kind = "code" /\ Code(c).code = c
  BY DEF Parameters, Code
<1>2. Meaning(V, Code(c), d - 1) \subseteq V[<<Code(c), d>>]
  BY <1>1 DEF Closed
<1>3. Meaning(V, Code(c), d - 1) = UNION {E(f) : f \in sawDefs[c]}
  BY <1>1 DEF Meaning
<1>4. E(def) \subseteq V[<<Code(c), d>>]
  <2> HIDE DEF E
  <2> QED BY <1>2, <1>3
<1>5. Direct # Missing
  BY DEF Direct, Missing
<1>6. CASE def = Missing /\ Catalog[c] = Direct
  BY <1>4, <1>6
<1>7. CASE def = Direct \/ (def = Missing /\ Catalog[c] = Missing)
  BY <1>4, <1>5, <1>7
<1>8. CASE ~ (def = Missing /\ Catalog[c] = Direct)
           /\ ~ (def = Direct \/ (def = Missing /\ Catalog[c] = Missing))
  BY <1>4, <1>8
<1> QED BY <1>6, <1>7, <1>8

\* The nodes there are, and what each kind refers to.
LEMMA NodeKinds ==
    ASSUME Parameters, NEW n \in Nodes
    PROVE  /\ n.kind \in {"malformed", "scalar", "code", "op",
                         "catalog", "reading", "apply"}
           /\ n.kind \in {"malformed", "scalar", "code", "op"} =>
                 n \in Formulas /\ Source(n) = n
           /\ n.kind = "scalar" => n.n \in Int
           /\ n.kind = "code" => n = Code(n.code) /\ n.code \in Codes
           /\ n.kind = "op" => /\ n.left \in Formulas /\ n.right \in Formulas
                               /\ [kind |-> "apply", op |-> n.op] \in Nodes
           /\ n.kind \in {"catalog", "reading"} =>
                 n.code \in Codes /\ Source(n) = Code(n.code)
<1>1. CASE n \in Formulas
  BY <1>1 DEF Parameters, Nodes, Source, Malformed
<1>2. CASE n \in [kind : {"catalog", "reading"}, code : Codes]
  BY <1>2 DEF Source
<1>3. CASE \E f \in Formulas : n = [kind |-> "apply", op |-> f.op]
  BY <1>3
<1> QED BY <1>1, <1>2, <1>3 DEF Nodes

\* A formula is a node of its own.
LEMMA FormulaNodes ==
    ASSUME Parameters, NEW f \in Formulas
    PROVE  f \in Nodes /\ f.kind \in {"malformed", "scalar", "code", "op"}
           /\ Source(f) = f
BY DEF Parameters, Nodes, Source, Malformed

-----------------------------------------------------------------------------
\* The conditions on one step of the work, by its kind.
StepOK(V, n, f, before, after) ==
    \A s \in before :
       IF n.kind = "apply"
       THEN LET v == Combine(n.op, s[2], s[1]) IN
               /\ Len(s) >= 2
               /\ IF v = Failed THEN Justified(V, Failed)
                  ELSE <<v>> \o SubSeq(s, 3, Len(s)) \in after
       ELSE \A v \in V[<<Source(n), f>>] :
               /\ v = Failed => Justified(V, Failed)
               /\ v \in Fraction => <<v>> \o s \in after

\* The witness, step by step.
LEMMA AcceptsSteps ==
    ASSUME NEW V, NEW stacks, NEW fuel
    PROVE  Accepts(V, stacks, fuel) <=>
             /\ fuel \in [DOMAIN todo -> 0 .. MaxDepth]
             /\ \A i \in DOMAIN todo : fuel[i] + todo[i][1] > MaxDepth
             /\ stacks \in [0 .. Len(todo) -> SUBSET Seq(Fraction)]
             /\ values \in stacks[0]
             /\ \A s \in stacks[Len(todo)] : Len(s) = 1 /\ Justified(V, s[1])
             /\ \A i \in DOMAIN todo :
                   StepOK(V, todo[i][2], fuel[i], stacks[i - 1], stacks[i])
BY DEF Accepts, StepOK

\* It is enough to find stacks and fuel for the steps of the next state.
LEMMA AcceptsNext ==
    ASSUME NEW V, NEW stacks, NEW fuel, UNCHANGED asked,
           fuel \in [DOMAIN todo' -> 0 .. MaxDepth],
           \A i \in DOMAIN todo' : fuel[i] + todo'[i][1] > MaxDepth,
           stacks \in [0 .. Len(todo') -> SUBSET Seq(Fraction)],
           values' \in stacks[0],
           \A s \in stacks[Len(todo')] : Len(s) = 1 /\ Justified(V, s[1]),
           \A i \in DOMAIN todo' :
              StepOK(V, todo'[i][2], fuel[i], stacks[i - 1], stacks[i])
    PROVE  Accepts(V, stacks, fuel)'
<1>1. \A a : Justified(V, a)' = Justified(V, a)
  BY DEF Justified
<1> QED BY <1>1 DEF Accepts, StepOK

\* One node replaces the one in hand, a level deeper.
LEMMA PushOneShape ==
    ASSUME Parameters, TypeOK, todo # <<>>, Depth <= MaxDepth, NEW n \in Nodes, Push(<<n>>)
    PROVE  /\ todo' \in Seq((1 .. MaxDepth + 1) \X Nodes)
           /\ Len(todo') = Len(todo) /\ todo'[1] = <<Depth + 1, n>>
           /\ \A i \in 2 .. Len(todo) : todo'[i] = todo[i]
<1> DEFINE X == (1 .. MaxDepth + 1) \X Nodes
           nodes == <<n>>
           D == Depth + 1
<1>1. todo \in Seq(X) /\ Len(todo) \in Nat \ {0} /\ todo[1] \in X
  BY DEF TypeOK
<1>2. <<D, n>> \in X
  BY <1>1 DEF Depth, Parameters
<1>3. nodes \in Seq(Nodes) /\ Len(nodes) = 1 /\ nodes[1] = n
  OBVIOUS
<1>4. todo' = [i \in DOMAIN nodes |-> <<D, nodes[i]>>] \o Tail(todo)
  BY DEF Push
<1>5. \A i \in 1 .. Len(nodes) : <<D, nodes[i]>> \in X
  BY <1>2, <1>3
<1> HIDE DEF nodes, D, X
<1>6. /\ todo' \in Seq(X) /\ Len(todo') = Len(nodes) + Len(todo) - 1
      /\ \A i \in 1 .. Len(nodes) : todo'[i] = <<D, nodes[i]>>
      /\ \A i \in (Len(nodes) + 1) .. Len(todo') : todo'[i] = todo[i - Len(nodes) + 1]
  BY <1>1, <1>3, <1>4, <1>5, PushShape
<1> QED BY <1>1, <1>3, <1>6 DEF D, X

\* A step is replaced by one that looks further, with no more values than it had.
LEMMA Replace ==
    ASSUME Parameters, TypeOK, todo # <<>>, Depth <= MaxDepth, Node.kind # "apply",
           NEW V, NEW stacks, NEW fuel, Accepts(V, stacks, fuel),
           NEW n \in Nodes, n.kind # "apply", NEW f \in 0 .. MaxDepth,
           f + Depth + 1 > MaxDepth,
           V[<<Source(n), f>>] \subseteq V[<<Source(Node), fuel[1]>>],
           Push(<<n>>), UNCHANGED asked
    PROVE  /\ todo' \in Seq((1 .. MaxDepth + 1) \X Nodes)
           /\ Len(todo') = Len(todo) /\ todo'[1] = <<Depth + 1, n>>
           /\ \A i \in 2 .. Len(todo) : todo'[i] = todo[i]
           /\ Accepts(V, stacks, [fuel EXCEPT ![1] = f])'
<1> DEFINE X == (1 .. MaxDepth + 1) \X Nodes
           fu == [fuel EXCEPT ![1] = f]
<1>1. todo \in Seq(X) /\ Len(todo) \in Nat \ {0} /\ DOMAIN todo = 1 .. Len(todo)
  BY DEF TypeOK
<1>2. todo[1] \in X
  BY <1>1
<1>3. Depth \in 1 .. MaxDepth /\ MaxDepth \in Nat /\ Node = todo[1][2]
  BY <1>2 DEF Depth, Node, Parameters
<1>4. /\ todo' \in Seq(X) /\ Len(todo') = Len(todo) /\ todo'[1] = <<Depth + 1, n>>
      /\ \A i \in 2 .. Len(todo) : todo'[i] = todo[i]
  BY PushOneShape
<1>5. values' = values
  BY DEF Push
<1>6. DOMAIN todo' = 1 .. Len(todo) /\ DOMAIN todo' = DOMAIN todo
  BY <1>1, <1>4
<1>7. /\ fuel \in [DOMAIN todo -> 0 .. MaxDepth]
      /\ \A i \in DOMAIN todo : fuel[i] + todo[i][1] > MaxDepth
      /\ stacks \in [0 .. Len(todo) -> SUBSET Seq(Fraction)]
      /\ values \in stacks[0]
      /\ \A s \in stacks[Len(todo)] : Len(s) = 1 /\ Justified(V, s[1])
      /\ \A i \in DOMAIN todo : StepOK(V, todo[i][2], fuel[i], stacks[i - 1], stacks[i])
  BY AcceptsSteps
<1>8. fu \in [DOMAIN todo' -> 0 .. MaxDepth] /\ fu[1] = f
      /\ \A i \in 2 .. Len(todo) : fu[i] = fuel[i]
  BY <1>1, <1>6, <1>7
<1>9. ASSUME NEW i \in DOMAIN todo' PROVE fu[i] + todo'[i][1] > MaxDepth
  <2>1. CASE i = 1
    BY <2>1, <1>3, <1>4, <1>8
  <2>2. CASE i # 1
    <3>1. i \in 2 .. Len(todo)
      BY <1>1, <1>6, <2>2
    <3> QED BY <3>1, <1>1, <1>4, <1>7, <1>8
  <2> QED BY <2>1, <2>2
<1>10. ASSUME NEW i \in DOMAIN todo'
       PROVE  StepOK(V, todo'[i][2], fu[i], stacks[i - 1], stacks[i])
  <2>1. CASE i = 1
    <3>1. 1 \in DOMAIN todo /\ 1 - 1 = 0
      BY <1>1
    <3>2. StepOK(V, todo[1][2], fuel[1], stacks[1 - 1], stacks[1])
      BY <3>1, <1>7, Zenon
    <3>3. StepOK(V, Node, fuel[1], stacks[0], stacks[1])
      BY <3>1, <3>2, <1>3
    <3>4. todo'[i][2] = n /\ fu[i] = f /\ i - 1 = 0
      BY <2>1, <1>4, <1>8
    <3>5. StepOK(V, n, f, stacks[0], stacks[1])
      BY <3>3 DEF StepOK
    <3> QED BY <2>1, <3>4, <3>5
  <2>2. CASE i # 1
    <3>1. i \in 2 .. Len(todo) /\ i \in DOMAIN todo
      BY <1>1, <1>6, <2>2
    <3> QED BY <3>1, <1>4, <1>7, <1>8
  <2> QED BY <2>1, <2>2
<1>11. Accepts(V, stacks, fu)'
  <2> HIDE DEF fu
  <2> QED BY <1>4, <1>5, <1>6, <1>7, <1>8, <1>9, <1>10, AcceptsNext
<1> QED BY <1>4, <1>11

\* A step that is done leaves its operand for the rest.
LEMMA Shift ==
    ASSUME Parameters, TypeOK, todo # <<>>,
           NEW V, NEW stacks, NEW fuel, Accepts(V, stacks, fuel),
           todo' = Tail(todo), values' \in stacks[1], UNCHANGED asked
    PROVE  /\ todo' \in Seq((1 .. MaxDepth + 1) \X Nodes) /\ Len(todo') = Len(todo) - 1
           /\ \A i \in 1 .. Len(todo) - 1 : todo'[i] = todo[i + 1]
           /\ \E st, fu : Accepts(V, st, fu)'
<1> DEFINE X == (1 .. MaxDepth + 1) \X Nodes
           st == [i \in 0 .. Len(todo) - 1 |-> stacks[i + 1]]
           fu == [i \in 1 .. Len(todo) - 1 |-> fuel[i + 1]]
<1>1. todo \in Seq(X) /\ Len(todo) \in Nat \ {0} /\ DOMAIN todo = 1 .. Len(todo)
  BY DEF TypeOK
<1>2. /\ todo' \in Seq(X) /\ Len(todo') = Len(todo) - 1
      /\ \A i \in 1 .. Len(todo) - 1 : todo'[i] = todo[i + 1]
  <2> HIDE DEF X
  <2> QED BY <1>1, TailShape
<1>3. DOMAIN todo' = 1 .. Len(todo) - 1
  BY <1>2
<1>4. /\ fuel \in [DOMAIN todo -> 0 .. MaxDepth]
      /\ \A i \in DOMAIN todo : fuel[i] + todo[i][1] > MaxDepth
      /\ stacks \in [0 .. Len(todo) -> SUBSET Seq(Fraction)]
      /\ \A s \in stacks[Len(todo)] : Len(s) = 1 /\ Justified(V, s[1])
      /\ \A i \in DOMAIN todo : StepOK(V, todo[i][2], fuel[i], stacks[i - 1], stacks[i])
  BY AcceptsSteps
<1>5. fu \in [DOMAIN todo' -> 0 .. MaxDepth]
  BY <1>1, <1>3, <1>4
<1>6. st \in [0 .. Len(todo') -> SUBSET Seq(Fraction)]
  BY <1>1, <1>2, <1>4
<1>7. st[0] = stacks[1] /\ st[Len(todo')] = stacks[Len(todo)]
  BY <1>1, <1>2
<1>8. ASSUME NEW i \in DOMAIN todo'
      PROVE  fu[i] + todo'[i][1] > MaxDepth
             /\ StepOK(V, todo'[i][2], fu[i], st[i - 1], st[i])
  <2>1. i \in 1 .. Len(todo) - 1 /\ i + 1 \in DOMAIN todo /\ (i + 1) - 1 = i
    BY <1>1, <1>3
  <2>2. fu[i] = fuel[i + 1] /\ todo'[i] = todo[i + 1] /\ st[i - 1] = stacks[i]
        /\ st[i] = stacks[i + 1]
    BY <1>1, <1>2, <2>1
  <2>3. StepOK(V, todo[i + 1][2], fuel[i + 1], stacks[(i + 1) - 1], stacks[i + 1])
        /\ fuel[i + 1] + todo[i + 1][1] > MaxDepth
    BY <1>4, <2>1, Zenon
  <2> HIDE DEF st, fu
  <2> QED BY <2>1, <2>2, <2>3
<1>9. PICK a, b : a = st /\ b = fu
  OBVIOUS
<1>10. Accepts(V, a, b)'
  <2>1. values' \in a[0] /\ \A s \in a[Len(todo')] : Len(s) = 1 /\ Justified(V, s[1])
    BY <1>4, <1>7, <1>9
  <2>2. \A i \in DOMAIN todo' : b[i] + todo'[i][1] > MaxDepth
    BY <1>8, <1>9
  <2>3. \A i \in DOMAIN todo' : StepOK(V, todo'[i][2], b[i], a[i - 1], a[i])
    BY <1>8, <1>9
  <2>4. b \in [DOMAIN todo' -> 0 .. MaxDepth]
        /\ a \in [0 .. Len(todo') -> SUBSET Seq(Fraction)]
    BY <1>5, <1>6, <1>9
  <2> QED BY <2>1, <2>2, <2>3, <2>4, AcceptsNext
<1> QED BY <1>2, <1>10

\* What a step with the operands in hand gives, by the kind of the node.
LEMMA FirstStep ==
    ASSUME Parameters, TypeOK, todo # <<>>, Depth <= MaxDepth,
           NEW V, NEW stacks, NEW fuel, Accepts(V, stacks, fuel)
    PROVE  /\ Node \in Nodes /\ Depth \in 1 .. MaxDepth /\ fuel[1] \in 1 .. MaxDepth
           /\ fuel[1] + Depth > MaxDepth
           /\ values \in Seq(Fraction) /\ values \in stacks[0]
           /\ StepOK(V, Node, fuel[1], stacks[0], stacks[1])
<1>1. todo \in Seq((1 .. MaxDepth + 1) \X Nodes) /\ 1 \in DOMAIN todo /\ 1 - 1 = 0
  BY DEF TypeOK
<1>2. todo[1] \in (1 .. MaxDepth + 1) \X Nodes
  BY <1>1
<1>3. Node \in Nodes /\ Node = todo[1][2] /\ Depth = todo[1][1] /\ Depth \in 1 .. MaxDepth
      /\ MaxDepth \in Nat
  BY <1>2 DEF Node, Depth, Parameters
<1>4. /\ fuel \in [DOMAIN todo -> 0 .. MaxDepth] /\ fuel[1] + todo[1][1] > MaxDepth
      /\ values \in stacks[0]
      /\ StepOK(V, todo[1][2], fuel[1], stacks[1 - 1], stacks[1])
  BY <1>1, AcceptsSteps, Zenon
<1>5. fuel[1] \in 0 .. MaxDepth
  BY <1>1, <1>4
<1>6. values \in Seq(Fraction)
  BY DEF TypeOK
<1>7. StepOK(V, Node, fuel[1], stacks[0], stacks[1])
  BY <1>1, <1>3, <1>4
<1> QED BY <1>3, <1>4, <1>5, <1>6, <1>7

\* An operation: stacks for its left operand, both operands, and its result are put
\* before those of the rest.
LEMMA PushOp ==
    ASSUME Parameters, TypeOK, todo # <<>>, Depth <= MaxDepth, Node.kind = "op",
           NEW V, Closed(V), NEW stacks, NEW fuel, Accepts(V, stacks, fuel),
           Push(<<Node.left, Node.right, [kind |-> "apply", op |-> Node.op]>>),
           UNCHANGED asked
    PROVE  /\ todo' \in Seq((1 .. MaxDepth + 1) \X Nodes) /\ Len(todo') = Len(todo) + 2
           /\ todo'[1] = <<Depth + 1, Node.left>> /\ todo'[2] = <<Depth + 1, Node.right>>
           /\ todo'[3] = <<Depth + 1, [kind |-> "apply", op |-> Node.op]>>
           /\ \A i \in 4 .. Len(todo) + 2 : todo'[i] = todo[i - 2]
           /\ \E st, fu : Accepts(V, st, fu)'
<1> DEFINE X == (1 .. MaxDepth + 1) \X Nodes
           ap == [kind |-> "apply", op |-> Node.op]
           f == fuel[1]
           S1 == {<<l>> \o values : l \in V[<<Node.left, f - 1>>] \cap Fraction}
           S2 == {<<r>> \o s : s \in S1, r \in V[<<Node.right, f - 1>>] \cap Fraction}
           st == [i \in 0 .. Len(todo) + 2 |->
                     CASE i = 0 -> {values} [] i = 1 -> S1 [] i = 2 -> S2
                       [] OTHER -> stacks[i - 2]]
           fu == [i \in 1 .. Len(todo) + 2 |-> IF i <= 3 THEN f - 1 ELSE fuel[i - 2]]
<1>1. todo \in Seq(X) /\ Len(todo) \in Nat \ {0} /\ DOMAIN todo = 1 .. Len(todo)
  BY DEF TypeOK
<1>2. /\ Node \in Nodes /\ Depth \in 1 .. MaxDepth /\ f \in 1 .. MaxDepth
      /\ f + Depth > MaxDepth
      /\ values \in Seq(Fraction) /\ values \in stacks[0]
      /\ StepOK(V, Node, f, stacks[0], stacks[1])
  BY FirstStep
<1>3. MaxDepth \in Nat
  BY DEF Parameters
<1>4. Node.left \in Formulas /\ Node.right \in Formulas /\ ap \in Nodes
      /\ Node \in Formulas /\ Source(Node) = Node
  BY <1>2, NodeKinds
<1>5. /\ Node.left \in Nodes /\ Node.right \in Nodes
      /\ Node.left.kind # "apply" /\ Node.right.kind # "apply"
      /\ Source(Node.left) = Node.left /\ Source(Node.right) = Node.right
  BY <1>4, FormulaNodes
<1>6. /\ todo' \in Seq(X) /\ Len(todo') = Len(todo) + 2
      /\ todo'[1] = <<Depth + 1, Node.left>> /\ todo'[2] = <<Depth + 1, Node.right>>
      /\ todo'[3] = <<Depth + 1, ap>>
      /\ \A i \in 4 .. Len(todo) + 2 : todo'[i] = todo[i - 2]
  <2> DEFINE nodes == <<Node.left, Node.right, ap>> D == Depth + 1
  <2>1. nodes \in Seq(Nodes) /\ Len(nodes) = 3
        /\ nodes[1] = Node.left /\ nodes[2] = Node.right /\ nodes[3] = ap
    BY <1>4, <1>5
  <2>2. todo' = [i \in DOMAIN nodes |-> <<D, nodes[i]>>] \o Tail(todo)
    BY DEF Push
  <2>3. \A i \in 1 .. Len(nodes) : <<D, nodes[i]>> \in X
    <3>1. D \in 1 .. MaxDepth + 1
      BY <1>2, <1>3
    <3>2. \A i \in 1 .. Len(nodes) : nodes[i] \in Nodes
      BY <2>1
    <3> QED BY <3>1, <3>2
  <2> HIDE DEF nodes, D, X, ap
  <2>4. /\ todo' \in Seq(X) /\ Len(todo') = Len(nodes) + Len(todo) - 1
        /\ \A i \in 1 .. Len(nodes) : todo'[i] = <<D, nodes[i]>>
        /\ \A i \in (Len(nodes) + 1) .. Len(todo') : todo'[i] = todo[i - Len(nodes) + 1]
    BY <1>1, <2>1, <2>2, <2>3, PushShape
  <2>5. todo'[1] = <<D, Node.left>> /\ todo'[2] = <<D, Node.right>>
        /\ todo'[3] = <<D, ap>>
    BY <2>1, <2>4
  <2>6. Len(todo') = Len(todo) + 2 /\ \A i \in 4 .. Len(todo) + 2 : todo'[i] = todo[i - 2]
    BY <1>1, <2>1, <2>4
  <2> QED BY <2>4, <2>5, <2>6 DEF D
<1>7. DOMAIN todo' = 1 .. Len(todo) + 2
  BY <1>1, <1>6
<1>8. /\ fuel \in [DOMAIN todo -> 0 .. MaxDepth]
      /\ \A i \in DOMAIN todo : fuel[i] + todo[i][1] > MaxDepth
      /\ stacks \in [0 .. Len(todo) -> SUBSET Seq(Fraction)]
      /\ \A s \in stacks[Len(todo)] : Len(s) = 1 /\ Justified(V, s[1])
      /\ \A i \in DOMAIN todo : StepOK(V, todo[i][2], fuel[i], stacks[i - 1], stacks[i])
  BY AcceptsSteps
<1>9. /\ f = fuel[1]
      /\ \A s : s \in S1 <=> \E l \in V[<<Node.left, f - 1>>] \cap Fraction :
            s = <<l>> \o values
      /\ \A s : s \in S2 <=> \E q \in S1, r \in V[<<Node.right, f - 1>>] \cap Fraction :
         s = <<r>> \o q
  <2>1. \A s : s \in S1 <=> \E l \in V[<<Node.left, f - 1>>] \cap Fraction :
           s = <<l>> \o values
    OBVIOUS
  <2>2. \A s : s \in S2 <=> \E q \in S1, r \in V[<<Node.right, f - 1>>] \cap Fraction :
        s = <<r>> \o q
    <3> HIDE DEF S1, f
    <3> QED OBVIOUS
  <2> QED BY <2>1, <2>2
<1> HIDE DEF f, S1, S2
<1>10. /\ fu \in [DOMAIN todo' -> 0 .. MaxDepth]
       /\ \A i \in 1 .. Len(todo) + 2 : fu[i] = IF i <= 3 THEN f - 1 ELSE fuel[i - 2]
  <2>1. ASSUME NEW i \in 1 .. Len(todo) + 2
        PROVE  (IF i <= 3 THEN f - 1 ELSE fuel[i - 2]) \in 0 .. MaxDepth
    <3>1. CASE i <= 3
      BY <3>1, <1>2, <1>3
    <3>2. CASE ~ (i <= 3)
      <4>1. i - 2 \in DOMAIN todo
        BY <3>2, <1>1
      <4> QED BY <3>2, <4>1, <1>8
    <3> QED BY <3>1, <3>2
  <2> QED BY <2>1, <1>7
<1>11. (\A s \in S1 : s \in Seq(Fraction)) /\ (\A s \in S2 : s \in Seq(Fraction))
  <2>1. ASSUME NEW s \in S1 PROVE s \in Seq(Fraction)
    <3>1. PICK l \in Fraction : s = <<l>> \o values
      BY <1>9
    <3> QED BY <3>1, <1>2, ConsShape
  <2>2. ASSUME NEW s \in S2 PROVE s \in Seq(Fraction)
    <3>1. PICK q \in S1, r \in Fraction : s = <<r>> \o q
      BY <1>9
    <3> QED BY <3>1, <2>1, ConsShape
  <2> QED BY <2>1, <2>2
<1>12. st[0] = {values} /\ st[1] = S1 /\ st[2] = S2
       /\ \A i \in 3 .. Len(todo) + 2 : st[i] = stacks[i - 2]
  <2>1. \A i \in 0 .. Len(todo) + 2 :
           st[i] = CASE i = 0 -> {values} [] i = 1 -> S1 [] i = 2 -> S2
                     [] OTHER -> stacks[i - 2]
    OBVIOUS
  <2>2. {0, 1, 2} \subseteq 0 .. Len(todo) + 2 /\ \A i \in 3 .. Len(todo) + 2 :
           i \in 0 .. Len(todo) + 2 /\ i # 0 /\ i # 1 /\ i # 2
    BY <1>1
  <2> HIDE DEF st
  <2>3. st[0] = {values}
    BY <2>1, <2>2
  <2>4. st[1] = S1
    BY <2>1, <2>2
  <2>5. st[2] = S2
    BY <2>1, <2>2
  <2>6. ASSUME NEW i \in 3 .. Len(todo) + 2 PROVE st[i] = stacks[i - 2]
    BY <2>1, <2>2
  <2> QED BY <2>3, <2>4, <2>5, <2>6
<1>13. st \in [0 .. Len(todo') -> SUBSET Seq(Fraction)]
  <2>1. ASSUME NEW i \in 0 .. Len(todo) + 2 PROVE st[i] \in SUBSET Seq(Fraction)
    <3>1. i = 0 \/ i = 1 \/ i = 2
          \/ (i \in 3 .. Len(todo) + 2 /\ i - 2 \in 0 .. Len(todo))
      BY <1>1
    <3> HIDE DEF st
    <3> QED BY <3>1, <1>2, <1>8, <1>11, <1>12
  <2>2. st = [i \in 0 .. Len(todo') |-> st[i]]
    BY <1>6
  <2> HIDE DEF st
  <2> QED BY <1>6, <2>1, <2>2
<1> HIDE DEF st, fu, ap
<1>14. Failed \in V[<<Node, f>>] => Justified(V, Failed)
  BY <1>2, <1>4 DEF StepOK
<1>15. \A v \in V[<<Node, f>>] \cap Fraction : <<v>> \o values \in stacks[1]
  BY <1>2, <1>4 DEF StepOK
<1>16. StepOK(V, Node.left, f - 1, st[0], st[1])
  <2>1. Failed \in V[<<Node.left, f - 1>>] => Justified(V, Failed)
    BY <1>2, <1>4, <1>14, OpMeaning
  <2>2. \A v \in V[<<Node.left, f - 1>>] \cap Fraction : <<v>> \o values \in S1
    BY <1>9
  <2> QED BY <1>5, <1>12, <2>1, <2>2 DEF StepOK
<1>17. StepOK(V, Node.right, f - 1, st[1], st[2])
  <2>1. ASSUME NEW s \in S1, Failed \in V[<<Node.right, f - 1>>]
        PROVE  Justified(V, Failed)
    <3>1. PICK l \in V[<<Node.left, f - 1>>] \cap Fraction : s = <<l>> \o values
      BY <1>9
    <3>2. l # Failed
      BY NoFraction
    <3>3. Failed \in V[<<Node, f>>]
      BY <1>2, <1>4, <2>1, <3>2, OpMeaning
    <3> QED BY <3>3, <1>14
  <2>2. \A s \in S1, v \in V[<<Node.right, f - 1>>] \cap Fraction : <<v>> \o s \in S2
    BY <1>9
  <2> QED BY <1>5, <1>12, <2>1, <2>2 DEF StepOK
<1>18. StepOK(V, ap, f - 1, st[2], st[3])
  <2> SUFFICES ASSUME NEW t \in S2
               PROVE  LET v == Combine(Node.op, t[2], t[1]) IN
                         /\ Len(t) >= 2
                         /\ IF v = Failed THEN Justified(V, Failed)
                            ELSE <<v>> \o SubSeq(t, 3, Len(t)) \in stacks[1]
    <3>1. 3 \in 3 .. Len(todo) + 2 /\ 3 - 2 = 1
      BY <1>1
    <3>2. st[3] = stacks[1] /\ st[2] = S2
      BY <3>1, <1>12
    <3>3. ap.kind = "apply" /\ ap.op = Node.op
      BY DEF ap
    <3> QED BY <3>2, <3>3 DEF StepOK
  <2>1. PICK q \in S1, r \in V[<<Node.right, f - 1>>] \cap Fraction : t = <<r>> \o q
    BY <1>9
  <2>2. PICK l \in V[<<Node.left, f - 1>>] \cap Fraction : t = <<r>> \o (<<l>> \o values)
    BY <1>9, <2>1
  <2> DEFINE v == Combine(Node.op, l, r)
  <2>3. /\ t[1] = r /\ t[2] = l /\ Len(t) = Len(values) + 2 /\ Len(t) >= 2
        /\ SubSeq(t, 3, Len(t)) = values
    BY <1>2, <2>2
  <2>4. l # Failed /\ r # Failed
    BY NoFraction
  <2>5. v \in V[<<Node, f>>]
    BY <1>2, <1>4, <2>4, OpMeaning
  <2>6. v \in Fraction \cup {Failed}
    BY CombineType
  <2> HIDE DEF v
  <2>7. IF v = Failed THEN Justified(V, Failed) ELSE <<v>> \o values \in stacks[1]
    BY <2>5, <2>6, <1>14, <1>15
  <2> QED BY <2>3, <2>7 DEF v
<1>19. ASSUME NEW i \in DOMAIN todo'
       PROVE  fu[i] + todo'[i][1] > MaxDepth
              /\ StepOK(V, todo'[i][2], fu[i], st[i - 1], st[i])
  <2>1. CASE i \in {1, 2, 3}
    <3>1. i \in 1 .. Len(todo) + 2 /\ i <= 3
      BY <2>1, <1>7
    <3>2. fu[i] = f - 1 /\ todo'[i][1] = Depth + 1
      BY <2>1, <3>1, <1>6, <1>10
    <3>3. fu[i] + todo'[i][1] > MaxDepth
      BY <3>2, <1>2, <1>3
    <3>4. CASE i = 1
      <4>1. i - 1 = 0 /\ todo'[i][2] = Node.left
        BY <3>4, <1>6
      <4> QED BY <4>1, <3>3, <3>4, <3>2, <1>12, <1>16
    <3>5. CASE i = 2
      BY <3>3, <3>5, <3>2, <1>6, <1>12, <1>17
    <3>6. CASE i = 3
      BY <3>3, <3>6, <3>2, <1>6, <1>12, <1>18
    <3> QED BY <2>1, <3>4, <3>5, <3>6
  <2>2. CASE i \notin {1, 2, 3}
    <3>1. i \in 4 .. Len(todo) + 2 /\ i - 2 \in DOMAIN todo /\ i \in 3 .. Len(todo) + 2
          /\ i - 1 \in 3 .. Len(todo) + 2 /\ (i - 1) - 2 = (i - 2) - 1
      BY <1>1, <1>7, <2>2
    <3>2. fu[i] = fuel[i - 2] /\ todo'[i] = todo[i - 2]
          /\ st[i - 1] = stacks[(i - 1) - 2] /\ st[i] = stacks[i - 2]
      BY <3>1, <1>6, <1>7, <1>10, <1>12
    <3>3. StepOK(V, todo[i - 2][2], fuel[i - 2], stacks[(i - 2) - 1], stacks[i - 2])
          /\ fuel[i - 2] + todo[i - 2][1] > MaxDepth
      BY <3>1, <1>8, Zenon
    <3> QED BY <3>1, <3>2, <3>3
  <2> QED BY <2>1, <2>2
<1>20. st[Len(todo')] = stacks[Len(todo)] /\ values' \in st[0]
  <2>1. Len(todo) + 2 \in 3 .. Len(todo) + 2 /\ (Len(todo) + 2) - 2 = Len(todo)
    BY <1>1
  <2>2. st[Len(todo) + 2] = stacks[(Len(todo) + 2) - 2]
    BY <1>12, <2>1, Zenon
  <2>3. values' = values
    BY DEF Push
  <2> QED BY <1>6, <1>12, <2>1, <2>2, <2>3
<1>21. PICK a, b : a = st /\ b = fu
  OBVIOUS
<1>22. Accepts(V, a, b)'
  <2>1. values' \in a[0] /\ \A s \in a[Len(todo')] : Len(s) = 1 /\ Justified(V, s[1])
    BY <1>8, <1>20, <1>21
  <2>2. \A i \in DOMAIN todo' : b[i] + todo'[i][1] > MaxDepth
    BY <1>19, <1>21
  <2>3. \A i \in DOMAIN todo' : StepOK(V, todo'[i][2], b[i], a[i - 1], a[i])
    BY <1>19, <1>21
  <2>4. b \in [DOMAIN todo' -> 0 .. MaxDepth]
        /\ a \in [0 .. Len(todo') -> SUBSET Seq(Fraction)]
    BY <1>10, <1>13, <1>21
  <2> QED BY <2>1, <2>2, <2>3, <2>4, AcceptsNext
<1> QED BY <1>6, <1>22 DEF ap

-----------------------------------------------------------------------------
\* What a lookup under way has found, the second part of SawInv.
Found(n) == /\ n.kind \in {"catalog", "reading"} => Missing \in sawDefs[n.code]
            /\ n.kind = "reading" => Catalog[n.code] = Direct
LookupsFound == \A i \in DOMAIN todo : Found(todo[i][2])

\* What a step of an evaluation has to achieve for an interpretation.
GoesOn(V) == /\ pc' = "eval" /\ todo' \in Seq((1 .. MaxDepth + 1) \X Nodes)
             /\ LookupsFound' /\ UNCHANGED answer
             /\ \E st, fu : Accepts(V, st, fu)'
Ends(V) == /\ pc' = "idle" /\ todo' = <<>> /\ values' = <<>>
           /\ answer' \in Fraction \cup {Failed, NoAnswer}
           /\ answer' # NoAnswer => Justified(V, answer')
Outcome(V) == GoesOn(V) \/ Ends(V)

\* An error that is justified may end the request.
LEMMA StopFailed ==
    ASSUME Stop(Failed), NEW V, Justified(V, Failed)
    PROVE  Outcome(V)
BY DEF Stop, Outcome, Ends

\* A step that looks further into a node.
LEMMA PushOne ==
    ASSUME Parameters, TypeOK, LookupsFound, pc = "eval", todo # <<>>, Depth <= MaxDepth,
           Node.kind # "apply", NEW V, NEW stacks, NEW fuel, Accepts(V, stacks, fuel),
           NEW n \in Nodes, n.kind # "apply", Found(n),
           NEW f \in 0 .. MaxDepth, f + Depth + 1 > MaxDepth,
           V[<<Source(n), f>>] \subseteq V[<<Source(Node), fuel[1]>>],
           Push(<<n>>), Stored
    PROVE  Outcome(V)
<1>1. UNCHANGED <<asked, sawDefs, pc, answer>>
  BY DEF Stored, Push
<1>2. /\ todo' \in Seq((1 .. MaxDepth + 1) \X Nodes)
      /\ Len(todo') = Len(todo) /\ todo'[1] = <<Depth + 1, n>>
      /\ \A i \in 2 .. Len(todo) : todo'[i] = todo[i]
      /\ Accepts(V, stacks, [fuel EXCEPT ![1] = f])'
  BY <1>1, Replace
<1>3. todo \in Seq((1 .. MaxDepth + 1) \X Nodes) /\ DOMAIN todo = 1 .. Len(todo)
      /\ DOMAIN todo' = 1 .. Len(todo) /\ Len(todo) \in Nat
  BY <1>2 DEF TypeOK
<1>4. LookupsFound'
  <2> SUFFICES ASSUME NEW i \in 1 .. Len(todo) PROVE Found(todo[i][2])'
    BY <1>3 DEF LookupsFound
  <2>1. \A m : Found(m) => Found(m)'
    BY <1>1 DEF Found
  <2>2. CASE i = 1
    <3>1. Found(n)'
      BY <2>1
    <3>2. todo'[i][2] = n
      BY <1>2, <2>2
    <3> QED BY <3>1, <3>2 DEF Found
  <2>3. CASE i # 1
    <3>1. i \in 2 .. Len(todo) /\ i \in DOMAIN todo
      BY <1>3, <2>3
    <3>2. Found(todo[i][2])
      BY <3>1 DEF LookupsFound
    <3>3. todo'[i] = todo[i]
      BY <3>1, <1>2
    <3> QED BY <3>2, <3>3, <1>1 DEF Found
  <2> QED BY <2>2, <2>3
<1>5. \E st, fu : Accepts(V, st, fu)'
  BY <1>2
<1> QED BY <1>1, <1>2, <1>4, <1>5 DEF Outcome, GoesOn

\* A step that leaves its value as an operand.
LEMMA Leave ==
    ASSUME Parameters, TypeOK, LookupsFound, pc = "eval", todo # <<>>,
           NEW V, NEW stacks, NEW fuel, Accepts(V, stacks, fuel),
           todo' = Tail(todo), values' \in stacks[1], UNCHANGED <<pc, answer>>, Stored
    PROVE  Outcome(V)
<1>1. UNCHANGED <<asked, sawDefs>>
  BY DEF Stored
<1>2. /\ todo' \in Seq((1 .. MaxDepth + 1) \X Nodes) /\ Len(todo') = Len(todo) - 1
      /\ \A i \in 1 .. Len(todo) - 1 : todo'[i] = todo[i + 1]
      /\ \E st, fu : Accepts(V, st, fu)'
  BY <1>1, Shift
<1>3. todo \in Seq((1 .. MaxDepth + 1) \X Nodes) /\ DOMAIN todo = 1 .. Len(todo)
      /\ DOMAIN todo' = 1 .. Len(todo) - 1 /\ Len(todo) \in Nat
  BY <1>2 DEF TypeOK
<1>4. LookupsFound'
  <2> SUFFICES ASSUME NEW i \in 1 .. Len(todo) - 1 PROVE Found(todo[i][2])'
    BY <1>3 DEF LookupsFound
  <2>1. i + 1 \in DOMAIN todo
    BY <1>3
  <2>2. Found(todo[i + 1][2])
    BY <2>1 DEF LookupsFound
  <2>3. todo'[i] = todo[i + 1]
    BY <1>2
  <2> QED BY <2>2, <2>3, <1>1 DEF Found
<1> QED BY <1>1, <1>2, <1>4 DEF Outcome, GoesOn

\* evalFormula, on each kind of node.
LEMMA VisitFormulaStep ==
    ASSUME Parameters, TypeOK, LookupsFound, VisitFormula,
           NEW V, Closed(V), NEW stacks, NEW fuel, Accepts(V, stacks, fuel)
    PROVE  Outcome(V)
<1> DEFINE f == fuel[1]
<1>1. todo # <<>> /\ Depth <= MaxDepth /\ pc = "eval" /\ Stored
  BY DEF VisitFormula, Visiting, Computed
<1>2. /\ Node \in Nodes /\ Depth \in 1 .. MaxDepth /\ f \in 1 .. MaxDepth
      /\ values \in Seq(Fraction) /\ values \in stacks[0]
      /\ StepOK(V, Node, f, stacks[0], stacks[1])
  BY <1>1, FirstStep
<1>3. CASE Node.kind = "malformed" /\ Stop(Failed)
  <2>1. Node \in Formulas /\ Source(Node) = Node
    BY <1>2, <1>3, NodeKinds
  <2>2. Failed \in V[<<Node, f>>]
    BY <1>2, <1>3, <2>1, LeafMeaning
  <2>3. Justified(V, Failed)
    BY <1>2, <1>3, <2>1, <2>2 DEF StepOK
  <2> QED BY <1>3, <2>3, StopFailed
<1>4. CASE Node.kind = "scalar" /\ Yield(Number(Node.n))
  <2>1. Node \in Formulas /\ Source(Node) = Node /\ Number(Node.n) \in Fraction
    BY <1>2, <1>4, NodeKinds, NumberType
  <2>2. Number(Node.n) \in V[<<Node, f>>]
    BY <1>2, <1>4, <2>1, LeafMeaning
  <2>3. values' \in stacks[1] /\ todo' = Tail(todo) /\ UNCHANGED <<pc, answer>>
    BY <1>2, <1>4, <2>1, <2>2 DEF StepOK, Yield
  <2> QED BY <1>1, <2>3, Leave
<1>5. CASE Node.kind = "op"
           /\ Push(<<Node.left, Node.right, [kind |-> "apply", op |-> Node.op]>>)
  <2>1. UNCHANGED <<asked, sawDefs, pc, answer>>
    BY <1>1, <1>5 DEF Stored, Push
  <2>2. /\ todo' \in Seq((1 .. MaxDepth + 1) \X Nodes) /\ Len(todo') = Len(todo) + 2
        /\ todo'[1] = <<Depth + 1, Node.left>> /\ todo'[2] = <<Depth + 1, Node.right>>
        /\ todo'[3] = <<Depth + 1, [kind |-> "apply", op |-> Node.op]>>
        /\ \A i \in 4 .. Len(todo) + 2 : todo'[i] = todo[i - 2]
        /\ \E st, fu : Accepts(V, st, fu)'
    BY <1>1, <1>5, <2>1, PushOp
  <2>3. todo \in Seq((1 .. MaxDepth + 1) \X Nodes) /\ DOMAIN todo = 1 .. Len(todo)
        /\ DOMAIN todo' = 1 .. Len(todo) + 2 /\ Len(todo) \in Nat
    BY <2>2 DEF TypeOK
  <2>4. Node.left.kind \notin {"catalog", "reading"}
        /\ Node.right.kind \notin {"catalog", "reading"}
    BY <1>2, <1>5, NodeKinds, FormulaNodes
  <2>5. LookupsFound'
    <3> SUFFICES ASSUME NEW i \in 1 .. Len(todo) + 2 PROVE Found(todo[i][2])'
      BY <2>3 DEF LookupsFound
    <3>1. CASE i \in {1, 2, 3}
      <4>1. todo'[i][2].kind \notin {"catalog", "reading"}
        BY <3>1, <2>2, <2>4
      <4> QED BY <4>1 DEF Found
    <3>2. CASE i \notin {1, 2, 3}
      <4>1. i \in 4 .. Len(todo) + 2 /\ i - 2 \in DOMAIN todo
        BY <3>2, <2>3
      <4>2. Found(todo[i - 2][2])
        BY <4>1 DEF LookupsFound
      <4>3. todo'[i] = todo[i - 2]
        BY <4>1, <2>2
      <4> QED BY <4>2, <4>3, <2>1 DEF Found
    <3> QED BY <3>1, <3>2
  <2> QED BY <1>1, <2>1, <2>2, <2>5 DEF Outcome, GoesOn
<1> QED BY <1>3, <1>4, <1>5 DEF VisitFormula, Visiting

\* Its arithmetic, once both operands are there.
LEMMA ApplyStep ==
    ASSUME Parameters, TypeOK, LookupsFound, Apply,
           NEW V, Closed(V), NEW stacks, NEW fuel, Accepts(V, stacks, fuel)
    PROVE  Outcome(V)
<1> DEFINE v == Combine(Node.op, values[2], values[1])
<1>1. todo # <<>> /\ Depth <= MaxDepth /\ pc = "eval" /\ Stored /\ Node.kind = "apply"
  BY DEF Apply, Visiting, Computed
<1>2. values \in stacks[0] /\ StepOK(V, Node, fuel[1], stacks[0], stacks[1])
  BY <1>1, FirstStep
<1>3. IF v = Failed THEN Justified(V, Failed)
      ELSE <<v>> \o SubSeq(values, 3, Len(values)) \in stacks[1]
  BY <1>1, <1>2 DEF StepOK
<1>4. IF v = Failed THEN Stop(Failed)
      ELSE /\ todo' = Tail(todo) /\ values' = <<v>> \o SubSeq(values, 3, Len(values))
           /\ UNCHANGED <<pc, answer>>
  BY DEF Apply
<1> HIDE DEF v
<1>5. CASE v = Failed
  BY <1>3, <1>4, <1>5, StopFailed
<1>6. CASE v # Failed
  BY <1>1, <1>3, <1>4, <1>6, Leave
<1> QED BY <1>5, <1>6

\* An error that the node in hand can have ends the request.
LEMMA FailStops ==
    ASSUME Parameters, TypeOK, todo # <<>>, Depth <= MaxDepth, Node.kind # "apply",
           NEW V, NEW stacks, NEW fuel, Accepts(V, stacks, fuel),
           Failed \in V[<<Source(Node), fuel[1]>>], Stop(Failed)
    PROVE  Outcome(V)
<1>1. values \in stacks[0] /\ StepOK(V, Node, fuel[1], stacks[0], stacks[1])
  BY FirstStep
<1>2. Justified(V, Failed)
  BY <1>1 DEF StepOK
<1> QED BY <1>2, StopFailed

\* latestReadingByCode, the tenant's indicator.
LEMMA LookupTenantStep ==
    ASSUME Parameters, TypeOK, LookupsFound, LookupTenant, tx' = "ok",
           \A c \in Codes : tenant[c] \in sawDefs[c],
           NEW V, Closed(V), NEW stacks, NEW fuel, Accepts(V, stacks, fuel)
    PROVE  Outcome(V)
<1> DEFINE f == fuel[1]
           c == Node.code
<1>1. todo # <<>> /\ Depth <= MaxDepth /\ pc = "eval" /\ Stored /\ Node.kind = "code"
  BY DEF LookupTenant, Visiting, Works, Fails
<1>2. Node \in Nodes /\ Depth \in 1 .. MaxDepth /\ f \in 1 .. MaxDepth
      /\ f + Depth > MaxDepth
  BY <1>1, FirstStep
<1>3. Node = Code(c) /\ c \in Codes /\ Source(Node) = Code(c)
  BY <1>1, <1>2, NodeKinds
<1>4. tenant[c] \in sawDefs[c] /\ tenant[c] \in Formulas \cup {Missing, Direct}
      /\ Direct # Missing
  BY <1>3 DEF TypeOK, Direct, Missing
<1>5. CASE tenant[c] = Missing
  <2> DEFINE n == [kind |-> "catalog", code |-> c]
  <2>1. n \in Nodes /\ n.kind = "catalog" /\ Source(n) = Code(c)
    BY <1>3 DEF Nodes, Source
  <2>2. Found(n)
    BY <1>4, <1>5, <2>1 DEF Found
  <2>3. Push(<<n>>)
    BY <1>4, <1>5 DEF LookupTenant, Fails
  <2>4. f \in 0 .. MaxDepth /\ f + Depth + 1 > MaxDepth
    BY <1>2 DEF Parameters
  <2> HIDE DEF n, c
  <2> QED BY <1>1, <1>3, <2>1, <2>2, <2>3, <2>4, PushOne
<1>6. CASE tenant[c] = Direct
  <2>1. Failed \in V[<<Code(c), f>>]
    BY <1>2, <1>3, <1>4, <1>6, CodeMeaning
  <2>2. Stop(Failed)
    BY <1>4, <1>6 DEF LookupTenant, Fails
  <2> QED BY <1>1, <1>3, <2>1, <2>2, FailStops
<1>7. CASE tenant[c] \in Formulas
  <2> DEFINE n == tenant[c]
  <2>1. n \in Nodes /\ n.kind \in {"malformed", "scalar", "code", "op"} /\ Source(n) = n
    BY <1>7, FormulaNodes
  <2>2. Found(n) /\ n # Missing /\ n # Direct
    BY <2>1 DEF Found, Missing, Direct
  <2>3. Push(<<n>>)
    BY <2>2 DEF LookupTenant, Fails
  <2>4. f - 1 \in 0 .. MaxDepth /\ (f - 1) + Depth + 1 > MaxDepth
    BY <1>2 DEF Parameters
  <2>5. V[<<n, f - 1>>] \subseteq V[<<Code(c), f>>]
    BY <1>2, <1>3, <1>4, <2>2, CodeMeaning
  <2>6. PICK m : m = n
    OBVIOUS
  <2> HIDE DEF n, c
  <2> QED BY <1>1, <1>3, <2>1, <2>2, <2>3, <2>4, <2>5, <2>6, PushOne
<1> QED BY <1>4, <1>5, <1>6, <1>7

\* The indicator of the catalog.
LEMMA LookupCatalogStep ==
    ASSUME Parameters, TypeOK, LookupsFound, LookupCatalog, tx' = "ok",
           NEW V, Closed(V), NEW stacks, NEW fuel, Accepts(V, stacks, fuel)
    PROVE  Outcome(V)
<1> DEFINE f == fuel[1]
           c == Node.code
<1>1. todo # <<>> /\ Depth <= MaxDepth /\ pc = "eval" /\ Stored /\ Node.kind = "catalog"
  BY DEF LookupCatalog, Visiting, Works, Fails
<1>2. Node \in Nodes /\ Depth \in 1 .. MaxDepth /\ f \in 1 .. MaxDepth
      /\ f + Depth > MaxDepth
  BY <1>1, FirstStep
<1>3. c \in Codes /\ Source(Node) = Code(c)
  BY <1>1, <1>2, NodeKinds
<1>4. Missing \in sawDefs[c]
  <2>1. 1 \in DOMAIN todo
    BY <1>1 DEF TypeOK
  <2>2. Found(Node)
    BY <2>1 DEF LookupsFound, Node
  <2> QED BY <1>1, <2>2 DEF Found
<1>5. Catalog[c] \in Formulas \cup {Missing, Direct} /\ Direct # Missing
  BY <1>3 DEF Parameters, Direct, Missing
<1>6. CASE Catalog[c] = Missing
  <2>1. Failed \in V[<<Code(c), f>>]
    BY <1>2, <1>3, <1>4, <1>5, <1>6, CodeMeaning
  <2>2. Stop(Failed)
    BY <1>5, <1>6 DEF LookupCatalog, Fails
  <2> QED BY <1>1, <1>3, <2>1, <2>2, FailStops
<1>7. CASE Catalog[c] = Direct
  <2> DEFINE n == [kind |-> "reading", code |-> c]
  <2>1. n \in Nodes /\ n.kind = "reading" /\ Source(n) = Code(c)
    BY <1>3 DEF Nodes, Source
  <2>2. Found(n)
    BY <1>4, <1>7, <2>1 DEF Found
  <2>3. Push(<<n>>)
    BY <1>5, <1>7 DEF LookupCatalog, Fails
  <2>4. f \in 0 .. MaxDepth /\ f + Depth + 1 > MaxDepth
    BY <1>2 DEF Parameters
  <2> HIDE DEF n, c
  <2> QED BY <1>1, <1>3, <2>1, <2>2, <2>3, <2>4, PushOne
<1>8. CASE Catalog[c] \in Formulas
  <2> DEFINE n == Catalog[c]
  <2>1. n \in Nodes /\ n.kind \in {"malformed", "scalar", "code", "op"} /\ Source(n) = n
    BY <1>8, FormulaNodes
  <2>2. Found(n) /\ n # Missing /\ n # Direct
    BY <2>1 DEF Found, Missing, Direct
  <2>3. Push(<<n>>)
    BY <2>2 DEF LookupCatalog, Fails
  <2>4. f - 1 \in 0 .. MaxDepth /\ (f - 1) + Depth + 1 > MaxDepth
    BY <1>2 DEF Parameters
  <2>5. V[<<n, f - 1>>] \subseteq V[<<Code(c), f>>]
    BY <1>2, <1>3, <1>4, <1>5, <2>2, CodeMeaning
  <2> HIDE DEF n, c
  <2> QED BY <1>1, <1>3, <2>1, <2>2, <2>3, <2>4, <2>5, PushOne
<1> QED BY <1>5, <1>6, <1>7, <1>8

\* Its newest reading.
LEMMA ReadLatestStep ==
    ASSUME Parameters, TypeOK, LookupsFound, ReadLatest, tx' = "ok",
           \A c \in Codes : readings[c] \in sawReadings[c],
           NEW V, Closed(V), NEW stacks, NEW fuel, Accepts(V, stacks, fuel)
    PROVE  Outcome(V)
<1> DEFINE f == fuel[1]
           c == Node.code
           v == CHOOSE u \in readings[c] : TRUE
<1>1. todo # <<>> /\ Depth <= MaxDepth /\ pc = "eval" /\ Stored /\ Node.kind = "reading"
  BY DEF ReadLatest, Visiting, Works, Fails
<1>2. /\ Node \in Nodes /\ f \in 1 .. MaxDepth /\ values \in stacks[0]
      /\ StepOK(V, Node, f, stacks[0], stacks[1])
  BY <1>1, FirstStep
<1>3. c \in Codes /\ Source(Node) = Code(c)
  BY <1>1, <1>2, NodeKinds
<1>4. Missing \in sawDefs[c] /\ Catalog[c] = Direct
  <2>1. 1 \in DOMAIN todo
    BY <1>1 DEF TypeOK
  <2>2. Found(Node)
    BY <2>1 DEF LookupsFound, Node
  <2> QED BY <1>1, <2>2 DEF Found
<1>5. Newest(c) \subseteq V[<<Code(c), f>>]
  <2>1. Direct # Missing
    BY DEF Direct, Missing
  <2> QED BY <1>2, <1>3, <1>4, <2>1, CodeMeaning
<1>6. (IF readings[c] = {} THEN Failed ELSE Number(v)) \in Newest(c)
  BY <1>3 DEF Newest
<1>7. readings[c] \in Newests
  BY <1>3 DEF TypeOK
<1>8. CASE readings[c] = {}
  <2>1. Failed \in V[<<Code(c), f>>]
    BY <1>5, <1>6, <1>8
  <2>2. Stop(Failed)
    BY <1>8 DEF ReadLatest, Fails
  <2> QED BY <1>1, <1>3, <2>1, <2>2, FailStops
<1>9. CASE readings[c] # {}
  <2>1. v \in Prices
    BY <1>7, <1>9 DEF Newests
  <2>2. Number(v) \in Fraction
    BY <2>1, NumberType DEF Parameters
  <2>3. Number(v) \in V[<<Source(Node), f>>]
    BY <1>3, <1>5, <1>6, <1>9
  <2>4. Yield(Number(v))
    BY <1>9 DEF ReadLatest, Fails
  <2> HIDE DEF v
  <2>5. values' \in stacks[1] /\ todo' = Tail(todo) /\ UNCHANGED <<pc, answer>>
    BY <1>1, <1>2, <2>2, <2>3, <2>4 DEF StepOK, Yield
  <2> QED BY <1>1, <2>5, Leave
<1> QED BY <1>8, <1>9

\* The answer is the operand that is left.
LEMMA ReplyStep ==
    ASSUME Parameters, TypeOK, Reply, NEW V, NEW stacks, NEW fuel,
           Accepts(V, stacks, fuel)
    PROVE  Outcome(V)
<1>1. todo = <<>> /\ Len(todo) = 0 /\ Stop(values[1])
  BY DEF Reply
<1>2. values \in stacks[0]
      /\ \A s \in stacks[Len(todo)] : Len(s) = 1 /\ Justified(V, s[1])
  BY AcceptsSteps
<1>3. Len(values) = 1 /\ Justified(V, values[1])
  BY <1>1, <1>2
<1>4. values[1] \in Fraction
  <2>1. values \in Seq(Fraction) /\ 1 \in 1 .. Len(values)
    BY <1>3 DEF TypeOK
  <2> QED BY <2>1
<1> QED BY <1>1, <1>3, <1>4 DEF Stop, Outcome, Ends

-----------------------------------------------------------------------------
\* What the types need of the interpretation.
LEMMA AcceptsTyped ==
    ASSUME NEW V, NEW stacks, NEW fuel, Accepts(V, stacks, fuel)',
           todo' \in Seq((1 .. MaxDepth + 1) \X Nodes)
    PROVE  /\ values' \in Seq(Fraction)
           /\ todo' = <<>> => Len(values') = 1
           /\ todo' # <<>> /\ todo'[1][2].kind = "apply" => Len(values') >= 2
<1>1. /\ stacks \in [0 .. Len(todo') -> SUBSET Seq(Fraction)]
      /\ values' \in stacks[0]
      /\ \A s \in stacks[Len(todo')] : Len(s) = 1
      /\ \A i \in DOMAIN todo' : \A s \in stacks[i - 1] :
            todo'[i][2].kind = "apply" => Len(s) >= 2
  BY DEF Accepts
<1>2. Len(todo') \in Nat
  OBVIOUS
<1>3. values' \in Seq(Fraction)
  BY <1>1, <1>2
<1>4. todo' = <<>> => Len(values') = 1
  BY <1>1
<1>5. ASSUME todo' # <<>>, todo'[1][2].kind = "apply" PROVE Len(values') >= 2
  <2>1. 1 \in DOMAIN todo' /\ 1 - 1 = 0
    BY <1>5
  <2> QED BY <1>1, <1>5, <2>1
<1> QED BY <1>3, <1>4, <1>5

\* What may be read only grows while a request runs, so an interpretation that has
\* everything later has everything now.
LEMMA ClosedBefore ==
    ASSUME Parameters, NEW V, Closed(V)',
           \A c \in Codes :
              sawReadings[c] \subseteq sawReadings'[c] /\ sawDefs[c] \subseteq sawDefs'[c]
    PROVE  Closed(V)
<1> SUFFICES ASSUME NEW node \in Formulas, NEW d \in 1 .. MaxDepth
             PROVE  Meaning(V, node, d - 1) \subseteq V[<<node, d>>]
  BY DEF Closed
<1>1. Meaning(V, node, d - 1)' \subseteq V[<<node, d>>]
  BY DEF Closed
<1>2. CASE node.kind # "code"
  <2>1. Meaning(V, node, d - 1)' = Meaning(V, node, d - 1)
    <3>1. node.kind \in {"malformed", "scalar", "op"}
      BY <1>2, FormulaNodes
    <3> QED BY <3>1 DEF Meaning
  <2> QED BY <1>1, <2>1
<1>3. CASE node.kind = "code"
  <2> DEFINE c == node.code
             E(f) == CASE f = Missing /\ Catalog[c] = Direct -> Newest(c)
                       [] f = Direct \/ (f = Missing /\ Catalog[c] = Missing) -> {Failed}
                       [] OTHER -> V[<<IF f = Missing THEN Catalog[c] ELSE f, d - 1>>]
             F(f) == CASE f = Missing /\ Catalog[c] = Direct -> Newest(c)'
                       [] f = Direct \/ (f = Missing /\ Catalog[c] = Missing) -> {Failed}
                       [] OTHER -> V[<<IF f = Missing THEN Catalog[c] ELSE f, d - 1>>]
  <2>1. Meaning(V, node, d - 1) = UNION {E(f) : f \in sawDefs[c]}
    BY <1>3 DEF Meaning
  <2>2. Meaning(V, node, d - 1)' = UNION {F(f) : f \in sawDefs'[c]}
    BY <1>3 DEF Meaning
  <2>3. c \in Codes
    BY <1>3 DEF Parameters, Malformed
  <2>4. Newest(c) \subseteq Newest(c)'
    BY <2>3 DEF Newest
  <2>5. ASSUME NEW f \in sawDefs[c] PROVE E(f) \subseteq F(f)
    <3>1. Direct # Missing
      BY DEF Direct, Missing
    <3>2. CASE f = Missing /\ Catalog[c] = Direct
      BY <2>4, <3>1, <3>2
    <3>3. CASE f = Direct \/ (f = Missing /\ Catalog[c] = Missing)
      BY <3>1, <3>3
    <3>4. CASE ~ (f = Missing /\ Catalog[c] = Direct)
               /\ ~ (f = Direct \/ (f = Missing /\ Catalog[c] = Missing))
      BY <3>4
    <3> QED BY <3>2, <3>3, <3>4
  <2>6. sawDefs[c] \subseteq sawDefs'[c]
    BY <2>3
  <2> HIDE DEF E, F, c
  <2>7. Meaning(V, node, d - 1) \subseteq Meaning(V, node, d - 1)'
    BY <2>1, <2>2, <2>5, <2>6
  <2> QED BY <1>1, <2>7
<1> QED BY <1>2, <1>3

\* A witness depends on the work in hand only.
LEMMA AcceptsSame ==
    ASSUME UNCHANGED <<todo, values, asked>>, NEW V, NEW stacks, NEW fuel,
           Accepts(V, stacks, fuel)
    PROVE  Accepts(V, stacks, fuel)'
<1>1. \A a : Justified(V, a)' = Justified(V, a)
  BY DEF Justified
<1> QED BY <1>1 DEF Accepts

\* Readings and definitions that change meanwhile.
LEMMA EnvStep ==
    ASSUME Parameters, IInv, UNCHANGED <<pc, todo, values, tx, asked, answer>>,
           \A c \in Codes :
              sawReadings[c] \subseteq sawReadings'[c] /\ sawDefs[c] \subseteq sawDefs'[c]
    PROVE  JustInv'
<1> SUFFICES ASSUME NEW V, Closed(V)'
             PROVE  /\ pc = "idle" /\ answer # NoAnswer =>
                          Justified(V, answer) \/ DatabaseFailed
                    /\ pc = "eval" /\ tx = "ok" =>
                          (\E stacks, fuel : Accepts(V, stacks, fuel))'
  BY DEF IInv, JustInv, Justified, DatabaseFailed
<1>1. Closed(V)
  BY ClosedBefore
<1>2. /\ pc = "idle" /\ answer # NoAnswer => Justified(V, answer) \/ DatabaseFailed
      /\ pc = "eval" /\ tx = "ok" => \E stacks, fuel : Accepts(V, stacks, fuel)
  BY <1>1 DEF IInv, JustInv
<1> QED BY <1>2, AcceptsSame

\* and they leave what a failed statement left.
LEMMA AbortedSame ==
    ASSUME AbortedInv, UNCHANGED <<pc, todo, tx>>
    PROVE  AbortedInv'
BY DEF AbortedInv, Node

\* Nothing has been asked.
LEMMA InitState == Parameters /\ Init => IInv
<1> SUFFICES ASSUME Parameters, Init PROVE IInv
  OBVIOUS
<1>1. TypeOK
  BY DEF Init, TypeOK, Newests, DraftsOf, NoAnswer
<1>2. SawInv /\ AbortedInv
  BY DEF Init, SawInv, AbortedInv
<1>3. JustInv
  BY DEF Init, JustInv
<1> QED BY <1>1, <1>2, <1>3 DEF IInv

\* A reading arrives, during a request or not.
LEMMA AddReadingStep ==
    ASSUME Parameters, IInv, NEW c \in Codes, NEW v \in Prices, AddReading(c, v)
    PROVE  IInv'
<1>1. TypeOK /\ SawInv
  BY DEF IInv
<1>2. {v} \in Newests
  BY DEF Newests
<1>3. readings' \in [Codes -> Newests] /\ sawReadings' \in [Codes -> SUBSET Newests]
  BY <1>1, <1>2 DEF TypeOK, AddReading
<1>4. TypeOK'
  BY <1>1, <1>3 DEF TypeOK, AddReading
<1>5. \A b \in Codes :
         sawReadings[b] \subseteq sawReadings'[b] /\ sawDefs[b] \subseteq sawDefs'[b]
  BY <1>1 DEF TypeOK, AddReading
<1>6. pc = "eval" => \A b \in Codes : readings'[b] \in sawReadings'[b]
  BY <1>1 DEF TypeOK, AddReading, SawInv
<1>7. SawInv'
  BY <1>1, <1>6 DEF SawInv, AddReading
<1>8. JustInv' /\ AbortedInv'
  BY <1>5, EnvStep, AbortedSame DEF IInv, AddReading
<1> QED BY <1>4, <1>7, <1>8 DEF IInv

\* A code is defined, during a request or not.
LEMMA CreateIndicatorStep ==
    ASSUME Parameters, IInv, NEW e \in Drafts, CreateIndicator(e[1], e[2])
    PROVE  IInv'
<1>1. TypeOK /\ SawInv
  BY DEF IInv
<1> DEFINE c == e[1] def == e[2]
<1>2. c \in Codes /\ def \in Formulas \cup {Missing, Direct} /\ def \in DraftsOf(c)
  BY DEF Parameters, DraftsOf
<1>3. CreateIndicator(c, def)
  OBVIOUS
<1> HIDE DEF c, def
<1>4. tenant' \in [Codes -> Formulas \cup {Missing, Direct}]
      /\ \A b \in Codes : tenant'[b] \in DraftsOf(b)
  BY <1>1, <1>2, <1>3 DEF TypeOK, CreateIndicator
<1>5. sawDefs' \in [Codes -> SUBSET (Formulas \cup {Missing, Direct})]
  <2> DEFINE D == Formulas \cup {Missing, Direct}
  <2>1. sawDefs \in [Codes -> SUBSET D] /\ def \in D
    BY <1>1, <1>2 DEF TypeOK
  <2>2. sawDefs' = IF pc = "eval" THEN [sawDefs EXCEPT ![c] = @ \cup {def}] ELSE sawDefs
    BY <1>3 DEF CreateIndicator
  <2> HIDE DEF D
  <2>3. sawDefs' \in [Codes -> SUBSET D]
    BY <1>2, <2>1, <2>2
  <2> QED BY <2>3 DEF D
<1>6. \A b \in Codes : sawDefs'[b] \subseteq DraftsOf(b)
  BY <1>1, <1>2, <1>3 DEF TypeOK, CreateIndicator
<1>7. TypeOK'
  BY <1>1, <1>3, <1>4, <1>5, <1>6 DEF TypeOK, CreateIndicator, DraftsOf
<1>8. \A b \in Codes :
         sawReadings[b] \subseteq sawReadings'[b] /\ sawDefs[b] \subseteq sawDefs'[b]
  BY <1>1, <1>3 DEF TypeOK, CreateIndicator
<1>9. pc = "eval" => \A b \in Codes : tenant'[b] \in sawDefs'[b]
  BY <1>1, <1>3 DEF TypeOK, CreateIndicator, SawInv
<1>10. pc = "eval" =>
          /\ \A b \in Codes : readings'[b] \in sawReadings'[b]
          /\ tx = "ok" => \A i \in DOMAIN todo : Found(todo[i][2])
  BY <1>1, <1>3 DEF CreateIndicator, SawInv, Found
<1>11. \A i \in DOMAIN todo : todo[i][2] \in Nodes
  BY <1>1 DEF TypeOK
<1>12. ASSUME pc = "eval", tx = "ok", NEW i \in DOMAIN todo PROVE Found(todo[i][2])'
  <2>1. todo[i][2] \in Nodes /\ Found(todo[i][2]) /\ todo' = todo
    BY <1>3, <1>10, <1>11, <1>12 DEF CreateIndicator
  <2>2. todo[i][2].kind \in {"catalog", "reading"} => todo[i][2].code \in Codes
    BY <2>1, NodeKinds
  <2> QED BY <1>8, <2>1, <2>2 DEF Found
<1>13. SawInv'
  BY <1>3, <1>9, <1>10, <1>12 DEF SawInv, CreateIndicator, Found
<1>14. JustInv' /\ AbortedInv'
  BY <1>3, <1>8, EnvStep, AbortedSame DEF IInv, CreateIndicator
<1> QED BY <1>7, <1>13, <1>14 DEF IInv

\* A request begins: what it may read is what is there, and any value the code can
\* have is an answer.
LEMMA AskStep ==
    ASSUME Parameters, IInv, NEW c \in Codes, Ask(c)
    PROVE  IInv'
<1>1. TypeOK
  BY DEF IInv
<1>2. /\ pc' = "eval" /\ todo' = <<<<1, Code(c)>>>> /\ values' = <<>> /\ asked' = {c}
      /\ answer' = NoAnswer /\ tx' = "ok" /\ UNCHANGED <<readings, tenant>>
      /\ sawReadings' = [d \in Codes |-> {readings[d]}]
      /\ sawDefs' = [d \in Codes |-> {tenant[d]}]
  BY DEF Ask
<1>3. Code(c) \in Formulas /\ Code(c) \in Nodes /\ Code(c).kind = "code"
      /\ Source(Code(c)) = Code(c)
  BY FormulaNodes DEF Parameters, Code
<1>4. MaxDepth \in Nat /\ <<1, Code(c)>> \in (1 .. MaxDepth + 1) \X Nodes
  BY <1>3 DEF Parameters
<1>5. /\ todo' \in Seq((1 .. MaxDepth + 1) \X Nodes) /\ todo' # <<>> /\ Len(todo') = 1
      /\ DOMAIN todo' = {1} /\ todo'[1][1] = 1 /\ todo'[1][2] = Code(c)
      /\ todo'[1][2].kind # "apply"
  BY <1>2, <1>3, <1>4
<1>6. values' \in Seq(Fraction)
  BY <1>2
<1>7. /\ sawReadings' \in [Codes -> SUBSET Newests]
      /\ sawDefs' \in [Codes -> SUBSET (Formulas \cup {Missing, Direct})]
      /\ \A d \in Codes : sawDefs'[d] \subseteq DraftsOf(d)
  BY <1>1, <1>2 DEF TypeOK
<1>8. TypeOK'
  BY <1>1, <1>2, <1>5, <1>6, <1>7 DEF TypeOK, DraftsOf
<1>9. SawInv' /\ AbortedInv'
  BY <1>2, <1>3, <1>5 DEF SawInv, AbortedInv
<1>10. ASSUME NEW V PROVE (\E stacks, fuel : Accepts(V, stacks, fuel))'
  <2> DEFINE st == [i \in 0 .. 1 |-> IF i = 0 THEN {<<>>}
                       ELSE {<<v>> : v \in V[<<Code(c), MaxDepth>>] \cap Fraction}]
             fu == [i \in {1} |-> MaxDepth]
  <2>1. PICK a, b : a = st /\ b = fu
    OBVIOUS
  <2>2. a[0] = {<<>>} /\ a[1] = {<<v>> : v \in V[<<Code(c), MaxDepth>>] \cap Fraction}
        /\ b[1] = MaxDepth
    BY <2>1
  <2>3. a \in [0 .. 1 -> SUBSET Seq(Fraction)] /\ b \in [{1} -> 0 .. MaxDepth]
    <3>1. <<>> \in Seq(Fraction) /\ \A v \in Fraction : <<v>> \in Seq(Fraction)
      OBVIOUS
    <3>2. st \in [0 .. 1 -> SUBSET Seq(Fraction)]
      BY <3>1
    <3>3. fu \in [{1} -> 0 .. MaxDepth]
      BY <1>4
    <3> QED BY <2>1, <3>2, <3>3
  <2>4. MaxDepth + 1 > MaxDepth
    BY <1>4
  <2>5. \A s \in a[1] : Len(s) = 1 /\ Justified(V, s[1])'
    BY <1>2, <2>2 DEF Justified
  <2>6. ASSUME NEW v \in V[<<Code(c), MaxDepth>>]
        PROVE  /\ v = Failed => Justified(V, Failed)'
               /\ v \in Fraction => <<v>> \o <<>> \in a[1]
    <3>1. v = Failed => Justified(V, Failed)'
      BY <1>2 DEF Justified
    <3>2. v \in Fraction => <<v>> \o <<>> = <<v>>
      OBVIOUS
    <3> QED BY <2>2, <3>1, <3>2
  <2>7. \A i \in DOMAIN todo' : i = 1 /\ i - 1 = 0
    BY <1>5
  <2> HIDE DEF st, fu
  <2>8. Accepts(V, a, b)'
    BY <1>2, <1>3, <1>5, <2>2, <2>3, <2>4, <2>5, <2>6, <2>7 DEF Accepts
  <2> QED BY <2>8
<1>11. JustInv'
  BY <1>2, <1>10 DEF JustInv
<1> QED BY <1>8, <1>9, <1>11 DEF IInv

\* A step that has a good outcome for every interpretation keeps the invariant.
LEMMA OutcomeStep ==
    ASSUME Parameters, IInv, pc = "eval", tx' = "ok", Stored,
           \A V : Closed(V) => Outcome(V)
    PROVE  IInv'
<1>1. TypeOK /\ SawInv /\ answer = NoAnswer
  BY DEF IInv, JustInv
<1>2. UNCHANGED <<readings, tenant, asked, sawReadings, sawDefs>>
  BY DEF Stored
<1>3. PICK P : P = Possible
  OBVIOUS
<1>4. Outcome(P)
  BY <1>1, <1>3, PossibleClosed
<1>5. \A V : Closed(V)' => Closed(V)
  BY <1>2, ClosedBefore
<1>6. \A V : Closed(V)' => Outcome(V)
  BY <1>5
<1>7. CASE GoesOn(P)
  <2>1. pc' = "eval" /\ todo' \in Seq((1 .. MaxDepth + 1) \X Nodes) /\ LookupsFound'
        /\ answer' = NoAnswer
    BY <1>1, <1>7 DEF GoesOn
  <2>2. PICK st, fu : Accepts(P, st, fu)'
    BY <1>7 DEF GoesOn
  <2>3. /\ values' \in Seq(Fraction)
        /\ todo' = <<>> => Len(values') = 1
        /\ todo' # <<>> /\ todo'[1][2].kind = "apply" => Len(values') >= 2
    BY <2>1, <2>2, AcceptsTyped
  <2>4. TypeOK'
    BY <1>1, <1>2, <2>1, <2>3 DEF TypeOK, DraftsOf
  <2>5. SawInv' /\ AbortedInv'
    BY <1>1, <1>2, <2>1 DEF SawInv, AbortedInv, LookupsFound, Found
  <2>6. JustInv'
    BY <1>6, <2>1 DEF JustInv, Outcome, GoesOn, Ends
  <2> QED BY <2>4, <2>5, <2>6 DEF IInv
<1>8. CASE Ends(P)
  <2>1. pc' = "idle" /\ todo' = <<>> /\ values' = <<>>
        /\ answer' \in Fraction \cup {Failed, NoAnswer}
    BY <1>8 DEF Ends
  <2>2. TypeOK'
    BY <1>1, <1>2, <2>1 DEF TypeOK, DraftsOf
  <2>3. SawInv' /\ AbortedInv'
    BY <2>1 DEF SawInv, AbortedInv
  <2>4. JustInv'
    BY <1>2, <1>6, <2>1 DEF JustInv, Outcome, GoesOn, Ends, Justified
  <2> QED BY <2>2, <2>3, <2>4 DEF IInv
<1> QED BY <1>4, <1>7, <1>8 DEF Outcome

\* A request that is given up, and one that ends with the database's error.
LEMMA StopStep ==
    ASSUME Parameters, IInv, pc = "eval", Stored, tx' \in {"ok", "aborted"},
           Stop(NoAnswer) \/ (Stop(Failed) /\ tx' = "aborted")
    PROVE  IInv'
<1>1. TypeOK
  BY DEF IInv
<1>2. pc' = "idle" /\ todo' = <<>> /\ values' = <<>>
      /\ (answer' = NoAnswer \/ (answer' = Failed /\ tx' = "aborted"))
  BY DEF Stop
<1>3. TypeOK'
  BY <1>1, <1>2 DEF TypeOK, DraftsOf, Stored
<1>4. SawInv' /\ AbortedInv'
  BY <1>2 DEF SawInv, AbortedInv
<1>5. JustInv'
  BY <1>2 DEF JustInv, DatabaseFailed
<1> QED BY <1>3, <1>4, <1>5 DEF IInv

\* The error that is dropped: the catalog is next, which will not be read.
LEMMA DroppedErrorStep ==
    ASSUME Parameters, IInv, LookupTenant, tx' = "aborted"
    PROVE  IInv'
<1>1. TypeOK /\ SawInv /\ AbortedInv /\ JustInv
  BY DEF IInv
<1> DEFINE n == [kind |-> "catalog", code |-> Node.code]
<1>2. /\ pc = "eval" /\ todo # <<>> /\ Depth <= MaxDepth /\ Node.kind = "code"
      /\ Push(<<n>>) /\ Stored
  BY DEF LookupTenant, Visiting, Works, Fails
<1>3. Node \in Nodes
  BY <1>1, <1>2 DEF TypeOK, Node
<1>4. n \in Nodes /\ n.kind = "catalog"
  BY <1>2, <1>3, NodeKinds DEF Nodes
<1>5. /\ todo' \in Seq((1 .. MaxDepth + 1) \X Nodes)
      /\ Len(todo') = Len(todo) /\ todo'[1] = <<Depth + 1, n>>
  <2> HIDE DEF n
  <2> QED BY <1>1, <1>2, <1>4, PushOneShape
<1>6. todo' # <<>> /\ todo'[1][2].kind = "catalog"
  BY <1>1, <1>2, <1>4, <1>5 DEF TypeOK
<1>7. pc' = "eval" /\ values' = values /\ answer' = NoAnswer
  BY <1>1, <1>2 DEF Push, JustInv
<1>8. TypeOK'
  BY <1>1, <1>2, <1>5, <1>6, <1>7 DEF TypeOK, DraftsOf, Stored
<1>9. SawInv' /\ AbortedInv'
  BY <1>1, <1>2, <1>6, <1>7 DEF SawInv, AbortedInv, Node, Stored
<1>10. JustInv'
  BY <1>7 DEF JustInv
<1> QED BY <1>8, <1>9, <1>10 DEF IInv

\* Every step of an evaluation.
LEMMA EvaluateStep ==
    ASSUME Parameters, IInv,
           VisitFormula \/ Apply \/ LookupTenant \/ LookupCatalog \/ ReadLatest \/ Reply
    PROVE  IInv'
<1> DEFINE Computes == VisitFormula \/ Apply \/ Reply
<1>1. /\ pc = "eval" /\ Stored /\ tx \in {"ok", "aborted"}
      /\ tx' = tx \/ tx' = "aborted"
      /\ tx' = "aborted" /\ Computes => tx = "aborted"
  BY DEF VisitFormula, Apply, LookupTenant, LookupCatalog, ReadLatest, Reply, Visiting,
         Works, Fails, Computed, IInv, TypeOK
<1>2. CASE tx = "ok" /\ tx' = "ok"
  <2>1. TypeOK /\ LookupsFound
        /\ \A c \in Codes : readings[c] \in sawReadings[c] /\ tenant[c] \in sawDefs[c]
    BY <1>1, <1>2 DEF IInv, SawInv, LookupsFound, Found
  <2>2. ASSUME NEW V, Closed(V) PROVE Outcome(V)
    <3>1. PICK stacks, fuel : Accepts(V, stacks, fuel)
      BY <1>1, <1>2, <2>2 DEF IInv, JustInv
    <3>2. CASE VisitFormula
      BY <2>1, <2>2, <3>1, <3>2, VisitFormulaStep
    <3>3. CASE Apply
      BY <2>1, <2>2, <3>1, <3>3, ApplyStep
    <3>4. CASE LookupTenant
      BY <1>2, <2>1, <2>2, <3>1, <3>4, LookupTenantStep
    <3>5. CASE LookupCatalog
      BY <1>2, <2>1, <2>2, <3>1, <3>5, LookupCatalogStep
    <3>6. CASE ReadLatest
      BY <1>2, <2>1, <2>2, <3>1, <3>6, ReadLatestStep
    <3>7. CASE Reply
      BY <2>1, <3>1, <3>7, ReplyStep
    <3> QED BY <3>2, <3>3, <3>4, <3>5, <3>6, <3>7
  <2> QED BY <1>1, <1>2, <2>2, OutcomeStep
<1>3. CASE tx' = "aborted"
  <2>1. CASE Computes
    <3>1. todo # <<>> /\ Node.kind = "catalog"
      BY <1>1, <1>3, <2>1 DEF IInv, AbortedInv
    <3> QED BY <2>1, <3>1 DEF VisitFormula, Apply, Reply, Visiting
  <2>2. CASE LookupTenant
    BY <1>3, <2>2, DroppedErrorStep
  <2>3. CASE LookupCatalog \/ ReadLatest
    <3>1. Stop(Failed)
      BY <1>3, <2>3 DEF LookupCatalog, ReadLatest, Works
    <3> QED BY <1>1, <1>3, <3>1, StopStep
  <2> QED BY <2>1, <2>2, <2>3
<1> QED BY <1>1, <1>2, <1>3

\* The client hangs up.
LEMMA HangUpStep ==
    ASSUME Parameters, IInv, HangUp
    PROVE  IInv'
<1>1. pc = "eval" /\ Stored /\ tx' \in {"ok", "aborted"} /\ Stop(NoAnswer)
  BY DEF HangUp, Computed, IInv, TypeOK
<1> QED BY <1>1, StopStep

\* The process ends and is started anew.
LEMMA DeathStep ==
    ASSUME Parameters, IInv, Overflow \/ Restart \/ UNCHANGED vars
    PROVE  IInv'
<1>1. TypeOK /\ SawInv /\ AbortedInv /\ JustInv
  BY DEF IInv
<1>2. CASE Overflow
  <2>1. TypeOK'
    BY <1>1, <1>2 DEF TypeOK, DraftsOf, Overflow, Computed, Stored
  <2>2. SawInv' /\ AbortedInv' /\ JustInv'
    BY <1>1, <1>2 DEF SawInv, AbortedInv, JustInv, Overflow, Computed, Stored
  <2> QED BY <2>1, <2>2 DEF IInv
<1>3. CASE Restart
  <2>1. TypeOK'
    BY <1>1, <1>3 DEF TypeOK, DraftsOf, Restart, Computed, Stored
  <2>2. SawInv' /\ AbortedInv' /\ JustInv'
    BY <1>1, <1>3 DEF SawInv, AbortedInv, JustInv, Restart, Computed, Stored
  <2> QED BY <2>1, <2>2 DEF IInv
<1>4. CASE UNCHANGED vars
  <2>1. TypeOK'
    BY <1>1, <1>4 DEF TypeOK, DraftsOf, vars
  <2>2. SawInv'
    BY <1>1, <1>4 DEF SawInv, vars
  <2>3. JustInv' /\ AbortedInv'
    BY <1>1, <1>4, EnvStep, AbortedSame DEF vars
  <2> QED BY <2>1, <2>2, <2>3 DEF IInv
<1> QED BY <1>2, <1>3, <1>4

-----------------------------------------------------------------------------
\* For any formulas, codes, catalog, drafts, prices and size of the stack, what is
\* left to do and the operands in hand compute what the formula means, until a
\* statement fails; after that the catalog is asked at most, and refuses.
THEOREM Invariance == Spec => []IInv
<1> USE ComposerAssumption DEF ComposerAssumption
<1>1. Init => IInv
  BY InitState
<1>2. IInv /\ [Next]_vars => IInv'
  <2> SUFFICES ASSUME IInv, [Next]_vars PROVE IInv'
    OBVIOUS
  <2>1. CASE Evaluate
    BY <2>1, EvaluateStep, DeathStep DEF Evaluate
  <2>2. CASE HangUp
    BY <2>2, HangUpStep
  <2>3. CASE Restart \/ UNCHANGED vars
    BY <2>3, DeathStep
  <2>4. CASE \E c \in Codes : Ask(c)
    BY <2>4, AskStep
  <2>5. CASE \E c \in Codes, v \in Prices : AddReading(c, v)
    BY <2>5, AddReadingStep
  <2>6. CASE \E d \in Drafts : CreateIndicator(d[1], d[2])
    BY <2>6, CreateIndicatorStep
  <2> QED BY <2>1, <2>2, <2>3, <2>4, <2>5, <2>6 DEF Next
<1> QED BY <1>1, <1>2, PTL DEF Spec

\* Every variable keeps its type, and no operation lacks an operand.
THEOREM TypeCorrect == Spec => []TypeOK
<1>1. IInv => TypeOK
  BY DEF IInv
<1> QED BY <1>1, Invariance, PTL

\* What a client is told is a value that the recursive definition gives the formula,
\* from readings and definitions each of which held at some moment of the request,
\* however they change while it runs, or an error after the database failed.
THEOREM AnswerJustifiedHolds == Spec => []AnswerJustified
<1>1. IInv => AnswerJustified
  <2> SUFFICES ASSUME IInv PROVE AnswerJustified
    OBVIOUS
  <2>1. Closed(Possible)
    BY PossibleClosed, ComposerAssumption DEF IInv, ComposerAssumption
  <2>2. \A V : Closed(V) => (pc = "idle" /\ answer # NoAnswer =>
                                Justified(V, answer) \/ DatabaseFailed)
    BY DEF IInv, JustInv
  <2> HIDE DEF Possible
  <2> QED BY <2>1, <2>2 DEF AnswerJustified
<1> QED BY <1>1, Invariance, PTL

-----------------------------------------------------------------------------
CONSTANTS Goals, Indicators, Linkable, MinReadings, MaxReadings, MaxFaults
VARIABLES series, goals, links, ind, rows, pending, forecast, faults, was, told
F == INSTANCE Forecaster

\* A link is a pair of a goal and an indicator.
LEMMA LinksHaveEnds ==
    F!Parameters => \A l \in Linkable : l[1] \in Goals /\ l[2] \in Indicators
BY DEF F!Parameters

\* The process is at one step, and holds what belongs to it.
LEMMA Places ==
    ASSUME F!Parameters, F!TypeOK
    PROVE  /\ pc # "links" => ind = {}
           /\ pc \in {"sleep", "series"} => rows = 0
           /\ rows \in Nat /\ (pc \in {"links", "post"} => rows > 0)
BY DEF F!Parameters, F!TypeOK

-----------------------------------------------------------------------------
\* What users and readings do leaves the tick alone.
LEMMA UserType ==
    ASSUME F!Parameters, F!TypeOK,
           \/ \E i \in Indicators : F!AddReading(i)
           \/ \E l \in Linkable :
                 F!Unlink(l) \/ \E role \in {"primary", "driver"} : F!Link(l, role)
           \/ \E g \in Goals : F!DeleteGoal(g)
    PROVE  F!TypeOK'
<1> USE DEF F!Parameters, F!TypeOK, F!tickVars, F!storedVars
<1>1. ASSUME NEW i \in Indicators, F!AddReading(i) PROVE F!TypeOK'
  BY <1>1 DEF F!AddReading
<1>2. ASSUME NEW l \in Linkable, F!Unlink(l) PROVE F!TypeOK'
  BY <1>2 DEF F!Unlink
<1>3. ASSUME NEW l \in Linkable, NEW role \in {"primary", "driver"}, F!Link(l, role)
      PROVE  F!TypeOK'
  BY <1>3 DEF F!Link
<1>4. ASSUME NEW g \in Goals, F!DeleteGoal(g) PROVE F!TypeOK'
  BY <1>4 DEF F!DeleteGoal
<1> QED BY <1>1, <1>2, <1>3, <1>4

\* A tick that is left forgets what it had in hand.
LEMMA SleepType ==
    ASSUME F!Parameters, F!TypeOK, F!Sleep, UNCHANGED F!userVars,
           forecast' \in [Linkable -> 0 .. MaxReadings], faults' \in 0 .. MaxFaults
    PROVE  F!TypeOK'
BY DEF F!Parameters, F!TypeOK, F!Sleep, F!userVars

\* Each statement of the tick keeps the types.
LEMMA TickType ==
    ASSUME F!Parameters, F!TypeOK, F!Tick \/ F!FitFails \/ F!Abort
    PROVE  F!TypeOK'
<1> USE Places
    DEF F!Parameters, F!userVars, F!storedVars, F!tickVars, F!Fault
<1>1. CASE F!BeginTick
  BY <1>1 DEF F!TypeOK, F!BeginTick, F!Primary
<1>2. CASE F!FindLinkedGoals
  BY <1>2 DEF F!TypeOK, F!FindLinkedGoals, F!Primary
<1>3. CASE F!NextIndicator
  BY <1>3 DEF F!TypeOK, F!NextIndicator
<1>4. CASE F!EndTick
  BY <1>4, SleepType DEF F!TypeOK, F!EndTick
<1>5. ASSUME NEW i \in Indicators, F!FetchSeries(i) PROVE F!TypeOK'
  <2>1. series[i] \in 0 .. MaxReadings
    BY DEF F!TypeOK
  <2>2. CASE series[i] < MinReadings
    BY <1>5, <2>2 DEF F!TypeOK, F!FetchSeries
  <2>3. CASE ~(series[i] < MinReadings)
    BY <1>5, <2>1, <2>3 DEF F!TypeOK, F!FetchSeries
  <2> QED BY <2>2, <2>3
<1>6. ASSUME NEW l \in Linkable, F!WriteForecast(l) PROVE F!TypeOK'
  <2>1. forecast' \in [Linkable -> 0 .. MaxReadings] /\ faults' \in 0 .. MaxFaults
    BY <1>6 DEF F!TypeOK, F!WriteForecast, F!Store
  <2>2. CASE F!Sleep
    BY <1>6, <2>1, <2>2, SleepType DEF F!WriteForecast
  <2>3. CASE F!Told(l) /\ told' \in {told, [told EXCEPT ![l] = @ + 1]}
    BY <1>6, <2>1, <2>3 DEF F!TypeOK, F!WriteForecast, F!Told
  <2> QED BY <1>6, <2>2, <2>3 DEF F!WriteForecast, F!Count
<1>7. CASE F!FitFails
  BY <1>7 DEF F!TypeOK, F!FitFails
<1>8. CASE F!Abort
  BY <1>8, SleepType DEF F!TypeOK, F!Abort
<1> QED BY <1>1, <1>2, <1>3, <1>4, <1>5, <1>6, <1>7, <1>8 DEF F!Tick

\* Every variable keeps its type, whatever users, readings and failures do.
THEOREM ForecastTypeCorrect == F!Parameters => (F!Spec => []F!TypeOK)
<1> SUFFICES ASSUME F!Parameters PROVE F!Spec => []F!TypeOK
  OBVIOUS
<1>1. F!Init => F!TypeOK
  BY DEF F!Parameters, F!Init, F!TypeOK
<1>2. F!TypeOK /\ [F!Next]_(F!vars) => F!TypeOK'
  <2> SUFFICES ASSUME F!TypeOK, [F!Next]_(F!vars) PROVE F!TypeOK'
    OBVIOUS
  <2>1. CASE UNCHANGED F!vars
    BY <2>1 DEF F!TypeOK, F!vars
  <2> QED BY <2>1, UserType, TickType DEF F!Next
<1> QED BY <1>1, <1>2, PTL DEF F!Spec

-----------------------------------------------------------------------------
\* Users and readings keep what the tick relies on: a reading is only added, and a
\* link that becomes `primary' is remembered.
LEMMA UserKeeps ==
    ASSUME F!Parameters, F!IInv, F!TypeOK',
           \/ \E i \in Indicators : F!AddReading(i)
           \/ \E l \in Linkable :
                 F!Unlink(l) \/ \E role \in {"primary", "driver"} : F!Link(l, role)
           \/ \E g \in Goals : F!DeleteGoal(g)
    PROVE  F!IInv'
<1> USE LinksHaveEnds DEF F!IInv, F!tickVars, F!storedVars
<1>1. F!HandInv' /\ F!TurnInv'
  BY DEF F!HandInv, F!TurnInv, F!AddReading, F!Unlink, F!Link, F!DeleteGoal
<1>2. F!WasInv'
  <2>1. ASSUME NEW l \in Linkable, NEW role \in {"primary", "driver"}, F!Link(l, role)
        PROVE  F!WasInv'
    BY <2>1 DEF F!WasInv, F!Link, F!Primary, F!TypeOK
  <2>2. ASSUME NEW l \in Linkable, F!Unlink(l) PROVE F!WasInv'
    BY <2>2 DEF F!WasInv, F!Unlink, F!Primary, F!TypeOK
  <2>3. ASSUME NEW g \in Goals, F!DeleteGoal(g) PROVE F!WasInv'
    BY <2>3 DEF F!WasInv, F!DeleteGoal, F!Primary, F!TypeOK
  <2>4. ASSUME NEW i \in Indicators, F!AddReading(i) PROVE F!WasInv'
    BY <2>4 DEF F!WasInv, F!AddReading, F!Primary
  <2> QED BY <2>1, <2>2, <2>3, <2>4
<1>3. F!BasedInv'
  <2>1. \A i \in Indicators :
           series[i] \in Nat /\ series'[i] \in Nat /\ series[i] <= series'[i]
    BY DEF F!Parameters, F!TypeOK, F!AddReading, F!Unlink, F!Link, F!DeleteGoal
  <2>2. UNCHANGED <<pc, ind, rows, pending, forecast>>
    BY DEF F!AddReading, F!Unlink, F!Link, F!DeleteGoal
  <2>3. \A l \in Linkable : forecast[l] \in Nat /\ rows \in Nat
    BY DEF F!TypeOK
  <2> QED BY <2>1, <2>2, <2>3 DEF F!BasedInv
<1> QED BY <1>1, <1>2, <1>3

\* A tick that is left, at any moment, leaves nothing to rely on.
LEMMA SleepKeeps ==
    ASSUME F!Parameters, F!TypeOK, F!TypeOK', F!Sleep, UNCHANGED F!userVars,
           \A l \in Linkable : forecast'[l] <= series[l[2]]
    PROVE  F!IInv'
BY DEF F!IInv, F!HandInv, F!WasInv, F!TurnInv, F!BasedInv, F!TypeOK, F!Sleep, F!userVars,
       F!Primary

\* Reaching an indicator, and finding whom to tell.
LEMMA TickKeeps ==
    ASSUME F!Parameters, F!IInv, F!TypeOK',
           \/ F!BeginTick \/ F!FindLinkedGoals \/ F!NextIndicator \/ F!EndTick
           \/ F!FitFails \/ F!Abort \/ \E i \in Indicators : F!FetchSeries(i)
    PROVE  F!IInv'
<1> USE Places, LinksHaveEnds DEF F!IInv, F!userVars, F!storedVars
<1>1. CASE F!BeginTick
  BY <1>1 DEF F!BeginTick, F!HandInv, F!WasInv, F!TurnInv, F!BasedInv, F!Primary
<1>2. CASE F!FindLinkedGoals
  BY <1>2 DEF F!FindLinkedGoals, F!HandInv, F!WasInv, F!TurnInv, F!BasedInv, F!Primary
<1>3. CASE F!NextIndicator
  BY <1>3 DEF F!NextIndicator, F!HandInv, F!WasInv, F!TurnInv, F!BasedInv, F!Primary
<1>4. CASE F!EndTick
  BY <1>4, SleepKeeps DEF F!EndTick, F!BasedInv
<1>5. ASSUME NEW i \in Indicators, F!FetchSeries(i) PROVE F!IInv'
  <2>1. series[i] \in Nat /\ MinReadings \in Nat
        /\ \A l \in Linkable : forecast[l] \in Nat /\ series[l[2]] \in Nat
    BY DEF F!Parameters, F!TypeOK
  <2>2. F!HandInv' /\ F!WasInv' /\ F!TurnInv'
    BY <1>5 DEF F!FetchSeries, F!HandInv, F!WasInv, F!TurnInv, F!Primary
  <2>3. F!BasedInv'
    BY <1>5, <2>1 DEF F!FetchSeries, F!HandInv, F!BasedInv
  <2> QED BY <2>2, <2>3
<1>6. CASE F!FitFails
  BY <1>6 DEF F!FitFails, F!HandInv, F!WasInv, F!TurnInv, F!BasedInv, F!Primary
<1>7. CASE F!Abort
  BY <1>7, SleepKeeps DEF F!Abort, F!BasedInv
<1> QED BY <1>1, <1>2, <1>3, <1>4, <1>5, <1>6, <1>7

\* Telling a link: its forecast grows to the readings in hand, and it is not
\* pending any more, however the call ends.
LEMMA WriteKeeps ==
    ASSUME F!Parameters, F!IInv, F!TypeOK', NEW l \in Linkable, F!WriteForecast(l)
    PROVE  F!IInv'
<1> USE Places, LinksHaveEnds DEF F!IInv, F!userVars
<1>1. rows \in forecast[l] .. series[l[2]] /\ l \in pending /\ pc = "post" /\ ind = {}
  BY DEF F!WriteForecast, F!BasedInv
<1>2. \A m \in Linkable : m # l => forecast'[m] = forecast[m]
  BY DEF F!WriteForecast, F!Store, F!storedVars, F!TypeOK
<1>3. \A m \in Linkable : forecast'[m] <= series[m[2]]
  <2>1. forecast'[l] \in {forecast[l], rows}
    BY DEF F!WriteForecast, F!Store, F!storedVars, F!TypeOK
  <2> QED BY <1>1, <1>2, <2>1 DEF F!BasedInv
<1>4. CASE F!Sleep
  BY <1>3, <1>4, SleepKeeps DEF F!WriteForecast
<1>5. CASE F!Told(l) /\ told' \in {told, [told EXCEPT ![l] = @ + 1]}
  <2>1. \A m \in Linkable : m # l => told'[m] = told[m]
    BY <1>5 DEF F!TypeOK
  <2>2. F!HandInv' /\ F!WasInv'
    BY <1>1, <1>5 DEF F!WriteForecast, F!Told, F!HandInv, F!WasInv, F!Primary
  <2>3. F!TurnInv'
    BY <1>1, <1>5, <2>1 DEF F!WriteForecast, F!Told, F!TurnInv
  <2>4. F!BasedInv'
    BY <1>1, <1>2, <1>3, <1>5 DEF F!WriteForecast, F!Told, F!BasedInv
  <2> QED BY <2>2, <2>3, <2>4
<1> QED BY <1>4, <1>5 DEF F!WriteForecast, F!Count, F!storedVars

\* The inductive invariant holds in every reachable state.
THEOREM ForecastInvariance == F!Parameters => (F!Spec => []F!IInv)
<1> SUFFICES ASSUME F!Parameters PROVE F!Spec => []F!IInv
  OBVIOUS
<1>1. F!Init => F!TypeOK
  BY DEF F!Parameters, F!Init, F!TypeOK
<1>2. F!Init => F!IInv
  BY <1>1, LinksHaveEnds DEF F!Parameters, F!Init, F!IInv, F!HandInv, F!WasInv,
     F!TurnInv, F!BasedInv
<1>3. F!IInv /\ F!TypeOK' /\ [F!Next]_(F!vars) => F!IInv'
  <2> SUFFICES ASSUME F!IInv, F!TypeOK', [F!Next]_(F!vars) PROVE F!IInv'
    OBVIOUS
  <2>1. CASE UNCHANGED F!vars
    BY <2>1 DEF F!vars, F!IInv, F!HandInv, F!WasInv, F!TurnInv, F!BasedInv, F!Primary
  <2> QED BY <2>1, UserKeeps, TickKeeps, WriteKeeps DEF F!Next, F!Tick
<1> QED BY <1>2, <1>3, ForecastTypeCorrect, PTL DEF F!Spec

\* A forecast that is stored is for a link the tick saw as `primary' and has not
\* told yet, from readings that are there, enough, and no fewer than before.
THEOREM ForecastGroundedHolds == F!Parameters => (F!Spec => F!ForecastGrounded)
<1> SUFFICES ASSUME F!Parameters PROVE F!Spec => F!ForecastGrounded
  OBVIOUS
<1> DEFINE Step == \A l \in Linkable :
                      told'[l] > told[l] \/ forecast'[l] # forecast[l] => F!Grounded(l)
<1>1. F!IInv /\ [F!Next]_(F!vars) => [Step]_(F!vars)
  <2> SUFFICES ASSUME F!IInv, F!Next, NEW l \in Linkable,
                      told'[l] > told[l] \/ forecast'[l] # forecast[l]
               PROVE  F!Grounded(l)
    BY DEF Step
  <2>1. told[l] \in Nat /\ forecast[l] \in Nat /\ rows \in Nat /\ series[l[2]] \in Nat
    BY LinksHaveEnds DEF F!IInv, F!TypeOK
  <2>2. PICK m \in Linkable : F!WriteForecast(m)
    BY <2>1 DEF F!Next, F!Tick, F!BeginTick, F!FindLinkedGoals, F!NextIndicator,
                F!EndTick, F!FetchSeries, F!FitFails, F!Abort, F!AddReading, F!Unlink,
                F!Link, F!DeleteGoal,
                F!Sleep, F!storedVars, F!IInv, F!TypeOK
  <2>3. m = l /\ forecast'[l] = rows
    BY <2>1, <2>2 DEF F!WriteForecast, F!Store, F!Count, F!Told, F!Sleep, F!storedVars,
       F!IInv, F!TypeOK
  <2>4. l \in was /\ told[l] = 0 /\ rows >= MinReadings
    BY <2>2, <2>3 DEF F!WriteForecast, F!IInv, F!WasInv, F!TurnInv, F!BasedInv
  <2>5. rows \in forecast[l] .. series[l[2]]
    BY <2>2, <2>3 DEF F!WriteForecast, F!IInv, F!BasedInv
  <2>6. series' = series /\ MinReadings \in Nat
    BY <2>2 DEF F!Parameters, F!WriteForecast, F!userVars
  <2> QED BY <2>1, <2>3, <2>4, <2>5, <2>6 DEF F!Grounded
<1> QED BY <1>1, ForecastInvariance, PTL DEF F!Spec, F!ForecastGrounded
=============================================================================

--------------------------- MODULE MeaningProofs ----------------------------
(***************************************************************************)
(* What module Expressions defines, for expressions of any depth:          *)
(* expressions and their code are what the recursive functions say, the    *)
(* equation of Eval has a solution, and the code of an expression computes *)
(* its value, on top of any values, wherever it stands and whatever        *)
(* functions it calls.                                                     *)
(***************************************************************************)
EXTENDS Expressions, CalculatorProofs, NaturalsInduction, WellFoundedInduction

-----------------------------------------------------------------------------
(* Induction on natural numbers, in the form that sets allow; expressions. *)

\* A set of numbers that is not empty has a least element.
LEMMA LeastNatural ==
    ASSUME NEW S \in SUBSET Nat, S # {}
    PROVE  \E n \in S : \A m \in S : n <= m
<1> DEFINE R == {ss \in Nat \X Nat : ss[1] < ss[2]}
<1>1. IsWellFoundedOn(R, Nat)
  BY NatLessThanWellFounded DEF OpToRel
<1> HIDE DEF R
<1>2. PICK n \in S : \A m \in S : <<m, n>> \notin R
  BY <1>1, WFMin
<1>3. \A m \in S : ~ (m < n)
  BY <1>2 DEF R
<1> QED
  BY <1>3

\* A set that holds 0 and with each number the next one holds them all.
LEMMA EveryNatural ==
    ASSUME NEW S, 0 \in S, \A n \in Nat : n \in S => n + 1 \in S
    PROVE  \A n \in Nat : n \in S
<1> SUFFICES ASSUME Nat \ S # {} PROVE FALSE
  OBVIOUS
<1>1. PICK n \in Nat \ S : \A m \in Nat \ S : n <= m
  BY LeastNatural
<1>2. n - 1 \in Nat /\ n - 1 \in S
  BY <1>1
<1> QED
  BY <1>1, <1>2

\* g lists the expressions of each depth up to n.
IsUpto(g, n) == g = [d \in 0..n |-> IF d = 0 THEN {} ELSE Nodes(g[d - 1])]

\* The expressions of depth d, when g lists them.
LEMMA UptoAt ==
    ASSUME NEW n \in Nat, NEW g, IsUpto(g, n), NEW d \in 0..n
    PROVE  g[d] = IF d = 0 THEN {} ELSE Nodes(g[d - 1])
<1>1. [q \in 0..n |-> IF q = 0 THEN {} ELSE Nodes(g[q - 1])][d] = IF d = 0 THEN {} ELSE Nodes(g[d - 1])
  OBVIOUS
<1> QED
  BY <1>1, Zenon DEF IsUpto

\* There is such a list up to any depth.
LEMMA UptoExists ==
    ASSUME NEW n \in Nat
    PROVE  \E g : IsUpto(g, n)
<1> DEFINE S == {q \in Nat : \E g : IsUpto(g, q)}
<1>1. 0 \in S
  <2>1. IsUpto([r \in 0..0 |-> {}], 0)
    BY DEF IsUpto
  <2> QED
    BY <2>1
<1>2. ASSUME NEW d \in Nat, d \in S PROVE d + 1 \in S
  <2>1. PICK g : IsUpto(g, d)
    BY <1>2
  <2>2. PICK new : new = Nodes(g[d])
    OBVIOUS
  <2> DEFINE h == [r \in 0..(d + 1) |-> IF r = d + 1 THEN new ELSE g[r]]
  <2>3. ASSUME NEW r \in 0..(d + 1) PROVE h[r] = IF r = 0 THEN {} ELSE Nodes(h[r - 1])
    <3>1. CASE r = d + 1
      <4>1. r # 0 /\ r - 1 = d /\ d \in 0..(d + 1) /\ d # d + 1
        BY <3>1
      <4>2. h[d] = g[d] /\ h[r] = new
        BY <3>1, <4>1
      <4> QED
        BY <2>2, <4>1, <4>2
    <3>2. CASE r # d + 1
      <4>1. r \in 0..d
        BY <3>2
      <4>2. g[r] = IF r = 0 THEN {} ELSE Nodes(g[r - 1])
        BY <2>1, <4>1, UptoAt
      <4>3. h[r] = g[r]
        BY <3>2
      <4>4. r # 0 => h[r - 1] = g[r - 1]
        BY <4>1
      <4> QED
        BY <4>2, <4>3, <4>4
    <3> QED
      BY <3>1, <3>2
  <2>4. h = [r \in 0..(d + 1) |-> IF r = 0 THEN {} ELSE Nodes(h[r - 1])]
    BY <2>3
  <2> HIDE DEF h
  <2>5. IsUpto(h, d + 1)
    BY <2>4, Zenon DEF IsUpto
  <2>6. d + 1 \in Nat
    OBVIOUS
  <2> QED
    BY <2>5, <2>6
<1> HIDE DEF S
<1>3. n \in S
  BY <1>1, <1>2, EveryNatural
<1> QED
  BY <1>3 DEF S

\* So Upto is what its definition says.
LEMMA UptoIs == ASSUME NEW d \in 0..Depth PROVE Upto[d] = IF d = 0 THEN {} ELSE Nodes(Upto[d - 1])
<1>1. Upto = CHOOSE g : g = [k \in 0..Depth |-> IF k = 0 THEN {} ELSE Nodes(g[k - 1])]
  BY DEF Upto
<1>2. \E g : g = [k \in 0..Depth |-> IF k = 0 THEN {} ELSE Nodes(g[k - 1])]
  BY UptoExists, DepthAssumption, Zenon DEF IsUpto
<1>3. Upto = [k \in 0..Depth |-> IF k = 0 THEN {} ELSE Nodes(Upto[k - 1])]
  BY <1>1, <1>2, Zenon
<1>4. IsUpto(Upto, Depth)
  BY <1>3, Zenon DEF IsUpto
<1> QED
  BY <1>4, UptoAt, DepthAssumption

\* What an expression of each kind is made of.
NodeOf(S, e) ==
    /\ e.parts \in Seq(S) /\ Len(e.parts) \in Nat
    /\ \A i \in 1..Len(e.parts) : e.parts[i] \in S
    /\ \/ e.k = "const" /\ e.v \in AllValues
       \/ e.k = "var" /\ e.name \in Variables
       \/ e.k = "arg" /\ e.f \in Functions /\ e.i \in 1..4
       \/ e.k = "rand"
       \/ e.k = "un" /\ e.op \in UnaryOps \cup Bessel /\ Len(e.parts) = 1
       \/ e.k = "bin" /\ e.op \in BinaryOps /\ Len(e.parts) = 2
       \/ e.k = "and" /\ Len(e.parts) = 2
       \/ e.k = "or" /\ Len(e.parts) = 2
       \/ e.k = "if" /\ Len(e.parts) = 3
       \/ e.k = "call" /\ e.f \in Functions /\ Len(e.parts) = Arity[e.f]

\* A function on 1..n is a sequence.
LEMMA ListsAre ==
    ASSUME NEW S, NEW n \in Nat, NEW s \in [1..n -> S]
    PROVE  s \in Seq(S) /\ Len(s) = n /\ \A i \in 1..n : s[i] \in S
  OBVIOUS

\* What an expression over S is made of.
LEMMA NodeParts == ASSUME NEW S, NEW e \in Nodes(S) PROVE NodeOf(S, e)
<1>1. CASE e \in [k : {"const"}, v : AllValues, parts : {<<>>}]
  <2>1. e.parts = <<>> /\ e.k = "const" /\ e.v \in AllValues
    BY <1>1
  <2>2. e.parts \in Seq(S) /\ Len(e.parts) = 0
    BY <2>1
  <2> QED
    BY <2>1, <2>2 DEF NodeOf
<1>2. CASE e \in [k : {"var"}, name : Variables, parts : {<<>>}]
  <2>1. e.parts = <<>> /\ e.k = "var" /\ e.name \in Variables
    BY <1>2
  <2>2. e.parts \in Seq(S) /\ Len(e.parts) = 0
    BY <2>1
  <2> QED
    BY <2>1, <2>2 DEF NodeOf
<1>3. CASE e \in [k : {"arg"}, f : Functions, i : 1..4, parts : {<<>>}]
  <2>1. e.parts = <<>> /\ e.k = "arg" /\ e.f \in Functions /\ e.i \in 1..4
    BY <1>3
  <2>2. e.parts \in Seq(S) /\ Len(e.parts) = 0
    BY <2>1
  <2> QED
    BY <2>1, <2>2 DEF NodeOf
<1>4. CASE e \in [k : {"rand"}, parts : {<<>>}]
  <2>1. e.parts = <<>> /\ e.k = "rand" /\ TRUE
    BY <1>4
  <2>2. e.parts \in Seq(S) /\ Len(e.parts) = 0
    BY <2>1
  <2> QED
    BY <2>1, <2>2 DEF NodeOf
<1>5. CASE e \in [k : {"un"}, op : UnaryOps \cup Bessel, parts : [1..1 -> S]]
  <2>1. e.parts \in [1..1 -> S] /\ e.k = "un" /\ e.op \in UnaryOps \cup Bessel
    BY <1>5
  <2>2. e.parts \in Seq(S) /\ Len(e.parts) = 1 /\ \A i \in 1..1 : e.parts[i] \in S
    BY <2>1, ListsAre
  <2> QED
    BY <2>1, <2>2 DEF NodeOf
<1>6. CASE e \in [k : {"bin"}, op : BinaryOps, parts : [1..2 -> S]]
  <2>1. e.parts \in [1..2 -> S] /\ e.k = "bin" /\ e.op \in BinaryOps
    BY <1>6
  <2>2. e.parts \in Seq(S) /\ Len(e.parts) = 2 /\ \A i \in 1..2 : e.parts[i] \in S
    BY <2>1, ListsAre
  <2> QED
    BY <2>1, <2>2 DEF NodeOf
<1>7. CASE e \in [k : {"and", "or"}, parts : [1..2 -> S]]
  <2>1. e.parts \in [1..2 -> S] /\ e.k \in {"and", "or"}
    BY <1>7
  <2>2. e.parts \in Seq(S) /\ Len(e.parts) = 2 /\ \A i \in 1..2 : e.parts[i] \in S
    BY <2>1, ListsAre
  <2> QED
    BY <2>1, <2>2 DEF NodeOf
<1>8. CASE e \in [k : {"if"}, parts : [1..3 -> S]]
  <2>1. e.parts \in [1..3 -> S] /\ e.k = "if"
    BY <1>8
  <2>2. e.parts \in Seq(S) /\ Len(e.parts) = 3 /\ \A i \in 1..3 : e.parts[i] \in S
    BY <2>1, ListsAre
  <2> QED
    BY <2>1, <2>2 DEF NodeOf
<1>9. CASE e \in {d \in [k : {"call"}, f : Functions, parts : Seq(S)] : Len(d.parts) = Arity[d.f]}
  BY <1>9 DEF NodeOf
<1> QED
  BY <1>1, <1>2, <1>3, <1>4, <1>5, <1>6, <1>7, <1>8, <1>9 DEF Nodes

\* More parts, more expressions.
LEMMA NodesGrow == ASSUME NEW S, NEW T, S \subseteq T PROVE Nodes(S) \subseteq Nodes(T)
<1>1. [1..1 -> S] \subseteq [1..1 -> T] /\ [1..2 -> S] \subseteq [1..2 -> T] /\ [1..3 -> S] \subseteq [1..3 -> T]
  OBVIOUS
<1>2. Seq(S) \subseteq Seq(T)
  OBVIOUS
<1> SUFFICES ASSUME NEW e \in Nodes(S) PROVE e \in Nodes(T)
  OBVIOUS
<1>3. CASE \/ e \in [k : {"const"}, v : AllValues, parts : {<<>>}]
           \/ e \in [k : {"var"}, name : Variables, parts : {<<>>}]
           \/ e \in [k : {"arg"}, f : Functions, i : 1..4, parts : {<<>>}]
           \/ e \in [k : {"rand"}, parts : {<<>>}]
  BY <1>3 DEF Nodes
<1>4. CASE e \in [k : {"un"}, op : UnaryOps \cup Bessel, parts : [1..1 -> S]]
  <2>1. e \in [k : {"un"}, op : UnaryOps \cup Bessel, parts : [1..1 -> T]]
    BY <1>1, <1>4
  <2> QED
    BY <2>1, Zenon DEF Nodes
<1>5. CASE e \in [k : {"bin"}, op : BinaryOps, parts : [1..2 -> S]]
  <2>1. e \in [k : {"bin"}, op : BinaryOps, parts : [1..2 -> T]]
    BY <1>1, <1>5
  <2> QED
    BY <2>1, Zenon DEF Nodes
<1>6. CASE e \in [k : {"and", "or"}, parts : [1..2 -> S]]
  <2>1. e \in [k : {"and", "or"}, parts : [1..2 -> T]]
    BY <1>1, <1>6
  <2> QED
    BY <2>1, Zenon DEF Nodes
<1>7. CASE e \in [k : {"if"}, parts : [1..3 -> S]]
  <2>1. e \in [k : {"if"}, parts : [1..3 -> T]]
    BY <1>1, <1>7
  <2> QED
    BY <2>1, Zenon DEF Nodes
<1>8. CASE e \in {d \in [k : {"call"}, f : Functions, parts : Seq(S)] : Len(d.parts) = Arity[d.f]}
  <2>1. e \in [k : {"call"}, f : Functions, parts : Seq(T)] /\ Len(e.parts) = Arity[e.f]
    BY <1>2, <1>8
  <2>2. e \in {d \in [k : {"call"}, f : Functions, parts : Seq(T)] : Len(d.parts) = Arity[d.f]}
    BY <2>1, Zenon
  <2> QED
    BY <2>2, Zenon DEF Nodes
<1> QED
  BY <1>3, <1>4, <1>5, <1>6, <1>7, <1>8, Zenon DEF Nodes

\* An expression of one depth is also one of the next.
LEMMA UptoGrows == ASSUME NEW d \in 0..Depth, d < Depth PROVE Upto[d] \subseteq Upto[d + 1]
<1> DEFINE S == {n \in Nat : n + 1 \in 0..Depth => Upto[n] \subseteq Upto[n + 1]}
<1>1. 0 \in S
  BY UptoIs, DepthAssumption
<1>2. ASSUME NEW n \in Nat, n \in S PROVE n + 1 \in S
  <2> SUFFICES ASSUME n + 2 \in 0..Depth PROVE Upto[n + 1] \subseteq Upto[n + 2]
    BY DepthAssumption
  <2>1. Upto[n] \subseteq Upto[n + 1]
    BY <1>2, DepthAssumption
  <2>2. n + 1 \in 0..Depth /\ n + 1 # 0 /\ (n + 1) - 1 = n /\ n + 2 # 0 /\ (n + 2) - 1 = n + 1
    BY DepthAssumption
  <2>3. Upto[n + 1] = Nodes(Upto[n]) /\ Upto[n + 2] = Nodes(Upto[n + 1])
    BY <2>2, UptoIs
  <2> QED
    BY <2>1, <2>3, NodesGrow
<1> HIDE DEF S
<1>3. d \in S
  BY <1>1, <1>2, EveryNatural
<1> QED
  BY <1>3, DepthAssumption DEF S

\* All of them are expressions.
LEMMA UptoWithin == ASSUME NEW d \in 0..Depth PROVE Upto[d] \subseteq Exprs
<1> DEFINE S == {n \in Nat : n <= Depth => Upto[Depth - n] \subseteq Exprs}
<1>1. 0 \in S
  BY DepthAssumption DEF Exprs
<1>2. ASSUME NEW n \in Nat, n \in S PROVE n + 1 \in S
  <2> SUFFICES ASSUME n + 1 <= Depth PROVE Upto[Depth - (n + 1)] \subseteq Exprs
    OBVIOUS
  <2> DEFINE m == Depth - (n + 1)
  <2>1. m \in 0..Depth /\ m < Depth /\ m + 1 = Depth - n
    BY DepthAssumption
  <2>2. Upto[Depth - n] \subseteq Exprs
    BY <1>2, DepthAssumption
  <2>3. Upto[m] \subseteq Upto[m + 1]
    BY <2>1, UptoGrows
  <2> QED
    BY <2>1, <2>2, <2>3
<1> HIDE DEF S
<1>3. Depth - d \in S
  <2>1. Depth - d \in Nat
    BY DepthAssumption
  <2> QED
    BY <1>1, <1>2, <2>1, EveryNatural
<1> QED
  BY <1>3, DepthAssumption DEF S

\* An expression, and its parts, which are nested less deep.
LEMMA DeepParts ==
    ASSUME NEW d \in 0..Depth, NEW e \in Upto[d]
    PROVE  d # 0 /\ d - 1 \in 0..Depth /\ NodeOf(Upto[d - 1], e)
<1>1. d # 0
  BY UptoIs
<1>2. e \in Nodes(Upto[d - 1])
  BY <1>1, UptoIs
<1> QED
  BY <1>1, <1>2, NodeParts, DepthAssumption

\* The parts of an expression are expressions.
LEMMA ExprParts == ASSUME NEW e \in Exprs PROVE NodeOf(Exprs, e)
<1>1. Depth \in 0..Depth /\ e \in Upto[Depth]
  BY DepthAssumption DEF Exprs
<1>2. Depth # 0 /\ Depth - 1 \in 0..Depth /\ e \in Nodes(Upto[Depth - 1])
  BY <1>1, UptoIs, DepthAssumption
<1>3. e \in Nodes(Exprs)
  BY <1>2, UptoWithin, NodesGrow
<1> QED
  BY <1>3, NodeParts

-----------------------------------------------------------------------------
\* The code of an expression depends on that of its parts only.
LEMMA LayoutSame ==
    ASSUME NEW S, NEW e, NodeOf(S, e), NEW c, NEW d, \A p \in S : c[p] = d[p]
    PROVE  Layout(c, e) = Layout(d, e)
<1>1. \A i \in 1..Len(e.parts) : c[e.parts[i]] = d[e.parts[i]]
  BY DEF NodeOf
<1>2. CASE e.k \in {"const", "var", "arg", "rand"}
  BY <1>2 DEF Layout
<1>3. CASE e.k = "un"
  <2>1. c[e.parts[1]] = d[e.parts[1]]
    BY <1>1, <1>3 DEF NodeOf
  <2> QED
    BY <1>3, <2>1 DEF Layout
<1>4. CASE e.k = "bin" \/ e.k = "and" \/ e.k = "or"
  <2>1. c[e.parts[1]] = d[e.parts[1]] /\ c[e.parts[2]] = d[e.parts[2]]
    BY <1>1, <1>4 DEF NodeOf
  <2> QED
    BY <1>4, <2>1 DEF Layout
<1>5. CASE e.k = "if"
  <2>1. c[e.parts[1]] = d[e.parts[1]] /\ c[e.parts[2]] = d[e.parts[2]] /\ c[e.parts[3]] = d[e.parts[3]]
    BY <1>1, <1>5 DEF NodeOf
  <2> QED
    BY <1>5, <2>1 DEF Layout
<1>6. CASE e.k = "call"
  <2>1. Len(e.parts) = Arity[e.f]
    BY <1>6 DEF NodeOf
  <2>2. [i \in 1..Arity[e.f] |-> Over(i - 1, c[e.parts[i]])] = [i \in 1..Arity[e.f] |-> Over(i - 1, d[e.parts[i]])]
    BY <1>1, <2>1
  <2> QED
    BY <1>6, <2>2 DEF Layout
<1> QED
  BY <1>2, <1>3, <1>4, <1>5, <1>6 DEF NodeOf

\* g has the code of each expression that is nested at most n deep.
IsCode(g, n) == g = [e \in Upto[n] |-> Layout(g, e)]

\* There is code for the expressions of any depth.
LEMMA CodeExists == ASSUME NEW n \in 0..Depth PROVE \E g : IsCode(g, n)
<1> DEFINE S == {q \in Nat : q \in 0..Depth => \E g : IsCode(g, q)}
<1>1. 0 \in S
  <2>1. Upto[0] = {}
    BY UptoIs, DepthAssumption
  <2>2. IsCode([e \in {} |-> {}], 0)
    BY <2>1 DEF IsCode
  <2> QED
    BY <2>2
<1>2. ASSUME NEW d \in Nat, d \in S PROVE d + 1 \in S
  <2> SUFFICES ASSUME d + 1 \in 0..Depth PROVE \E g : IsCode(g, d + 1)
    OBVIOUS
  <2>0. d \in 0..Depth /\ d < Depth
    BY DepthAssumption
  <2>1. PICK g : IsCode(g, d)
    BY <1>2, <2>0
  <2> DEFINE h == [e \in Upto[d + 1] |-> Layout(g, e)]
  <2>2. \A p \in Upto[d] : h[p] = g[p]
    <3>1. Upto[d] \subseteq Upto[d + 1]
      BY <2>0, UptoGrows
    <3>2. \A p \in Upto[d] : h[p] = Layout(g, p)
      BY <3>1
    <3>3. \A p \in Upto[d] : g[p] = Layout(g, p)
      <4>1. g = [e \in Upto[d] |-> Layout(g, e)]
        BY <2>1, Zenon DEF IsCode
      <4> QED
        BY <4>1
    <3> QED
      BY <3>2, <3>3
  <2>3. ASSUME NEW e \in Upto[d + 1] PROVE Layout(g, e) = Layout(h, e)
    <3>1. NodeOf(Upto[d], e)
      BY DeepParts
    <3> HIDE DEF h
    <3>2. \A p \in Upto[d] : g[p] = h[p]
      BY <2>2
    <3> QED
      BY <3>1, <3>2, LayoutSame
  <2>4. h = [e \in Upto[d + 1] |-> Layout(h, e)]
    <3>1. h = [e \in Upto[d + 1] |-> Layout(g, e)]
      OBVIOUS
    <3> HIDE DEF h
    <3> QED
      BY <2>3, <3>1
  <2> HIDE DEF h
  <2> QED
    BY <2>4, Zenon DEF IsCode
<1> HIDE DEF S
<1>3. n \in S
  BY <1>1, <1>2, EveryNatural
<1> QED
  BY <1>3 DEF S

\* So CodeOf is what its definition says.
LEMMA CodeOfIs == ASSUME NEW e \in Exprs PROVE CodeOf[e] = Layout(CodeOf, e)
<1>1. CodeOf = CHOOSE g : g = [d \in Exprs |-> Layout(g, d)]
  BY DEF CodeOf
<1>2. \E g : g = [d \in Exprs |-> Layout(g, d)]
  <2>1. Depth \in 0..Depth
    BY DepthAssumption
  <2> QED
    BY <2>1, CodeExists, Zenon DEF IsCode, Exprs
<1>3. CodeOf = [d \in Exprs |-> Layout(CodeOf, d)]
  BY <1>1, <1>2, Zenon
<1> QED
  BY <1>3

\* A set that has every expression whose parts it has, has them all.
LEMMA EveryExpression ==
    ASSUME NEW P, \A e \in Exprs : (\A i \in 1..Len(e.parts) : e.parts[i] \in P) => e \in P
    PROVE  \A e \in Exprs : e \in P
<1> DEFINE S == {n \in Nat : n \in 0..Depth => Upto[n] \subseteq P}
<1>1. 0 \in S
  BY UptoIs, DepthAssumption
<1>2. ASSUME NEW d \in Nat, d \in S PROVE d + 1 \in S
  <2> SUFFICES ASSUME d + 1 \in 0..Depth, NEW e \in Upto[d + 1] PROVE e \in P
    OBVIOUS
  <2>1. Upto[d] \subseteq P
    BY <1>2, DepthAssumption
  <2>2. e \in Exprs
    BY UptoWithin
  <2>3. NodeOf(Upto[d], e)
    BY DeepParts
  <2> QED
    BY <2>1, <2>2, <2>3 DEF NodeOf
<1> HIDE DEF S
<1>3. Depth \in S
  BY <1>1, <1>2, EveryNatural, DepthAssumption
<1> QED
  BY <1>3, DepthAssumption DEF S, Exprs

-----------------------------------------------------------------------------
\* The code of the first i of some codes, one behind the other.
IsJoined(g, codes, n) ==
    g = [i \in 0..n |-> IF i = 0 THEN [actions |-> <<>>, height |-> <<>>] ELSE g[i - 1] ++ codes[i]]

\* What g lists when it joins codes.
LEMMA JoinedAt ==
    ASSUME NEW n \in Nat, NEW codes, NEW g, IsJoined(g, codes, n)
    PROVE  /\ g[0] = [actions |-> <<>>, height |-> <<>>]
           /\ \A i \in 1..n : g[i] = g[i - 1] ++ codes[i]
<1> DEFINE f == [i \in 0..n |-> IF i = 0 THEN [actions |-> <<>>, height |-> <<>>] ELSE g[i - 1] ++ codes[i]]
<1>1. f[0] = [actions |-> <<>>, height |-> <<>>]
  OBVIOUS
<1>2. \A i \in 1..n : f[i] = g[i - 1] ++ codes[i]
  OBVIOUS
<1>3. g = f
  BY Zenon DEF IsJoined
<1> HIDE DEF f
<1> QED
  BY <1>1, <1>2, <1>3

\* Any number of codes can be joined.
LEMMA JoinedExists ==
    ASSUME NEW n \in Nat, NEW codes
    PROVE  \E g : IsJoined(g, codes, n)
<1> DEFINE S == {q \in Nat : \E g : IsJoined(g, codes, q)}
<1> DEFINE none == [actions |-> <<>>, height |-> <<>>]
<1>1. 0 \in S
  <2>1. IsJoined([r \in 0..0 |-> none], codes, 0)
    BY DEF IsJoined
  <2> QED
    BY <2>1
<1>2. ASSUME NEW d \in Nat, d \in S PROVE d + 1 \in S
  <2>1. PICK g : IsJoined(g, codes, d)
    BY <1>2
  <2>2. PICK new : new = g[d] ++ codes[d + 1]
    OBVIOUS
  <2> DEFINE h == [r \in 0..(d + 1) |-> IF r = d + 1 THEN new ELSE g[r]]
  <2>3. ASSUME NEW r \in 0..(d + 1) PROVE h[r] = IF r = 0 THEN none ELSE h[r - 1] ++ codes[r]
    <3>1. CASE r = d + 1
      <4>1. r # 0 /\ r - 1 = d /\ d \in 0..(d + 1) /\ d # d + 1
        BY <3>1
      <4>2. h[d] = g[d] /\ h[r] = new
        BY <3>1, <4>1
      <4> QED
        BY <2>2, <3>1, <4>1, <4>2
    <3>2. CASE r # d + 1
      <4>1. r \in 0..d
        BY <3>2
      <4>2. g[r] = IF r = 0 THEN none ELSE g[r - 1] ++ codes[r]
        <5>1. CASE r = 0
          BY <2>1, <5>1, JoinedAt
        <5>2. CASE r # 0
          <6>1. r \in 1..d
            BY <4>1, <5>2
          <6> QED
            BY <2>1, <5>2, <6>1, JoinedAt
        <5> QED
          BY <5>1, <5>2
      <4>3. h[r] = g[r]
        BY <3>2
      <4>4. r # 0 => h[r - 1] = g[r - 1]
        BY <4>1
      <4> QED
        BY <4>2, <4>3, <4>4
    <3> QED
      BY <3>1, <3>2
  <2>4. h = [r \in 0..(d + 1) |-> IF r = 0 THEN none ELSE h[r - 1] ++ codes[r]]
    BY <2>3
  <2> HIDE DEF h
  <2>5. IsJoined(h, codes, d + 1)
    BY <2>4, Zenon DEF IsJoined
  <2>6. d + 1 \in Nat
    OBVIOUS
  <2> QED
    BY <2>5, <2>6
<1> HIDE DEF S
<1>3. n \in S
  BY <1>1, <1>2, EveryNatural
<1> QED
  BY <1>3 DEF S

\* So Joined is the last of such a list.
LEMMA JoinedIs ==
    ASSUME NEW codes, NEW n \in Nat, Len(codes) = n
    PROVE  \E g : IsJoined(g, codes, n) /\ Joined(codes) = g[n]
<1> DEFINE g == CHOOSE h : IsJoined(h, codes, n)
<1>1. IsJoined(g, codes, n)
  BY JoinedExists, Zenon
<1>2. Joined(codes) = (CHOOSE h : IsJoined(h, codes, n))[n]
  BY Zenon DEF Joined, IsJoined
<1> QED
  BY <1>1, <1>2, Zenon

-----------------------------------------------------------------------------
\* The actions of an expression, and of its parts.
Acts(e) == CodeOf[e].actions

\* pre[i] has the actions of the first i parts of e.
IsPrefix(pre, e, n) ==
    /\ pre[0] = <<>>
    /\ \A i \in 1..n : pre[i] = pre[i - 1] \o Acts(e.parts[i])

\* The action of One.
LEMMA OneActions == ASSUME NEW a, NEW n PROVE One(a, n).actions = <<a>>
  BY DEF One

\* The actions of two codes, one behind the other.
LEMMA BehindActions == ASSUME NEW a, NEW b PROVE (a ++ b).actions = a.actions \o b.actions
  BY DEF ++

\* Over keeps the actions.
LEMMA OverActions ==
    ASSUME NEW n, NEW x, NEW y, NEW c, c = [actions |-> x, height |-> y]
    PROVE  Over(n, c).actions = x
  BY DEF Over

\* Code has actions and heights.
IsACode(c) == \E x, y : c = [actions |-> x, height |-> y]

\* Code has actions and heights.
LEMMA LayoutFields ==
    ASSUME NEW S, NEW e, NodeOf(S, e), NEW c
    PROVE  IsACode(Layout(c, e))
<1>1. \A a, n : IsACode(One(a, n))
  BY DEF One, IsACode
<1>2. \A a, b : IsACode(a ++ b)
  BY DEF ++, IsACode
<1>3. CASE e.k \in {"const", "var", "arg", "rand"}
  <2>1. \/ Layout(c, e) = One(Const(e.v), 0)
        \/ Layout(c, e) = One([op |-> "push", name |-> e.name], 0)
        \/ Layout(c, e) = One([op |-> "pushd", f |-> e.f, i |-> e.i], 0)
        \/ Layout(c, e) = One(Op("rand"), 0)
    BY <1>3 DEF Layout
  <2> QED
    BY <1>1, <2>1, Zenon
<1>4. CASE e.k = "un" \/ e.k = "bin"
  <2>1. \/ Layout(c, e) = c[e.parts[1]] ++ One(Op(e.op), 1)
        \/ Layout(c, e) = (c[e.parts[1]] ++ Over(1, c[e.parts[2]])) ++ One(Op(e.op), 2)
    BY <1>4 DEF Layout
  <2> QED
    BY <1>2, <2>1, Zenon
<1>5. CASE e.k = "and" \/ e.k = "or"
  <2>1. \E jump : Layout(c, e) = ShortCircuit(jump, c[e.parts[1]], c[e.parts[2]])
    BY <1>5 DEF Layout
  <2> QED
    BY <1>2, <2>1, Zenon DEF ShortCircuit
<1>6. CASE e.k = "if"
  <2>1. Layout(c, e) = Ternary(c[e.parts[1]], c[e.parts[2]], c[e.parts[3]])
    BY <1>6 DEF Layout
  <2> QED
    BY <1>2, <2>1, Zenon DEF Ternary
<1>7. CASE e.k = "call"
  <2>1. Layout(c, e)
            = Joined([i \in 1..Arity[e.f] |-> Over(i - 1, c[e.parts[i]])])
                 ++ One([op |-> "call", f |-> e.f], Arity[e.f])
    BY <1>7 DEF Layout
  <2> QED
    BY <1>2, <2>1, Zenon
<1> QED
  BY <1>3, <1>4, <1>5, <1>6, <1>7 DEF NodeOf

\* The code of an expression keeps its actions on top of n values.
LEMMA CodeFields ==
    ASSUME NEW e \in Exprs, NEW n
    PROVE  Over(n, CodeOf[e]).actions = Acts(e)
<1>1. \E x, y : CodeOf[e] = [actions |-> x, height |-> y]
  <2>1. NodeOf(Exprs, e)
    BY ExprParts
  <2>2. IsACode(Layout(CodeOf, e))
    BY <2>1, LayoutFields
  <2> QED
    BY <2>2, CodeOfIs DEF IsACode
<1>2. PICK x, y : CodeOf[e] = [actions |-> x, height |-> y]
  BY <1>1
<1>3. Over(n, CodeOf[e]).actions = x
  BY <1>2, OverActions
<1>4. CodeOf[e].actions = x
  BY <1>2
<1> QED
  BY <1>3, <1>4 DEF Acts

\* The actions of an expression, from those of its parts.
LEMMA ActionsOf ==
    ASSUME NEW e \in Exprs
    PROVE  LET Of(i) == Acts(e.parts[i]) IN
           /\ e.k = "const" => Acts(e) = <<Const(e.v)>>
           /\ e.k = "var" => Acts(e) = <<[op |-> "push", name |-> e.name]>>
           /\ e.k = "arg" => Acts(e) = <<[op |-> "pushd", f |-> e.f, i |-> e.i]>>
           /\ e.k = "rand" => Acts(e) = <<Op("rand")>>
           /\ e.k = "un" => Acts(e) = Of(1) \o <<Op(e.op)>>
           /\ e.k = "bin" => Acts(e) = (Of(1) \o Of(2)) \o <<Op(e.op)>>
           /\ e.k = "and" =>
                  Acts(e) = ((Of(1) \o <<[op |-> "jumpz", by |-> Len(Of(2)) + 1]>>) \o Of(2)) \o <<Op("bool")>>
           /\ e.k = "or" =>
                  Acts(e) = ((Of(1) \o <<[op |-> "jumpnz", by |-> Len(Of(2)) + 1]>>) \o Of(2)) \o <<Op("bool")>>
           /\ e.k = "if" =>
                  Acts(e) = (((Of(1) \o <<[op |-> "jtern", by |-> Len(Of(2)) + 2]>>) \o Of(2))
                                \o <<[op |-> "jump", by |-> Len(Of(3)) + 1]>>) \o Of(3)
           /\ e.k = "call" =>
                  \E pre : IsPrefix(pre, e, Len(e.parts))
                          /\ Acts(e) = pre[Len(e.parts)] \o <<[op |-> "call", f |-> e.f]>>
<1> DEFINE Of(i) == Acts(e.parts[i])
<1>1. NodeOf(Exprs, e) /\ CodeOf[e] = Layout(CodeOf, e)
  BY ExprParts, CodeOfIs
<1>2. Acts(e) = Layout(CodeOf, e).actions /\ \A i : CodeOf[e.parts[i]].actions = Of(i)
  BY <1>1, Zenon DEF Acts
<1>3. CASE e.k = "const"
  BY <1>2, <1>3, OneActions DEF Layout
<1>4. CASE e.k = "var"
  BY <1>2, <1>4, OneActions DEF Layout
<1>5. CASE e.k = "arg"
  BY <1>2, <1>5, OneActions DEF Layout
<1>6. CASE e.k = "rand"
  BY <1>2, <1>6, OneActions DEF Layout
<1>7. CASE e.k = "un"
  <2>1. Layout(CodeOf, e) = CodeOf[e.parts[1]] ++ One(Op(e.op), 1)
    BY <1>7 DEF Layout
  <2>2. Acts(e) = Of(1) \o <<Op(e.op)>>
    <3>1. Layout(CodeOf, e).actions = CodeOf[e.parts[1]].actions \o One(Op(e.op), 1).actions
      BY <2>1, BehindActions
    <3>2. One(Op(e.op), 1).actions = <<Op(e.op)>>
      BY OneActions
    <3>3. Acts(e) = CodeOf[e.parts[1]].actions \o One(Op(e.op), 1).actions
      BY <1>2, <3>1
    <3>4. CodeOf[e.parts[1]].actions = Of(1)
      BY <1>2
    <3> QED
      BY <3>2, <3>3, <3>4
  <2> QED
    BY <1>7, <2>2
<1>8. CASE e.k = "bin"
  <2> DEFINE p1 == CodeOf[e.parts[1]]
             p2 == Over(1, CodeOf[e.parts[2]])
             p3 == One(Op(e.op), 2)
             x2 == p1 ++ p2
             x3 == x2 ++ p3
  <2>1. Layout(CodeOf, e) = x3
    BY <1>8 DEF Layout
  <2>2. p2.actions = Of(2)
    <3>1. e.parts[2] \in Exprs
      BY <1>1, <1>8 DEF NodeOf
    <3> QED
      BY <3>1, CodeFields
  <2>3. /\ p1.actions = Of(1)
        /\ p2.actions = Of(2)
        /\ p3.actions = <<Op(e.op)>>
    BY <2>2, OneActions DEF Acts
  <2>4. /\ x2.actions = p1.actions \o p2.actions
        /\ x3.actions = x2.actions \o p3.actions
    BY BehindActions
  <2> HIDE DEF p1, p2, p3, x2, x3
  <2>5. Acts(e) = x3.actions
    BY <1>2, <2>1
  <2>6. x2.actions = Of(1) \o Of(2)
    BY <2>3, <2>4
  <2>7. x3.actions = (Of(1) \o Of(2)) \o <<Op(e.op)>>
    BY <2>3, <2>4, <2>6
  <2> QED
    BY <1>8, <2>5, <2>7
<1>9. CASE e.k = "and"
  <2> DEFINE p1 == CodeOf[e.parts[1]]
             p2 == One([op |-> "jumpz", by |-> Len(CodeOf[e.parts[2]].actions) + 1], 1)
             p3 == CodeOf[e.parts[2]]
             p4 == One(Op("bool"), 1)
             x2 == p1 ++ p2
             x3 == x2 ++ p3
             x4 == x3 ++ p4
  <2>1. Layout(CodeOf, e) = x4
    BY <1>9 DEF Layout, ShortCircuit
  <2>3. /\ p1.actions = Of(1)
        /\ p2.actions = <<[op |-> "jumpz", by |-> Len(Of(2)) + 1]>>
        /\ p3.actions = Of(2)
        /\ p4.actions = <<Op("bool")>>
    BY OneActions DEF Acts
  <2>4. /\ x2.actions = p1.actions \o p2.actions
        /\ x3.actions = x2.actions \o p3.actions
        /\ x4.actions = x3.actions \o p4.actions
    BY BehindActions
  <2> HIDE DEF p1, p2, p3, p4, x2, x3, x4
  <2>5. Acts(e) = x4.actions
    BY <1>2, <2>1
  <2>6. x2.actions = Of(1) \o <<[op |-> "jumpz", by |-> Len(Of(2)) + 1]>>
    BY <2>3, <2>4
  <2>7. x3.actions = (Of(1) \o <<[op |-> "jumpz", by |-> Len(Of(2)) + 1]>>) \o Of(2)
    BY <2>3, <2>4, <2>6
  <2>8. x4.actions = ((Of(1) \o <<[op |-> "jumpz", by |-> Len(Of(2)) + 1]>>) \o Of(2)) \o <<Op("bool")>>
    BY <2>3, <2>4, <2>7
  <2> QED
    BY <1>9, <2>5, <2>8
<1>10. CASE e.k = "or"
  <2> DEFINE p1 == CodeOf[e.parts[1]]
             p2 == One([op |-> "jumpnz", by |-> Len(CodeOf[e.parts[2]].actions) + 1], 1)
             p3 == CodeOf[e.parts[2]]
             p4 == One(Op("bool"), 1)
             x2 == p1 ++ p2
             x3 == x2 ++ p3
             x4 == x3 ++ p4
  <2>1. Layout(CodeOf, e) = x4
    BY <1>10 DEF Layout, ShortCircuit
  <2>3. /\ p1.actions = Of(1)
        /\ p2.actions = <<[op |-> "jumpnz", by |-> Len(Of(2)) + 1]>>
        /\ p3.actions = Of(2)
        /\ p4.actions = <<Op("bool")>>
    BY OneActions DEF Acts
  <2>4. /\ x2.actions = p1.actions \o p2.actions
        /\ x3.actions = x2.actions \o p3.actions
        /\ x4.actions = x3.actions \o p4.actions
    BY BehindActions
  <2> HIDE DEF p1, p2, p3, p4, x2, x3, x4
  <2>5. Acts(e) = x4.actions
    BY <1>2, <2>1
  <2>6. x2.actions = Of(1) \o <<[op |-> "jumpnz", by |-> Len(Of(2)) + 1]>>
    BY <2>3, <2>4
  <2>7. x3.actions = (Of(1) \o <<[op |-> "jumpnz", by |-> Len(Of(2)) + 1]>>) \o Of(2)
    BY <2>3, <2>4, <2>6
  <2>8. x4.actions = ((Of(1) \o <<[op |-> "jumpnz", by |-> Len(Of(2)) + 1]>>) \o Of(2)) \o <<Op("bool")>>
    BY <2>3, <2>4, <2>7
  <2> QED
    BY <1>10, <2>5, <2>8
<1>11. CASE e.k = "if"
  <2> DEFINE p1 == CodeOf[e.parts[1]]
             p2 == One([op |-> "jtern", by |-> Len(CodeOf[e.parts[2]].actions) + 2], 1)
             p3 == CodeOf[e.parts[2]]
             p4 == One([op |-> "jump", by |-> Len(CodeOf[e.parts[3]].actions) + 1], 1)
             p5 == CodeOf[e.parts[3]]
             x2 == p1 ++ p2
             x3 == x2 ++ p3
             x4 == x3 ++ p4
             x5 == x4 ++ p5
  <2>1. Layout(CodeOf, e) = x5
    BY <1>11 DEF Layout, Ternary
  <2>3. /\ p1.actions = Of(1)
        /\ p2.actions = <<[op |-> "jtern", by |-> Len(Of(2)) + 2]>>
        /\ p3.actions = Of(2)
        /\ p4.actions = <<[op |-> "jump", by |-> Len(Of(3)) + 1]>>
        /\ p5.actions = Of(3)
    BY OneActions DEF Acts
  <2>4. /\ x2.actions = p1.actions \o p2.actions
        /\ x3.actions = x2.actions \o p3.actions
        /\ x4.actions = x3.actions \o p4.actions
        /\ x5.actions = x4.actions \o p5.actions
    BY BehindActions
  <2> HIDE DEF p1, p2, p3, p4, p5, x2, x3, x4, x5
  <2>5. Acts(e) = x5.actions
    BY <1>2, <2>1
  <2>6. x2.actions = Of(1) \o <<[op |-> "jtern", by |-> Len(Of(2)) + 2]>>
    BY <2>3, <2>4
  <2>7. x3.actions = (Of(1) \o <<[op |-> "jtern", by |-> Len(Of(2)) + 2]>>) \o Of(2)
    BY <2>3, <2>4, <2>6
  <2>8. x4.actions = ((Of(1) \o <<[op |-> "jtern", by |-> Len(Of(2)) + 2]>>) \o Of(2)) \o <<[op |-> "jump", by |-> Len(Of(3)) + 1]>>
    BY <2>3, <2>4, <2>7
  <2>9. x5.actions = (((Of(1) \o <<[op |-> "jtern", by |-> Len(Of(2)) + 2]>>) \o Of(2)) \o <<[op |-> "jump", by |-> Len(Of(3)) + 1]>>) \o Of(3)
    BY <2>3, <2>4, <2>8
  <2> QED
    BY <1>11, <2>5, <2>9
<1>12. CASE e.k = "call"
  <2> DEFINE n == Len(e.parts)
             codes == [i \in 1..n |-> Over(i - 1, CodeOf[e.parts[i]])]
  <2>1. n \in Nat /\ n = Arity[e.f] /\ \A i \in 1..n : e.parts[i] \in Exprs
    BY <1>1, <1>12 DEF NodeOf
  <2>2. Layout(CodeOf, e) = Joined(codes) ++ One([op |-> "call", f |-> e.f], n)
    BY <1>12, <2>1 DEF Layout
  <2>3. \A i \in 1..n : codes[i].actions = Of(i)
    BY <2>1, CodeFields
  <2>4. Len(codes) = n
    BY <2>1
  <2> HIDE DEF codes, n
  <2>5. PICK g : IsJoined(g, codes, n) /\ Joined(codes) = g[n]
    BY <2>1, <2>4, JoinedIs
  <2> DEFINE pre == [i \in 0..n |-> g[i].actions]
  <2>6. g[0].actions = <<>> /\ \A i \in 1..n : g[i].actions = g[i - 1].actions \o Of(i)
    <3>1. g[0].actions = <<>> /\ \A i \in 1..n : g[i] = g[i - 1] ++ codes[i]
      BY <2>1, <2>5, JoinedAt
    <3>2. \A i \in 1..n : g[i].actions = g[i - 1].actions \o codes[i].actions
      BY <3>1, BehindActions
    <3> QED
      BY <2>3, <3>1, <3>2
  <2>7. IsPrefix(pre, e, n)
    <3>1. pre[0] = <<>>
      BY <2>1, <2>6
    <3>2. ASSUME NEW i \in 1..n PROVE pre[i] = pre[i - 1] \o Of(i)
      <4>1. pre[i] = g[i].actions /\ pre[i - 1] = g[i - 1].actions
        BY <2>1
      <4> QED
        BY <2>6, <4>1
    <3> QED
      BY <3>1, <3>2 DEF IsPrefix
  <2>8. pre[n] = g[n].actions
    BY <2>1
  <2> HIDE DEF pre
  <2>9. Acts(e) = pre[n] \o <<[op |-> "call", f |-> e.f]>>
    BY <1>2, <2>2, <2>5, <2>8 DEF ++, One
  <2>10. \E xs : IsPrefix(xs, e, n) /\ Acts(e) = xs[n] \o <<[op |-> "call", f |-> e.f]>>
    BY <2>7, <2>9
  <2> QED
    BY <1>12, <2>10 DEF n
<1> QED
  BY <1>1, <1>3, <1>4, <1>5, <1>6, <1>7, <1>8, <1>9, <1>10, <1>11, <1>12 DEF NodeOf

\* The actions that code consists of.
LEMMA ActionsAre ==
    /\ \A v \in AllValues : Const(v) \in Actions
    /\ \A x \in Variables : [op |-> "push", name |-> x] \in Actions
    /\ \A f \in Functions, i \in 1..4 : [op |-> "pushd", f |-> f, i |-> i] \in Actions
    /\ \A f \in Functions : [op |-> "call", f |-> f] \in Actions
    /\ \A op \in UnaryOps \cup BinaryOps \cup Bessel \cup {"rand"} : Op(op) \in Actions
    /\ \A op \in {"jump", "jumpz", "jumpnz", "jtern"}, by \in Int : [op |-> op, by |-> by] \in Actions
  BY DEF Actions, Const, Op

\* A single action is a run of actions.
LEMMA SingleTyped == ASSUME NEW a \in Actions PROVE <<a>> \in Seq(Actions) /\ Len(<<a>>) = 1
  OBVIOUS

\* So are two, one behind the other.
LEMMA BehindTyped ==
    ASSUME NEW s \in Seq(Actions), NEW t \in Seq(Actions)
    PROVE  s \o t \in Seq(Actions) /\ Len(s \o t) = Len(s) + Len(t)
  OBVIOUS

\* And the actions of the first i parts of an expression.
LEMMA PrefixTyped ==
    ASSUME NEW pre, NEW e, NEW n \in Nat, IsPrefix(pre, e, n),
           \A i \in 1..n : Acts(e.parts[i]) \in Seq(Actions)
    PROVE  \A i \in 0..n : pre[i] \in Seq(Actions)
<1> DEFINE T == Seq(Actions)
<1>1. <<>> \in T /\ \A s \in T, t \in T : s \o t \in T
  BY BehindTyped
<1>2. \A i \in 1..n : Acts(e.parts[i]) \in T
  OBVIOUS
<1> SUFFICES \A i \in 0..n : pre[i] \in T
  OBVIOUS
<1> HIDE DEF T
<1> DEFINE S == {i \in Nat : i <= n => pre[i] \in T}
<1>3. 0 \in S
  BY <1>1 DEF IsPrefix
<1>4. ASSUME NEW i \in Nat, i \in S PROVE i + 1 \in S
  <2> SUFFICES ASSUME i + 1 <= n PROVE pre[i + 1] \in T
    OBVIOUS
  <2>1. pre[i] \in T /\ i + 1 \in 1..n /\ (i + 1) - 1 = i
    BY <1>4
  <2>2. pre[i + 1] = pre[i] \o Acts(e.parts[i + 1])
    BY <2>1 DEF IsPrefix
  <2> QED
    BY <1>1, <1>2, <2>1, <2>2
<1> HIDE DEF S
<1>5. \A i \in Nat : i \in S
  BY <1>3, <1>4, EveryNatural
<1> QED
  BY <1>5 DEF S

\* The code of every expression is made of actions.
LEMMA ActsTyped == \A e \in Exprs : Acts(e) \in Seq(Actions)
<1> DEFINE P == {e \in Exprs : Acts(e) \in Seq(Actions)}
<1>1. ASSUME NEW e \in Exprs, \A i \in 1..Len(e.parts) : e.parts[i] \in P PROVE e \in P
  <2> DEFINE Of(i) == Acts(e.parts[i])
  <2>1. NodeOf(Exprs, e)
    BY ExprParts
  <2>2. \A i \in 1..Len(e.parts) : Of(i) \in Seq(Actions)
    BY <1>1
  <2> SUFFICES Acts(e) \in Seq(Actions)
    OBVIOUS
  <2>3. CASE e.k \in {"const", "var", "arg", "rand"}
    <3>1. \/ e.k = "const" /\ Acts(e) = <<Const(e.v)>> /\ e.v \in AllValues
          \/ e.k = "var" /\ Acts(e) = <<[op |-> "push", name |-> e.name]>> /\ e.name \in Variables
          \/ e.k = "arg" /\ Acts(e) = <<[op |-> "pushd", f |-> e.f, i |-> e.i]>> /\ e.f \in Functions /\ e.i \in 1..4
          \/ e.k = "rand" /\ Acts(e) = <<Op("rand")>>
      BY <2>1, <2>3, ActionsOf DEF NodeOf
    <3> QED
      BY <3>1, ActionsAre, SingleTyped
  <2>4. CASE e.k = "un"
    <3>1. Acts(e) = Of(1) \o <<Op(e.op)>> /\ Len(e.parts) = 1 /\ e.op \in UnaryOps \cup Bessel
      BY <2>1, <2>4, ActionsOf DEF NodeOf
    <3>2. Of(1) \in Seq(Actions) /\ <<Op(e.op)>> \in Seq(Actions)
      BY <2>2, <3>1, ActionsAre, SingleTyped
    <3> QED
      BY <3>1, <3>2, BehindTyped
  <2>5. CASE e.k = "bin"
    <3>1. Acts(e) = (Of(1) \o Of(2)) \o <<Op(e.op)>> /\ Len(e.parts) = 2 /\ e.op \in BinaryOps
      BY <2>1, <2>5, ActionsOf DEF NodeOf
    <3>2. Of(1) \in Seq(Actions) /\ Of(2) \in Seq(Actions) /\ <<Op(e.op)>> \in Seq(Actions)
      BY <2>2, <3>1, ActionsAre, SingleTyped
    <3> QED
      BY <3>1, <3>2, BehindTyped
  <2>6. CASE e.k = "and" \/ e.k = "or"
    <3>1. PICK op \in {"jumpz", "jumpnz"} :
              /\ Acts(e) = ((Of(1) \o <<[op |-> op, by |-> Len(Of(2)) + 1]>>) \o Of(2)) \o <<Op("bool")>>
              /\ Len(e.parts) = 2
      BY <2>1, <2>6, ActionsOf DEF NodeOf
    <3>2. Of(1) \in Seq(Actions) /\ Of(2) \in Seq(Actions) /\ Len(Of(2)) + 1 \in Int
      BY <2>2, <3>1
    <3>3. <<Op("bool")>> \in Seq(Actions) /\ <<[op |-> op, by |-> Len(Of(2)) + 1]>> \in Seq(Actions)
      BY <3>2, ActionsAre, SingleTyped DEF UnaryOps
    <3> QED
      BY <3>1, <3>2, <3>3, BehindTyped
  <2>7. CASE e.k = "if"
    <3> DEFINE p == <<[op |-> "jtern", by |-> Len(Of(2)) + 2]>>
               q == <<[op |-> "jump", by |-> Len(Of(3)) + 1]>>
    <3>1. Acts(e) = (((Of(1) \o p) \o Of(2)) \o q) \o Of(3) /\ Len(e.parts) = 3
      BY <2>1, <2>7, ActionsOf DEF NodeOf
    <3>2. /\ Of(1) \in Seq(Actions) /\ Of(2) \in Seq(Actions) /\ Of(3) \in Seq(Actions)
          /\ Len(Of(2)) + 2 \in Int /\ Len(Of(3)) + 1 \in Int
      BY <2>2, <3>1
    <3>3. p \in Seq(Actions) /\ q \in Seq(Actions)
      BY <3>2, ActionsAre, SingleTyped
    <3> HIDE DEF p, q
    <3> QED
      BY <3>1, <3>2, <3>3, BehindTyped
  <2>8. CASE e.k = "call"
    <3>1. PICK pre : /\ IsPrefix(pre, e, Len(e.parts))
                    /\ Acts(e) = pre[Len(e.parts)] \o <<[op |-> "call", f |-> e.f]>>
      BY <2>8, ActionsOf
    <3>2. Len(e.parts) \in Nat /\ e.f \in Functions
      BY <2>1, <2>8 DEF NodeOf
    <3>3. pre[Len(e.parts)] \in Seq(Actions)
      BY <2>2, <3>1, <3>2, PrefixTyped
    <3>4. <<[op |-> "call", f |-> e.f]>> \in Seq(Actions)
      BY <3>2, ActionsAre, SingleTyped
    <3> QED
      BY <3>1, <3>3, <3>4, BehindTyped
  <2> QED
    BY <2>1, <2>3, <2>4, <2>5, <2>6, <2>7, <2>8 DEF NodeOf
<1> HIDE DEF P
<1>2. \A e \in Exprs : e \in P
  BY <1>1, EveryExpression
<1> QED
  BY <1>2 DEF P

-----------------------------------------------------------------------------
\* The code part stands in acts behind the first i actions.
Placed(acts, i, part) == i + Len(part) <= Len(acts) /\ \A j \in 1..Len(part) : acts[i + j] = part[j]

\* Where both parts stand, each does.
LEMMA PlacedBehind ==
    ASSUME NEW acts \in Seq(Actions), NEW i \in Nat, NEW s \in Seq(Actions), NEW t \in Seq(Actions),
           Placed(acts, i, s \o t)
    PROVE  Placed(acts, i, s) /\ Placed(acts, i + Len(s), t)
<1>1. Len(s) \in Nat /\ Len(t) \in Nat /\ Len(s \o t) = Len(s) + Len(t) /\ Len(acts) \in Nat
  OBVIOUS
<1>2. \A j \in 1..Len(s) : (s \o t)[j] = s[j]
  OBVIOUS
<1>3. \A j \in 1..Len(t) : (s \o t)[Len(s) + j] = t[j]
  OBVIOUS
<1>4. Placed(acts, i, s)
  BY <1>1, <1>2 DEF Placed
<1>5. ASSUME NEW j \in 1..Len(t) PROVE acts[(i + Len(s)) + j] = t[j]
  <2>1. Len(s) + j \in 1..Len(s \o t) /\ (i + Len(s)) + j = i + (Len(s) + j)
    BY <1>1
  <2> QED
    BY <1>3, <2>1 DEF Placed
<1> QED
  BY <1>1, <1>4, <1>5 DEF Placed

\* Where a single action stands, it is the one that is next.
LEMMA PlacedOne ==
    ASSUME NEW acts \in Seq(Actions), NEW i \in Nat, NEW a, Placed(acts, i, <<a>>)
    PROVE  i + 1 \in 1..Len(acts) /\ acts[i + 1] = a
  BY DEF Placed

-----------------------------------------------------------------------------
(* Outcomes, and what operators make of them.                              *)

\* What an expression may give.
Results == Outcome \cup {Failed}

\* Flags are kept behind an operator of their own.
Either(u, w) == u \/ w

\* The result r behind something that left the flag u.
Flag(u, r) == IF r = Failed THEN r ELSE [value |-> r.value, undefined |-> Either(u, r.undefined)]

\* A flag is TRUE or FALSE.
LEMMA EitherTyped == ASSUME NEW u \in BOOLEAN, NEW w \in BOOLEAN PROVE Either(u, w) \in BOOLEAN
  BY DEF Either

\* A flag that is not set changes nothing.
LEMMA EitherFalse == ASSUME NEW u \in BOOLEAN PROVE Either(u, FALSE) = u /\ Either(FALSE, u) = u
  BY DEF Either

\* The flags of three evaluations can be taken in either grouping.
LEMMA EitherBoth ==
    ASSUME NEW u \in BOOLEAN, NEW v \in BOOLEAN, NEW w \in BOOLEAN
    PROVE  Either(u, Either(v, w)) = Either(Either(u, v), w)
  BY DEF Either

\* And in either order.
LEMMA EitherSame == ASSUME NEW u \in BOOLEAN, NEW v \in BOOLEAN PROVE Either(u, v) = Either(v, u)
  BY DEF Either

\* The parts of an outcome.
LEMMA OutcomeParts ==
    ASSUME NEW o \in Outcome
    PROVE  /\ o.value \in AllValues /\ o.undefined \in BOOLEAN /\ o # Failed
           /\ o = [value |-> o.value, undefined |-> o.undefined]
<1>1. o.value \in AllValues /\ o.undefined \in BOOLEAN /\ o = [value |-> o.value, undefined |-> o.undefined]
  BY DEF Outcome
<1>2. Failed.value = NoValue
  BY DEF Failed
<1> QED
  BY <1>1, <1>2, NoValueAssumption

\* A value and a flag make an outcome.
LEMMA OutcomeOf ==
    ASSUME NEW v \in AllValues, NEW u \in BOOLEAN
    PROVE  /\ [value |-> v, undefined |-> u] \in Outcome
           /\ [value |-> v, undefined |-> u].value = v
           /\ [value |-> v, undefined |-> u].undefined = u
  BY DEF Outcome

\* A flag changes a result in the flag only.
LEMMA FlagTyped ==
    ASSUME NEW u \in BOOLEAN, NEW r \in Results
    PROVE  /\ Flag(u, r) \in Results
           /\ r = Failed => Flag(u, r) = Failed
           /\ r # Failed => /\ Flag(u, r) # Failed /\ Flag(u, r).value = r.value
                            /\ Flag(u, r).undefined = Either(u, r.undefined)
<1>1. CASE r = Failed
  BY <1>1 DEF Flag, Results
<1>2. CASE r # Failed
  <2>1. r \in Outcome
    BY <1>2 DEF Results
  <2>2. Flag(u, r) = [value |-> r.value, undefined |-> Either(u, r.undefined)]
    BY <1>2 DEF Flag
  <2>3. Either(u, r.undefined) \in BOOLEAN /\ r.value \in AllValues
    BY <2>1, OutcomeParts, EitherTyped
  <2>4. /\ Flag(u, r) \in Outcome /\ Flag(u, r).value = r.value
        /\ Flag(u, r).undefined = Either(u, r.undefined)
    BY <2>2, <2>3, OutcomeOf
  <2> QED
    BY <1>2, <2>4, OutcomeParts DEF Results
<1> QED
  BY <1>1, <1>2

\* Flag is what After does to an outcome.
LEMMA FlagIs ==
    ASSUME NEW u \in BOOLEAN, NEW r \in Outcome
    PROVE  [r EXCEPT !.undefined = @ \/ u] = Flag(u, r)
<1>1. /\ r.value \in AllValues /\ r.undefined \in BOOLEAN /\ r # Failed
      /\ r = [value |-> r.value, undefined |-> r.undefined]
  BY OutcomeParts
<1>2. Flag(u, r) = [value |-> r.value, undefined |-> Either(u, r.undefined)]
  BY <1>1 DEF Flag
<1>3. [r EXCEPT !.undefined = @ \/ u] = [value |-> r.value, undefined |-> r.undefined \/ u]
  BY <1>1
<1>4. (r.undefined \/ u) = Either(u, r.undefined)
  BY <1>1 DEF Either
<1> QED
  BY <1>2, <1>3, <1>4

\* What is evaluated after a failure, and after an outcome.
LEMMA AfterIs ==
    ASSUME NEW o \in Results, NEW S \in SUBSET Results
    PROVE  /\ o = Failed => After(o, S) = {Failed}
           /\ o # Failed => After(o, S) = {Flag(o.undefined, r) : r \in S}
<1>1. ASSUME o # Failed, NEW r \in S
      PROVE  (IF r = Failed THEN r ELSE [r EXCEPT !.undefined = @ \/ o.undefined]) = Flag(o.undefined, r)
  <2>1. o.undefined \in BOOLEAN
    BY <1>1, OutcomeParts DEF Results
  <2>2. CASE r = Failed
    BY <2>2 DEF Flag
  <2>3. CASE r # Failed
    BY <2>1, <2>3, FlagIs DEF Results
  <2> QED
    BY <2>2, <2>3
<1>2. CASE o = Failed
  BY <1>2 DEF After
<1>3. CASE o # Failed
  <2>1. After(o, S) = {IF r = Failed THEN r ELSE [r EXCEPT !.undefined = @ \/ o.undefined] : r \in S}
    BY <1>3 DEF After
  <2> DEFINE F(r) == IF r = Failed THEN r ELSE [r EXCEPT !.undefined = @ \/ o.undefined]
             H(r) == Flag(o.undefined, r)
  <2>2. \A r \in S : F(r) = H(r)
    BY <1>1, <1>3
  <2>3. After(o, S) = {F(r) : r \in S}
    BY <2>1
  <2> HIDE DEF F, H
  <2>4. {F(r) : r \in S} = {H(r) : r \in S}
    BY <2>2
  <2>5. After(o, S) = {H(r) : r \in S}
    BY <2>3, <2>4
  <2> QED
    BY <1>3, <2>5 DEF H
<1> QED
  BY <1>2, <1>3

\* What follows a result is a result.
LEMMA AfterTyped ==
    ASSUME NEW o \in Results, NEW S \in SUBSET Results
    PROVE  After(o, S) \subseteq Results
<1>1. CASE o = Failed
  BY <1>1, AfterIs DEF Results
<1>2. CASE o # Failed
  <2>1. o.undefined \in BOOLEAN
    BY <1>2, OutcomeParts DEF Results
  <2>2. \A r \in S : Flag(o.undefined, r) \in Results
    BY <2>1, FlagTyped
  <2> QED
    BY <1>2, <2>2, AfterIs
<1> QED
  BY <1>1, <1>2

\* More results behind, more results.
LEMMA AfterGrows ==
    ASSUME NEW o, NEW S, NEW T, S \subseteq T
    PROVE  After(o, S) \subseteq After(o, T)
<1> DEFINE F(r) == IF r = Failed THEN r ELSE [r EXCEPT !.undefined = @ \/ o.undefined]
<1>1. CASE o = Failed
  BY <1>1 DEF After
<1>2. CASE o # Failed
  <2>1. After(o, S) = {F(r) : r \in S} /\ After(o, T) = {F(r) : r \in T}
    BY <1>2 DEF After
  <2> HIDE DEF F
  <2> QED
    BY <2>1
<1> QED
  BY <1>1, <1>2

\* The answer of an operator is a result.
LEMMA AnswerTyped == ASSUME NEW S \in SUBSET Outcome PROVE Answer(S) \subseteq Results
  BY DEF Answer, Results

\* A result that is not a failure is an outcome.
LEMMA ResultParts ==
    ASSUME NEW o \in Results, o # Failed
    PROVE  o \in Outcome /\ o.value \in AllValues /\ o.undefined \in BOOLEAN
  BY OutcomeParts DEF Results

\* A unary operator keeps failures and adds its flag to that of its operand.
LEMMA AppliedTyped ==
    ASSUME NEW op \in UnaryOps, NEW S \in SUBSET Results
    PROVE  /\ Applied(op, S) \subseteq Results
           /\ \A o \in S : o = Failed => Failed \in Applied(op, S)
           /\ \A o \in S : o # Failed => \A q \in Answer(Unary(op, o.value)) :
                  q \in Results /\ Flag(o.undefined, q) \in Applied(op, S)
<1> DEFINE F(o) == After(o, Answer(Unary(op, o.value)))
<1>1. Applied(op, S) = UNION {F(o) : o \in S}
  BY DEF Applied
<1>2. ASSUME NEW o \in S, o = Failed PROVE F(o) = {Failed}
  BY <1>2 DEF After
<1>3. ASSUME NEW o \in S, o # Failed
      PROVE  /\ Answer(Unary(op, o.value)) \subseteq Results
             /\ F(o) = {Flag(o.undefined, q) : q \in Answer(Unary(op, o.value))}
  <2>1. o \in Results /\ o.value \in AllValues
    BY <1>3, ResultParts
  <2>2. Answer(Unary(op, o.value)) \in SUBSET Results
    BY <2>1, UnaryTyped, AnswerTyped
  <2> QED
    BY <1>3, <2>1, <2>2, AfterIs
<1>4. ASSUME NEW o \in S PROVE F(o) \subseteq Results
  <2>1. CASE o = Failed
    BY <1>2, <2>1 DEF Results
  <2>2. CASE o # Failed
    BY <1>3, <2>2, AfterTyped
  <2> QED
    BY <2>1, <2>2
<1> HIDE DEF F
<1>5. Applied(op, S) \subseteq Results
  BY <1>1, <1>4
<1>6. \A o \in S : F(o) \subseteq Applied(op, S)
  BY <1>1
<1>7. \A o \in S : o = Failed => Failed \in Applied(op, S)
  BY <1>2, <1>6
<1>8. \A o \in S : o # Failed => \A q \in Answer(Unary(op, o.value)) :
          q \in Results /\ Flag(o.undefined, q) \in Applied(op, S)
  BY <1>3, <1>6
<1> QED
  BY <1>5, <1>7, <1>8

\* More operands, more results.
LEMMA AppliedGrows ==
    ASSUME NEW op, NEW S, NEW T, S \subseteq T
    PROVE  Applied(op, S) \subseteq Applied(op, T)
  BY DEF Applied

\* The same of the second operand of a binary operator.
LEMMA SecondTyped ==
    ASSUME NEW op \in BinaryOps, NEW a \in AllValues, NEW T \in SUBSET Results
    PROVE  LET G(p) == After(p, Answer(Binary(op, a, p.value)))
               V == UNION {G(p) : p \in T}
           IN  /\ V \subseteq Results
               /\ \A p \in T : p = Failed => Failed \in V
               /\ \A p \in T : p # Failed => \A q \in Answer(Binary(op, a, p.value)) :
                      q \in Results /\ Flag(p.undefined, q) \in V
<1> DEFINE G(p) == After(p, Answer(Binary(op, a, p.value)))
           V == UNION {G(p) : p \in T}
<1>2. ASSUME NEW p \in T, p = Failed PROVE G(p) = {Failed}
  BY <1>2 DEF After
<1>3. ASSUME NEW p \in T, p # Failed
      PROVE  /\ Answer(Binary(op, a, p.value)) \subseteq Results
             /\ G(p) = {Flag(p.undefined, q) : q \in Answer(Binary(op, a, p.value))}
  <2>1. p \in Results /\ p.value \in AllValues
    BY <1>3, ResultParts
  <2>2. Answer(Binary(op, a, p.value)) \in SUBSET Results
    BY <2>1, BinaryTyped, AnswerTyped
  <2> QED
    BY <1>3, <2>1, <2>2, AfterIs
<1>4. ASSUME NEW p \in T PROVE G(p) \subseteq Results
  <2>1. CASE p = Failed
    BY <1>2, <2>1 DEF Results
  <2>2. CASE p # Failed
    BY <1>3, <2>2, AfterTyped
  <2> QED
    BY <2>1, <2>2
<1> HIDE DEF G
<1>5. V \subseteq Results
  BY <1>4
<1>6. \A p \in T : G(p) \subseteq V
  OBVIOUS
<1>7. \A p \in T : p = Failed => Failed \in V
  BY <1>2, <1>6
<1>8. \A p \in T : p # Failed => \A q \in Answer(Binary(op, a, p.value)) :
          q \in Results /\ Flag(p.undefined, q) \in V
  BY <1>3, <1>6
<1> QED
  BY <1>5, <1>7, <1>8 DEF G

\* And of both: the failure of one is the failure of all, and the flags add up.
LEMMA CombinedTyped ==
    ASSUME NEW op \in BinaryOps, NEW S \in SUBSET Results, NEW T \in SUBSET Results
    PROVE  /\ Combined(op, S, T) \subseteq Results
           /\ \A o \in S : o = Failed => Failed \in Combined(op, S, T)
           /\ \A o \in S : o # Failed => \A p \in T :
                  /\ p = Failed => Failed \in Combined(op, S, T)
                  /\ p # Failed => \A q \in Answer(Binary(op, o.value, p.value)) :
                         q \in Results /\ Flag(o.undefined, Flag(p.undefined, q)) \in Combined(op, S, T)
<1> DEFINE V(o) == UNION {After(p, Answer(Binary(op, o.value, p.value))) : p \in T}
           F(o) == After(o, V(o))
<1>1. Combined(op, S, T) = UNION {F(o) : o \in S}
  BY DEF Combined
<1>2. ASSUME NEW o \in S, o = Failed PROVE F(o) = {Failed}
  BY <1>2 DEF After
<1>3. ASSUME NEW o \in S, o # Failed
      PROVE  /\ V(o) \subseteq Results
             /\ \A p \in T : p = Failed => Failed \in V(o)
             /\ \A p \in T : p # Failed => \A q \in Answer(Binary(op, o.value, p.value)) :
                      q \in Results /\ Flag(p.undefined, q) \in V(o)
             /\ F(o) = {Flag(o.undefined, r) : r \in V(o)}
             /\ o.undefined \in BOOLEAN
  <2>1. o \in Results /\ o.value \in AllValues /\ o.undefined \in BOOLEAN
    BY <1>3, ResultParts
  <2>2. /\ V(o) \subseteq Results
        /\ \A p \in T : p = Failed => Failed \in V(o)
        /\ \A p \in T : p # Failed => \A q \in Answer(Binary(op, o.value, p.value)) :
                 q \in Results /\ Flag(p.undefined, q) \in V(o)
    BY <2>1, SecondTyped
  <2> HIDE DEF V
  <2>3. F(o) = {Flag(o.undefined, r) : r \in V(o)}
    BY <1>3, <2>1, <2>2, AfterIs
  <2> QED
    BY <2>1, <2>2, <2>3
<1> HIDE DEF V
<1>4. ASSUME NEW o \in S PROVE F(o) \subseteq Results
  <2>1. CASE o = Failed
    BY <1>2, <2>1 DEF Results
  <2>2. CASE o # Failed
    BY <1>3, <2>2, AfterTyped
  <2> QED
    BY <2>1, <2>2
<1> HIDE DEF F
<1>5. Combined(op, S, T) \subseteq Results
  BY <1>1, <1>4
<1>6. \A o \in S : F(o) \subseteq Combined(op, S, T)
  BY <1>1
<1>7. \A o \in S : o = Failed => Failed \in Combined(op, S, T)
  BY <1>2, <1>6
<1>8. ASSUME NEW o \in S, o # Failed, NEW p \in T, p = Failed PROVE Failed \in Combined(op, S, T)
  <2>1. Failed \in V(o)
    BY <1>3, <1>8
  <2>2. Flag(o.undefined, Failed) = Failed
    BY DEF Flag
  <2> QED
    BY <1>3, <1>6, <1>8, <2>1, <2>2
<1>9. ASSUME NEW o \in S, o # Failed, NEW p \in T, p # Failed, NEW q \in Answer(Binary(op, o.value, p.value))
      PROVE  q \in Results /\ Flag(o.undefined, Flag(p.undefined, q)) \in Combined(op, S, T)
  <2>1. q \in Results /\ Flag(p.undefined, q) \in V(o)
    BY <1>3, <1>9
  <2> QED
    BY <1>3, <1>6, <1>9, <2>1
<1> QED
  BY <1>5, <1>7, <1>8, <1>9

\* More operands, more results.
LEMMA CombinedGrows ==
    ASSUME NEW op, NEW S, NEW T, NEW S2, NEW T2, S \subseteq S2, T \subseteq T2
    PROVE  Combined(op, S, T) \subseteq Combined(op, S2, T2)
<1> DEFINE V(o) == UNION {After(p, Answer(Binary(op, o.value, p.value))) : p \in T}
           V2(o) == UNION {After(p, Answer(Binary(op, o.value, p.value))) : p \in T2}
<1>1. \A o : V(o) \subseteq V2(o)
  OBVIOUS
<1>2. /\ Combined(op, S, T) = UNION {After(o, V(o)) : o \in S}
      /\ Combined(op, S2, T2) = UNION {After(o, V2(o)) : o \in S2}
  BY DEF Combined
<1> HIDE DEF V, V2
<1>3. \A o : After(o, V(o)) \subseteq After(o, V2(o))
  BY <1>1, AfterGrows
<1> QED
  BY <1>2, <1>3

\* A condition that is no int fails; another selects, and its flag is added.
LEMMA BranchTyped ==
    ASSUME NEW S \in SUBSET Results, NEW T \in SUBSET Results, NEW N \in SUBSET Results
    PROVE  /\ Branch(S, T, N) \subseteq Results
           /\ \A o \in S : o = Failed => Failed \in Branch(S, T, N)
           /\ \A o \in S : o # Failed =>
                  /\ ~IsInt(o.value) => Failed \in Branch(S, T, N)
                  /\ IsInt(o.value) /\ o.value.int_val # 0 =>
                         \A q \in T : Flag(o.undefined, q) \in Branch(S, T, N)
                  /\ IsInt(o.value) /\ o.value.int_val = 0 =>
                         \A q \in N : Flag(o.undefined, q) \in Branch(S, T, N)
<1> DEFINE V(o) == IF ~IsInt(o.value) THEN {Failed} ELSE IF o.value.int_val # 0 THEN T ELSE N
           F(o) == After(o, V(o))
<1>1. Branch(S, T, N) = UNION {F(o) : o \in S}
  BY DEF Branch
<1>2. \A o : V(o) \in SUBSET Results
  BY DEF Results
<1>3. \A o : /\ ~IsInt(o.value) => V(o) = {Failed}
             /\ IsInt(o.value) /\ o.value.int_val # 0 => V(o) = T
             /\ IsInt(o.value) /\ o.value.int_val = 0 => V(o) = N
  OBVIOUS
<1> HIDE DEF V
<1>4. ASSUME NEW o \in S, o = Failed PROVE F(o) = {Failed}
  BY <1>4 DEF After
<1>5. ASSUME NEW o \in S, o # Failed PROVE F(o) = {Flag(o.undefined, r) : r \in V(o)}
  BY <1>2, <1>5, AfterIs
<1>6. ASSUME NEW o \in S PROVE F(o) \subseteq Results
  BY <1>2, AfterTyped
<1> HIDE DEF F
<1>7. Branch(S, T, N) \subseteq Results
  BY <1>1, <1>6
<1>8. \A o \in S : F(o) \subseteq Branch(S, T, N)
  BY <1>1
<1>9. \A o \in S : o = Failed => Failed \in Branch(S, T, N)
  BY <1>4, <1>8
<1>10. ASSUME NEW o \in S, o # Failed
       PROVE  /\ ~IsInt(o.value) => Failed \in Branch(S, T, N)
              /\ IsInt(o.value) /\ o.value.int_val # 0 =>
                     \A q \in T : Flag(o.undefined, q) \in Branch(S, T, N)
              /\ IsInt(o.value) /\ o.value.int_val = 0 =>
                     \A q \in N : Flag(o.undefined, q) \in Branch(S, T, N)
  <2>1. \A q \in V(o) : Flag(o.undefined, q) \in Branch(S, T, N)
    BY <1>5, <1>8, <1>10
  <2>2. Flag(o.undefined, Failed) = Failed
    BY DEF Flag
  <2> QED
    BY <1>3, <2>1, <2>2
<1> QED
  BY <1>7, <1>9, <1>10

\* More conditions and more selected, more results.
LEMMA BranchGrows ==
    ASSUME NEW S, NEW T, NEW N, NEW S2, NEW T2, NEW N2, S \subseteq S2, T \subseteq T2, N \subseteq N2
    PROVE  Branch(S, T, N) \subseteq Branch(S2, T2, N2)
<1> DEFINE V(o) == IF ~IsInt(o.value) THEN {Failed} ELSE IF o.value.int_val # 0 THEN T ELSE N
           V2(o) == IF ~IsInt(o.value) THEN {Failed} ELSE IF o.value.int_val # 0 THEN T2 ELSE N2
<1>1. \A o : V(o) \subseteq V2(o)
  OBVIOUS
<1>2. /\ Branch(S, T, N) = UNION {After(o, V(o)) : o \in S}
      /\ Branch(S2, T2, N2) = UNION {After(o, V2(o)) : o \in S2}
  BY DEF Branch
<1> HIDE DEF V, V2
<1>3. \A o : After(o, V(o)) \subseteq After(o, V2(o))
  BY <1>1, AfterGrows
<1> QED
  BY <1>2, <1>3

\* The operators that standard.c composes.
LEMMA BesselOps ==
    /\ {"sin", "cos", "uminus", "bool"} \subseteq UnaryOps
    /\ {"mult", "div", "plus", "minus"} \subseteq BinaryOps
  BY DEF UnaryOps, EntireOps, BinaryOps

\* Values that are not undefined are results.
LEMMA DefinedResults == ASSUME NEW S \in SUBSET AllValues PROVE Defined(S) \in SUBSET Results
  BY DefinedTyped DEF Results

\* What standard.c composes of them gives results.
LEMMA BesselResults ==
    ASSUME NEW op \in Bessel, NEW a \in AllValues
    PROVE  BesselOf(op, a) \subseteq Results
<1> DEFINE x == Defined({a})
           s == Applied("sin", x)
           c == Applied("cos", x)
           square == Combined("mult", x, x)
<1>1. x \in SUBSET Results
  BY DefinedResults
<1>2. s \in SUBSET Results /\ c \in SUBSET Results
  BY <1>1, AppliedTyped, BesselOps
<1>3. square \in SUBSET Results
  BY <1>1, CombinedTyped, BesselOps
<1>4. /\ op = "besj0" => BesselOf(op, a) = Combined("div", s, x)
      /\ op = "besy0" => BesselOf(op, a) = Applied("uminus", Combined("div", c, x))
      /\ op = "besj1" =>
             BesselOf(op, a) = Combined("minus", Combined("div", s, square), Combined("div", c, x))
      /\ op = "besy1" =>
             BesselOf(op, a) =
                 Applied("uminus", Combined("plus", Combined("div", c, square), Combined("div", s, x)))
  BY DEF BesselOf
<1> HIDE DEF x, s, c, square
<1>5. /\ Combined("div", s, x) \in SUBSET Results /\ Combined("div", c, x) \in SUBSET Results
      /\ Combined("div", s, square) \in SUBSET Results
      /\ Combined("div", c, square) \in SUBSET Results
  BY <1>1, <1>2, <1>3, CombinedTyped, BesselOps
<1>6. CASE op = "besj0"
  BY <1>4, <1>5, <1>6
<1>7. CASE op = "besy0"
  BY <1>4, <1>5, <1>7, AppliedTyped, BesselOps
<1>8. CASE op = "besj1"
  BY <1>4, <1>5, <1>8, CombinedTyped, BesselOps
<1>9. CASE op = "besy1"
  <2>1. Combined("plus", Combined("div", c, square), Combined("div", s, x)) \in SUBSET Results
    BY <1>5, CombinedTyped, BesselOps
  <2> QED
    BY <1>4, <1>9, <2>1, AppliedTyped, BesselOps
<1> QED
  BY <1>6, <1>7, <1>8, <1>9 DEF Bessel

-----------------------------------------------------------------------------

\* An expression and the arguments that it is evaluated for.
Asked == Exprs \X Seq(AllValues)

\* All that evaluation might be.
TypedEval == [Asked -> SUBSET Results]

\* The parts of a call, each with one of its results.
Pairs(eval, e, env) == UNION {{i} \X eval[<<e.parts[i], env>>] : i \in 1..Len(e.parts)}

\* The values of n outcomes, and an outcome with the flags of all of them.
Listed(o, n) == [i \in 1..n |-> o[i].value]
Flagged(o, n) == [value |-> Integer(0), undefined |-> \E i \in 1..n : o[i].undefined]

\* What a call means.  (archive/o/internal.c, f_call)
CalledMeaning(eval, e, env) ==
    IF Code[e.f] = NoCode THEN {Failed}
    ELSE ({p[2] : p \in Pairs(eval, e, env)} \cap {Failed})
             \cup UNION {After(Flagged(o, Len(e.parts)), eval[<<Code[e.f].source, Listed(o, Len(e.parts))>>]) :
                            o \in Chosen(Pairs(eval, e, env), Len(e.parts))}

\* What an expression of each kind means.
LEMMA MeaningIs ==
    ASSUME NEW eval, NEW e, NEW env
    PROVE  LET Of(i) == eval[<<e.parts[i], env>>] IN
           /\ e.k = "const" => Meaning(eval, <<e, env>>) = Defined({e.v})
           /\ e.k = "var" => Meaning(eval, <<e, env>>) =
                  IF ValueOf[e.name] = NoValue THEN {Failed} ELSE Defined({ValueOf[e.name]})
           /\ e.k = "arg" => Meaning(eval, <<e, env>>) =
                  IF e.i \in 1..Len(env) THEN Defined({env[e.i]}) ELSE {Failed}
           /\ e.k = "rand" => Meaning(eval, <<e, env>>) = Rand
           /\ e.k = "un" /\ e.op \in Bessel =>
                  Meaning(eval, <<e, env>>) = UNION {After(o, BesselOf(e.op, o.value)) : o \in Of(1)}
           /\ e.k = "un" /\ e.op \notin Bessel => Meaning(eval, <<e, env>>) = Applied(e.op, Of(1))
           /\ e.k = "bin" => Meaning(eval, <<e, env>>) = Combined(e.op, Of(1), Of(2))
           /\ e.k = "and" =>
                  Meaning(eval, <<e, env>>) = Branch(Of(1), Applied("bool", Of(2)), Defined({Truth(FALSE)}))
           /\ e.k = "or" =>
                  Meaning(eval, <<e, env>>) = Branch(Of(1), Defined({Truth(TRUE)}), Applied("bool", Of(2)))
           /\ e.k = "if" => Meaning(eval, <<e, env>>) = Branch(Of(1), Of(2), Of(3))
           /\ e.k = "call" => Meaning(eval, <<e, env>>) = CalledMeaning(eval, e, env)
<1>1. <<e, env>>[1] = e /\ <<e, env>>[2] = env
  OBVIOUS
<1>2. CASE e.k = "call"
  BY <1>1, <1>2 DEF Meaning, CalledMeaning, Pairs, Listed, Flagged
<1>3. CASE e.k # "call"
  BY <1>1, <1>3 DEF Meaning
<1> QED
  BY <1>2, <1>3

\* The parts are evaluated for the arguments of the whole.
LEMMA AskedPart ==
    ASSUME NEW e \in Exprs, NEW env \in Seq(AllValues), NEW i \in 1..Len(e.parts)
    PROVE  <<e.parts[i], env>> \in Asked
<1>1. e.parts[i] \in Exprs
  BY ExprParts DEF NodeOf
<1> QED
  BY <1>1 DEF Asked

\* The values are values.
LEMMA ListedTyped ==
    ASSUME NEW n \in Nat, NEW o, \A i \in 1..n : o[i] \in Outcome
    PROVE  /\ Listed(o, n) \in Seq(AllValues) /\ Len(Listed(o, n)) = n
           /\ \A i \in 1..n : Listed(o, n)[i] = o[i].value
<1>1. \A i \in 1..n : o[i].value \in AllValues
  BY OutcomeParts
<1>2. Listed(o, n) \in [1..n -> AllValues]
  BY <1>1 DEF Listed
<1>3. \A i \in 1..n : Listed(o, n)[i] = o[i].value
  BY DEF Listed
<1> QED
  BY <1>2, <1>3, ListsAre

\* The flag is set when one of them is.
LEMMA FlaggedTyped ==
    ASSUME NEW n \in Nat, NEW o
    PROVE  /\ Flagged(o, n) \in Outcome /\ Flagged(o, n) # Failed
           /\ Flagged(o, n).undefined = (\E i \in 1..n : o[i].undefined)
<1> DEFINE u == \E i \in 1..n : o[i].undefined
<1>1. u \in BOOLEAN
  OBVIOUS
<1>2. Flagged(o, n) = [value |-> Integer(0), undefined |-> u]
  BY DEF Flagged
<1> HIDE DEF u
<1>3. Flagged(o, n) \in Outcome /\ Flagged(o, n).undefined = u
  BY <1>1, <1>2, ZeroTyped, OutcomeOf
<1> QED
  BY <1>3, OutcomeParts DEF u

\* A pair is a part and a result of it.
LEMMA PairsAre ==
    ASSUME NEW eval, NEW e, NEW env, NEW i, NEW r
    PROVE  <<i, r>> \in Pairs(eval, e, env) <=> i \in 1..Len(e.parts) /\ r \in eval[<<e.parts[i], env>>]
<1> DEFINE X(j) == eval[<<e.parts[j], env>>]
           n == Len(e.parts)
<1>1. Pairs(eval, e, env) = UNION {{j} \X X(j) : j \in 1..n}
  BY DEF Pairs
<1> HIDE DEF X, n
<1>2. <<i, r>> \in Pairs(eval, e, env) <=> \E j \in 1..n : <<i, r>> \in {j} \X X(j)
  BY <1>1
<1>3. \A j : <<i, r>> \in {j} \X X(j) <=> i = j /\ r \in X(j)
  OBVIOUS
<1>4. <<i, r>> \in Pairs(eval, e, env) <=> i \in 1..n /\ r \in X(i)
  BY <1>2, <1>3
<1> QED
  BY <1>4 DEF X, n

\* The same for a pair that is not taken apart.
LEMMA PairsTyped ==
    ASSUME NEW eval, NEW e, NEW env, NEW p \in Pairs(eval, e, env)
    PROVE  p[1] \in 1..Len(e.parts) /\ p[2] \in eval[<<e.parts[p[1]], env>>] /\ p = <<p[1], p[2]>>
<1> DEFINE X(j) == eval[<<e.parts[j], env>>]
           n == Len(e.parts)
<1>1. Pairs(eval, e, env) = UNION {{j} \X X(j) : j \in 1..n}
  BY DEF Pairs
<1> HIDE DEF X, n
<1>2. PICK j \in 1..n : p \in {j} \X X(j)
  BY <1>1
<1>3. p[1] = j /\ p[2] \in X(j) /\ p = <<p[1], p[2]>>
  BY <1>2
<1> QED
  BY <1>2, <1>3 DEF X, n

\* A choice has one outcome of each part.
LEMMA ChosenIs ==
    ASSUME NEW eval, NEW e, NEW env, NEW n, n = Len(e.parts), NEW o
    PROVE  o \in Chosen(Pairs(eval, e, env), n) <=>
               /\ o \in [1..n -> {p[2] : p \in Pairs(eval, e, env)}]
               /\ \A i \in 1..n : o[i] \in eval[<<e.parts[i], env>>] /\ o[i] # Failed
<1> DEFINE X == Pairs(eval, e, env)
           Y == {p[2] : p \in X}
<1>1. \A i \in 1..n : \A r : <<i, r>> \in X <=> r \in eval[<<e.parts[i], env>>]
  BY PairsAre
<1>2. Chosen(X, n) = {c \in [1..n -> Y] : \A i \in 1..n : <<i, c[i]>> \in X /\ c[i] # Failed}
  BY DEF Chosen
<1> HIDE DEF X, Y
<1>3. o \in Chosen(X, n) <=> o \in [1..n -> Y] /\ \A i \in 1..n : <<i, o[i]>> \in X /\ o[i] # Failed
  BY <1>2
<1>4. (\A i \in 1..n : <<i, o[i]>> \in X /\ o[i] # Failed) <=>
          \A i \in 1..n : o[i] \in eval[<<e.parts[i], env>>] /\ o[i] # Failed
  BY <1>1
<1> QED
  BY <1>3, <1>4 DEF X, Y

\* And every such list is a choice.
LEMMA ChosenHas ==
    ASSUME NEW eval, NEW e, NEW env, NEW n, n = Len(e.parts), NEW o, o = [i \in 1..n |-> o[i]],
           \A i \in 1..n : o[i] \in eval[<<e.parts[i], env>>] /\ o[i] # Failed
    PROVE  o \in Chosen(Pairs(eval, e, env), n)
<1> DEFINE X == Pairs(eval, e, env)
           Y == {p[2] : p \in X}
<1>1. ASSUME NEW i \in 1..n PROVE o[i] \in Y
  <2>1. <<i, o[i]>> \in X
    BY PairsAre
  <2>2. <<i, o[i]>>[2] = o[i]
    OBVIOUS
  <2> HIDE DEF X
  <2> QED
    BY <2>1, <2>2
<1> HIDE DEF X, Y
<1>2. o \in [1..n -> Y]
  BY <1>1
<1> QED
  BY <1>2, ChosenIs DEF X, Y

\* More outcomes, more choices.
LEMMA ChosenGrows ==
    ASSUME NEW P, NEW Q, NEW e \in Exprs, NEW env \in Seq(AllValues), NEW n, n = Len(e.parts),
           \A x \in Asked : P[x] \subseteq Q[x],
           NEW o \in Chosen(Pairs(P, e, env), n)
    PROVE  o \in Chosen(Pairs(Q, e, env), n)
<1>1. o = [i \in 1..n |-> o[i]] /\ \A i \in 1..n : o[i] \in P[<<e.parts[i], env>>] /\ o[i] # Failed
  BY ChosenIs
<1>2. \A i \in 1..n : P[<<e.parts[i], env>>] \subseteq Q[<<e.parts[i], env>>]
  BY AskedPart
<1> QED
  BY <1>1, <1>2, ChosenHas

\* A function runs the code of an expression.
LEMMA SourceIs ==
    ASSUME NEW f \in Functions, Code[f] # NoCode
    PROVE  Code[f].source \in Exprs /\ Code[f].actions = Acts(Code[f].source)
<1>1. Code[f].source \in Exprs /\ Code[f] = Compile(Code[f].source)
  BY CompiledAssumption
<1> QED
  BY <1>1 DEF Compile, Acts

\* What a choice of arguments says of a call.
LEMMA ChosenTyped ==
    ASSUME NEW P \in TypedEval, NEW e \in Exprs, NEW env \in Seq(AllValues), NEW n, n = Len(e.parts),
           NEW o \in Chosen(Pairs(P, e, env), n)
    PROVE  /\ \A i \in 1..n : o[i] \in Outcome
           /\ Listed(o, n) \in Seq(AllValues)
<1>1. n \in Nat
  BY ExprParts DEF NodeOf
<1>2. ASSUME NEW i \in 1..n PROVE o[i] \in Outcome
  <2>1. o[i] \in P[<<e.parts[i], env>>] /\ o[i] # Failed
    BY ChosenIs
  <2>2. P[<<e.parts[i], env>>] \subseteq Results
    BY AskedPart DEF TypedEval
  <2> QED
    BY <2>1, <2>2 DEF Results
<1> QED
  BY <1>1, <1>2, ListedTyped

\* A call has as many parts as the function has dummies.
LEMMA ExprKindCall == ASSUME NEW e \in Exprs, e.k = "call" PROVE e.f \in Functions /\ Len(e.parts) = Arity[e.f]
<1>1. NodeOf(Exprs, e)
  BY ExprParts
<1> QED
  BY <1>1 DEF NodeOf

\* What a call means is made of results.
LEMMA CalledTyped ==
    ASSUME NEW P \in TypedEval, NEW e \in Exprs, e.k = "call", NEW env \in Seq(AllValues)
    PROVE  CalledMeaning(P, e, env) \subseteq Results
<1> DEFINE n == Len(e.parts)
           X == Chosen(Pairs(P, e, env), n)
           F(o) == After(Flagged(o, n), P[<<Code[e.f].source, Listed(o, n)>>])
           Y == {p[2] : p \in Pairs(P, e, env)} \cap {Failed}
<1>1. CASE Code[e.f] = NoCode
  BY <1>1 DEF CalledMeaning, Results
<1>2. CASE Code[e.f] # NoCode
  <2>1. CalledMeaning(P, e, env) = Y \cup UNION {F(o) : o \in X}
    BY <1>2 DEF CalledMeaning
  <2>2. Y \subseteq Results
    BY DEF Results
  <2>3. ASSUME NEW o \in X PROVE F(o) \subseteq Results
    <3>1. Listed(o, n) \in Seq(AllValues)
      BY ChosenTyped
    <3>2. Code[e.f].source \in Exprs
      BY <1>2, ExprKindCall, SourceIs
    <3>3. <<Code[e.f].source, Listed(o, n)>> \in Asked
      BY <3>1, <3>2 DEF Asked
    <3>4. P[<<Code[e.f].source, Listed(o, n)>>] \in SUBSET Results
      BY <3>3 DEF TypedEval
    <3>5. Flagged(o, n) \in Results
      <4>1. n \in Nat
        BY ExprParts DEF NodeOf
      <4> QED
        BY <4>1, FlaggedTyped DEF Results
    <3> QED
      BY <3>4, <3>5, AfterTyped
  <2> HIDE DEF F, X, Y
  <2> QED
    BY <2>1, <2>2, <2>3
<1> QED
  BY <1>1, <1>2

\* More results of the parts and of the function, more of the call.
LEMMA CalledGrows ==
    ASSUME NEW P \in TypedEval, NEW Q, NEW e \in Exprs, e.k = "call", NEW env \in Seq(AllValues),
           \A x \in Asked : P[x] \subseteq Q[x]
    PROVE  CalledMeaning(P, e, env) \subseteq CalledMeaning(Q, e, env)
<1> DEFINE n == Len(e.parts)
           X(S) == Chosen(Pairs(S, e, env), n)
           F(S, o) == After(Flagged(o, n), S[<<Code[e.f].source, Listed(o, n)>>])
           Y(S) == {p[2] : p \in Pairs(S, e, env)} \cap {Failed}
<1>1. CASE Code[e.f] = NoCode
  BY <1>1 DEF CalledMeaning
<1>2. CASE Code[e.f] # NoCode
  <2>1. /\ CalledMeaning(P, e, env) = Y(P) \cup UNION {F(P, o) : o \in X(P)}
        /\ CalledMeaning(Q, e, env) = Y(Q) \cup UNION {F(Q, o) : o \in X(Q)}
    BY <1>2 DEF CalledMeaning
  <2>2. Pairs(P, e, env) \subseteq Pairs(Q, e, env)
    <3>1. \A i \in 1..n : P[<<e.parts[i], env>>] \subseteq Q[<<e.parts[i], env>>]
      BY AskedPart
    <3> SUFFICES ASSUME NEW p \in Pairs(P, e, env) PROVE p \in Pairs(Q, e, env)
      OBVIOUS
    <3>2. p[1] \in 1..n /\ p[2] \in P[<<e.parts[p[1]], env>>] /\ p = <<p[1], p[2]>>
      BY PairsTyped
    <3>3. p[2] \in Q[<<e.parts[p[1]], env>>]
      BY <3>1, <3>2
    <3>4. <<p[1], p[2]>> \in Pairs(Q, e, env)
      BY <3>2, <3>3, PairsAre
    <3> QED
      BY <3>2, <3>4, Zenon
  <2>3. Y(P) \subseteq Y(Q)
    BY <2>2
  <2>4. X(P) \subseteq X(Q)
    BY ChosenGrows
  <2>5. ASSUME NEW o \in X(P) PROVE F(P, o) \subseteq F(Q, o)
    <3>1. Listed(o, n) \in Seq(AllValues)
      BY ChosenTyped
    <3>2. Code[e.f].source \in Exprs
      BY <1>2, ExprKindCall, SourceIs
    <3>3. <<Code[e.f].source, Listed(o, n)>> \in Asked
      BY <3>1, <3>2 DEF Asked
    <3> QED
      BY <3>3, AfterGrows
  <2> HIDE DEF F, X, Y
  <2> QED
    BY <2>1, <2>3, <2>4, <2>5
<1> QED
  BY <1>1, <1>2

\* What j0, j1, y0 and y1 make of the outcomes in S.  (standard.c:247-301)
Composed(op, S) == UNION {After(o, BesselOf(op, o.value)) : o \in S}

\* They keep failures and flags, as the operators do.
LEMMA ComposedTyped ==
    ASSUME NEW op \in Bessel, NEW S \in SUBSET Results
    PROVE  /\ Composed(op, S) \subseteq Results
           /\ \A o \in S : o = Failed => Failed \in Composed(op, S)
           /\ \A o \in S : o # Failed => \A q \in BesselOf(op, o.value) :
                  q \in Results /\ Flag(o.undefined, q) \in Composed(op, S)
<1> DEFINE F(o) == After(o, BesselOf(op, o.value))
<1>1. Composed(op, S) = UNION {F(o) : o \in S}
  BY DEF Composed
<1>2. ASSUME NEW o \in S, o = Failed PROVE F(o) = {Failed}
  BY <1>2 DEF After
<1>3. ASSUME NEW o \in S, o # Failed
      PROVE  /\ BesselOf(op, o.value) \subseteq Results
             /\ F(o) = {Flag(o.undefined, q) : q \in BesselOf(op, o.value)}
  <2>1. o \in Results /\ o.value \in AllValues
    BY <1>3, ResultParts
  <2>2. BesselOf(op, o.value) \in SUBSET Results
    BY <2>1, BesselResults
  <2> QED
    BY <1>3, <2>1, <2>2, AfterIs
<1>4. ASSUME NEW o \in S PROVE F(o) \subseteq Results
  <2>1. CASE o = Failed
    BY <1>2, <2>1 DEF Results
  <2>2. CASE o # Failed
    BY <1>3, <2>2, AfterTyped
  <2> QED
    BY <2>1, <2>2
<1> HIDE DEF F
<1>5. Composed(op, S) \subseteq Results
  BY <1>1, <1>4
<1>6. \A o \in S : F(o) \subseteq Composed(op, S)
  BY <1>1
<1>7. \A o \in S : o = Failed => Failed \in Composed(op, S)
  BY <1>2, <1>6
<1>8. \A o \in S : o # Failed => \A q \in BesselOf(op, o.value) :
          q \in Results /\ Flag(o.undefined, q) \in Composed(op, S)
  BY <1>3, <1>6
<1> QED
  BY <1>5, <1>7, <1>8

\* More operands, more results.
LEMMA ComposedGrows ==
    ASSUME NEW op, NEW S, NEW T, S \subseteq T
    PROVE  Composed(op, S) \subseteq Composed(op, T)
  BY DEF Composed

\* What evaluation says of the parts are results.
LEMMA PartsTyped ==
    ASSUME NEW P \in TypedEval, NEW e \in Exprs, NEW env \in Seq(AllValues)
    PROVE  \A i \in 1..Len(e.parts) : P[<<e.parts[i], env>>] \in SUBSET Results
  BY AskedPart DEF TypedEval

\* The truth values are values.
LEMMA TruthValues == Truth(TRUE) \in AllValues /\ Truth(FALSE) \in AllValues
  BY TruthTyped

\* A constant.
LEMMA MeaningConst ==
    ASSUME NEW eval, NEW e, NEW env, e.k = "const"
    PROVE  Meaning(eval, <<e, env>>) = Defined({e.v})
  BY MeaningIs

\* A variable.
LEMMA MeaningVar ==
    ASSUME NEW eval, NEW e, NEW env, e.k = "var"
    PROVE  Meaning(eval, <<e, env>>) =
               IF ValueOf[e.name] = NoValue THEN {Failed} ELSE Defined({ValueOf[e.name]})
  BY MeaningIs

\* A dummy.
LEMMA MeaningArg ==
    ASSUME NEW eval, NEW e, NEW env, e.k = "arg"
    PROVE  Meaning(eval, <<e, env>>) = IF e.i \in 1..Len(env) THEN Defined({env[e.i]}) ELSE {Failed}
  BY MeaningIs

\* The random number.
LEMMA MeaningRand ==
    ASSUME NEW eval, NEW e, NEW env, e.k = "rand" PROVE Meaning(eval, <<e, env>>) = Rand
  BY MeaningIs

\* An operator of one operand.
LEMMA MeaningUn ==
    ASSUME NEW eval, NEW e, NEW env, e.k = "un", e.op \notin Bessel
    PROVE  Meaning(eval, <<e, env>>) = Applied(e.op, eval[<<e.parts[1], env>>])
  BY MeaningIs

\* A composition of standard.c.
LEMMA MeaningBessel ==
    ASSUME NEW eval, NEW e, NEW env, e.k = "un", e.op \in Bessel
    PROVE  Meaning(eval, <<e, env>>) = Composed(e.op, eval[<<e.parts[1], env>>])
  BY MeaningIs DEF Composed

\* An operator of two operands.
LEMMA MeaningBin ==
    ASSUME NEW eval, NEW e, NEW env, e.k = "bin"
    PROVE  Meaning(eval, <<e, env>>) =
               Combined(e.op, eval[<<e.parts[1], env>>], eval[<<e.parts[2], env>>])
  BY MeaningIs

\* The second operand of && is evaluated when the first is not 0.
LEMMA MeaningAnd ==
    ASSUME NEW eval, NEW e, NEW env, e.k = "and"
    PROVE  Meaning(eval, <<e, env>>) =
               Branch(eval[<<e.parts[1], env>>], Applied("bool", eval[<<e.parts[2], env>>]),
                      Defined({Truth(FALSE)}))
  BY MeaningIs

\* That of || when it is 0.
LEMMA MeaningOr ==
    ASSUME NEW eval, NEW e, NEW env, e.k = "or"
    PROVE  Meaning(eval, <<e, env>>) =
               Branch(eval[<<e.parts[1], env>>], Defined({Truth(TRUE)}),
                      Applied("bool", eval[<<e.parts[2], env>>]))
<1>1. <<e, env>>[1] = e /\ <<e, env>>[2] = env
  OBVIOUS
<1> QED
  BY <1>1 DEF Meaning

\* One of the last two parts of ?: is evaluated.
LEMMA MeaningIf ==
    ASSUME NEW eval, NEW e, NEW env, e.k = "if"
    PROVE  Meaning(eval, <<e, env>>) =
               Branch(eval[<<e.parts[1], env>>], eval[<<e.parts[2], env>>], eval[<<e.parts[3], env>>])
<1>1. <<e, env>>[1] = e /\ <<e, env>>[2] = env
  OBVIOUS
<1> QED
  BY <1>1 DEF Meaning

\* A call.
LEMMA MeaningCall ==
    ASSUME NEW eval, NEW e, NEW env, e.k = "call"
    PROVE  Meaning(eval, <<e, env>>) = CalledMeaning(eval, e, env)
  BY MeaningIs

\* A condition leads to results.
LEMMA BranchResults ==
    ASSUME NEW S \in SUBSET Results, NEW T \in SUBSET Results, NEW N \in SUBSET Results
    PROVE  Branch(S, T, N) \subseteq Results
  BY BranchTyped

\* What an expression means is made of results.
LEMMA MeaningTyped ==
    ASSUME NEW P \in TypedEval, NEW e \in Exprs, NEW env \in Seq(AllValues)
    PROVE  Meaning(P, <<e, env>>) \subseteq Results
<1> DEFINE Of(i) == P[<<e.parts[i], env>>]
<1>1. NodeOf(Exprs, e)
  BY ExprParts
<1>2. \A i \in 1..Len(e.parts) : Of(i) \in SUBSET Results
  BY PartsTyped
<1>3. Failed \in Results
  BY DEF Results
<1> HIDE DEF Of
<1>4. CASE e.k = "const" /\ e.v \in AllValues
  <2>1. Meaning(P, <<e, env>>) = Defined({e.v})
    BY <1>4, MeaningConst
  <2> QED
    BY <1>4, <2>1, DefinedResults
<1>5. CASE e.k = "var" /\ e.name \in Variables
  <2>1. Meaning(P, <<e, env>>) = IF ValueOf[e.name] = NoValue THEN {Failed} ELSE Defined({ValueOf[e.name]})
    BY <1>5, MeaningVar
  <2>2. ValueOf[e.name] # NoValue => ValueOf[e.name] \in AllValues
    BY <1>5, VariablesAssumption
  <2> QED
    BY <1>3, <2>1, <2>2, DefinedResults
<1>6. CASE e.k = "arg"
  <2>1. Meaning(P, <<e, env>>) = IF e.i \in 1..Len(env) THEN Defined({env[e.i]}) ELSE {Failed}
    BY <1>6, MeaningArg
  <2>2. e.i \in 1..Len(env) => env[e.i] \in AllValues
    OBVIOUS
  <2> QED
    BY <1>3, <2>1, <2>2, DefinedResults
<1>7. CASE e.k = "rand"
  <2>1. Meaning(P, <<e, env>>) = Rand
    BY <1>7, MeaningRand
  <2> QED
    BY <2>1, RandTyped DEF Results
<1>8. CASE e.k = "un" /\ e.op \in UnaryOps \cup Bessel /\ Len(e.parts) = 1
  <2>1. Of(1) \in SUBSET Results
    BY <1>2, <1>8
  <2>2. CASE e.op \in Bessel
    <3>1. Meaning(P, <<e, env>>) = Composed(e.op, Of(1))
      BY <1>8, <2>2, MeaningBessel DEF Of
    <3> QED
      BY <2>1, <2>2, <3>1, ComposedTyped
  <2>3. CASE e.op \notin Bessel
    <3>1. Meaning(P, <<e, env>>) = Applied(e.op, Of(1)) /\ e.op \in UnaryOps
      BY <1>8, <2>3, MeaningUn DEF Of
    <3> QED
      BY <2>1, <3>1, AppliedTyped
  <2> QED
    BY <2>2, <2>3
<1>9. CASE e.k = "bin" /\ e.op \in BinaryOps /\ Len(e.parts) = 2
  <2>1. Of(1) \in SUBSET Results /\ Of(2) \in SUBSET Results
    BY <1>2, <1>9
  <2>2. Meaning(P, <<e, env>>) = Combined(e.op, Of(1), Of(2))
    BY <1>9, MeaningBin DEF Of
  <2> QED
    BY <1>9, <2>1, <2>2, CombinedTyped
<1>10. CASE e.k = "and" /\ Len(e.parts) = 2
  <2>1. Of(1) \in SUBSET Results /\ Of(2) \in SUBSET Results
    BY <1>2, <1>10
  <2>2. Meaning(P, <<e, env>>) = Branch(Of(1), Applied("bool", Of(2)), Defined({Truth(FALSE)}))
    BY <1>10, MeaningAnd DEF Of
  <2>3. Applied("bool", Of(2)) \in SUBSET Results /\ Defined({Truth(FALSE)}) \in SUBSET Results
    BY <2>1, AppliedTyped, BesselOps, DefinedResults, TruthValues
  <2> QED
    BY <2>1, <2>2, <2>3, BranchResults
<1>11. CASE e.k = "or" /\ Len(e.parts) = 2
  <2>1. Of(1) \in SUBSET Results /\ Of(2) \in SUBSET Results
    BY <1>2, <1>11
  <2>2. Meaning(P, <<e, env>>) = Branch(Of(1), Defined({Truth(TRUE)}), Applied("bool", Of(2)))
    BY <1>11, MeaningOr DEF Of
  <2>3. Applied("bool", Of(2)) \in SUBSET Results /\ Defined({Truth(TRUE)}) \in SUBSET Results
    BY <2>1, AppliedTyped, BesselOps, DefinedResults, TruthValues
  <2> QED
    BY <2>1, <2>2, <2>3, BranchResults
<1>12. CASE e.k = "if" /\ Len(e.parts) = 3
  <2>1. Of(1) \in SUBSET Results /\ Of(2) \in SUBSET Results /\ Of(3) \in SUBSET Results
    BY <1>2, <1>12
  <2>2. Meaning(P, <<e, env>>) = Branch(Of(1), Of(2), Of(3))
    BY <1>12, MeaningIf DEF Of
  <2> QED
    BY <2>1, <2>2, BranchResults
<1>13. CASE e.k = "call"
  BY <1>13, MeaningCall, CalledTyped
<1> QED
  BY <1>1, <1>4, <1>5, <1>6, <1>7, <1>8, <1>9, <1>10, <1>11, <1>12, <1>13 DEF NodeOf

\* What is known of the parts carries over to the expression.
LEMMA MeaningGrows ==
    ASSUME NEW P \in TypedEval, NEW Q, \A x \in Asked : P[x] \subseteq Q[x],
           NEW e \in Exprs, NEW env \in Seq(AllValues)
    PROVE  Meaning(P, <<e, env>>) \subseteq Meaning(Q, <<e, env>>)
<1> DEFINE A(i) == P[<<e.parts[i], env>>]
           B(i) == Q[<<e.parts[i], env>>]
<1>1. NodeOf(Exprs, e)
  BY ExprParts
<1>2. \A i \in 1..Len(e.parts) : A(i) \subseteq B(i)
  BY AskedPart
<1> HIDE DEF A, B
<1>3. CASE e.k \in {"const", "var", "arg", "rand"}
  <2>1. Meaning(P, <<e, env>>) = Meaning(Q, <<e, env>>)
    <3>1. CASE e.k = "const"
      BY <3>1, MeaningConst
    <3>2. CASE e.k = "var"
      BY <3>2, MeaningVar
    <3>3. CASE e.k = "arg"
      BY <3>3, MeaningArg
    <3>4. CASE e.k = "rand"
      BY <3>4, MeaningRand
    <3> QED
      BY <1>3, <3>1, <3>2, <3>3, <3>4
  <2> QED
    BY <2>1
<1>4. CASE e.k = "un" /\ Len(e.parts) = 1
  <2>1. A(1) \subseteq B(1)
    BY <1>2, <1>4
  <2>2. CASE e.op \in Bessel
    <3>1. /\ Meaning(P, <<e, env>>) = Composed(e.op, A(1))
          /\ Meaning(Q, <<e, env>>) = Composed(e.op, B(1))
      BY <1>4, <2>2, MeaningBessel DEF A, B
    <3> QED
      BY <2>1, <3>1, ComposedGrows
  <2>3. CASE e.op \notin Bessel
    <3>1. /\ Meaning(P, <<e, env>>) = Applied(e.op, A(1))
          /\ Meaning(Q, <<e, env>>) = Applied(e.op, B(1))
      BY <1>4, <2>3, MeaningUn DEF A, B
    <3> QED
      BY <2>1, <3>1, AppliedGrows
  <2> QED
    BY <2>2, <2>3
<1>5. CASE e.k = "bin" /\ Len(e.parts) = 2
  <2>1. A(1) \subseteq B(1) /\ A(2) \subseteq B(2)
    BY <1>2, <1>5
  <2>2. /\ Meaning(P, <<e, env>>) = Combined(e.op, A(1), A(2))
        /\ Meaning(Q, <<e, env>>) = Combined(e.op, B(1), B(2))
    BY <1>5, MeaningBin DEF A, B
  <2> QED
    BY <2>1, <2>2, CombinedGrows
<1>6. CASE e.k = "and" /\ Len(e.parts) = 2
  <2>1. A(1) \subseteq B(1) /\ A(2) \subseteq B(2)
    BY <1>2, <1>6
  <2>2. /\ Meaning(P, <<e, env>>) = Branch(A(1), Applied("bool", A(2)), Defined({Truth(FALSE)}))
        /\ Meaning(Q, <<e, env>>) = Branch(B(1), Applied("bool", B(2)), Defined({Truth(FALSE)}))
    BY <1>6, MeaningAnd DEF A, B
  <2>3. Applied("bool", A(2)) \subseteq Applied("bool", B(2))
    BY <2>1, AppliedGrows
  <2> QED
    BY <2>1, <2>2, <2>3, BranchGrows
<1>7. CASE e.k = "or" /\ Len(e.parts) = 2
  <2>1. A(1) \subseteq B(1) /\ A(2) \subseteq B(2)
    BY <1>2, <1>7
  <2>2. /\ Meaning(P, <<e, env>>) = Branch(A(1), Defined({Truth(TRUE)}), Applied("bool", A(2)))
        /\ Meaning(Q, <<e, env>>) = Branch(B(1), Defined({Truth(TRUE)}), Applied("bool", B(2)))
    BY <1>7, MeaningOr DEF A, B
  <2>3. Applied("bool", A(2)) \subseteq Applied("bool", B(2))
    BY <2>1, AppliedGrows
  <2> QED
    BY <2>1, <2>2, <2>3, BranchGrows
<1>8. CASE e.k = "if" /\ Len(e.parts) = 3
  <2>1. A(1) \subseteq B(1) /\ A(2) \subseteq B(2) /\ A(3) \subseteq B(3)
    BY <1>2, <1>8
  <2>2. /\ Meaning(P, <<e, env>>) = Branch(A(1), A(2), A(3))
        /\ Meaning(Q, <<e, env>>) = Branch(B(1), B(2), B(3))
    BY <1>8, MeaningIf DEF A, B
  <2> QED
    BY <2>1, <2>2, BranchGrows
<1>9. CASE e.k = "call"
  BY <1>9, MeaningCall, CalledGrows
<1> QED
  BY <1>1, <1>3, <1>4, <1>5, <1>6, <1>7, <1>8, <1>9 DEF NodeOf

\* The same, for what is asked as a whole.
LEMMA MeaningOf ==
    ASSUME NEW P \in TypedEval, NEW Q, \A x \in Asked : P[x] \subseteq Q[x], NEW x \in Asked
    PROVE  Meaning(P, x) \in SUBSET Results /\ Meaning(P, x) \subseteq Meaning(Q, x)
<1>1. PICK e \in Exprs, env \in Seq(AllValues) : x = <<e, env>>
  BY DEF Asked
<1> QED
  BY <1>1, MeaningTyped, MeaningGrows

\* The least of what is closed under Meaning is what Meaning makes of it.
Closed(P) == P \in TypedEval /\ \A x \in Asked : Meaning(P, x) \subseteq P[x]

\* The results that no evaluation can be without.
Least == [x \in Asked |-> {r \in Results : \A P \in TypedEval : Closed(P) => r \in P[x]}]

\* They are an evaluation.
LEMMA LeastTyped == Least \in TypedEval
  BY DEF Least, TypedEval

\* They are in every one that is closed.
LEMMA LeastBelow == ASSUME NEW P, Closed(P), NEW x \in Asked PROVE Least[x] \subseteq P[x]
  BY DEF Least, Closed

\* They are closed.
LEMMA LeastClosed == Closed(Least)
<1>1. ASSUME NEW x \in Asked, NEW r \in Meaning(Least, x) PROVE r \in Least[x]
  <2>1. r \in Results
    BY <1>1, LeastTyped, MeaningOf
  <2>2. ASSUME NEW P \in TypedEval, Closed(P) PROVE r \in P[x]
    <3>1. \A y \in Asked : Least[y] \subseteq P[y]
      BY <2>2, LeastBelow
    <3>2. Meaning(Least, x) \subseteq Meaning(P, x)
      BY <3>1, LeastTyped, MeaningOf
    <3> QED
      BY <1>1, <2>2, <3>2 DEF Closed
  <2> QED
    BY <2>1, <2>2 DEF Least
<1> QED
  BY <1>1, LeastTyped DEF Closed

\* They are what they mean: the equation of Eval has a solution.
LEMMA LeastIs == Least = [x \in Asked |-> Meaning(Least, x)]
<1> DEFINE M == [x \in Asked |-> Meaning(Least, x)]
<1>1. M \in TypedEval
  <2>1. \A x \in Asked : Meaning(Least, x) \in SUBSET Results
    BY LeastTyped, MeaningOf
  <2> QED
    BY <2>1 DEF TypedEval
<1>2. \A x \in Asked : M[x] = Meaning(Least, x)
  OBVIOUS
<1> HIDE DEF M
<1>3. \A x \in Asked : M[x] \subseteq Least[x]
  BY <1>2, LeastClosed DEF Closed
<1>4. Closed(M)
  BY <1>1, <1>2, <1>3, MeaningOf DEF Closed
<1>5. \A x \in Asked : Least[x] = M[x]
  BY <1>3, <1>4, LeastBelow
<1>6. Least = [x \in Asked |-> Least[x]] /\ M = [x \in Asked |-> M[x]]
  BY <1>1, LeastTyped DEF TypedEval
<1>7. Least = M
  BY <1>5, <1>6
<1> QED
  BY <1>7 DEF M

\* The reference is well defined: whatever the functions call, themselves or each other, there
\* is a function that gives every expression what it means, and Eval is one.
\* (archive/o/internal.c, f_call)
THEOREM EvalIs == Eval = [x \in Asked |-> Meaning(Eval, x)]
<1>1. Eval = CHOOSE f : f = [x \in Asked |-> Meaning(f, x)]
  BY DEF Eval, Asked
<1>2. \E f : f = [x \in Asked |-> Meaning(f, x)]
  BY LeastIs
<1> QED
  BY <1>1, <1>2, Zenon

\* The outcomes among what Eval gives.
Value == [x \in Asked |-> Eval[x] \cap Results]

\* The value of an expression is made of results that Eval gives.
LEMMA ValueTyped == Value \in TypedEval /\ \A x \in Asked : Value[x] \subseteq Results /\ Value[x] \subseteq Eval[x]
  BY DEF Value, TypedEval

\* It holds what the expression means in terms of the values of its parts.
LEMMA ValueHas ==
    ASSUME NEW e \in Exprs, NEW env \in Seq(AllValues)
    PROVE  Meaning(Value, <<e, env>>) \subseteq Value[<<e, env>>]
<1>1. <<e, env>> \in Asked
  BY DEF Asked
<1>2. Meaning(Value, <<e, env>>) \in SUBSET Results /\ Meaning(Value, <<e, env>>) \subseteq Meaning(Eval, <<e, env>>)
  BY <1>1, ValueTyped, MeaningOf
<1>3. Eval[<<e, env>>] = Meaning(Eval, <<e, env>>)
  BY <1>1, EvalIs
<1> QED
  BY <1>1, <1>2, <1>3 DEF Value

-----------------------------------------------------------------------------
(* Points of a run of code, and those from which every way leads to its goal. *)

\* A run of code: its actions, the arguments that it reads and the outcomes that are
\* allowed at its end.  A point of it: the next action, the values that it has on the
\* stack, and whether undefined is set.
Points == Nat \X Seq(AllValues) \X BOOLEAN

\* What is below the n values on top of seg, and these.
Front(seg, n) == [j \in 1..(Len(seg) - n) |-> seg[j]]
Back(seg, n) == [j \in 1..n |-> seg[Len(seg) - n + j]]

\* The outcome o, on top of seg, leads to pc, a point in G; or o is a failure that is
\* allowed.
Lead(c, G, pc, seg, u, o) ==
    IF o = Failed THEN Failed \in c.goal
    ELSE <<pc, Append(seg, o.value), Either(u, o.undefined)>> \in G

\* The outcomes of an action that does not jump.
Given(env, a, seg) ==
    CASE a.op = "push" -> IF ValueOf[a.name] = NoValue THEN {Failed} ELSE Defined({ValueOf[a.name]})
      [] a.op = "pushc" -> Defined({a.v})
      [] a.op = "pushd" -> IF a.i \in 1..Len(env) THEN Defined({env[a.i]}) ELSE {Failed}
      [] a.op = "rand" -> Rand
      [] a.op \in UnaryOps -> Answer(Unary(a.op, seg[Len(seg)]))
      [] a.op \in Bessel -> BesselOf(a.op, seg[Len(seg)])
      [] a.op \in BinaryOps -> Answer(Binary(a.op, seg[Len(seg) - 1], seg[Len(seg)]))
      [] a.op = "call" ->
             IF Code[a.f] = NoCode THEN {Failed} ELSE Value[<<Code[a.f].source, Back(seg, Arity[a.f])>>]

\* Whatever the action at pc gives leads to the next one.
Leads(c, G, pc, seg, u) ==
    \A o \in Given(c.env, c.acts[pc], seg) : Lead(c, G, pc + 1, Front(seg, Needs(c.acts[pc])), u, o)

\* A jump on the top: where it goes when that is not 0, and when it is.
Turns(c, seg, yes, no) ==
    LET top == seg[Len(seg)] IN
    IF ~IsInt(top) THEN Failed \in c.goal ELSE IF top.int_val # 0 THEN yes ELSE no

\* The actions that jump.
JumpOps == {"jump", "jumpz", "jumpnz", "jtern"}

\* Every way to go on from a point leads into G; at the end the outcome is allowed.
Ok(c, G, pc, seg, u) ==
    /\ pc = Len(c.acts) + 1 => [value |-> seg[Len(seg)], undefined |-> u] \in c.goal
    /\ pc # Len(c.acts) + 1 =>
           LET a == c.acts[pc]
               next == <<pc + 1, Front(seg, 1), u>> \in G
               stay == <<pc + a.by, seg, u>> \in G
               take == <<pc + a.by, Front(seg, 1), u>> \in G
           IN  /\ a.op = "jump" => stay
               /\ a.op = "jumpz" => Turns(c, seg, next, stay)
               /\ a.op = "jumpnz" => Turns(c, seg, stay, next)
               /\ a.op = "jtern" => Turns(c, seg, next, take)
               /\ a.op \notin JumpOps => Leads(c, G, pc, seg, u)

\* G is closed under the actions; the good points are in a set that is.
Sound(c, G) == G \in SUBSET Points /\ \A p \in G : Ok(c, G, p[1], p[2], p[3])
Good(c) == {p \in Points : \E G \in SUBSET Points : Sound(c, G) /\ p \in G}

\* More points, more ways to go on.
LEMMA OkGrows ==
    ASSUME NEW c, NEW G, NEW H, G \subseteq H, NEW pc, NEW seg, NEW u, Ok(c, G, pc, seg, u)
    PROVE  Ok(c, H, pc, seg, u)
<1>1. \A o, by, s : Lead(c, G, by, s, u, o) => Lead(c, H, by, s, u, o)
  BY DEF Lead
<1>2. Leads(c, G, pc, seg, u) => Leads(c, H, pc, seg, u)
  BY <1>1 DEF Leads
<1>3. CASE pc = Len(c.acts) + 1
  BY <1>3 DEF Ok
<1>4. CASE pc # Len(c.acts) + 1
  <2> DEFINE a == c.acts[pc]
             next(S) == <<pc + 1, Front(seg, 1), u>> \in S
             stay(S) == <<pc + a.by, seg, u>> \in S
             take(S) == <<pc + a.by, Front(seg, 1), u>> \in S
  <2>1. (next(G) => next(H)) /\ (stay(G) => stay(H)) /\ (take(G) => take(H))
    OBVIOUS
  <2> HIDE DEF next, stay, take
  <2>2. Turns(c, seg, next(G), stay(G)) => Turns(c, seg, next(H), stay(H))
    BY <2>1 DEF Turns
  <2>3. Turns(c, seg, stay(G), next(G)) => Turns(c, seg, stay(H), next(H))
    BY <2>1 DEF Turns
  <2>4. Turns(c, seg, next(G), take(G)) => Turns(c, seg, next(H), take(H))
    BY <2>1 DEF Turns
  <2> QED
    BY <1>2, <1>4, <2>1, <2>2, <2>3, <2>4 DEF Ok, next, stay, take
<1> QED
  BY <1>3, <1>4

\* The good points are closed under the actions themselves.
LEMMA GoodSound == ASSUME NEW c PROVE Sound(c, Good(c))
<1>1. Good(c) \in SUBSET Points
  BY DEF Good
<1>2. ASSUME NEW p \in Good(c) PROVE Ok(c, Good(c), p[1], p[2], p[3])
  <2>1. PICK G \in SUBSET Points : Sound(c, G) /\ p \in G
    BY DEF Good
  <2>2. G \subseteq Good(c)
    BY <2>1 DEF Good
  <2>3. Ok(c, G, p[1], p[2], p[3])
    BY <2>1 DEF Sound
  <2> QED
    BY <2>2, <2>3, OkGrows
<1> QED
  BY <1>1, <1>2 DEF Sound

\* The parts of a point.
LEMMA PointIs ==
    ASSUME NEW pc, NEW seg, NEW u
    PROVE  /\ <<pc, seg, u>>[1] = pc /\ <<pc, seg, u>>[2] = seg /\ <<pc, seg, u>>[3] = u
           /\ <<pc, seg, u>> \in Points <=> pc \in Nat /\ seg \in Seq(AllValues) /\ u \in BOOLEAN
  BY DEF Points

\* From a good point every way to go on is good.
LEMMA GoodOk ==
    ASSUME NEW c, NEW pc, NEW seg, NEW u, <<pc, seg, u>> \in Good(c)
    PROVE  Ok(c, Good(c), pc, seg, u)
<1> DEFINE q == <<pc, seg, u>>
<1>1. q[1] = pc /\ q[2] = seg /\ q[3] = u
  OBVIOUS
<1>2. q \in Good(c)
  OBVIOUS
<1> HIDE DEF q
<1>3. Ok(c, Good(c), q[1], q[2], q[3])
  BY <1>2, GoodSound DEF Sound
<1> QED
  BY <1>1, <1>3

\* And a point all of whose ways to go on are good is good.
LEMMA OkGood ==
    ASSUME NEW c, NEW pc \in Nat, NEW seg \in Seq(AllValues), NEW u \in BOOLEAN,
           Ok(c, Good(c), pc, seg, u)
    PROVE  <<pc, seg, u>> \in Good(c)
<1> DEFINE q == <<pc, seg, u>>
           G == Good(c) \cup {q}
<1>1. q \in Points /\ q[1] = pc /\ q[2] = seg /\ q[3] = u
  BY PointIs
<1> HIDE DEF q
<1>2. G \in SUBSET Points /\ q \in G /\ Good(c) \subseteq G
  BY <1>1, GoodSound DEF Sound
<1>3. Ok(c, Good(c), q[1], q[2], q[3])
  BY <1>1
<1>4. ASSUME NEW p \in G PROVE Ok(c, G, p[1], p[2], p[3])
  <2>1. Ok(c, Good(c), p[1], p[2], p[3])
    BY <1>3, GoodSound DEF Sound
  <2> QED
    BY <1>2, <2>1, OkGrows
<1>5. Sound(c, G)
  BY <1>2, <1>4 DEF Sound
<1>6. q \in Good(c)
  BY <1>1, <1>2, <1>5 DEF Good
<1> QED
  BY <1>6 DEF q

\* Sequences with the same values are equal.
LEMMA SameSeq ==
    ASSUME NEW s \in Seq(AllValues), NEW t \in Seq(AllValues), Len(s) = Len(t),
           \A i \in 1..Len(s) : s[i] = t[i]
    PROVE  s = t
  OBVIOUS

\* What is below some values.
LEMMA FrontTyped ==
    ASSUME NEW seg \in Seq(AllValues), NEW n \in Nat, n <= Len(seg)
    PROVE  /\ Front(seg, n) \in Seq(AllValues) /\ Len(Front(seg, n)) = Len(seg) - n
           /\ \A i \in 1..(Len(seg) - n) : Front(seg, n)[i] = seg[i]
<1>1. Len(seg) - n \in Nat
  OBVIOUS
<1>2. Front(seg, n) \in [1..(Len(seg) - n) -> AllValues]
  BY <1>1 DEF Front
<1>3. \A i \in 1..(Len(seg) - n) : Front(seg, n)[i] = seg[i]
  BY DEF Front
<1> QED
  BY <1>1, <1>2, <1>3, ListsAre

\* Below no value is everything.
LEMMA FrontNone == ASSUME NEW seg \in Seq(AllValues) PROVE Front(seg, 0) = seg
<1>1. /\ Front(seg, 0) \in Seq(AllValues) /\ Len(Front(seg, 0)) = Len(seg)
      /\ \A i \in 1..Len(seg) : Front(seg, 0)[i] = seg[i]
  BY FrontTyped
<1> QED
  BY <1>1, SameSeq

\* What is below a value that is put on top.
LEMMA AppendParts ==
    ASSUME NEW seg \in Seq(AllValues), NEW v \in AllValues
    PROVE  /\ Append(seg, v) \in Seq(AllValues) /\ Len(Append(seg, v)) = Len(seg) + 1 /\ Len(seg) \in Nat
           /\ Append(seg, v)[Len(seg) + 1] = v
           /\ \A i \in 1..Len(seg) : Append(seg, v)[i] = seg[i]
  OBVIOUS

\* When it is taken, what was below it is left.
LEMMA FrontOne ==
    ASSUME NEW seg \in Seq(AllValues), NEW v \in AllValues
    PROVE  /\ Append(seg, v) \in Seq(AllValues)
           /\ Append(seg, v)[Len(Append(seg, v))] = v
           /\ Front(Append(seg, v), 1) = seg
<1> DEFINE s == Append(seg, v)
<1>1. /\ s \in Seq(AllValues) /\ Len(s) = Len(seg) + 1 /\ Len(seg) \in Nat /\ s[Len(s)] = v
      /\ \A i \in 1..Len(seg) : s[i] = seg[i]
  BY AppendParts
<1> HIDE DEF s
<1>2. /\ Front(s, 1) \in Seq(AllValues) /\ Len(Front(s, 1)) = Len(seg)
      /\ \A i \in 1..Len(seg) : Front(s, 1)[i] = seg[i]
  <2>1. 1 \in Nat /\ 1 <= Len(s) /\ Len(s) - 1 = Len(seg) /\ s \in Seq(AllValues)
    BY <1>1
  <2>2. /\ Front(s, 1) \in Seq(AllValues) /\ Len(Front(s, 1)) = Len(s) - 1
        /\ \A i \in 1..(Len(s) - 1) : Front(s, 1)[i] = s[i]
    BY <2>1, FrontTyped
  <2> QED
    BY <1>1, <2>1, <2>2
<1>3. Front(s, 1) = seg
  BY <1>2, SameSeq
<1> QED
  BY <1>1, <1>3 DEF s

\* The same for two values.
LEMMA FrontTwo ==
    ASSUME NEW seg \in Seq(AllValues), NEW v \in AllValues, NEW w \in AllValues
    PROVE  LET s == Append(Append(seg, v), w) IN
           /\ s \in Seq(AllValues)
           /\ s[Len(s)] = w /\ s[Len(s) - 1] = v
           /\ Front(s, 2) = seg
<1> DEFINE r == Append(seg, v)
           s == Append(r, w)
<1>1. /\ r \in Seq(AllValues) /\ Len(r) = Len(seg) + 1 /\ Len(seg) \in Nat /\ r[Len(r)] = v
      /\ \A i \in 1..Len(seg) : r[i] = seg[i]
  BY AppendParts
<1> HIDE DEF r
<1>2. /\ s \in Seq(AllValues) /\ Len(s) = Len(r) + 1 /\ s[Len(s)] = w
      /\ \A i \in 1..Len(r) : s[i] = r[i]
  BY <1>1, AppendParts
<1> HIDE DEF s
<1>3. s[Len(s) - 1] = v /\ \A i \in 1..Len(seg) : s[i] = seg[i]
  BY <1>1, <1>2
<1>4. /\ Front(s, 2) \in Seq(AllValues) /\ Len(Front(s, 2)) = Len(seg)
      /\ \A i \in 1..Len(seg) : Front(s, 2)[i] = seg[i]
  <2>1. 2 \in Nat /\ 2 <= Len(s) /\ Len(s) - 2 = Len(seg) /\ s \in Seq(AllValues)
    BY <1>1, <1>2, <1>3
  <2>2. /\ Front(s, 2) \in Seq(AllValues) /\ Len(Front(s, 2)) = Len(s) - 2
        /\ \A i \in 1..(Len(s) - 2) : Front(s, 2)[i] = s[i]
    BY <2>1, FrontTyped
  <2> QED
    BY <1>1, <1>2, <1>3, <2>1, <2>2
<1>5. Front(s, 2) = seg
  BY <1>4, SameSeq
<1> QED
  BY <1>2, <1>3, <1>5 DEF s, r

\* A flag can be counted with the outcome or before it.
LEMMA LeadFlag ==
    ASSUME NEW c, NEW G, NEW pc, NEW seg, NEW u \in BOOLEAN, NEW w \in BOOLEAN, NEW q \in Results
    PROVE  Lead(c, G, pc, seg, u, Flag(w, q)) <=> Lead(c, G, pc, seg, Either(u, w), q)
<1>1. CASE q = Failed
  <2>1. Flag(w, q) = Failed
    BY <1>1, FlagTyped
  <2> QED
    BY <1>1, <2>1 DEF Lead
<1>2. CASE q # Failed
  <2>1. Flag(w, q) # Failed /\ Flag(w, q).value = q.value /\ Flag(w, q).undefined = Either(w, q.undefined)
    BY <1>2, FlagTyped
  <2>2. q.undefined \in BOOLEAN
    BY <1>2, ResultParts
  <2>3. Either(u, Flag(w, q).undefined) = Either(Either(u, w), q.undefined)
    BY <2>1, <2>2, EitherBoth
  <2> QED
    BY <1>2, <2>1, <2>3 DEF Lead
<1> QED
  BY <1>1, <1>2

\* A failure leads on when it is allowed.
LEMMA LeadFailed ==
    ASSUME NEW c, NEW G, NEW pc, NEW seg, NEW u
    PROVE  Lead(c, G, pc, seg, u, Failed) <=> Failed \in c.goal
  BY DEF Lead

\* An outcome leads on when the point behind it is in G.
LEMMA LeadOn ==
    ASSUME NEW c, NEW G, NEW pc, NEW seg, NEW u, NEW o, o # Failed
    PROVE  Lead(c, G, pc, seg, u, o) <=> <<pc, Append(seg, o.value), Either(u, o.undefined)>> \in G
  BY DEF Lead

\* What the actions give.
LEMMA GivenUnary ==
    ASSUME NEW a, a.op \in UnaryOps
    PROVE  /\ \A env, seg : Given(env, a, seg) = Answer(Unary(a.op, seg[Len(seg)]))
           /\ a.op \notin JumpOps /\ Needs(a) = 1
<1>1. a.op \notin {"push", "pushc", "pushd", "rand", "call", "jump"} /\ a.op \notin JumpOps
      /\ a.op \notin BinaryOps /\ a.op \notin Bessel
  BY DEF UnaryOps, EntireOps, JumpOps, BinaryOps, LogicalOps, BitwiseOps, Bessel
<1>2. Needs(a) = 1
  BY <1>1 DEF Needs
<1>3. ASSUME NEW env, NEW seg PROVE Given(env, a, seg) = Answer(Unary(a.op, seg[Len(seg)]))
  BY <1>1 DEF Given
<1> QED
  BY <1>1, <1>2, <1>3

\* A composition of standard.c gives what it is composed of.
LEMMA GivenBessel ==
    ASSUME NEW a, a.op \in Bessel
    PROVE  /\ \A env, seg : Given(env, a, seg) = BesselOf(a.op, seg[Len(seg)])
           /\ a.op \notin JumpOps /\ Needs(a) = 1
  BY DEF Given, UnaryOps, EntireOps, JumpOps, Needs, BinaryOps, LogicalOps, BitwiseOps, Bessel

\* An operator of two operands takes both.
LEMMA GivenBinary ==
    ASSUME NEW a, a.op \in BinaryOps
    PROVE  /\ \A env, seg : Given(env, a, seg) = Answer(Binary(a.op, seg[Len(seg) - 1], seg[Len(seg)]))
           /\ a.op \notin JumpOps /\ Needs(a) = 2
  BY DEF Given, UnaryOps, EntireOps, JumpOps, Needs, BinaryOps, LogicalOps, BitwiseOps, Bessel

\* A call takes the arguments and gives the value of the function.
LEMMA GivenCall ==
    ASSUME NEW a, a.op = "call"
    PROVE  /\ \A env, seg : Given(env, a, seg) =
                  IF Code[a.f] = NoCode THEN {Failed}
                  ELSE Value[<<Code[a.f].source, Back(seg, Arity[a.f])>>]
           /\ a.op \notin JumpOps /\ Needs(a) = Arity[a.f]
  BY DEF Given, UnaryOps, EntireOps, JumpOps, Needs, BinaryOps, LogicalOps, BitwiseOps, Bessel

\* A variable gives its value.
LEMMA GivenPush ==
    ASSUME NEW a, a.op = "push"
    PROVE  /\ \A env, seg : Given(env, a, seg) =
                  IF ValueOf[a.name] = NoValue THEN {Failed} ELSE Defined({ValueOf[a.name]})
           /\ a.op \notin JumpOps /\ Needs(a) = 0
  BY DEF Given, UnaryOps, EntireOps, JumpOps, Needs, BinaryOps, LogicalOps, BitwiseOps, Bessel

\* A constant gives itself.
LEMMA GivenConst ==
    ASSUME NEW a, a.op = "pushc"
    PROVE  /\ \A env, seg : Given(env, a, seg) = Defined({a.v})
           /\ a.op \notin JumpOps /\ Needs(a) = 0
  BY DEF Given, UnaryOps, EntireOps, JumpOps, Needs, BinaryOps, LogicalOps, BitwiseOps, Bessel

\* A dummy gives an argument.
LEMMA GivenDummy ==
    ASSUME NEW a, a.op = "pushd"
    PROVE  /\ \A env, seg : Given(env, a, seg) =
                  IF a.i \in 1..Len(env) THEN Defined({env[a.i]}) ELSE {Failed}
           /\ a.op \notin JumpOps /\ Needs(a) = 0
  BY DEF Given, UnaryOps, EntireOps, JumpOps, Needs, BinaryOps, LogicalOps, BitwiseOps, Bessel

\* The random number is one of the sample.
LEMMA GivenRandom ==
    ASSUME NEW a, a.op = "rand"
    PROVE  /\ \A env, seg : Given(env, a, seg) = Rand
           /\ a.op \notin JumpOps /\ Needs(a) = 0
  BY DEF Given, UnaryOps, EntireOps, JumpOps, Needs, BinaryOps, LogicalOps, BitwiseOps, Bessel

\* A point is good if what its action gives leads on.
LEMMA GoodGives ==
    ASSUME NEW c, c.acts \in Seq(Actions), NEW j \in 1..Len(c.acts), NEW n, n = Needs(c.acts[j]),
           c.acts[j].op \notin JumpOps, NEW seg \in Seq(AllValues), NEW u \in BOOLEAN,
           \A q \in Given(c.env, c.acts[j], seg) : Lead(c, Good(c), j + 1, Front(seg, n), u, q)
    PROVE  <<j, seg, u>> \in Good(c)
<1>1. j \in Nat /\ j # Len(c.acts) + 1
  OBVIOUS
<1>2. Leads(c, Good(c), j, seg, u)
  BY DEF Leads
<1>3. Ok(c, Good(c), j, seg, u)
  BY <1>1, <1>2 DEF Ok, JumpOps
<1> QED
  BY <1>1, <1>3, OkGood

-----------------------------------------------------------------------------
\* What leads on from j leads from the point p; a stretch of code from i to j leaves
\* one of the outcomes in S on top of what it has found.
From(c, p, j, S, seg, u) == (\A r \in S : Lead(c, Good(c), j, seg, u, r)) => p \in Good(c)

\* The stretch of code from i to j leaves one of the results in S on top of what it found.
Runs(c, i, j, S) ==
    \A seg \in Seq(AllValues) : \A u \in BOOLEAN : From(c, <<i, seg, u>>, j, S, seg, u)

\* A single action that takes nothing is such a stretch.
LEMMA RunsGives ==
    ASSUME NEW c, c.acts \in Seq(Actions), NEW i \in 1..Len(c.acts), c.acts[i].op \notin JumpOps,
           Needs(c.acts[i]) = 0, NEW S, \A seg : Given(c.env, c.acts[i], seg) = S
    PROVE  Runs(c, i, i + 1, S)
<1> SUFFICES ASSUME NEW seg \in Seq(AllValues), NEW u \in BOOLEAN,
                    \A r \in S : Lead(c, Good(c), i + 1, seg, u, r)
             PROVE  <<i, seg, u>> \in Good(c)
  BY DEF Runs, From
<1>1. Front(seg, 0) = seg
  BY FrontNone
<1> QED
  BY <1>1, GoodGives

\* An operator of one operand goes on from what it gives.
LEMMA FromUnary ==
    ASSUME NEW c, c.acts \in Seq(Actions), NEW j \in 1..Len(c.acts), c.acts[j].op \in UnaryOps,
           NEW seg \in Seq(AllValues), NEW u \in BOOLEAN, NEW S \in SUBSET Results,
           NEW p, From(c, p, j, S, seg, u)
    PROVE  From(c, p, j + 1, Applied(c.acts[j].op, S), seg, u)
<1> DEFINE op == c.acts[j].op
<1> SUFFICES ASSUME \A r \in Applied(op, S) : Lead(c, Good(c), j + 1, seg, u, r)
             PROVE  p \in Good(c)
  BY DEF From
<1>1. ASSUME NEW o \in S PROVE Lead(c, Good(c), j, seg, u, o)
  <2>1. CASE o = Failed
    <3>1. Failed \in Applied(op, S)
      BY <1>1, <2>1, AppliedTyped
    <3> QED
      BY <2>1, <3>1, LeadFailed
  <2>2. CASE o # Failed
    <3>1. o.value \in AllValues /\ o.undefined \in BOOLEAN
      BY <1>1, <2>2, ResultParts
    <3> DEFINE v == Either(u, o.undefined)
               s == Append(seg, o.value)
    <3>2. v \in BOOLEAN
      BY <3>1, EitherTyped
    <3>3. s \in Seq(AllValues) /\ s[Len(s)] = o.value /\ Front(s, 1) = seg
      BY <3>1, FrontOne
    <3>4. \A q \in Answer(Unary(op, o.value)) : q \in Results /\ Flag(o.undefined, q) \in Applied(op, S)
      BY <1>1, <2>2, AppliedTyped
    <3>5. \A q \in Answer(Unary(op, o.value)) : Lead(c, Good(c), j + 1, seg, v, q)
      BY <3>1, <3>4, LeadFlag
    <3>6. Given(c.env, c.acts[j], s) = Answer(Unary(op, s[Len(s)]))
          /\ c.acts[j].op \notin JumpOps /\ Needs(c.acts[j]) = 1
      BY GivenUnary
    <3> HIDE DEF v, s
    <3>7. <<j, s, v>> \in Good(c)
      BY <3>2, <3>3, <3>5, <3>6, GoodGives
    <3> QED
      BY <2>2, <3>7, LeadOn DEF v, s
  <2> QED
    BY <2>1, <2>2
<1> QED
  BY <1>1 DEF From

\* So does a composition of standard.c.
LEMMA FromBessel ==
    ASSUME NEW c, c.acts \in Seq(Actions), NEW j \in 1..Len(c.acts), c.acts[j].op \in Bessel,
           NEW seg \in Seq(AllValues), NEW u \in BOOLEAN, NEW S \in SUBSET Results,
           NEW p, From(c, p, j, S, seg, u)
    PROVE  From(c, p, j + 1, Composed(c.acts[j].op, S), seg, u)
<1> DEFINE op == c.acts[j].op
<1> SUFFICES ASSUME \A r \in Composed(op, S) : Lead(c, Good(c), j + 1, seg, u, r)
             PROVE  p \in Good(c)
  BY DEF From
<1>1. ASSUME NEW o \in S PROVE Lead(c, Good(c), j, seg, u, o)
  <2>1. CASE o = Failed
    <3>1. Failed \in Composed(op, S)
      BY <1>1, <2>1, ComposedTyped
    <3> QED
      BY <2>1, <3>1, LeadFailed
  <2>2. CASE o # Failed
    <3>1. o.value \in AllValues /\ o.undefined \in BOOLEAN
      BY <1>1, <2>2, ResultParts
    <3> DEFINE v == Either(u, o.undefined)
               s == Append(seg, o.value)
    <3>2. v \in BOOLEAN
      BY <3>1, EitherTyped
    <3>3. s \in Seq(AllValues) /\ s[Len(s)] = o.value /\ Front(s, 1) = seg
      BY <3>1, FrontOne
    <3>4. \A q \in BesselOf(op, o.value) : q \in Results /\ Flag(o.undefined, q) \in Composed(op, S)
      BY <1>1, <2>2, ComposedTyped
    <3>5. \A q \in BesselOf(op, o.value) : Lead(c, Good(c), j + 1, seg, v, q)
      BY <3>1, <3>4, LeadFlag
    <3>6. Given(c.env, c.acts[j], s) = BesselOf(op, s[Len(s)])
          /\ c.acts[j].op \notin JumpOps /\ Needs(c.acts[j]) = 1
      BY GivenBessel
    <3> HIDE DEF v, s
    <3>7. <<j, s, v>> \in Good(c)
      BY <3>2, <3>3, <3>5, <3>6, GoodGives
    <3> QED
      BY <2>2, <3>7, LeadOn DEF v, s
  <2> QED
    BY <2>1, <2>2
<1> QED
  BY <1>1 DEF From

\* And an operator of two operands, behind the code of the second.
LEMMA FromBinary ==
    ASSUME NEW c, c.acts \in Seq(Actions), NEW j \in Nat, NEW k \in 1..Len(c.acts),
           c.acts[k].op \in BinaryOps,
           NEW seg \in Seq(AllValues), NEW u \in BOOLEAN,
           NEW S \in SUBSET Results, NEW T \in SUBSET Results,
           NEW p, From(c, p, j, S, seg, u), Runs(c, j, k, T)
    PROVE  From(c, p, k + 1, Combined(c.acts[k].op, S, T), seg, u)
<1> DEFINE op == c.acts[k].op
<1> SUFFICES ASSUME \A r \in Combined(op, S, T) : Lead(c, Good(c), k + 1, seg, u, r)
             PROVE  p \in Good(c)
  BY DEF From
<1>1. ASSUME NEW o \in S PROVE Lead(c, Good(c), j, seg, u, o)
  <2>1. CASE o = Failed
    <3>1. Failed \in Combined(op, S, T)
      BY <1>1, <2>1, CombinedTyped
    <3> QED
      BY <2>1, <3>1, LeadFailed
  <2>2. CASE o # Failed
    <3>1. o.value \in AllValues /\ o.undefined \in BOOLEAN
      BY <1>1, <2>2, ResultParts
    <3> DEFINE v == Either(u, o.undefined)
               s == Append(seg, o.value)
    <3>2. v \in BOOLEAN
      BY <3>1, EitherTyped
    <3>3. s \in Seq(AllValues)
      BY <3>1, FrontOne
    <3>4. ASSUME NEW q \in T PROVE Lead(c, Good(c), k, s, v, q)
      <4>1. CASE q = Failed
        <5>1. Failed \in Combined(op, S, T)
          BY <1>1, <2>2, <3>4, <4>1, CombinedTyped
        <5> QED
          BY <4>1, <5>1, LeadFailed
      <4>2. CASE q # Failed
        <5>1. q.value \in AllValues /\ q.undefined \in BOOLEAN
          BY <3>4, <4>2, ResultParts
        <5> DEFINE w == Either(v, q.undefined)
                   t == Append(s, q.value)
        <5>2. w \in BOOLEAN
          BY <3>2, <5>1, EitherTyped
        <5>3. t \in Seq(AllValues) /\ t[Len(t)] = q.value /\ t[Len(t) - 1] = o.value /\ Front(t, 2) = seg
          BY <3>1, <5>1, FrontTwo
        <5>4. \A r \in Answer(Binary(op, o.value, q.value)) :
                  r \in Results /\ Flag(o.undefined, Flag(q.undefined, r)) \in Combined(op, S, T)
          BY <1>1, <2>2, <3>4, <4>2, CombinedTyped
        <5>5. ASSUME NEW r \in Answer(Binary(op, o.value, q.value))
              PROVE  Lead(c, Good(c), k + 1, seg, w, r)
          <6>1. r \in Results /\ Lead(c, Good(c), k + 1, seg, u, Flag(o.undefined, Flag(q.undefined, r)))
            BY <5>4, <5>5
          <6>2. Flag(q.undefined, r) \in Results
            BY <5>1, <6>1, FlagTyped
          <6>3. Lead(c, Good(c), k + 1, seg, v, Flag(q.undefined, r))
            BY <3>1, <6>1, <6>2, LeadFlag
          <6> QED
            BY <3>2, <5>1, <6>1, <6>3, LeadFlag
        <5>6. /\ Given(c.env, c.acts[k], t) = Answer(Binary(op, t[Len(t) - 1], t[Len(t)]))
              /\ c.acts[k].op \notin JumpOps /\ Needs(c.acts[k]) = 2
          BY GivenBinary
        <5> HIDE DEF w, t
        <5>7. <<k, t, w>> \in Good(c)
          BY <5>2, <5>3, <5>5, <5>6, GoodGives
        <5> QED
          BY <4>2, <5>7, LeadOn DEF w, t
      <4> QED
        BY <4>1, <4>2
    <3> HIDE DEF v, s
    <3>5. From(c, <<j, s, v>>, k, T, s, v)
      BY <3>2, <3>3 DEF Runs
    <3>6. <<j, s, v>> \in Good(c)
      BY <3>4, <3>5 DEF From
    <3> QED
      BY <2>2, <3>6, LeadOn DEF v, s
  <2> QED
    BY <2>1, <2>2
<1> QED
  BY <1>1 DEF From

\* A point at a jump is good if the points that it jumps to are.
LEMMA GoodTurns ==
    ASSUME NEW c, c.acts \in Seq(Actions), NEW j \in 1..Len(c.acts), NEW seg \in Seq(AllValues),
           NEW u \in BOOLEAN
    PROVE  LET a == c.acts[j]
               next == <<j + 1, Front(seg, 1), u>> \in Good(c)
               stay == <<j + a.by, seg, u>> \in Good(c)
               take == <<j + a.by, Front(seg, 1), u>> \in Good(c)
           IN  /\ a.op = "jump" /\ stay => <<j, seg, u>> \in Good(c)
               /\ a.op = "jumpz" /\ Turns(c, seg, next, stay) => <<j, seg, u>> \in Good(c)
               /\ a.op = "jumpnz" /\ Turns(c, seg, stay, next) => <<j, seg, u>> \in Good(c)
               /\ a.op = "jtern" /\ Turns(c, seg, next, take) => <<j, seg, u>> \in Good(c)
<1> DEFINE a == c.acts[j]
           next == <<j + 1, Front(seg, 1), u>> \in Good(c)
           stay == <<j + a.by, seg, u>> \in Good(c)
           take == <<j + a.by, Front(seg, 1), u>> \in Good(c)
<1>1. j \in Nat /\ j # Len(c.acts) + 1
  OBVIOUS
<1>2. Ok(c, Good(c), j, seg, u) <=>
          /\ a.op = "jump" => stay
          /\ a.op = "jumpz" => Turns(c, seg, next, stay)
          /\ a.op = "jumpnz" => Turns(c, seg, stay, next)
          /\ a.op = "jtern" => Turns(c, seg, next, take)
          /\ a.op \notin JumpOps => Leads(c, Good(c), j, seg, u)
  BY <1>1, Zenon DEF Ok
<1>3. Ok(c, Good(c), j, seg, u) => <<j, seg, u>> \in Good(c)
  BY <1>1, OkGood
<1> HIDE DEF next, stay, take
<1>4. a.op = "jump" /\ stay => <<j, seg, u>> \in Good(c)
  BY <1>2, <1>3 DEF JumpOps
<1>5. a.op = "jumpz" /\ Turns(c, seg, next, stay) => <<j, seg, u>> \in Good(c)
  BY <1>2, <1>3 DEF JumpOps
<1>6. a.op = "jumpnz" /\ Turns(c, seg, stay, next) => <<j, seg, u>> \in Good(c)
  BY <1>2, <1>3 DEF JumpOps
<1>7. a.op = "jtern" /\ Turns(c, seg, next, take) => <<j, seg, u>> \in Good(c)
  BY <1>2, <1>3 DEF JumpOps
<1> QED
  BY <1>4, <1>5, <1>6, <1>7 DEF next, stay, take

\* A condition goes on from the stretch that it selects.
LEMMA FromBranch ==
    ASSUME NEW c, NEW j, NEW n, NEW seg \in Seq(AllValues), NEW u \in BOOLEAN,
           NEW S \in SUBSET Results, NEW T \in SUBSET Results, NEW N \in SUBSET Results,
           NEW p, From(c, p, j, S, seg, u),
           \A v \in AllValues : \A w \in BOOLEAN :
               /\ ~IsInt(v) /\ Failed \in c.goal => <<j, Append(seg, v), w>> \in Good(c)
               /\ IsInt(v) /\ v.int_val # 0 => From(c, <<j, Append(seg, v), w>>, n, T, seg, w)
               /\ IsInt(v) /\ v.int_val = 0 => From(c, <<j, Append(seg, v), w>>, n, N, seg, w)
    PROVE  From(c, p, n, Branch(S, T, N), seg, u)
<1> SUFFICES ASSUME \A r \in Branch(S, T, N) : Lead(c, Good(c), n, seg, u, r)
             PROVE  p \in Good(c)
  BY DEF From
<1>1. ASSUME NEW o \in S PROVE Lead(c, Good(c), j, seg, u, o)
  <2>1. CASE o = Failed
    <3>1. Failed \in Branch(S, T, N)
      BY <1>1, <2>1, BranchTyped
    <3> QED
      BY <2>1, <3>1, LeadFailed
  <2>2. CASE o # Failed
    <3>1. o.value \in AllValues /\ o.undefined \in BOOLEAN
      BY <1>1, <2>2, ResultParts
    <3> DEFINE v == Either(u, o.undefined)
               s == Append(seg, o.value)
    <3>2. v \in BOOLEAN
      BY <3>1, EitherTyped
    <3>3. CASE ~IsInt(o.value)
      <4>1. Failed \in Branch(S, T, N)
        BY <1>1, <2>2, <3>3, BranchTyped
      <4>2. Failed \in c.goal
        BY <4>1, LeadFailed
      <4> HIDE DEF v
      <4>3. <<j, s, v>> \in Good(c)
        BY <3>1, <3>2, <3>3, <4>2
      <4> QED
        BY <2>2, <4>3, LeadOn DEF v
    <3>4. CASE IsInt(o.value) /\ o.value.int_val # 0
      <4>1. \A q \in T : Flag(o.undefined, q) \in Branch(S, T, N)
        BY <1>1, <2>2, <3>4, BranchTyped
      <4>2. \A q \in T : Lead(c, Good(c), n, seg, v, q)
        BY <3>1, <4>1, LeadFlag
      <4> HIDE DEF v
      <4>3. From(c, <<j, s, v>>, n, T, seg, v)
        BY <3>1, <3>2, <3>4
      <4>4. <<j, s, v>> \in Good(c)
        BY <4>2, <4>3 DEF From
      <4> QED
        BY <2>2, <4>4, LeadOn DEF v
    <3>5. CASE IsInt(o.value) /\ o.value.int_val = 0
      <4>1. \A q \in N : Flag(o.undefined, q) \in Branch(S, T, N)
        BY <1>1, <2>2, <3>5, BranchTyped
      <4>2. \A q \in N : Lead(c, Good(c), n, seg, v, q)
        BY <3>1, <4>1, LeadFlag
      <4> HIDE DEF v
      <4>3. From(c, <<j, s, v>>, n, N, seg, v)
        BY <3>1, <3>2, <3>5
      <4>4. <<j, s, v>> \in Good(c)
        BY <4>2, <4>3 DEF From
      <4> QED
        BY <2>2, <4>4, LeadOn DEF v
    <3> QED
      BY <3>3, <3>4, <3>5
  <2> QED
    BY <2>1, <2>2
<1> QED
  BY <1>1 DEF From

\* A value that is not undefined.
LEMMA DefinedOne ==
    ASSUME NEW x
    PROVE  [value |-> x, undefined |-> FALSE] \in Defined({x})
  BY DEF Defined

\* What bool makes of an int, and where that leads.
LEMMA BoolIs ==
    ASSUME NEW v \in AllValues, IsInt(v)
    PROVE  /\ v.int_val # 0 => Answer(Unary("bool", v)) = Defined({Truth(TRUE)})
           /\ v.int_val = 0 => Answer(Unary("bool", v)) = Defined({Truth(FALSE)})
<1>1. Unary("bool", v) = Boolean("bool", v)
  BY DEF Unary, EntireOps
<1>2. Boolean("bool", v) = Defined({Truth(v.int_val # 0)})
  BY DEF Boolean
<1>3. \A x : Defined({x}) # {}
  BY DefinedOne
<1>4. \A x : Answer(Defined({x})) = Defined({x})
  BY <1>3 DEF Answer
<1>5. v.int_val # 0 => Truth(v.int_val # 0) = Truth(TRUE)
  BY DEF Truth
<1>6. v.int_val = 0 => Truth(v.int_val # 0) = Truth(FALSE)
  BY DEF Truth
<1> QED
  BY <1>1, <1>2, <1>4, <1>5, <1>6

\* The bool behind && and || goes on from the truth value of the int in front of it.
LEMMA GoodBool ==
    ASSUME NEW c, c.acts \in Seq(Actions), NEW k \in 1..Len(c.acts), c.acts[k].op = "bool",
           NEW seg \in Seq(AllValues), NEW v \in AllValues, IsInt(v), NEW w \in BOOLEAN
    PROVE  /\ v.int_val # 0 =>
                  From(c, <<k, Append(seg, v), w>>, k + 1, Defined({Truth(TRUE)}), seg, w)
           /\ v.int_val = 0 =>
                  From(c, <<k, Append(seg, v), w>>, k + 1, Defined({Truth(FALSE)}), seg, w)
<1> DEFINE s == Append(seg, v)
<1>1. s \in Seq(AllValues) /\ s[Len(s)] = v /\ Front(s, 1) = seg
  BY FrontOne
<1>2. c.acts[k].op \in UnaryOps
  BY BesselOps
<1>3. /\ Given(c.env, c.acts[k], s) = Answer(Unary("bool", s[Len(s)]))
      /\ c.acts[k].op \notin JumpOps /\ Needs(c.acts[k]) = 1
  BY <1>2, GivenUnary
<1> HIDE DEF s
<1>4. ASSUME \A q \in Answer(Unary("bool", v)) : Lead(c, Good(c), k + 1, seg, w, q)
      PROVE  <<k, s, w>> \in Good(c)
  BY <1>1, <1>3, <1>4, GoodGives
<1>5. CASE v.int_val # 0
  <2>1. Answer(Unary("bool", v)) = Defined({Truth(TRUE)})
    BY <1>5, BoolIs
  <2> QED
    BY <1>4, <1>5, <2>1 DEF From, s
<1>6. CASE v.int_val = 0
  <2>1. Answer(Unary("bool", v)) = Defined({Truth(FALSE)})
    BY <1>6, BoolIs
  <2> QED
    BY <1>4, <1>6, <2>1 DEF From, s
<1> QED
  BY <1>5, <1>6

\* A point with v on top of seg in front of a jump.
LEMMA GoodTop ==
    ASSUME NEW c, c.acts \in Seq(Actions), NEW j \in 1..Len(c.acts), NEW seg \in Seq(AllValues),
           NEW v \in AllValues, NEW w \in BOOLEAN
    PROVE  LET a == c.acts[j]
               point == <<j, Append(seg, v), w>> \in Good(c)
               next == <<j + 1, seg, w>> \in Good(c)
               stay == <<j + a.by, Append(seg, v), w>> \in Good(c)
               take == <<j + a.by, seg, w>> \in Good(c)
           IN  /\ a.op \in {"jumpz", "jumpnz", "jtern"} /\ ~IsInt(v) /\ Failed \in c.goal => point
               /\ a.op \in {"jumpz", "jtern"} /\ IsInt(v) /\ v.int_val # 0 /\ next => point
               /\ a.op = "jumpz" /\ IsInt(v) /\ v.int_val = 0 /\ stay => point
               /\ a.op = "jumpnz" /\ IsInt(v) /\ v.int_val # 0 /\ stay => point
               /\ a.op = "jumpnz" /\ IsInt(v) /\ v.int_val = 0 /\ next => point
               /\ a.op = "jtern" /\ IsInt(v) /\ v.int_val = 0 /\ take => point
<1> DEFINE s == Append(seg, v)
           a == c.acts[j]
           point == <<j, s, w>> \in Good(c)
           next == <<j + 1, seg, w>> \in Good(c)
           stay == <<j + a.by, s, w>> \in Good(c)
           take == <<j + a.by, seg, w>> \in Good(c)
<1>1. s \in Seq(AllValues) /\ s[Len(s)] = v /\ Front(s, 1) = seg
  BY FrontOne
<1> HIDE DEF s
<1>2. /\ a.op = "jumpz" /\ Turns(c, s, next, stay) => point
      /\ a.op = "jumpnz" /\ Turns(c, s, stay, next) => point
      /\ a.op = "jtern" /\ Turns(c, s, next, take) => point
  BY <1>1, GoodTurns
<1> HIDE DEF next, stay, take, point
<1>3. \A yes, no \in BOOLEAN :
          Turns(c, s, yes, no) <=> IF ~IsInt(v) THEN Failed \in c.goal ELSE IF v.int_val # 0 THEN yes ELSE no
  BY <1>1 DEF Turns
<1>4. next \in BOOLEAN /\ stay \in BOOLEAN /\ take \in BOOLEAN
  BY DEF next, stay, take
<1>5. /\ a.op \in {"jumpz", "jumpnz", "jtern"} /\ ~IsInt(v) /\ Failed \in c.goal => point
      /\ a.op \in {"jumpz", "jtern"} /\ IsInt(v) /\ v.int_val # 0 /\ next => point
      /\ a.op = "jumpz" /\ IsInt(v) /\ v.int_val = 0 /\ stay => point
      /\ a.op = "jumpnz" /\ IsInt(v) /\ v.int_val # 0 /\ stay => point
      /\ a.op = "jumpnz" /\ IsInt(v) /\ v.int_val = 0 /\ next => point
      /\ a.op = "jtern" /\ IsInt(v) /\ v.int_val = 0 /\ take => point
  BY <1>2, <1>3, <1>4
<1> QED
  BY <1>5 DEF next, stay, take, point, s

\* A stretch of code runs from any values and any flag.
LEMMA RunsFrom ==
    ASSUME NEW c, NEW i, NEW j, NEW S, Runs(c, i, j, S), NEW seg \in Seq(AllValues), NEW u \in BOOLEAN
    PROVE  From(c, <<i, seg, u>>, j, S, seg, u)
  BY DEF Runs

\* The code of &&, behind the code of its first operand.
LEMMA FromAnd ==
    ASSUME NEW c, c.acts \in Seq(Actions), NEW j \in 1..Len(c.acts), NEW k \in 1..Len(c.acts),
           c.acts[j].op = "jumpz", j + c.acts[j].by = k, c.acts[k].op = "bool",
           NEW seg \in Seq(AllValues), NEW u \in BOOLEAN,
           NEW S \in SUBSET Results, NEW T \in SUBSET Results,
           NEW p, From(c, p, j, S, seg, u), Runs(c, j + 1, k, T)
    PROVE  From(c, p, k + 1, Branch(S, Applied("bool", T), Defined({Truth(FALSE)})), seg, u)
<1> DEFINE Y == Applied("bool", T)
           N == Defined({Truth(FALSE)})
<1>1. Y \in SUBSET Results /\ N \in SUBSET Results
  BY AppliedTyped, BesselOps, DefinedResults, TruthValues
<1>2. ASSUME NEW v \in AllValues, NEW w \in BOOLEAN
      PROVE  /\ ~IsInt(v) /\ Failed \in c.goal => <<j, Append(seg, v), w>> \in Good(c)
             /\ IsInt(v) /\ v.int_val # 0 => From(c, <<j, Append(seg, v), w>>, k + 1, Y, seg, w)
             /\ IsInt(v) /\ v.int_val = 0 => From(c, <<j, Append(seg, v), w>>, k + 1, N, seg, w)
  <2>1. ~IsInt(v) /\ Failed \in c.goal => <<j, Append(seg, v), w>> \in Good(c)
    BY GoodTop
  <2>2. ASSUME IsInt(v), v.int_val # 0 PROVE From(c, <<j, Append(seg, v), w>>, k + 1, Y, seg, w)
    <3>1. From(c, <<j + 1, seg, w>>, k, T, seg, w)
      BY RunsFrom
    <3>2. From(c, <<j + 1, seg, w>>, k + 1, Y, seg, w)
      BY <3>1, FromUnary, BesselOps
    <3>3. <<j + 1, seg, w>> \in Good(c) => <<j, Append(seg, v), w>> \in Good(c)
      BY <2>2, GoodTop
    <3> QED
      BY <3>2, <3>3 DEF From
  <2>3. ASSUME IsInt(v), v.int_val = 0 PROVE From(c, <<j, Append(seg, v), w>>, k + 1, N, seg, w)
    <3>1. From(c, <<k, Append(seg, v), w>>, k + 1, N, seg, w)
      BY <2>3, GoodBool
    <3>2. <<j + c.acts[j].by, Append(seg, v), w>> \in Good(c) => <<j, Append(seg, v), w>> \in Good(c)
      BY <2>3, GoodTop
    <3>3. <<k, Append(seg, v), w>> \in Good(c) => <<j, Append(seg, v), w>> \in Good(c)
      BY <3>2
    <3> QED
      BY <3>1, <3>3 DEF From
  <2> QED
    BY <2>1, <2>2, <2>3
<1> HIDE DEF Y, N
<1>3. From(c, p, k + 1, Branch(S, Y, N), seg, u)
  BY <1>1, <1>2, FromBranch
<1> QED
  BY <1>3 DEF Y, N

\* The code of ||.
LEMMA FromOr ==
    ASSUME NEW c, c.acts \in Seq(Actions), NEW j \in 1..Len(c.acts), NEW k \in 1..Len(c.acts),
           c.acts[j].op = "jumpnz", j + c.acts[j].by = k, c.acts[k].op = "bool",
           NEW seg \in Seq(AllValues), NEW u \in BOOLEAN,
           NEW S \in SUBSET Results, NEW T \in SUBSET Results,
           NEW p, From(c, p, j, S, seg, u), Runs(c, j + 1, k, T)
    PROVE  From(c, p, k + 1, Branch(S, Defined({Truth(TRUE)}), Applied("bool", T)), seg, u)
<1> DEFINE Y == Applied("bool", T)
           N == Defined({Truth(TRUE)})
<1>1. Y \in SUBSET Results /\ N \in SUBSET Results
  BY AppliedTyped, BesselOps, DefinedResults, TruthValues
<1>2. ASSUME NEW v \in AllValues, NEW w \in BOOLEAN
      PROVE  /\ ~IsInt(v) /\ Failed \in c.goal => <<j, Append(seg, v), w>> \in Good(c)
             /\ IsInt(v) /\ v.int_val # 0 => From(c, <<j, Append(seg, v), w>>, k + 1, N, seg, w)
             /\ IsInt(v) /\ v.int_val = 0 => From(c, <<j, Append(seg, v), w>>, k + 1, Y, seg, w)
  <2>1. ~IsInt(v) /\ Failed \in c.goal => <<j, Append(seg, v), w>> \in Good(c)
    BY GoodTop
  <2>2. ASSUME IsInt(v), v.int_val = 0 PROVE From(c, <<j, Append(seg, v), w>>, k + 1, Y, seg, w)
    <3>1. From(c, <<j + 1, seg, w>>, k, T, seg, w)
      BY RunsFrom
    <3>2. From(c, <<j + 1, seg, w>>, k + 1, Y, seg, w)
      BY <3>1, FromUnary, BesselOps
    <3>3. <<j + 1, seg, w>> \in Good(c) => <<j, Append(seg, v), w>> \in Good(c)
      BY <2>2, GoodTop
    <3> QED
      BY <3>2, <3>3 DEF From
  <2>3. ASSUME IsInt(v), v.int_val # 0 PROVE From(c, <<j, Append(seg, v), w>>, k + 1, N, seg, w)
    <3>1. From(c, <<k, Append(seg, v), w>>, k + 1, N, seg, w)
      BY <2>3, GoodBool
    <3>2. <<j + c.acts[j].by, Append(seg, v), w>> \in Good(c) => <<j, Append(seg, v), w>> \in Good(c)
      BY <2>3, GoodTop
    <3>3. <<k, Append(seg, v), w>> \in Good(c) => <<j, Append(seg, v), w>> \in Good(c)
      BY <3>2
    <3> QED
      BY <3>1, <3>3 DEF From
  <2> QED
    BY <2>1, <2>2, <2>3
<1> HIDE DEF Y, N
<1>3. From(c, p, k + 1, Branch(S, N, Y), seg, u)
  BY <1>1, <1>2, FromBranch
<1> QED
  BY <1>3 DEF Y, N

\* The code of ?:.
LEMMA FromIf ==
    ASSUME NEW c, c.acts \in Seq(Actions), NEW j \in 1..Len(c.acts), NEW k \in 1..Len(c.acts),
           NEW m, NEW n,
           c.acts[j].op = "jtern", j + c.acts[j].by = m,
           c.acts[k].op = "jump", k + c.acts[k].by = n,
           NEW seg \in Seq(AllValues), NEW u \in BOOLEAN,
           NEW S \in SUBSET Results, NEW T \in SUBSET Results, NEW N \in SUBSET Results,
           NEW p, From(c, p, j, S, seg, u), Runs(c, j + 1, k, T), Runs(c, m, n, N)
    PROVE  From(c, p, n, Branch(S, T, N), seg, u)
<1>1. ASSUME NEW r \in T, NEW w \in BOOLEAN, Lead(c, Good(c), n, seg, w, r)
      PROVE  Lead(c, Good(c), k, seg, w, r)
  <2>1. CASE r = Failed
    BY <1>1, <2>1, LeadFailed
  <2>2. CASE r # Failed
    <3>1. r.value \in AllValues /\ r.undefined \in BOOLEAN
      BY <1>1, <2>2, ResultParts
    <3> DEFINE v == Either(w, r.undefined)
               s == Append(seg, r.value)
    <3>2. v \in BOOLEAN /\ s \in Seq(AllValues)
      BY <3>1, EitherTyped, FrontOne
    <3>3. <<n, s, v>> \in Good(c)
      BY <1>1, <2>2, LeadOn
    <3> HIDE DEF v, s
    <3>4. <<k + c.acts[k].by, s, v>> \in Good(c)
      BY <3>3
    <3>5. <<k, s, v>> \in Good(c)
      BY <3>2, <3>4, GoodTurns
    <3> QED
      BY <2>2, <3>5, LeadOn DEF v, s
  <2> QED
    BY <2>1, <2>2
<1>2. ASSUME NEW v \in AllValues, NEW w \in BOOLEAN
      PROVE  /\ ~IsInt(v) /\ Failed \in c.goal => <<j, Append(seg, v), w>> \in Good(c)
             /\ IsInt(v) /\ v.int_val # 0 => From(c, <<j, Append(seg, v), w>>, n, T, seg, w)
             /\ IsInt(v) /\ v.int_val = 0 => From(c, <<j, Append(seg, v), w>>, n, N, seg, w)
  <2>1. ~IsInt(v) /\ Failed \in c.goal => <<j, Append(seg, v), w>> \in Good(c)
    BY GoodTop
  <2>2. ASSUME IsInt(v), v.int_val # 0 PROVE From(c, <<j, Append(seg, v), w>>, n, T, seg, w)
    <3>1. From(c, <<j + 1, seg, w>>, k, T, seg, w)
      BY RunsFrom
    <3>2. From(c, <<j + 1, seg, w>>, n, T, seg, w)
      BY <1>1, <3>1 DEF From
    <3>3. <<j + 1, seg, w>> \in Good(c) => <<j, Append(seg, v), w>> \in Good(c)
      BY <2>2, GoodTop
    <3> QED
      BY <3>2, <3>3 DEF From
  <2>3. ASSUME IsInt(v), v.int_val = 0 PROVE From(c, <<j, Append(seg, v), w>>, n, N, seg, w)
    <3>1. From(c, <<m, seg, w>>, n, N, seg, w)
      BY RunsFrom
    <3>2. <<j + c.acts[j].by, seg, w>> \in Good(c) => <<j, Append(seg, v), w>> \in Good(c)
      BY <2>3, GoodTop
    <3>3. <<m, seg, w>> \in Good(c) => <<j, Append(seg, v), w>> \in Good(c)
      BY <3>2
    <3> QED
      BY <3>1, <3>3 DEF From
  <2> QED
    BY <2>1, <2>2, <2>3
<1> QED
  BY <1>2, FromBranch

-----------------------------------------------------------------------------
(* The code of each kind of expression.                                    *)

\* The values of the first j outcomes of o on top of seg, and the flag that they leave.
Laid(seg, o, j) ==
    [m \in 1..(Len(seg) + j) |-> IF m <= Len(seg) THEN seg[m] ELSE o[m - Len(seg)].value]

\* The flag u with those of the first j outcomes, and one more outcome.
Marked(u, o, j) == u \/ \E i \in 1..j : o[i].undefined
With(o, j, r) == [i \in 1..(j + 1) |-> IF i = j + 1 THEN r ELSE o[i]]

\* The values are on top of seg, in their order.
LEMMA LaidTyped ==
    ASSUME NEW seg \in Seq(AllValues), NEW j \in Nat, NEW o, \A i \in 1..j : o[i] \in Outcome
    PROVE  /\ Laid(seg, o, j) \in Seq(AllValues)
           /\ Len(Laid(seg, o, j)) = Len(seg) + j /\ Len(seg) \in Nat
           /\ \A m \in 1..Len(seg) : Laid(seg, o, j)[m] = seg[m]
           /\ \A i \in 1..j : Laid(seg, o, j)[Len(seg) + i] = o[i].value
<1> DEFINE n == Len(seg)
           F(m) == IF m <= n THEN seg[m] ELSE o[m - n].value
<1>1. n \in Nat /\ n + j \in Nat
  OBVIOUS
<1>2. ASSUME NEW m \in 1..(n + j) PROVE F(m) \in AllValues
  <2>1. CASE m <= n
    BY <2>1
  <2>2. CASE ~(m <= n)
    <3>1. m - n \in 1..j
      BY <1>1, <2>2
    <3> QED
      BY <2>2, <3>1, OutcomeParts
  <2> QED
    BY <2>1, <2>2
<1>3. Laid(seg, o, j) = [m \in 1..(n + j) |-> F(m)]
  BY DEF Laid
<1>4. \A m \in 1..n : F(m) = seg[m]
  OBVIOUS
<1>5. ASSUME NEW i \in 1..j PROVE F(n + i) = o[i].value
  <2>1. ~(n + i <= n) /\ (n + i) - n = i
    BY <1>1
  <2> QED
    BY <2>1
<1> HIDE DEF F, n
<1>6. Laid(seg, o, j) \in [1..(n + j) -> AllValues]
  BY <1>2, <1>3
<1>7. Laid(seg, o, j) \in Seq(AllValues) /\ Len(Laid(seg, o, j)) = n + j
  BY <1>1, <1>6, ListsAre
<1>8. \A m \in 1..(n + j) : Laid(seg, o, j)[m] = F(m)
  BY <1>3
<1>9. \A m \in 1..n : Laid(seg, o, j)[m] = seg[m]
  BY <1>1, <1>4, <1>8
<1>10. \A i \in 1..j : Laid(seg, o, j)[n + i] = o[i].value
  BY <1>1, <1>5, <1>8
<1> QED
  BY <1>1, <1>7, <1>9, <1>10 DEF n

\* Without an outcome nothing is on top.
LEMMA LaidNone == ASSUME NEW seg \in Seq(AllValues), NEW o PROVE Laid(seg, o, 0) = seg
<1>1. /\ Laid(seg, o, 0) \in Seq(AllValues) /\ Len(Laid(seg, o, 0)) = Len(seg) + 0 /\ Len(seg) \in Nat
      /\ \A m \in 1..Len(seg) : Laid(seg, o, 0)[m] = seg[m]
  BY LaidTyped
<1> QED
  BY <1>1, SameSeq

\* One more outcome is one more value on top.
LEMMA LaidWith ==
    ASSUME NEW seg \in Seq(AllValues), NEW j \in Nat, NEW o \in [1..j -> Outcome], NEW r \in Outcome
    PROVE  /\ With(o, j, r) \in [1..(j + 1) -> Outcome]
           /\ With(o, j, r)[j + 1] = r
           /\ \A i \in 1..j : With(o, j, r)[i] = o[i]
           /\ Laid(seg, With(o, j, r), j + 1) = Append(Laid(seg, o, j), r.value)
<1> DEFINE q == With(o, j, r)
           s == Laid(seg, o, j)
           t == Laid(seg, q, j + 1)
           a == Append(s, r.value)
<1>1. q \in [1..(j + 1) -> Outcome] /\ q[j + 1] = r /\ \A i \in 1..j : q[i] = o[i]
  BY DEF With
<1>2. r.value \in AllValues
  BY OutcomeParts
<1> HIDE DEF q
<1>3. /\ s \in Seq(AllValues) /\ Len(s) = Len(seg) + j /\ Len(seg) \in Nat
      /\ \A m \in 1..Len(seg) : s[m] = seg[m]
      /\ \A i \in 1..j : s[Len(seg) + i] = o[i].value
  BY LaidTyped
<1>4. /\ t \in Seq(AllValues) /\ Len(t) = Len(seg) + (j + 1)
      /\ \A m \in 1..Len(seg) : t[m] = seg[m]
      /\ \A i \in 1..(j + 1) : t[Len(seg) + i] = q[i].value
  <2>1. j + 1 \in Nat /\ \A i \in 1..(j + 1) : q[i] \in Outcome
    BY <1>1
  <2> QED
    BY <2>1, LaidTyped
<1> HIDE DEF s, t
<1>5. /\ a \in Seq(AllValues) /\ Len(a) = Len(s) + 1 /\ a[Len(s) + 1] = r.value
      /\ \A m \in 1..Len(s) : a[m] = s[m]
  BY <1>2, <1>3, AppendParts
<1> HIDE DEF a
<1>6. ASSUME NEW m \in 1..Len(t) PROVE t[m] = a[m]
  <2>1. CASE m <= Len(seg)
    BY <1>3, <1>4, <1>5, <2>1
  <2>2. CASE Len(seg) < m /\ m <= Len(seg) + j
    <3>1. m - Len(seg) \in 1..j /\ m = Len(seg) + (m - Len(seg)) /\ m - Len(seg) \in 1..(j + 1)
      BY <1>3, <2>2
    <3>2. t[m] = q[m - Len(seg)].value /\ s[m] = o[m - Len(seg)].value
      BY <1>3, <1>4, <3>1
    <3>3. a[m] = s[m]
      BY <1>3, <1>5, <2>2
    <3> QED
      BY <1>1, <3>1, <3>2, <3>3
  <2>3. CASE m = Len(seg) + (j + 1)
    <3>1. t[m] = q[j + 1].value
      BY <1>4, <2>3
    <3>2. m = Len(s) + 1
      BY <1>3, <2>3
    <3> QED
      BY <1>1, <1>5, <3>1, <3>2
  <2>4. Len(t) = Len(seg) + (j + 1) /\ Len(seg) \in Nat
    BY <1>3, <1>4
  <2> QED
    BY <2>1, <2>2, <2>3, <2>4
<1>7. Len(t) = Len(a)
  BY <1>3, <1>4, <1>5
<1>8. t = a
  BY <1>4, <1>5, <1>6, <1>7, SameSeq
<1> QED
  BY <1>1, <1>8 DEF q, s, t, a

\* The flag is a flag.
LEMMA MarkedTyped == ASSUME NEW u \in BOOLEAN, NEW o, NEW j PROVE Marked(u, o, j) \in BOOLEAN
  BY DEF Marked

\* Without an outcome it is u.
LEMMA MarkedNone == ASSUME NEW u \in BOOLEAN, NEW o PROVE Marked(u, o, 0) = u
<1>1. 1..0 = {}
  OBVIOUS
<1> QED
  BY <1>1, Zenon DEF Marked

\* One more outcome adds its flag.
LEMMA MarkedWith ==
    ASSUME NEW u \in BOOLEAN, NEW j \in Nat, NEW o \in [1..j -> Outcome], NEW r \in Outcome
    PROVE  Marked(u, With(o, j, r), j + 1) = Either(Marked(u, o, j), r.undefined)
<1> DEFINE q == With(o, j, r)
<1>1. q[j + 1] = r /\ \A i \in 1..j : q[i] = o[i]
  BY DEF With
<1>2. r.undefined \in BOOLEAN
  BY OutcomeParts
<1> HIDE DEF q
<1>3. (\E i \in 1..(j + 1) : q[i].undefined) <=> (\E i \in 1..j : q[i].undefined) \/ q[j + 1].undefined
  <2>1. 1..(j + 1) = 1..j \cup {j + 1}
    OBVIOUS
  <2> QED
    BY <2>1, Zenon
<1>4. (\E i \in 1..j : q[i].undefined) <=> (\E i \in 1..j : o[i].undefined)
  BY <1>1, Zenon
<1>5. Marked(u, q, j + 1) = (Marked(u, o, j) \/ r.undefined)
  BY <1>1, <1>2, <1>3, <1>4, Zenon DEF Marked
<1> QED
  BY <1>5 DEF Either, q

\* The flags are those that a call counts.
LEMMA MarkedFlag ==
    ASSUME NEW u \in BOOLEAN, NEW n \in Nat, NEW o
    PROVE  Marked(u, o, n) = Either(u, Flagged(o, n).undefined)
<1>1. Flagged(o, n).undefined = (\E i \in 1..n : o[i].undefined)
  BY FlaggedTyped
<1> QED
  BY <1>1, Zenon DEF Marked, Either

\* The arguments of a call are on top of what was there before.
LEMMA LaidFront ==
    ASSUME NEW seg \in Seq(AllValues), NEW n \in Nat, NEW o, \A i \in 1..n : o[i] \in Outcome
    PROVE  Front(Laid(seg, o, n), n) = seg /\ Back(Laid(seg, o, n), n) = Listed(o, n)
<1> DEFINE s == Laid(seg, o, n)
<1>1. /\ s \in Seq(AllValues) /\ Len(s) = Len(seg) + n /\ Len(seg) \in Nat
      /\ \A m \in 1..Len(seg) : s[m] = seg[m]
      /\ \A i \in 1..n : s[Len(seg) + i] = o[i].value
  BY LaidTyped
<1> HIDE DEF s
<1>2. n <= Len(s) /\ Len(s) - n = Len(seg)
  BY <1>1
<1>3. /\ Front(s, n) \in Seq(AllValues) /\ Len(Front(s, n)) = Len(seg)
      /\ \A i \in 1..Len(seg) : Front(s, n)[i] = s[i]
  BY <1>1, <1>2, FrontTyped
<1>4. Front(s, n) = seg
  BY <1>1, <1>3, SameSeq
<1>5. \A i \in 1..n : s[Len(s) - n + i] = o[i].value
  BY <1>1, <1>2
<1>6. Back(s, n) = Listed(o, n)
  BY <1>5 DEF Back, Listed
<1> QED
  BY <1>4, <1>6 DEF s

\* What the call of e gives for chosen arguments, and for arguments that fail.
LEMMA CalledHas ==
    ASSUME NEW e \in Exprs, e.k = "call", NEW env \in Seq(AllValues), NEW n, n = Len(e.parts)
    PROVE  /\ CalledMeaning(Value, e, env) \subseteq Results
           /\ Code[e.f] = NoCode => Failed \in CalledMeaning(Value, e, env)
           /\ Code[e.f] # NoCode =>
                  /\ \A i \in 1..n : Failed \in Value[<<e.parts[i], env>>] =>
                         Failed \in CalledMeaning(Value, e, env)
                  /\ \A o \in [1..n -> Outcome] :
                         (\A i \in 1..n : o[i] \in Value[<<e.parts[i], env>>]) =>
                             /\ Value[<<Code[e.f].source, Listed(o, n)>>] \subseteq Results
                             /\ \A r \in Value[<<Code[e.f].source, Listed(o, n)>>] :
                                    Flag(Flagged(o, n).undefined, r) \in CalledMeaning(Value, e, env)
<1> DEFINE X == Chosen(Pairs(Value, e, env), n)
           F(o) == After(Flagged(o, n), Value[<<Code[e.f].source, Listed(o, n)>>])
           Y == {p[2] : p \in Pairs(Value, e, env)} \cap {Failed}
           M == CalledMeaning(Value, e, env)
<1>0. n \in Nat
  BY ExprParts DEF NodeOf
<1>1. M \subseteq Results
  BY ValueTyped, CalledTyped
<1>2. Code[e.f] = NoCode => Failed \in M
  BY DEF CalledMeaning
<1>3. Code[e.f] # NoCode => M = Y \cup UNION {F(o) : o \in X}
  BY DEF CalledMeaning
<1>4. ASSUME Code[e.f] # NoCode, NEW i \in 1..n, Failed \in Value[<<e.parts[i], env>>]
      PROVE  Failed \in M
  <2>1. <<i, Failed>> \in Pairs(Value, e, env)
    BY <1>4, PairsAre
  <2> DEFINE q == <<i, Failed>>
  <2>2. q[2] = Failed
    OBVIOUS
  <2> HIDE DEF q
  <2>3. Failed \in Y
    BY <2>1, <2>2 DEF q
  <2> HIDE DEF Y, M, F, X
  <2> QED
    BY <1>3, <1>4, <2>3
<1>5. ASSUME Code[e.f] # NoCode, NEW o \in [1..n -> Outcome],
             \A i \in 1..n : o[i] \in Value[<<e.parts[i], env>>]
      PROVE  /\ Value[<<Code[e.f].source, Listed(o, n)>>] \subseteq Results
             /\ \A r \in Value[<<Code[e.f].source, Listed(o, n)>>] :
                    Flag(Flagged(o, n).undefined, r) \in M
  <2> DEFINE V == Value[<<Code[e.f].source, Listed(o, n)>>]
  <2>1. \A i \in 1..n : o[i] # Failed
    BY OutcomeParts
  <2>2. o \in X
    <3>1. o = [i \in 1..n |-> o[i]]
      OBVIOUS
    <3> QED
      BY <1>5, <2>1, <3>1, ChosenHas
  <2>3. V \subseteq Results
    <3>1. Listed(o, n) \in Seq(AllValues)
      BY <1>0, ListedTyped
    <3>2. Code[e.f].source \in Exprs
      BY <1>5, ExprKindCall, SourceIs
    <3>3. <<Code[e.f].source, Listed(o, n)>> \in Asked
      BY <3>1, <3>2 DEF Asked
    <3> QED
      BY <3>3, ValueTyped
  <2>4. Flagged(o, n) \in Results /\ Flagged(o, n) # Failed
    BY <1>0, FlaggedTyped DEF Results
  <2>5. F(o) = {Flag(Flagged(o, n).undefined, r) : r \in V}
    BY <2>3, <2>4, AfterIs
  <2> HIDE DEF F, X, Y, M, V
  <2>6. F(o) \subseteq M
    BY <1>3, <1>5, <2>2
  <2>7. \A r \in V : Flag(Flagged(o, n).undefined, r) \in M
    BY <2>5, <2>6
  <2> QED
    BY <2>3, <2>7 DEF V
<1> QED
  BY <1>1, <1>2, <1>4, <1>5

\* The arguments are evaluated one behind the other, and then the function is called.
LEMMA RunsCall ==
    ASSUME NEW c, c.acts \in Seq(Actions), c.env \in Seq(AllValues),
           NEW e \in Exprs, e.k = "call", NEW n, n = Len(e.parts),
           NEW at, at[n] \in 1..Len(c.acts),
           \A j \in 0..(n - 1) : Runs(c, at[j], at[j + 1], Value[<<e.parts[j + 1], c.env>>]),
           c.acts[at[n]].op = "call", c.acts[at[n]].f = e.f
    PROVE  Runs(c, at[0], at[n] + 1, CalledMeaning(Value, e, c.env))
<1> DEFINE M == CalledMeaning(Value, e, c.env)
           Of(i) == Value[<<e.parts[i], c.env>>]
<1>0. n \in Nat /\ e.f \in Functions /\ n = Arity[e.f]
  BY ExprParts, ExprKindCall DEF NodeOf
<1> SUFFICES ASSUME NEW seg \in Seq(AllValues), NEW u \in BOOLEAN,
                    \A r \in M : Lead(c, Good(c), at[n] + 1, seg, u, r)
             PROVE  <<at[0], seg, u>> \in Good(c)
  BY DEF Runs, From
<1>1. \A i \in 1..n : Of(i) \in SUBSET Results
  BY ValueTyped, PartsTyped
<1> DEFINE Q(j) == \A o \in [1..j -> Outcome] :
                       (\A i \in 1..j : o[i] \in Of(i)) =>
                           <<at[j], Laid(seg, o, j), Marked(u, o, j)>> \in Good(c)
<1>2. Q(n)
  <2> SUFFICES ASSUME NEW o \in [1..n -> Outcome], \A i \in 1..n : o[i] \in Of(i)
               PROVE  <<at[n], Laid(seg, o, n), Marked(u, o, n)>> \in Good(c)
    OBVIOUS
  <2> DEFINE s == Laid(seg, o, n)
             v == Marked(u, o, n)
             a == c.acts[at[n]]
  <2>0. \A i \in 1..n : o[i] \in Outcome
    OBVIOUS
  <2> HIDE DEF Of, M, Q
  <2>1. s \in Seq(AllValues) /\ Front(s, n) = seg /\ Back(s, n) = Listed(o, n)
    <3>1. s \in Seq(AllValues)
      BY <1>0, <2>0, LaidTyped
    <3>2. Front(s, n) = seg /\ Back(s, n) = Listed(o, n)
      BY <1>0, <2>0, LaidFront
    <3> QED
      BY <3>1, <3>2
  <2> USE DEF M
  <2>2. v \in BOOLEAN /\ v = Either(u, Flagged(o, n).undefined) /\ Flagged(o, n).undefined \in BOOLEAN
    <3>1. Flagged(o, n) \in Outcome
      BY <1>0, FlaggedTyped
    <3> QED
      BY <1>0, <3>1, MarkedTyped, MarkedFlag, OutcomeParts
  <2>3. /\ Given(c.env, a, s) = IF Code[e.f] = NoCode THEN {Failed}
                                ELSE Value[<<Code[e.f].source, Back(s, n)>>]
        /\ a.op \notin JumpOps /\ Needs(a) = n
    BY <1>0, GivenCall
  <2>4. ASSUME NEW q \in Given(c.env, a, s) PROVE Lead(c, Good(c), at[n] + 1, seg, v, q)
    <3>1. CASE Code[e.f] = NoCode
      <4>1. q = Failed
        BY <2>3, <2>4, <3>1
      <4>2. Failed \in M
        BY <3>1, CalledHas
      <4>3. Failed \in c.goal
        BY <4>2, LeadFailed
      <4> QED
        BY <4>1, <4>3, LeadFailed
    <3>2. CASE Code[e.f] # NoCode
      <4>1. q \in Value[<<Code[e.f].source, Listed(o, n)>>]
        BY <2>1, <2>3, <2>4, <3>2
      <4>2. q \in Results /\ Flag(Flagged(o, n).undefined, q) \in M
        BY <3>2, <4>1, CalledHas DEF Of
      <4>3. Lead(c, Good(c), at[n] + 1, seg, u, Flag(Flagged(o, n).undefined, q))
        BY <4>2
      <4> QED
        BY <2>2, <4>2, <4>3, LeadFlag
    <3> QED
      BY <3>1, <3>2
  <2> HIDE DEF s, v
  <2>6. <<at[n], s, v>> \in Good(c)
    BY <2>1, <2>2, <2>3, <2>4, GoodGives
  <2> QED
    BY <2>6 DEF s, v
<1>3. ASSUME NEW j \in 0..(n - 1), Q(j + 1) PROVE Q(j)
  <2> SUFFICES ASSUME NEW o \in [1..j -> Outcome], \A i \in 1..j : o[i] \in Of(i)
               PROVE  <<at[j], Laid(seg, o, j), Marked(u, o, j)>> \in Good(c)
    OBVIOUS
  <2> DEFINE s == Laid(seg, o, j)
             v == Marked(u, o, j)
  <2>0. j \in Nat /\ j + 1 \in 1..n
    BY <1>0
  <2>1. s \in Seq(AllValues) /\ v \in BOOLEAN
    BY <2>0, LaidTyped, MarkedTyped
  <2>2. From(c, <<at[j], s, v>>, at[j + 1], Of(j + 1), s, v)
    BY <2>1, RunsFrom
  <2>3. ASSUME NEW r \in Of(j + 1) PROVE Lead(c, Good(c), at[j + 1], s, v, r)
    <3>1. r \in Results
      BY <1>1, <2>0, <2>3
    <3>2. CASE r = Failed
      <4>1. Failed \in M
        <5>1. CASE Code[e.f] = NoCode
          BY <5>1, CalledHas
        <5>2. CASE Code[e.f] # NoCode
          BY <2>0, <2>3, <3>2, <5>2, CalledHas
        <5> QED
          BY <5>1, <5>2
      <4>2. Failed \in c.goal
        BY <4>1, LeadFailed
      <4> QED
        BY <3>2, <4>2, LeadFailed
    <3>3. CASE r # Failed
      <4> DEFINE q == With(o, j, r)
      <4>1. r \in Outcome
        BY <3>1, <3>3, ResultParts
      <4>2. /\ q \in [1..(j + 1) -> Outcome] /\ q[j + 1] = r /\ \A i \in 1..j : q[i] = o[i]
            /\ Laid(seg, q, j + 1) = Append(s, r.value)
        <5> HIDE DEF Of, M, Q, q, s, v
        <5>1. j \in Nat /\ o \in [1..j -> Outcome] /\ r \in Outcome /\ seg \in Seq(AllValues)
          BY <2>0, <4>1
        <5>2. With(o, j, r) \in [1..(j + 1) -> Outcome]
          BY <5>1, LaidWith
        <5>3. With(o, j, r)[j + 1] = r
          BY <5>1 DEF With
        <5>4. \A i \in 1..j : With(o, j, r)[i] = o[i]
          BY <5>1 DEF With
        <5>5. Laid(seg, With(o, j, r), j + 1) = Append(Laid(seg, o, j), r.value)
          BY <5>1, LaidWith
        <5> QED
          BY <5>2, <5>3, <5>4, <5>5 DEF q, s
      <4>3. Marked(u, q, j + 1) = Either(v, r.undefined)
        BY <2>0, <4>1, MarkedWith
      <4> HIDE DEF q
      <4>4. \A i \in 1..(j + 1) : q[i] \in Of(i)
        <5>1. \A i \in 1..(j + 1) : i \in 1..j \/ i = j + 1
          BY <2>0
        <5> HIDE DEF Of
        <5> QED
          BY <2>3, <4>2, <5>1
      <4> HIDE DEF s, v
      <4>5. <<at[j + 1], Laid(seg, q, j + 1), Marked(u, q, j + 1)>> \in Good(c)
        BY <1>3, <4>2, <4>4
      <4>6. <<at[j + 1], Append(s, r.value), Either(v, r.undefined)>> \in Good(c)
        BY <4>2, <4>3, <4>5
      <4> QED
        BY <3>3, <4>6, LeadOn
    <3> QED
      BY <3>2, <3>3
  <2> QED
    BY <2>2, <2>3 DEF From
<1>4. Q(0)
  <2> HIDE DEF Q
  <2> DEFINE K == {d \in Nat : d <= n => Q(n - d)}
  <2>1. 0 \in K
    BY <1>0, <1>2
  <2>2. ASSUME NEW d \in Nat, d \in K PROVE d + 1 \in K
    <3>1. CASE d + 1 <= n
      <4>1. n - (d + 1) \in 0..(n - 1) /\ (n - (d + 1)) + 1 = n - d /\ d <= n
        <5>1. \A x, y \in Nat : y + 1 <= x =>
                  x - (y + 1) \in 0..(x - 1) /\ (x - (y + 1)) + 1 = x - y /\ y <= x
          OBVIOUS
        <5> QED
          BY <1>0, <3>1, <5>1
      <4>2. Q(n - d)
        BY <2>2, <4>1
      <4>3. Q(n - (d + 1))
        BY <1>3, <4>1, <4>2
      <4> QED
        BY <4>3
    <3>2. CASE ~(d + 1 <= n)
      BY <3>2
    <3> QED
      BY <3>1, <3>2
  <2>3. n \in K
    <3> HIDE DEF K
    <3> QED
      BY <1>0, <2>1, <2>2, EveryNatural
  <2>4. n - n = 0
    BY <1>0
  <2> QED
    BY <1>0, <2>3, <2>4
<1>5. <<>> \in [1..0 -> Outcome] /\ \A i \in 1..0 : <<>>[i] \in Of(i)
  OBVIOUS
<1>6. <<at[0], Laid(seg, <<>>, 0), Marked(u, <<>>, 0)>> \in Good(c)
  BY <1>4, <1>5
<1> QED
  BY <1>6, LaidNone, MarkedNone

\* The parts of e have code.
TypedParts(e, n) == \A j \in 1..n : Acts(e.parts[j]) \in Seq(Actions)

\* pre[j] ends where the code of the part behind it begins.
PrefixAt(acts, i, e, n, pre) ==
    \A j \in 0..(n - 1) :
        /\ Placed(acts, i + Len(pre[j]), Acts(e.parts[j + 1]))
        /\ Len(pre[j]) \in Nat /\ Len(Acts(e.parts[j + 1])) \in Nat
        /\ Len(pre[j + 1]) = Len(pre[j]) + Len(Acts(e.parts[j + 1]))

\* Where the code of all parts stands, that of each does.
LEMMA PrefixPlaced ==
    ASSUME NEW acts \in Seq(Actions), NEW i \in Nat, NEW e, NEW n \in Nat, NEW pre, IsPrefix(pre, e, n),
           TypedParts(e, n), Placed(acts, i, pre[n])
    PROVE  PrefixAt(acts, i, e, n, pre)
<1> DEFINE K == {d \in Nat : d <= n => Placed(acts, i, pre[n - d])}
<1>1. \A j \in 0..n : pre[j] \in Seq(Actions)
  BY PrefixTyped DEF TypedParts
<1>2. ASSUME NEW j \in 0..(n - 1)
      PROVE  /\ pre[j + 1] = pre[j] \o Acts(e.parts[j + 1])
             /\ pre[j] \in Seq(Actions) /\ Acts(e.parts[j + 1]) \in Seq(Actions)
  <2>1. j + 1 \in 1..n /\ (j + 1) - 1 = j /\ j \in 0..n
    OBVIOUS
  <2> QED
    BY <1>1, <2>1 DEF IsPrefix, TypedParts
<1>3. 0 \in K
  <2>1. n - 0 = n
    OBVIOUS
  <2> QED
    BY <2>1
<1>4. ASSUME NEW d \in Nat, d \in K PROVE d + 1 \in K
  <2> SUFFICES ASSUME d + 1 <= n PROVE Placed(acts, i, pre[n - (d + 1)])
    OBVIOUS
  <2> DEFINE j == n - (d + 1)
  <2>1. j \in 0..(n - 1) /\ j + 1 = n - d /\ d <= n
    OBVIOUS
  <2>2. Placed(acts, i, pre[j + 1])
    BY <1>4, <2>1
  <2> HIDE DEF j
  <2>3. Placed(acts, i, pre[j] \o Acts(e.parts[j + 1]))
    BY <1>2, <2>1, <2>2
  <2>4. Placed(acts, i, pre[j])
    BY <1>2, <2>1, <2>3, PlacedBehind
  <2> QED
    BY <2>4 DEF j
<1>5. ASSUME NEW j \in 0..n PROVE Placed(acts, i, pre[j])
  <2> HIDE DEF K
  <2>1. n - j \in Nat /\ n - j <= n /\ n - (n - j) = j
    OBVIOUS
  <2>2. n - j \in K
    BY <1>3, <1>4, <2>1, EveryNatural
  <2> QED
    BY <2>1, <2>2 DEF K
<1> SUFFICES ASSUME NEW j \in 0..(n - 1)
             PROVE  /\ Placed(acts, i + Len(pre[j]), Acts(e.parts[j + 1]))
                    /\ Len(pre[j]) \in Nat /\ Len(Acts(e.parts[j + 1])) \in Nat
                    /\ Len(pre[j + 1]) = Len(pre[j]) + Len(Acts(e.parts[j + 1]))
  BY DEF PrefixAt
<1> HIDE DEF K
<1> DEFINE s == pre[j]
           t == Acts(e.parts[j + 1])
<1>6. s \in Seq(Actions) /\ t \in Seq(Actions) /\ pre[j + 1] = s \o t
  BY <1>2
<1>7. Placed(acts, i, s \o t)
  <2>1. j + 1 \in 0..n
    OBVIOUS
  <2> QED
    BY <1>5, <1>6, <2>1
<1> HIDE DEF s, t
<1>8. Placed(acts, i + Len(s), t)
  BY <1>6, <1>7, PlacedBehind
<1>9. Len(s) \in Nat /\ Len(t) \in Nat /\ Len(s \o t) = Len(s) + Len(t)
  BY <1>6, BehindTyped
<1> QED
  BY <1>6, <1>8, <1>9 DEF s, t

\* More results may be allowed.
LEMMA RunsWide ==
    ASSUME NEW c, NEW i, NEW j, NEW S, NEW T, S \subseteq T, Runs(c, i, j, S)
    PROVE  Runs(c, i, j, T)
  BY DEF Runs, From

\* Where the code of a part stands.
LEMMA PartPlaced ==
    ASSUME NEW acts \in Seq(Actions), NEW i \in Nat, NEW s \in Seq(Actions), NEW t \in Seq(Actions),
           Placed(acts, i, s \o t)
    PROVE  /\ Placed(acts, i, s) /\ Placed(acts, i + Len(s), t)
           /\ Len(s) \in Nat /\ Len(t) \in Nat /\ i + Len(s) \in Nat /\ Len(s \o t) = Len(s) + Len(t)
           /\ s \o t \in Seq(Actions)
  BY PlacedBehind, BehindTyped

\* The code of an expression without parts computes it.
LEMMA RunsLeaf ==
    ASSUME NEW c, c.acts \in Seq(Actions), c.env \in Seq(AllValues), NEW e \in Exprs,
           e.k \in {"const", "var", "arg", "rand"},
           NEW i \in Nat, Placed(c.acts, i, Acts(e))
    PROVE  Runs(c, i + 1, i + Len(Acts(e)) + 1, Meaning(Value, <<e, c.env>>))
<1> DEFINE M == Meaning(Value, <<e, c.env>>)
<1>1. ASSUME NEW a, Acts(e) = <<a>>, a.op \notin JumpOps, Needs(a) = 0,
             \A seg : Given(c.env, a, seg) = M
      PROVE  Runs(c, i + 1, i + Len(Acts(e)) + 1, M)
  <2>1. i + 1 \in 1..Len(c.acts) /\ c.acts[i + 1] = a
    BY <1>1, PlacedOne
  <2>2. Len(Acts(e)) = 1
    BY <1>1
  <2>3. (i + 1) + 1 = i + Len(Acts(e)) + 1
    BY <2>2
  <2> HIDE DEF M
  <2>4. Runs(c, i + 1, (i + 1) + 1, M)
    BY <1>1, <2>1, RunsGives
  <2> QED
    BY <2>3, <2>4
<1>2. CASE e.k = "const"
  <2> DEFINE a == Const(e.v)
  <2>1. a.op = "pushc" /\ a.v = e.v
    BY DEF Const
  <2>2. Acts(e) = <<a>>
    BY <1>2, ActionsOf
  <2>3. M = Defined({e.v})
    BY <1>2, MeaningConst
  <2> HIDE DEF a, M
  <2>4. a.op \notin JumpOps /\ Needs(a) = 0 /\ \A seg : Given(c.env, a, seg) = M
    BY <2>1, <2>3, GivenConst
  <2> QED
    BY <1>1, <2>2, <2>4 DEF M
<1>3. CASE e.k = "var"
  <2> DEFINE a == [op |-> "push", name |-> e.name]
  <2>1. a.op = "push" /\ a.name = e.name
    OBVIOUS
  <2>2. Acts(e) = <<a>>
    BY <1>3, ActionsOf
  <2>3. M = IF ValueOf[e.name] = NoValue THEN {Failed} ELSE Defined({ValueOf[e.name]})
    BY <1>3, MeaningVar
  <2> HIDE DEF a, M
  <2>4. a.op \notin JumpOps /\ Needs(a) = 0 /\ \A seg : Given(c.env, a, seg) = M
    BY <2>1, <2>3, GivenPush
  <2> QED
    BY <1>1, <2>2, <2>4 DEF M
<1>4. CASE e.k = "arg"
  <2> DEFINE a == [op |-> "pushd", f |-> e.f, i |-> e.i]
  <2>1. a.op = "pushd" /\ a.i = e.i
    OBVIOUS
  <2>2. Acts(e) = <<a>>
    BY <1>4, ActionsOf
  <2>3. M = IF e.i \in 1..Len(c.env) THEN Defined({c.env[e.i]}) ELSE {Failed}
    BY <1>4, MeaningArg
  <2> HIDE DEF a, M
  <2>4. a.op \notin JumpOps /\ Needs(a) = 0 /\ \A seg : Given(c.env, a, seg) = M
    BY <2>1, <2>3, GivenDummy
  <2> QED
    BY <1>1, <2>2, <2>4 DEF M
<1>5. CASE e.k = "rand"
  <2> DEFINE a == Op("rand")
  <2>1. a.op = "rand"
    BY DEF Op
  <2>2. Acts(e) = <<a>>
    BY <1>5, ActionsOf
  <2>3. M = Rand
    BY <1>5, MeaningRand
  <2> HIDE DEF a, M
  <2>4. a.op \notin JumpOps /\ Needs(a) = 0 /\ \A seg : Given(c.env, a, seg) = M
    BY <2>1, <2>3, GivenRandom
  <2> QED
    BY <1>1, <2>2, <2>4 DEF M
<1> QED
  BY <1>2, <1>3, <1>4, <1>5

\* The code of e, wherever it stands, leaves one of the outcomes of e.
Computes(c, e) ==
    \A i \in Nat : Placed(c.acts, i, Acts(e)) =>
        Runs(c, i + 1, i + Len(Acts(e)) + 1, Value[<<e, c.env>>])

\* The run c, and e of whose parts the same is known.
Partly(c, e) ==
    /\ c.acts \in Seq(Actions) /\ c.env \in Seq(AllValues) /\ e \in Exprs
    /\ \A k \in 1..Len(e.parts) : Computes(c, e.parts[k])

\* What holds of an expression whose parts are computed.
LEMMA PartlyIs ==
    ASSUME NEW c, NEW e, Partly(c, e)
    PROVE  /\ c.acts \in Seq(Actions) /\ c.env \in Seq(AllValues) /\ e \in Exprs /\ Len(e.parts) \in Nat
           /\ \A k \in 1..Len(e.parts) : /\ Computes(c, e.parts[k])
                                         /\ Acts(e.parts[k]) \in Seq(Actions)
                                         /\ Len(Acts(e.parts[k])) \in Nat
                                         /\ Value[<<e.parts[k], c.env>>] \in SUBSET Results
<1>1. c.acts \in Seq(Actions) /\ c.env \in Seq(AllValues) /\ e \in Exprs
      /\ \A k \in 1..Len(e.parts) : Computes(c, e.parts[k])
  BY DEF Partly
<1>2. NodeOf(Exprs, e)
  BY <1>1, ExprParts
<1>3. ASSUME NEW k \in 1..Len(e.parts)
      PROVE  Acts(e.parts[k]) \in Seq(Actions) /\ Len(Acts(e.parts[k])) \in Nat
  <2>1. e.parts[k] \in Exprs
    BY <1>2 DEF NodeOf
  <2>2. Acts(e.parts[k]) \in Seq(Actions)
    BY <2>1, ActsTyped
  <2> QED
    BY <2>2
<1>4. \A k \in 1..Len(e.parts) : Value[<<e.parts[k], c.env>>] \in SUBSET Results
  BY <1>1, ValueTyped, PartsTyped
<1>5. Len(e.parts) \in Nat
  BY <1>2 DEF NodeOf
<1> QED
  BY <1>1, <1>3, <1>4, <1>5

\* Code that computes an expression does so wherever it stands.
LEMMA ComputesAt ==
    ASSUME NEW c, NEW e, Computes(c, e), NEW i \in Nat, Placed(c.acts, i, Acts(e))
    PROVE  Runs(c, i + 1, i + Len(Acts(e)) + 1, Value[<<e, c.env>>])
  BY DEF Computes

\* An operator of one operand is computed when its operand is.
LEMMA RunsUn ==
    ASSUME NEW c, NEW e, Partly(c, e), e.k = "un", Len(e.parts) = 1, e.op \in UnaryOps \cup Bessel,
           NEW i \in Nat, Placed(c.acts, i, Acts(e))
    PROVE  Runs(c, i + 1, i + Len(Acts(e)) + 1, Meaning(Value, <<e, c.env>>))
<1> DEFINE s == Acts(e.parts[1])
           a == Op(e.op)
           W == Value[<<e.parts[1], c.env>>]
           j == i + Len(s) + 1
           M == Meaning(Value, <<e, c.env>>)
<1>1. /\ c.acts \in Seq(Actions) /\ c.env \in Seq(AllValues) /\ e \in Exprs
      /\ Computes(c, e.parts[1]) /\ s \in Seq(Actions) /\ Len(s) \in Nat /\ W \in SUBSET Results
  <2>1. 1 \in 1..Len(e.parts)
    OBVIOUS
  <2> QED
    BY <2>1, PartlyIs
<1>2. Acts(e) = s \o <<a>>
  BY <1>1, ActionsOf
<1>3. a \in Actions /\ a.op = e.op
  BY ActionsAre DEF Op
<1>4. e.op \in Bessel => M = Composed(e.op, W)
  BY MeaningBessel
<1>5. e.op \notin Bessel => M = Applied(e.op, W)
  BY MeaningUn
<1>6. \A k \in Nat : Placed(c.acts, k, s) => Runs(c, k + 1, k + Len(s) + 1, W)
  BY <1>1, ComputesAt
<1> HIDE DEF s, a, W, M
<1>7. <<a>> \in Seq(Actions) /\ Len(<<a>>) = 1
  BY <1>3, SingleTyped
<1>8. /\ Placed(c.acts, i, s) /\ Placed(c.acts, i + Len(s), <<a>>) /\ i + Len(s) \in Nat
      /\ Len(Acts(e)) = Len(s) + 1
  <2> DEFINE one == <<a>>
  <2>1. Len(one) = 1 /\ one \in Seq(Actions) /\ Acts(e) = s \o one
    BY <1>2, <1>7
  <2> HIDE DEF one
  <2>2. Placed(c.acts, i, s \o one)
    BY <2>1
  <2>3. Placed(c.acts, i, s) /\ Placed(c.acts, i + Len(s), one)
    BY <1>1, <2>1, <2>2, PartPlaced
  <2>4. i + Len(s) \in Nat
    BY <1>1, <2>1
  <2>5. Len(s \o one) = Len(s) + Len(one)
    BY <1>1, <2>1, BehindTyped
  <2> QED
    BY <2>1, <2>3, <2>4, <2>5 DEF one
<1>9. j \in 1..Len(c.acts) /\ c.acts[j] = a
  BY <1>1, <1>8, PlacedOne
<1>10. Runs(c, i + 1, j, W)
  BY <1>6, <1>8
<1>11. i + Len(Acts(e)) + 1 = j + 1
  BY <1>1, <1>8
<1> HIDE DEF j
<1>12. ASSUME NEW seg \in Seq(AllValues), NEW u \in BOOLEAN
       PROVE  From(c, <<i + 1, seg, u>>, j + 1, M, seg, u)
  <2>1. From(c, <<i + 1, seg, u>>, j, W, seg, u)
    BY <1>10, RunsFrom
  <2>2. CASE e.op \in Bessel
    BY <1>1, <1>3, <1>4, <1>9, <2>1, <2>2, FromBessel
  <2>3. CASE e.op \notin Bessel
    BY <1>1, <1>3, <1>5, <1>9, <2>1, <2>3, FromUnary
  <2> QED
    BY <2>2, <2>3
<1>13. Runs(c, i + 1, j + 1, M)
  BY <1>12 DEF Runs
<1> QED
  BY <1>11, <1>13 DEF M

\* An operator of two operands is computed when they are.
LEMMA RunsBin ==
    ASSUME NEW c, NEW e, Partly(c, e), e.k = "bin", Len(e.parts) = 2, e.op \in BinaryOps,
           NEW i \in Nat, Placed(c.acts, i, Acts(e))
    PROVE  Runs(c, i + 1, i + Len(Acts(e)) + 1, Meaning(Value, <<e, c.env>>))
<1> DEFINE s == Acts(e.parts[1])
           t == Acts(e.parts[2])
           a == Op(e.op)
           W == Value[<<e.parts[1], c.env>>]
           X == Value[<<e.parts[2], c.env>>]
           j == i + Len(s) + 1
           k == i + Len(s) + Len(t) + 1
           M == Meaning(Value, <<e, c.env>>)
<1>1. /\ c.acts \in Seq(Actions) /\ c.env \in Seq(AllValues) /\ e \in Exprs
      /\ Computes(c, e.parts[1]) /\ s \in Seq(Actions) /\ Len(s) \in Nat /\ W \in SUBSET Results
      /\ Computes(c, e.parts[2]) /\ t \in Seq(Actions) /\ Len(t) \in Nat /\ X \in SUBSET Results
  <2>1. 1 \in 1..Len(e.parts) /\ 2 \in 1..Len(e.parts)
    OBVIOUS
  <2> QED
    BY <2>1, PartlyIs
<1>2. Acts(e) = (s \o t) \o <<a>>
  BY <1>1, ActionsOf
<1>3. a \in Actions /\ a.op = e.op
  BY ActionsAre DEF Op
<1>4. M = Combined(e.op, W, X)
  BY MeaningBin
<1>5. \A m \in Nat : Placed(c.acts, m, s) => Runs(c, m + 1, m + Len(s) + 1, W)
  BY <1>1, ComputesAt
<1>6. \A m \in Nat : Placed(c.acts, m, t) => Runs(c, m + 1, m + Len(t) + 1, X)
  BY <1>1, ComputesAt
<1> HIDE DEF s, t, a, W, X, M
<1>7. <<a>> \in Seq(Actions) /\ Len(<<a>>) = 1
  BY <1>3, SingleTyped
<1> DEFINE st == s \o t
<1>8. st \in Seq(Actions) /\ Len(st) = Len(s) + Len(t)
  BY <1>1, BehindTyped
<1>9. Acts(e) = st \o <<a>>
  BY <1>2
<1>10. Placed(c.acts, i, st) => Placed(c.acts, i, s) /\ Placed(c.acts, i + Len(s), t) /\ i + Len(s) \in Nat
  BY <1>1, PartPlaced
<1> HIDE DEF st
<1>11. /\ Placed(c.acts, i, st) /\ Placed(c.acts, i + Len(st), <<a>>) /\ i + Len(st) \in Nat
       /\ Len(Acts(e)) = Len(st) + 1
  <2> DEFINE one == <<a>>
  <2>1. Len(one) = 1 /\ one \in Seq(Actions) /\ Acts(e) = st \o one
    BY <1>7, <1>9
  <2> HIDE DEF one
  <2>2. Placed(c.acts, i, st \o one)
    BY <2>1
  <2>3. Placed(c.acts, i, st) /\ Placed(c.acts, i + Len(st), one)
    BY <1>1, <1>8, <2>1, <2>2, PartPlaced
  <2>4. i + Len(st) \in Nat
    BY <1>1, <1>8, <2>1
  <2>5. Len(st \o one) = Len(st) + Len(one)
    BY <1>1, <1>8, <2>1, BehindTyped
  <2> QED
    BY <2>1, <2>3, <2>4, <2>5 DEF one
<1>12. (i + Len(st)) + 1 = k
  BY <1>1, <1>8
<1>13. k \in 1..Len(c.acts) /\ c.acts[k] = a
  BY <1>1, <1>11, <1>12, PlacedOne
<1>14. Runs(c, i + 1, j, W)
  BY <1>5, <1>10, <1>11
<1>15. Runs(c, j, k, X)
  <2>1. (i + Len(s)) + 1 = j /\ (i + Len(s)) + Len(t) + 1 = k
    BY <1>1
  <2>2. Runs(c, (i + Len(s)) + 1, (i + Len(s)) + Len(t) + 1, X)
    BY <1>6, <1>10, <1>11
  <2> QED
    BY <2>1, <2>2
<1>16. i + Len(Acts(e)) + 1 = k + 1 /\ j \in Nat
  BY <1>1, <1>8, <1>11
<1> HIDE DEF j, k
<1>17. ASSUME NEW seg \in Seq(AllValues), NEW u \in BOOLEAN
       PROVE  From(c, <<i + 1, seg, u>>, k + 1, M, seg, u)
  <2>1. From(c, <<i + 1, seg, u>>, j, W, seg, u)
    BY <1>14, RunsFrom
  <2> QED
    BY <1>1, <1>3, <1>4, <1>13, <1>15, <1>16, <2>1, FromBinary
<1>18. Runs(c, i + 1, k + 1, M)
  BY <1>17 DEF Runs
<1> QED
  BY <1>16, <1>18 DEF M

\* Runs of actions behind operators of their own.
Single(a) == <<a>>
Behind(s, t) == s \o t

\* A single action.
LEMMA SingleIs ==
    ASSUME NEW a \in Actions
    PROVE  Single(a) \in Seq(Actions) /\ Len(Single(a)) = 1
  BY SingleTyped DEF Single

\* Two runs, one behind the other.
LEMMA BehindIs ==
    ASSUME NEW s \in Seq(Actions), NEW t \in Seq(Actions)
    PROVE  /\ Behind(s, t) \in Seq(Actions) /\ Len(Behind(s, t)) = Len(s) + Len(t)
           /\ Len(s) \in Nat /\ Len(t) \in Nat
  BY BehindTyped DEF Behind

\* Where both stand, each does.
LEMMA BothPlaced ==
    ASSUME NEW acts \in Seq(Actions), NEW i \in Nat, NEW s \in Seq(Actions), NEW t \in Seq(Actions),
           Placed(acts, i, Behind(s, t))
    PROVE  Placed(acts, i, s) /\ Placed(acts, i + Len(s), t) /\ i + Len(s) \in Nat
<1>1. Placed(acts, i, s \o t)
  BY DEF Behind
<1>2. Len(s) \in Nat
  OBVIOUS
<1> QED
  BY <1>1, <1>2, PlacedBehind

\* The same when the second is a single action.
LEMMA LastPlaced ==
    ASSUME NEW acts \in Seq(Actions), NEW i \in Nat, NEW s \in Seq(Actions), NEW a \in Actions,
           Placed(acts, i, Behind(s, Single(a)))
    PROVE  /\ Placed(acts, i, s)
           /\ i + Len(s) + 1 \in 1..Len(acts) /\ acts[i + Len(s) + 1] = a
<1>1. Single(a) \in Seq(Actions)
  BY SingleIs
<1>2. Placed(acts, i, s) /\ Placed(acts, i + Len(s), Single(a)) /\ i + Len(s) \in Nat
  BY <1>1, BothPlaced
<1>3. (i + Len(s)) + 1 \in 1..Len(acts) /\ acts[(i + Len(s)) + 1] = a
  <2>1. Placed(acts, i + Len(s), <<a>>)
    BY <1>2 DEF Single
  <2> QED
    BY <1>2, <2>1, PlacedOne
<1> QED
  BY <1>2, <1>3

\* How long such a run is.
LEMMA AfterOne ==
    ASSUME NEW s \in Seq(Actions), NEW a \in Actions
    PROVE  /\ Behind(s, Single(a)) \in Seq(Actions) /\ Len(Behind(s, Single(a))) = Len(s) + 1
           /\ Len(s) \in Nat
  BY SingleIs, BehindIs

\* How long the code of && is, and the code in front of its bool.
LEMMA TwoLength ==
    ASSUME NEW s \in Seq(Actions), NEW t \in Seq(Actions), NEW a \in Actions, NEW b \in Actions
    PROVE  /\ Behind(Behind(s, Single(a)), t) \in Seq(Actions)
           /\ Len(Behind(Behind(s, Single(a)), t)) = Len(s) + 1 + Len(t)
           /\ Len(Behind(Behind(Behind(s, Single(a)), t), Single(b))) = Len(s) + 1 + Len(t) + 1
           /\ Len(s) \in Nat /\ Len(t) \in Nat
<1> DEFINE x == Behind(s, Single(a))
           y == Behind(x, t)
<1>1. x \in Seq(Actions) /\ Len(x) = Len(s) + 1 /\ Len(s) \in Nat /\ Len(t) \in Nat
  BY AfterOne
<1> HIDE DEF x
<1>2. y \in Seq(Actions) /\ Len(y) = Len(x) + Len(t) /\ Len(y) \in Nat
  BY <1>1, BehindIs
<1>3. y \in Seq(Actions) /\ Len(y) = Len(s) + 1 + Len(t) /\ Len(y) \in Nat
  BY <1>1, <1>2
<1> HIDE DEF y
<1>4. Len(Behind(y, Single(b))) = Len(s) + 1 + Len(t) + 1
  <2>1. Len(Behind(y, Single(b))) = Len(y) + 1
    BY <1>3, AfterOne
  <2> QED
    BY <1>3, <2>1
<1> QED
  BY <1>1, <1>3, <1>4 DEF x, y

\* Where the parts of two operands with an action behind each of them stand.
LEMMA TwoPlaced ==
    ASSUME NEW acts \in Seq(Actions), NEW i \in Nat, NEW s \in Seq(Actions), NEW t \in Seq(Actions),
           NEW a \in Actions, NEW b \in Actions,
           Placed(acts, i, Behind(Behind(Behind(s, Single(a)), t), Single(b)))
    PROVE  /\ Placed(acts, i, s)
           /\ i + Len(s) + 1 \in 1..Len(acts) /\ acts[i + Len(s) + 1] = a
           /\ Placed(acts, i + Len(s) + 1, t)
           /\ i + Len(s) + 1 + Len(t) + 1 \in 1..Len(acts) /\ acts[i + Len(s) + 1 + Len(t) + 1] = b
<1> DEFINE x == Behind(s, Single(a))
           y == Behind(x, t)
<1>1. x \in Seq(Actions) /\ Len(x) = Len(s) + 1 /\ Len(s) \in Nat
  BY AfterOne
<1>2. y \in Seq(Actions) /\ Len(y) = Len(s) + 1 + Len(t) /\ Len(t) \in Nat
  BY TwoLength
<1> HIDE DEF y
<1>3. Placed(acts, i, Behind(y, Single(b)))
  BY DEF y
<1>4. Placed(acts, i, y) /\ i + Len(y) + 1 \in 1..Len(acts) /\ acts[i + Len(y) + 1] = b
  BY <1>2, <1>3, LastPlaced
<1>5. i + Len(y) + 1 = i + Len(s) + 1 + Len(t) + 1
  BY <1>1, <1>2
<1> HIDE DEF x
<1>6. Placed(acts, i, x) /\ Placed(acts, i + Len(x), t)
  <2>1. Placed(acts, i, Behind(x, t))
    BY <1>4 DEF y
  <2> QED
    BY <1>1, <2>1, BothPlaced
<1>7. i + Len(x) = i + Len(s) + 1
  BY <1>1
<1>8. Placed(acts, i, s) /\ i + Len(s) + 1 \in 1..Len(acts) /\ acts[i + Len(s) + 1] = a
  <2>1. Placed(acts, i, Behind(s, Single(a)))
    BY <1>6 DEF x
  <2> QED
    BY <2>1, LastPlaced
<1> QED
  BY <1>4, <1>5, <1>6, <1>7, <1>8

\* The code of && or ||, from i on to m: that of the first operand, then the jump,
\* that of the second operand, and bool, to which the jump leads.
Shortly(c, jump, i, m, W, X) ==
    \E j \in 1..Len(c.acts) : \E k \in 1..Len(c.acts) :
        /\ Runs(c, i, j, W) /\ Runs(c, j + 1, k, X)
        /\ c.acts[j].op = jump /\ j + c.acts[j].by = k /\ c.acts[k].op = "bool"
        /\ k + 1 = m

\* What && and || need of their code.
LEMMA ShortlyIs ==
    ASSUME NEW c, NEW jump, NEW i, NEW m, NEW W, NEW X,
           NEW j \in 1..Len(c.acts), NEW k \in 1..Len(c.acts),
           Runs(c, i, j, W), Runs(c, j + 1, k, X), c.acts[j].op = jump, j + c.acts[j].by = k,
           c.acts[k].op = "bool", k + 1 = m
    PROVE  Shortly(c, jump, i, m, W, X)
  BY Zenon DEF Shortly

\* s runs what gives W, wherever it stands.
Means(c, s, W) == \A m \in Nat : Placed(c.acts, m, s) => Runs(c, m + 1, m + Len(s) + 1, W)

\* Code that computes an expression has its value as what it gives.
LEMMA ComputesMeans ==
    ASSUME NEW c, NEW e, Computes(c, e)
    PROVE  Means(c, Acts(e), Value[<<e, c.env>>])
  BY ComputesAt DEF Means

\* Such code runs wherever it stands.
LEMMA MeansRuns ==
    ASSUME NEW c, NEW s, NEW W, Means(c, s, W), NEW m \in Nat, Placed(c.acts, m, s)
    PROVE  Runs(c, m + 1, m + Len(s) + 1, W)
  BY DEF Means

\* The code of && or || is as its jump needs it.
LEMMA ShortRuns ==
    ASSUME NEW c, c.acts \in Seq(Actions), NEW jump, NEW s \in Seq(Actions), NEW t \in Seq(Actions),
           NEW W, NEW X, Means(c, s, W), Means(c, t, X),
           NEW a \in Actions, a.op = jump, a.by = Len(t) + 1, NEW b \in Actions, b.op = "bool",
           NEW i \in Nat, Placed(c.acts, i, Behind(Behind(Behind(s, Single(a)), t), Single(b)))
    PROVE  Shortly(c, jump, i + 1, i + Len(Behind(Behind(Behind(s, Single(a)), t), Single(b))) + 1, W, X)
<1> DEFINE j == i + Len(s) + 1
           k == i + Len(s) + 1 + Len(t) + 1
           n == Len(Behind(Behind(Behind(s, Single(a)), t), Single(b)))
<1>1. Len(s) \in Nat /\ Len(t) \in Nat /\ n = Len(s) + 1 + Len(t) + 1
  BY TwoLength
<1>2. /\ Placed(c.acts, i, s) /\ j \in 1..Len(c.acts) /\ c.acts[j] = a
      /\ Placed(c.acts, j, t) /\ k \in 1..Len(c.acts) /\ c.acts[k] = b
  BY TwoPlaced
<1> HIDE DEF n
<1>3. k + 1 = i + n + 1 /\ j \in Nat /\ k = j + Len(t) + 1 /\ j = i + Len(s) + 1
  BY <1>1
<1> HIDE DEF j, k
<1>4. Runs(c, i + 1, j, W)
  <2>1. Runs(c, i + 1, i + Len(s) + 1, W)
    BY <1>2, MeansRuns
  <2> QED
    BY <1>3, <2>1
<1>5. Runs(c, j + 1, k, X)
  <2>1. Runs(c, j + 1, j + Len(t) + 1, X)
    BY <1>2, <1>3, MeansRuns
  <2> QED
    BY <1>3, <2>1
<1>6. j + c.acts[j].by = k /\ c.acts[j].op = jump /\ c.acts[k].op = "bool"
  <2>1. j + (Len(t) + 1) = k
    BY <1>1, <1>3
  <2> QED
    BY <1>2, <2>1
<1>7. Shortly(c, jump, i + 1, i + n + 1, W, X)
  BY <1>2, <1>3, <1>4, <1>5, <1>6, ShortlyIs
<1> QED
  BY <1>7 DEF n

\* The two operands of && and ||, and where they stand.
LEMMA ShortPlaced ==
    ASSUME NEW c, NEW e, Partly(c, e), Len(e.parts) = 2, NEW jump \in {"jumpz", "jumpnz"},
           NEW i \in Nat,
           Placed(c.acts, i,
                  Behind(Behind(Behind(Acts(e.parts[1]),
                                       Single([op |-> jump, by |-> Len(Acts(e.parts[2])) + 1])),
                                Acts(e.parts[2])), Single(Op("bool"))))
    PROVE  /\ Value[<<e.parts[1], c.env>>] \in SUBSET Results
           /\ Value[<<e.parts[2], c.env>>] \in SUBSET Results
           /\ Shortly(c, jump, i + 1,
                      i + Len(Behind(Behind(Behind(Acts(e.parts[1]),
                                       Single([op |-> jump, by |-> Len(Acts(e.parts[2])) + 1])),
                                Acts(e.parts[2])), Single(Op("bool")))) + 1,
                      Value[<<e.parts[1], c.env>>], Value[<<e.parts[2], c.env>>])
<1> DEFINE s == Acts(e.parts[1])
           t == Acts(e.parts[2])
           a == [op |-> jump, by |-> Len(t) + 1]
           b == Op("bool")
           W == Value[<<e.parts[1], c.env>>]
           X == Value[<<e.parts[2], c.env>>]
<1>1. /\ c.acts \in Seq(Actions)
      /\ Computes(c, e.parts[1]) /\ s \in Seq(Actions) /\ W \in SUBSET Results
      /\ Computes(c, e.parts[2]) /\ t \in Seq(Actions) /\ Len(t) \in Nat /\ X \in SUBSET Results
  <2>1. 1 \in 1..Len(e.parts) /\ 2 \in 1..Len(e.parts)
    OBVIOUS
  <2> QED
    BY <2>1, PartlyIs
<1>2. a \in Actions /\ a.op = jump /\ a.by = Len(t) + 1
  <2>1. Len(t) + 1 \in Int
    BY <1>1
  <2> QED
    BY <2>1, ActionsAre
<1>3. b \in Actions /\ b.op = "bool"
  BY ActionsAre, BesselOps DEF Op
<1>4. Means(c, s, W) /\ Means(c, t, X)
  BY <1>1, ComputesMeans
<1>5. Placed(c.acts, i, Behind(Behind(Behind(s, Single(a)), t), Single(b)))
  OBVIOUS
<1> HIDE DEF s, t, a, b, W, X
<1>6. Shortly(c, jump, i + 1, i + Len(Behind(Behind(Behind(s, Single(a)), t), Single(b))) + 1, W, X)
  BY <1>1, <1>2, <1>3, <1>4, <1>5, ShortRuns
<1> QED
  BY <1>1, <1>6 DEF s, t, a, b, W, X

\* && is computed when its operands are.
LEMMA RunsAnd ==
    ASSUME NEW c, NEW e, Partly(c, e), e.k = "and", Len(e.parts) = 2,
           NEW i \in Nat, Placed(c.acts, i, Acts(e))
    PROVE  Runs(c, i + 1, i + Len(Acts(e)) + 1, Meaning(Value, <<e, c.env>>))
<1> DEFINE W == Value[<<e.parts[1], c.env>>]
           X == Value[<<e.parts[2], c.env>>]
           M == Meaning(Value, <<e, c.env>>)
<1>1. c.acts \in Seq(Actions) /\ e \in Exprs
  BY PartlyIs
<1>2. Acts(e) = Behind(Behind(Behind(Acts(e.parts[1]),
                                     Single([op |-> "jumpz", by |-> Len(Acts(e.parts[2])) + 1])),
                              Acts(e.parts[2])), Single(Op("bool")))
  BY <1>1, ActionsOf DEF Behind, Single
<1>3. /\ W \in SUBSET Results /\ X \in SUBSET Results
      /\ Shortly(c, "jumpz", i + 1, i + Len(Acts(e)) + 1, W, X)
  <2>1. "jumpz" \in {"jumpz", "jumpnz"}
    OBVIOUS
  <2> QED
    BY <1>2, <2>1, ShortPlaced
<1>4. PICK j \in 1..Len(c.acts), k \in 1..Len(c.acts) :
          /\ Runs(c, i + 1, j, W) /\ Runs(c, j + 1, k, X)
          /\ c.acts[j].op = "jumpz" /\ j + c.acts[j].by = k /\ c.acts[k].op = "bool"
          /\ k + 1 = i + Len(Acts(e)) + 1
  BY <1>3, Zenon DEF Shortly
<1>5. M = Branch(W, Applied("bool", X), Defined({Truth(FALSE)}))
  BY MeaningAnd
<1> HIDE DEF W, X, M
<1>6. ASSUME NEW seg \in Seq(AllValues), NEW u \in BOOLEAN
      PROVE  From(c, <<i + 1, seg, u>>, k + 1, M, seg, u)
  <2>1. From(c, <<i + 1, seg, u>>, j, W, seg, u)
    BY <1>4, RunsFrom
  <2> QED
    BY <1>1, <1>3, <1>4, <1>5, <2>1, FromAnd
<1>7. Runs(c, i + 1, k + 1, M)
  BY <1>6 DEF Runs
<1> QED
  BY <1>4, <1>7 DEF M

\* || is computed when its operands are.
LEMMA RunsOr ==
    ASSUME NEW c, NEW e, Partly(c, e), e.k = "or", Len(e.parts) = 2,
           NEW i \in Nat, Placed(c.acts, i, Acts(e))
    PROVE  Runs(c, i + 1, i + Len(Acts(e)) + 1, Meaning(Value, <<e, c.env>>))
<1> DEFINE W == Value[<<e.parts[1], c.env>>]
           X == Value[<<e.parts[2], c.env>>]
           M == Meaning(Value, <<e, c.env>>)
<1>1. c.acts \in Seq(Actions) /\ e \in Exprs
  BY PartlyIs
<1>2. Acts(e) = Behind(Behind(Behind(Acts(e.parts[1]),
                                     Single([op |-> "jumpnz", by |-> Len(Acts(e.parts[2])) + 1])),
                              Acts(e.parts[2])), Single(Op("bool")))
  BY <1>1, ActionsOf DEF Behind, Single
<1>3. /\ W \in SUBSET Results /\ X \in SUBSET Results
      /\ Shortly(c, "jumpnz", i + 1, i + Len(Acts(e)) + 1, W, X)
  <2>1. "jumpnz" \in {"jumpz", "jumpnz"}
    OBVIOUS
  <2> QED
    BY <1>2, <2>1, ShortPlaced
<1>4. PICK j \in 1..Len(c.acts), k \in 1..Len(c.acts) :
          /\ Runs(c, i + 1, j, W) /\ Runs(c, j + 1, k, X)
          /\ c.acts[j].op = "jumpnz" /\ j + c.acts[j].by = k /\ c.acts[k].op = "bool"
          /\ k + 1 = i + Len(Acts(e)) + 1
  BY <1>3, Zenon DEF Shortly
<1>5. M = Branch(W, Defined({Truth(TRUE)}), Applied("bool", X))
  BY MeaningOr
<1> HIDE DEF W, X, M
<1>6. ASSUME NEW seg \in Seq(AllValues), NEW u \in BOOLEAN
      PROVE  From(c, <<i + 1, seg, u>>, k + 1, M, seg, u)
  <2>1. From(c, <<i + 1, seg, u>>, j, W, seg, u)
    BY <1>4, RunsFrom
  <2> QED
    BY <1>1, <1>3, <1>4, <1>5, <2>1, FromOr
<1>7. Runs(c, i + 1, k + 1, M)
  BY <1>6 DEF Runs
<1> QED
  BY <1>4, <1>7 DEF M

\* Where the parts of the code of ?: stand.
LEMMA TernaryPlaced ==
    ASSUME NEW acts \in Seq(Actions), NEW i \in Nat, NEW s \in Seq(Actions), NEW t \in Seq(Actions),
           NEW w \in Seq(Actions), NEW a \in Actions, NEW b \in Actions,
           Placed(acts, i, Behind(Behind(Behind(Behind(s, Single(a)), t), Single(b)), w))
    PROVE  /\ Placed(acts, i, Behind(Behind(Behind(s, Single(a)), t), Single(b)))
           /\ Placed(acts, i + Len(s) + 1 + Len(t) + 1, w)
<1> DEFINE z == Behind(Behind(Behind(s, Single(a)), t), Single(b))
<1>1. z \in Seq(Actions)
  <2> DEFINE y == Behind(Behind(s, Single(a)), t)
  <2>1. y \in Seq(Actions)
    BY TwoLength
  <2> HIDE DEF y
  <2>2. Behind(y, Single(b)) \in Seq(Actions)
    BY <2>1, AfterOne
  <2> QED
    BY <2>2 DEF y
<1>2. Len(z) = Len(s) + 1 + Len(t) + 1 /\ Len(s) \in Nat /\ Len(t) \in Nat
  BY TwoLength
<1>3. Placed(acts, i, Behind(z, w))
  OBVIOUS
<1> HIDE DEF z
<1>4. Placed(acts, i, z) /\ Placed(acts, i + Len(z), w)
  BY <1>1, <1>3, BothPlaced
<1>5. i + Len(z) = i + Len(s) + 1 + Len(t) + 1
  BY <1>2
<1> QED
  BY <1>4, <1>5 DEF z

\* How long the code of ?: is.
LEMMA TernaryLength ==
    ASSUME NEW s \in Seq(Actions), NEW t \in Seq(Actions), NEW w \in Seq(Actions),
           NEW a \in Actions, NEW b \in Actions
    PROVE  /\ Len(Behind(Behind(Behind(Behind(s, Single(a)), t), Single(b)), w))
                  = Len(s) + 1 + Len(t) + 1 + Len(w)
           /\ Len(s) \in Nat /\ Len(t) \in Nat /\ Len(w) \in Nat
<1> DEFINE y == Behind(Behind(s, Single(a)), t)
           z == Behind(y, Single(b))
<1>1. y \in Seq(Actions) /\ Len(z) = Len(s) + 1 + Len(t) + 1 /\ Len(s) \in Nat /\ Len(t) \in Nat
  BY TwoLength
<1> HIDE DEF y
<1>2. z \in Seq(Actions)
  BY <1>1, AfterOne
<1> HIDE DEF z
<1>3. Len(Behind(z, w)) = Len(z) + Len(w) /\ Len(w) \in Nat
  BY <1>2, BehindIs
<1>4. Len(Behind(z, w)) = Len(s) + 1 + Len(t) + 1 + Len(w)
  BY <1>1, <1>3
<1> QED
  BY <1>1, <1>3, <1>4 DEF y, z

\* The code of ?: gives what the part that it selects gives.
LEMMA TernaryRuns ==
    ASSUME NEW c, c.acts \in Seq(Actions), NEW s \in Seq(Actions), NEW t \in Seq(Actions),
           NEW w \in Seq(Actions),
           NEW W \in SUBSET Results, NEW X \in SUBSET Results, NEW Y \in SUBSET Results,
           Means(c, s, W), Means(c, t, X), Means(c, w, Y),
           NEW a \in Actions, a.op = "jtern", a.by = Len(t) + 2,
           NEW b \in Actions, b.op = "jump", b.by = Len(w) + 1,
           NEW i \in Nat,
           Placed(c.acts, i, Behind(Behind(Behind(Behind(s, Single(a)), t), Single(b)), w))
    PROVE  Runs(c, i + 1,
                i + Len(Behind(Behind(Behind(Behind(s, Single(a)), t), Single(b)), w)) + 1,
                Branch(W, X, Y))
<1> DEFINE j == i + Len(s) + 1
           k == i + Len(s) + 1 + Len(t) + 1
           n == Len(Behind(Behind(Behind(Behind(s, Single(a)), t), Single(b)), w))
           m == i + n + 1
<1>1. /\ n = Len(s) + 1 + Len(t) + 1 + Len(w)
      /\ Len(s) \in Nat /\ Len(t) \in Nat /\ Len(w) \in Nat
  BY TernaryLength
<1>2. /\ Placed(c.acts, i, Behind(Behind(Behind(s, Single(a)), t), Single(b)))
      /\ Placed(c.acts, k, w)
  BY TernaryPlaced
<1>3. /\ Placed(c.acts, i, s) /\ j \in 1..Len(c.acts) /\ c.acts[j] = a
      /\ Placed(c.acts, j, t) /\ k \in 1..Len(c.acts) /\ c.acts[k] = b
  BY <1>2, TwoPlaced
<1> HIDE DEF n
<1>4. /\ j \in Nat /\ k \in Nat /\ j = i + Len(s) + 1 /\ k = j + Len(t) + 1 /\ m = k + Len(w) + 1
      /\ j + (Len(t) + 2) = k + 1 /\ k + (Len(w) + 1) = m
  BY <1>1
<1> HIDE DEF j, k, m
<1>5. Runs(c, i + 1, j, W)
  <2>1. Runs(c, i + 1, i + Len(s) + 1, W)
    BY <1>3, MeansRuns
  <2> QED
    BY <1>4, <2>1
<1>6. Runs(c, j + 1, k, X)
  <2>1. Runs(c, j + 1, j + Len(t) + 1, X)
    BY <1>3, <1>4, MeansRuns
  <2> QED
    BY <1>4, <2>1
<1>7. Runs(c, k + 1, m, Y)
  <2>1. Runs(c, k + 1, k + Len(w) + 1, Y)
    BY <1>2, <1>4, MeansRuns
  <2> QED
    BY <1>4, <2>1
<1>8. /\ c.acts[j].op = "jtern" /\ j + c.acts[j].by = k + 1
      /\ c.acts[k].op = "jump" /\ k + c.acts[k].by = m
  BY <1>3, <1>4
<1>9. ASSUME NEW seg \in Seq(AllValues), NEW u \in BOOLEAN
      PROVE  From(c, <<i + 1, seg, u>>, m, Branch(W, X, Y), seg, u)
  <2>1. From(c, <<i + 1, seg, u>>, j, W, seg, u)
    BY <1>5, RunsFrom
  <2> DEFINE p == <<i + 1, seg, u>>
             k1 == k + 1
  <2>2. From(c, p, j, W, seg, u) /\ Runs(c, k1, m, Y) /\ j + c.acts[j].by = k1
    BY <1>7, <1>8, <2>1
  <2> HIDE DEF p, k1
  <2>3. From(c, p, m, Branch(W, X, Y), seg, u)
    BY <1>3, <1>6, <1>8, <2>2, FromIf
  <2> QED
    BY <2>3 DEF p
<1>10. Runs(c, i + 1, m, Branch(W, X, Y))
  BY <1>9 DEF Runs
<1> QED
  BY <1>10 DEF m, n

\* ?: is computed when its parts are.
LEMMA RunsIf ==
    ASSUME NEW c, NEW e, Partly(c, e), e.k = "if", Len(e.parts) = 3,
           NEW i \in Nat, Placed(c.acts, i, Acts(e))
    PROVE  Runs(c, i + 1, i + Len(Acts(e)) + 1, Meaning(Value, <<e, c.env>>))
<1> DEFINE s == Acts(e.parts[1])
           t == Acts(e.parts[2])
           w == Acts(e.parts[3])
           a == [op |-> "jtern", by |-> Len(t) + 2]
           b == [op |-> "jump", by |-> Len(w) + 1]
           W == Value[<<e.parts[1], c.env>>]
           X == Value[<<e.parts[2], c.env>>]
           Y == Value[<<e.parts[3], c.env>>]
           M == Meaning(Value, <<e, c.env>>)
<1>1. /\ c.acts \in Seq(Actions) /\ e \in Exprs
      /\ Computes(c, e.parts[1]) /\ s \in Seq(Actions) /\ Len(s) \in Nat /\ W \in SUBSET Results
      /\ Computes(c, e.parts[2]) /\ t \in Seq(Actions) /\ Len(t) \in Nat /\ X \in SUBSET Results
      /\ Computes(c, e.parts[3]) /\ w \in Seq(Actions) /\ Len(w) \in Nat /\ Y \in SUBSET Results
  <2>1. 1 \in 1..Len(e.parts) /\ 2 \in 1..Len(e.parts) /\ 3 \in 1..Len(e.parts)
    OBVIOUS
  <2> QED
    BY <2>1, PartlyIs
<1>2. a \in Actions /\ a.op = "jtern" /\ a.by = Len(t) + 2
  <2>1. Len(t) + 2 \in Int
    BY <1>1
  <2> QED
    BY <2>1, ActionsAre
<1>3. b \in Actions /\ b.op = "jump" /\ b.by = Len(w) + 1
  <2>1. Len(w) + 1 \in Int
    BY <1>1
  <2> QED
    BY <2>1, ActionsAre
<1>4. Means(c, s, W) /\ Means(c, t, X) /\ Means(c, w, Y)
  BY <1>1, ComputesMeans
<1>5. M = Branch(W, X, Y)
  BY MeaningIf
<1>6. Acts(e) = Behind(Behind(Behind(Behind(s, Single(a)), t), Single(b)), w)
  BY <1>1, ActionsOf DEF Behind, Single
<1> HIDE DEF s, t, w, a, b, W, X, Y, M
<1>7. Placed(c.acts, i, Behind(Behind(Behind(Behind(s, Single(a)), t), Single(b)), w))
  BY <1>6
<1>8. Runs(c, i + 1, i + Len(Behind(Behind(Behind(Behind(s, Single(a)), t), Single(b)), w)) + 1,
           Branch(W, X, Y))
  BY <1>1, <1>2, <1>3, <1>4, <1>7, TernaryRuns
<1> QED
  BY <1>5, <1>6, <1>8 DEF M

\* The code of the arguments of a call, and the call itself.
LEMMA RunsCalling ==
    ASSUME NEW c, NEW e, Partly(c, e), e.k = "call", e.f \in Functions, Len(e.parts) \in Nat,
           NEW i \in Nat, Placed(c.acts, i, Acts(e))
    PROVE  Runs(c, i + 1, i + Len(Acts(e)) + 1, Meaning(Value, <<e, c.env>>))
<1> DEFINE n == Len(e.parts)
           a == [op |-> "call", f |-> e.f]
<1>1. /\ c.acts \in Seq(Actions) /\ c.env \in Seq(AllValues) /\ e \in Exprs
      /\ \A k \in 1..n : /\ Computes(c, e.parts[k]) /\ Acts(e.parts[k]) \in Seq(Actions)
                         /\ Len(Acts(e.parts[k])) \in Nat
  BY PartlyIs
<1>2. a \in Actions /\ a.op = "call" /\ a.f = e.f
  BY ActionsAre
<1>3. \E pre : IsPrefix(pre, e, n) /\ Acts(e) = pre[n] \o <<a>>
  BY <1>1, ActionsOf
<1>4. PICK pre : IsPrefix(pre, e, n) /\ Acts(e) = pre[n] \o <<a>>
  BY <1>3
<1> DEFINE at == [k \in 0..n |-> i + Len(pre[k]) + 1]
           M == CalledMeaning(Value, e, c.env)
<1>5. \A k \in 0..n : pre[k] \in Seq(Actions)
  BY <1>1, <1>4, PrefixTyped
<1>6. pre[0] = <<>>
  BY <1>4 DEF IsPrefix
<1>7. Acts(e) = Behind(pre[n], Single(a))
  BY <1>4 DEF Behind, Single
<1> HIDE DEF a
<1>8. n \in Nat /\ n \in 0..n /\ pre[n] \in Seq(Actions)
  BY <1>5
<1>9. /\ Placed(c.acts, i, pre[n])
      /\ i + Len(pre[n]) + 1 \in 1..Len(c.acts) /\ c.acts[i + Len(pre[n]) + 1] = a
  <2> DEFINE p == pre[n]
  <2>1. p \in Seq(Actions) /\ Placed(c.acts, i, Behind(p, Single(a)))
    BY <1>7, <1>8
  <2> HIDE DEF p
  <2>2. Placed(c.acts, i, p) /\ i + Len(p) + 1 \in 1..Len(c.acts) /\ c.acts[i + Len(p) + 1] = a
    BY <1>1, <1>2, <2>1, LastPlaced
  <2> QED
    BY <2>2 DEF p
<1>10. \A k \in 0..(n - 1) :
           /\ Placed(c.acts, i + Len(pre[k]), Acts(e.parts[k + 1]))
           /\ Len(pre[k]) \in Nat /\ Len(Acts(e.parts[k + 1])) \in Nat
           /\ Len(pre[k + 1]) = Len(pre[k]) + Len(Acts(e.parts[k + 1]))
  <2>1. IsPrefix(pre, e, n)
    BY <1>4
  <2>2. TypedParts(e, n)
    BY <1>1 DEF TypedParts
  <2>3. PrefixAt(c.acts, i, e, n, pre)
    BY <1>1, <1>8, <1>9, <2>1, <2>2, PrefixPlaced
  <2> QED
    BY <2>3 DEF PrefixAt
<1>11. \A k \in 0..n : at[k] = i + Len(pre[k]) + 1
  OBVIOUS
<1>12. at[n] \in 1..Len(c.acts) /\ c.acts[at[n]] = a /\ at[0] = i + 1
  <2>1. at[n] = i + Len(pre[n]) + 1
    BY <1>8, <1>11
  <2>2. at[0] = i + Len(pre[0]) + 1 /\ Len(pre[0]) = 0
    BY <1>6, <1>8, <1>11
  <2> QED
    BY <1>9, <2>1, <2>2
<1> HIDE DEF at
<1>13. ASSUME NEW k \in 0..(n - 1)
       PROVE  Runs(c, at[k], at[k + 1], Value[<<e.parts[k + 1], c.env>>])
  <2> DEFINE d == i + Len(pre[k])
             x == e.parts[k + 1]
  <2>1. k + 1 \in 1..n /\ k \in 0..n /\ k + 1 \in 0..n
    BY <1>8
  <2>2. d \in Nat /\ Placed(c.acts, d, Acts(x)) /\ Computes(c, x)
    <3>1. Len(pre[k]) \in Nat /\ Placed(c.acts, i + Len(pre[k]), Acts(e.parts[k + 1]))
      BY <1>10
    <3>2. Computes(c, e.parts[k + 1])
      BY <1>1, <2>1
    <3>3. i + Len(pre[k]) \in Nat
      BY <3>1
    <3> QED
      BY <3>1, <3>2, <3>3
  <2>3. at[k] = d + 1 /\ at[k + 1] = d + Len(Acts(x)) + 1
    <3>1. at[k] = i + Len(pre[k]) + 1 /\ at[k + 1] = i + Len(pre[k + 1]) + 1
      BY <1>11, <2>1
    <3>2. Len(pre[k]) \in Nat /\ Len(Acts(x)) \in Nat /\ Len(pre[k + 1]) = Len(pre[k]) + Len(Acts(x))
      BY <1>10
    <3> DEFINE l == Len(pre[k])
               l1 == Len(pre[k + 1])
               ll == Len(Acts(x))
    <3>3. at[k] = i + l + 1 /\ at[k + 1] = i + l1 + 1 /\ l \in Nat /\ ll \in Nat /\ l1 = l + ll /\ d = i + l
      BY <3>1, <3>2
    <3> HIDE DEF l, l1, ll, d
    <3>4. at[k] = d + 1 /\ at[k + 1] = d + ll + 1
      BY <3>3
    <3> QED
      BY <3>4 DEF ll
  <2> HIDE DEF d, x
  <2>4. Runs(c, d + 1, d + Len(Acts(x)) + 1, Value[<<x, c.env>>])
    BY <2>2, ComputesAt
  <2>5. Runs(c, at[k], at[k + 1], Value[<<x, c.env>>])
    BY <2>3, <2>4
  <2> QED
    BY <2>5 DEF x
<1>14. c.acts[at[n]].op = "call" /\ c.acts[at[n]].f = e.f
  BY <1>2, <1>12
<1>15. Runs(c, at[0], at[n] + 1, M)
  BY <1>1, <1>12, <1>13, <1>14, RunsCall
<1>16. M = Meaning(Value, <<e, c.env>>)
  BY MeaningCall
<1>17. at[n] + 1 = i + Len(Acts(e)) + 1
  <2> DEFINE p == pre[n]
  <2>1. at[n] = i + Len(p) + 1 /\ p \in Seq(Actions) /\ Acts(e) = Behind(p, Single(a))
    BY <1>7, <1>8, <1>11
  <2> HIDE DEF p
  <2>2. Len(Behind(p, Single(a))) = Len(p) + 1 /\ Len(p) \in Nat
    BY <1>2, <2>1, AfterOne
  <2> QED
    BY <2>1, <2>2
<1> QED
  BY <1>12, <1>15, <1>16, <1>17

\* The code of every expression computes its value, wherever it stands, on top of any values
\* and whatever the flag: each operand is left where its operator takes it, and the jumps of
\* &&, || and ?: lead past just what is not evaluated.  (archive/o/internal.c:807-857)
THEOREM ExprComputes ==
    ASSUME NEW c, c.acts \in Seq(Actions), c.env \in Seq(AllValues)
    PROVE  \A e \in Exprs : Computes(c, e)
<1> DEFINE P == {e \in Exprs : Computes(c, e)}
<1>1. ASSUME NEW e \in Exprs, \A k \in 1..Len(e.parts) : e.parts[k] \in P
      PROVE  Computes(c, e)
  <2>1. NodeOf(Exprs, e)
    BY ExprParts
  <2>2. Partly(c, e) /\ Len(e.parts) \in Nat
    BY <1>1, <2>1 DEF Partly, NodeOf
  <2> SUFFICES ASSUME NEW i \in Nat, Placed(c.acts, i, Acts(e))
               PROVE  Runs(c, i + 1, i + Len(Acts(e)) + 1, Value[<<e, c.env>>])
    BY DEF Computes
  <2> DEFINE R == Runs(c, i + 1, i + Len(Acts(e)) + 1, Meaning(Value, <<e, c.env>>))
  <2>3. ASSUME e.k \in {"const", "var", "arg", "rand"} PROVE R
    BY <2>3, RunsLeaf
  <2>4. ASSUME e.k = "un" /\ e.op \in UnaryOps \cup Bessel /\ Len(e.parts) = 1 PROVE R
    BY <2>2, <2>4, RunsUn
  <2>5. ASSUME e.k = "bin" /\ e.op \in BinaryOps /\ Len(e.parts) = 2 PROVE R
    BY <2>2, <2>5, RunsBin
  <2>6. ASSUME e.k = "and" /\ Len(e.parts) = 2 PROVE R
    BY <2>2, <2>6, RunsAnd
  <2>7. ASSUME e.k = "or" /\ Len(e.parts) = 2 PROVE R
    BY <2>2, <2>7, RunsOr
  <2>8. ASSUME e.k = "if" /\ Len(e.parts) = 3 PROVE R
    BY <2>2, <2>8, RunsIf
  <2>9. ASSUME e.k = "call" /\ e.f \in Functions PROVE R
    BY <2>2, <2>9, RunsCalling
  <2>10. Runs(c, i + 1, i + Len(Acts(e)) + 1, Meaning(Value, <<e, c.env>>))
    <3> HIDE DEF R
    <3>1. R
      BY <2>1, <2>3, <2>4, <2>5, <2>6, <2>7, <2>8, <2>9 DEF NodeOf
    <3> QED
      BY <3>1 DEF R
  <2>11. Meaning(Value, <<e, c.env>>) \subseteq Value[<<e, c.env>>]
    BY ValueHas
  <2> QED
    BY <2>10, <2>11, RunsWide
<1>2. \A e \in Exprs : (\A k \in 1..Len(e.parts) : e.parts[k] \in P) => e \in P
  BY <1>1
<1> HIDE DEF P
<1>3. \A e \in Exprs : e \in P
  BY <1>2, EveryExpression
<1> QED
  BY <1>3 DEF P

\* The end of code with the goal S is good when the result is in S.
LEMMA EndLeads ==
    ASSUME NEW c, c.acts \in Seq(Actions), NEW u \in BOOLEAN, NEW S \in SUBSET Results,
           c.goal = {Flag(u, r) : r \in S}, NEW q \in S
    PROVE  Lead(c, Good(c), Len(c.acts) + 1, <<>>, u, q)
<1>1. Flag(u, q) \in c.goal
  OBVIOUS
<1>2. CASE q = Failed
  BY <1>1, <1>2, FlagTyped, LeadFailed
<1>3. CASE q # Failed
  <2> DEFINE w == Either(u, q.undefined)
             n == Len(c.acts) + 1
             one == Append(<<>>, q.value)
  <2>1. q.value \in AllValues /\ w \in BOOLEAN /\ n \in Nat
    BY <1>3, ResultParts, EitherTyped
  <2>2. one \in Seq(AllValues) /\ Len(one) = 1 /\ one[1] = q.value
    BY <2>1
  <2>3. Flag(u, q) = [value |-> q.value, undefined |-> w]
    BY <1>3 DEF Flag
  <2> HIDE DEF w, one
  <2>4. [value |-> one[Len(one)], undefined |-> w] \in c.goal
    BY <1>1, <2>2, <2>3
  <2>5. Ok(c, Good(c), n, one, w)
    BY <2>4 DEF Ok
  <2> HIDE DEF n
  <2>6. <<n, one, w>> \in Good(c)
    BY <2>1, <2>2, <2>5, OkGood
  <2> QED
    BY <1>3, <2>6, LeadOn DEF n, w, one
<1> QED
  BY <1>2, <1>3

\* So code is good from its start on when its goal is the value of its source.
LEMMA WholeGood ==
    ASSUME NEW c, NEW e \in Exprs, c.acts = Acts(e), c.env \in Seq(AllValues), NEW u \in BOOLEAN,
           c.goal = {Flag(u, r) : r \in Value[<<e, c.env>>]}
    PROVE  <<1, <<>>, u>> \in Good(c)
<1> DEFINE S == Value[<<e, c.env>>]
           n == Len(c.acts) + 1
<1>1. c.acts \in Seq(Actions) /\ Len(c.acts) \in Nat
  BY ActsTyped
<1>2. S \in SUBSET Results
  <2>1. <<e, c.env>> \in Asked
    BY DEF Asked
  <2> QED
    BY <2>1, ValueTyped
<1>3. Placed(c.acts, 0, c.acts)
  BY <1>1 DEF Placed
<1>4. Runs(c, 0 + 1, 0 + Len(Acts(e)) + 1, S)
  <2>1. Computes(c, e) /\ 0 \in Nat /\ Placed(c.acts, 0, Acts(e))
    BY <1>1, <1>3, ExprComputes
  <2> QED
    BY <2>1, ComputesAt
<1>5. 0 + 1 = 1 /\ 0 + Len(Acts(e)) + 1 = n /\ <<>> \in Seq(AllValues)
  BY <1>1
<1>6. Runs(c, 1, n, S)
  BY <1>4, <1>5
<1>7. c.goal = {Flag(u, r) : r \in S}
  OBVIOUS
<1> HIDE DEF S
<1>8. \A q \in S : Lead(c, Good(c), n, <<>>, u, q)
  BY <1>1, <1>2, <1>7, EndLeads
<1> HIDE DEF n
<1>9. From(c, <<1, <<>>, u>>, n, S, <<>>, u)
  BY <1>5, <1>6, RunsFrom
<1> QED
  BY <1>8, <1>9 DEF From

\* A constant, its square, and what is divided by it.
LEMMA RunsConst ==
    ASSUME NEW c, c.acts \in Seq(Actions), NEW i \in 1..Len(c.acts), NEW a \in AllValues,
           c.acts[i] = Const(a)
    PROVE  Runs(c, i, i + 1, Defined({a}))
<1> DEFINE x == c.acts[i]
<1>1. x.op = "pushc" /\ x.v = a
  BY DEF Const
<1> HIDE DEF x
<1>2. /\ \A env, seg : Given(env, x, seg) = Defined({a})
      /\ x.op \notin JumpOps /\ Needs(x) = 0
  BY <1>1, GivenConst
<1>3. \A seg : Given(c.env, c.acts[i], seg) = Defined({a})
  BY <1>2 DEF x
<1>4. c.acts[i].op \notin JumpOps /\ Needs(c.acts[i]) = 0
  BY <1>2 DEF x
<1> QED
  BY <1>3, <1>4, RunsGives

\* x^2 in a composition.
LEMMA RunsSquare ==
    ASSUME NEW c, c.acts \in Seq(Actions), NEW i \in Nat, i \in 1..Len(c.acts), NEW a \in AllValues,
           i + 1 \in 1..Len(c.acts), i + 2 \in 1..Len(c.acts),
           c.acts[i] = Const(a), c.acts[i + 1] = Const(a), c.acts[i + 2].op = "mult"
    PROVE  Runs(c, i, i + 3, Combined("mult", Defined({a}), Defined({a})))
<1> DEFINE x == Defined({a})
           j == i + 1
           k == i + 2
<1>1. x \in SUBSET Results
  BY DefinedResults
<1>2. Runs(c, i, j, x)
  BY RunsConst
<1>3. Runs(c, j, k, x)
  <2>1. (i + 1) + 1 = i + 2
    OBVIOUS
  <2>2. Runs(c, i + 1, (i + 1) + 1, x)
    BY RunsConst
  <2> QED
    BY <2>1, <2>2
<1>4. k \in 1..Len(c.acts) /\ c.acts[k].op = "mult" /\ "mult" \in BinaryOps /\ j \in Nat /\ k + 1 = i + 3
  BY BesselOps
<1> HIDE DEF x, j, k
<1>5. ASSUME NEW seg \in Seq(AllValues), NEW u \in BOOLEAN
      PROVE  From(c, <<i, seg, u>>, k + 1, Combined("mult", x, x), seg, u)
  <2> DEFINE p == <<i, seg, u>>
  <2>1. From(c, p, j, x, seg, u)
    BY <1>2, RunsFrom
  <2> HIDE DEF p
  <2>2. From(c, p, k + 1, Combined(c.acts[k].op, x, x), seg, u)
    BY <1>1, <1>3, <1>4, <2>1, FromBinary
  <2> QED
    BY <1>4, <2>2 DEF p
<1>6. Runs(c, i, k + 1, Combined("mult", x, x))
  BY <1>5 DEF Runs
<1> QED
  BY <1>4, <1>6 DEF x

\* sin x / x or cos x / x in it.
LEMMA RunsRatio ==
    ASSUME NEW c, c.acts \in Seq(Actions), NEW i \in Nat, i \in 1..Len(c.acts), NEW a \in AllValues,
           i + 1 \in 1..Len(c.acts), i + 2 \in 1..Len(c.acts), i + 3 \in 1..Len(c.acts),
           NEW op \in {"sin", "cos"},
           c.acts[i] = Const(a), c.acts[i + 1].op = op, c.acts[i + 2] = Const(a),
           c.acts[i + 3].op = "div"
    PROVE  Runs(c, i, i + 4, Combined("div", Applied(op, Defined({a})), Defined({a})))
<1> DEFINE x == Defined({a})
           y == Applied(op, x)
           j == i + 1
           k == i + 2
           l == i + 3
<1>1. x \in SUBSET Results /\ op \in UnaryOps
  BY DefinedResults, BesselOps
<1>2. y \in SUBSET Results
  BY <1>1, AppliedTyped
<1>3. Runs(c, i, j, x)
  BY RunsConst
<1>4. Runs(c, k, l, x)
  <2>1. (i + 2) + 1 = i + 3
    OBVIOUS
  <2>2. Runs(c, i + 2, (i + 2) + 1, x)
    BY RunsConst
  <2> QED
    BY <2>1, <2>2
<1>5. /\ j \in 1..Len(c.acts) /\ c.acts[j].op = op /\ j + 1 = k /\ k \in Nat
      /\ l \in 1..Len(c.acts) /\ c.acts[l].op = "div" /\ "div" \in BinaryOps /\ l + 1 = i + 4
  BY BesselOps
<1> HIDE DEF j, k, l
<1>6. ASSUME NEW seg \in Seq(AllValues), NEW u \in BOOLEAN
      PROVE  From(c, <<i, seg, u>>, l + 1, Combined("div", y, x), seg, u)
  <2> DEFINE p == <<i, seg, u>>
  <2> HIDE DEF x
  <2>1. From(c, p, j, x, seg, u)
    BY <1>3, RunsFrom
  <2> HIDE DEF p
  <2>2. From(c, p, j + 1, Applied(c.acts[j].op, x), seg, u)
    BY <1>1, <1>5, <2>1, FromUnary
  <2>3. From(c, p, k, y, seg, u)
    BY <1>5, <2>2
  <2> HIDE DEF y
  <2>4. From(c, p, l + 1, Combined(c.acts[l].op, y, x), seg, u)
    BY <1>1, <1>2, <1>4, <1>5, <2>3, FromBinary
  <2> QED
    BY <1>5, <2>4 DEF p
<1> HIDE DEF x, y
<1>7. Runs(c, i, l + 1, Combined("div", y, x))
  BY <1>6 DEF Runs
<1> QED
  BY <1>5, <1>7 DEF x, y

-----------------------------------------------------------------------------
(* The compositions of standard.c.                                         *)

\* A composition of standard.c runs on top of its argument.
LEMMA StartsOn ==
    ASSUME NEW c, NEW a \in AllValues, NEW u \in BOOLEAN
    PROVE  From(c, <<1, <<a>>, u>>, 1, Defined({a}), <<>>, u)
<1> DEFINE r == [value |-> a, undefined |-> FALSE]
<1>1. r \in Defined({a})
  BY DefinedOne
<1>2. r # Failed /\ r.value = a /\ r.undefined = FALSE
  BY NoValueAssumption DEF Failed
<1>3. Append(<<>>, a) = <<a>> /\ Either(u, FALSE) = u
  <2>1. Either(u, FALSE) = u
    BY EitherFalse
  <2> DEFINE s == Append(<<>>, a)
             t == <<a>>
  <2>2. <<>> \in Seq(AllValues) /\ Len(<<>>) = 0
    OBVIOUS
  <2>3. s \in Seq(AllValues) /\ Len(s) = 1 /\ s[1] = a
    BY <2>2, AppendParts
  <2>4. t \in Seq(AllValues) /\ Len(t) = 1 /\ t[1] = a
    OBVIOUS
  <2> HIDE DEF s, t
  <2>5. s = t
    BY <2>3, <2>4, SameSeq
  <2> QED
    BY <2>1, <2>5 DEF s, t
<1> HIDE DEF r
<1>4. Lead(c, Good(c), 1, <<>>, u, r) <=> <<1, Append(<<>>, a), Either(u, FALSE)>> \in Good(c)
  BY <1>2, LeadOn
<1>5. Lead(c, Good(c), 1, <<>>, u, r) => <<1, <<a>>, u>> \in Good(c)
  BY <1>3, <1>4
<1> QED
  BY <1>1, <1>5 DEF From

\* Code from p that ends with the results S is good when these are its goal.
LEMMA EndsAt ==
    ASSUME NEW c, c.acts \in Seq(Actions), NEW p, NEW u \in BOOLEAN, NEW S \in SUBSET Results,
           c.goal = {Flag(u, r) : r \in S}, NEW n, n = Len(c.acts) + 1, From(c, p, n, S, <<>>, u)
    PROVE  p \in Good(c)
<1>1. \A q \in S : Lead(c, Good(c), Len(c.acts) + 1, <<>>, u, q)
  BY EndLeads
<1> QED
  BY <1>1 DEF From

\* Their actions.
LEMMA BesselActs ==
    ASSUME NEW a \in AllValues, NEW op \in Bessel, NEW s, s = BesselCode(op, a).actions
    PROVE  /\ s \in Seq(Actions) /\ s[2] = Const(a)
           /\ op = "besj0" => Len(s) = 3 /\ s[1].op = "sin" /\ s[3].op = "div"
           /\ op = "besy0" => Len(s) = 4 /\ s[1].op = "cos" /\ s[3].op = "div" /\ s[4].op = "uminus"
           /\ op = "besj1" => /\ Len(s) = 10 /\ s[1].op = "sin" /\ s[3] = Const(a) /\ s[4].op = "mult"
                              /\ s[5].op = "div" /\ s[6] = Const(a) /\ s[7].op = "cos"
                              /\ s[8] = Const(a) /\ s[9].op = "div" /\ s[10].op = "minus"
           /\ op = "besy1" => /\ Len(s) = 11 /\ s[1].op = "cos" /\ s[3] = Const(a) /\ s[4].op = "mult"
                              /\ s[5].op = "div" /\ s[6] = Const(a) /\ s[7].op = "sin"
                              /\ s[8] = Const(a) /\ s[9].op = "div" /\ s[10].op = "plus"
                              /\ s[11].op = "uminus"
<1> DEFINE k == Const(a)
<1>1. s \in Seq(Actions)
  BY BesselTyped DEF Typed
<1> HIDE DEF k
<1>2. CASE op = "besj0"
  <2>1. s = <<Op("sin"), k, Op("div")>>
    BY <1>2 DEF BesselCode, k
  <2> QED
    BY <1>1, <1>2, <2>1 DEF Op, k
<1>3. CASE op = "besy0"
  <2>1. s = <<Op("cos"), k, Op("div"), Op("uminus")>>
    BY <1>3 DEF BesselCode, k
  <2> QED
    BY <1>1, <1>3, <2>1 DEF Op, k
<1>4. CASE op = "besj1"
  <2>1. s = <<Op("sin"), k, k, Op("mult"), Op("div"), k, Op("cos"), k, Op("div"), Op("minus")>>
    BY <1>4 DEF BesselCode, k
  <2> QED
    BY <1>1, <1>4, <2>1 DEF Op, k
<1>5. CASE op = "besy1"
  <2>1. s = <<Op("cos"), k, k, Op("mult"), Op("div"), k, Op("sin"), k, Op("div"), Op("plus"), Op("uminus")>>
    BY <1>5 DEF BesselCode, k
  <2> QED
    BY <1>1, <1>5, <2>1 DEF Op, k
<1> QED
  BY <1>2, <1>3, <1>4, <1>5 DEF Bessel

\* One that begins sin x / x or cos x / x.
LEMMA BesselRatio ==
    ASSUME NEW c, c.acts \in Seq(Actions), NEW a \in AllValues, NEW u \in BOOLEAN,
           NEW op \in {"sin", "cos"}, 3 <= Len(c.acts),
           c.acts[1].op = op, c.acts[2] = Const(a), c.acts[3].op = "div"
    PROVE  From(c, <<1, <<a>>, u>>, 4, Combined("div", Applied(op, Defined({a})), Defined({a})), <<>>, u)
<1> DEFINE x == Defined({a})
           y == Applied(op, x)
           p == <<1, <<a>>, u>>
<1>1. x \in SUBSET Results /\ op \in UnaryOps /\ "div" \in BinaryOps
  BY DefinedResults, BesselOps
<1>2. y \in SUBSET Results
  BY <1>1, AppliedTyped
<1>3. 1 \in 1..Len(c.acts) /\ 2 \in 1..Len(c.acts) /\ 3 \in 1..Len(c.acts)
  OBVIOUS
<1>4. From(c, p, 1, x, <<>>, u)
  BY StartsOn
<1>5. Runs(c, 2, 2 + 1, x)
  BY <1>3, RunsConst
<1>6. 2 + 1 = 3 /\ 3 + 1 = 4 /\ 1 + 1 = 2 /\ <<>> \in Seq(AllValues)
  OBVIOUS
<1> HIDE DEF x, p
<1>7. From(c, p, 1 + 1, Applied(c.acts[1].op, x), <<>>, u)
  BY <1>1, <1>3, <1>4, <1>6, FromUnary
<1>8. From(c, p, 2, y, <<>>, u) /\ Runs(c, 2, 3, x)
  BY <1>5, <1>6, <1>7
<1> HIDE DEF y
<1>9. From(c, p, 3 + 1, Combined(c.acts[3].op, y, x), <<>>, u)
  BY <1>1, <1>2, <1>3, <1>6, <1>8, FromBinary
<1> QED
  BY <1>6, <1>9 DEF x, y, p

\* One that begins sin x / x^2 op cos x / x, or with sin and cos the other way.
LEMMA BesselSum ==
    ASSUME NEW c, c.acts \in Seq(Actions), NEW a \in AllValues, NEW u \in BOOLEAN,
           NEW f \in {"sin", "cos"}, NEW g \in {"sin", "cos"}, NEW op \in {"plus", "minus"},
           10 <= Len(c.acts),
           c.acts[1].op = f, c.acts[2] = Const(a), c.acts[3] = Const(a), c.acts[4].op = "mult",
           c.acts[5].op = "div", c.acts[6] = Const(a), c.acts[7].op = g, c.acts[8] = Const(a),
           c.acts[9].op = "div", c.acts[10].op = op
    PROVE  LET x == Defined({a}) IN
           From(c, <<1, <<a>>, u>>, 11,
                Combined(op, Combined("div", Applied(f, x), Combined("mult", x, x)),
                             Combined("div", Applied(g, x), x)), <<>>, u)
<1> DEFINE x == Defined({a})
           y == Applied(f, x)
           z == Applied(g, x)
           sq == Combined("mult", x, x)
           l == Combined("div", y, sq)
           r == Combined("div", z, x)
           p == <<1, <<a>>, u>>
<1>1. /\ x \in SUBSET Results /\ f \in UnaryOps /\ g \in UnaryOps /\ op \in BinaryOps
      /\ "div" \in BinaryOps /\ "mult" \in BinaryOps
  BY DefinedResults, BesselOps
<1>2. y \in SUBSET Results /\ z \in SUBSET Results /\ sq \in SUBSET Results
  BY <1>1, AppliedTyped, CombinedTyped
<1>3. l \in SUBSET Results /\ r \in SUBSET Results
  <2> HIDE DEF x, y, z, sq
  <2> QED
    BY <1>1, <1>2, CombinedTyped
<1>4. \A i \in 1..10 : i \in 1..Len(c.acts) /\ i \in Nat
  OBVIOUS
<1>5. From(c, p, 1, x, <<>>, u)
  BY StartsOn
<1>6. Runs(c, 2, 5, sq)
  <2>1. 2 + 1 = 3 /\ 2 + 2 = 4 /\ 2 + 3 = 5 /\ 2 \in Nat
    OBVIOUS
  <2>2. 2 \in 1..Len(c.acts) /\ 2 + 1 \in 1..Len(c.acts) /\ 2 + 2 \in 1..Len(c.acts)
    BY <1>4
  <2>3. c.acts[2] = Const(a) /\ c.acts[2 + 1] = Const(a) /\ c.acts[2 + 2].op = "mult"
    BY <2>1
  <2>4. Runs(c, 2, 2 + 3, sq)
    BY <2>1, <2>2, <2>3, RunsSquare
  <2> QED
    BY <2>1, <2>4
<1>7. Runs(c, 6, 10, r)
  <2>1. 6 + 1 = 7 /\ 6 + 2 = 8 /\ 6 + 3 = 9 /\ 6 + 4 = 10 /\ 6 \in Nat
    OBVIOUS
  <2>2. /\ 6 \in 1..Len(c.acts) /\ 6 + 1 \in 1..Len(c.acts) /\ 6 + 2 \in 1..Len(c.acts)
        /\ 6 + 3 \in 1..Len(c.acts)
    BY <1>4
  <2>3. /\ c.acts[6] = Const(a) /\ c.acts[6 + 1].op = g /\ c.acts[6 + 2] = Const(a)
        /\ c.acts[6 + 3].op = "div"
    BY <2>1
  <2>4. Runs(c, 6, 6 + 4, r)
    BY <2>1, <2>2, <2>3, RunsRatio
  <2> QED
    BY <2>1, <2>4
<1>8. 1 + 1 = 2 /\ 5 + 1 = 6 /\ 10 + 1 = 11 /\ <<>> \in Seq(AllValues)
  OBVIOUS
<1>9. 1 \in 1..Len(c.acts) /\ 5 \in 1..Len(c.acts) /\ 10 \in 1..Len(c.acts) /\ 2 \in Nat /\ 6 \in Nat
  BY <1>4
<1> HIDE DEF x, p
<1>10. From(c, p, 1 + 1, Applied(c.acts[1].op, x), <<>>, u)
  BY <1>1, <1>5, <1>8, <1>9, FromUnary
<1>11. From(c, p, 2, y, <<>>, u)
  BY <1>8, <1>10
<1> HIDE DEF y, z, sq
<1>12. From(c, p, 5 + 1, Combined(c.acts[5].op, y, sq), <<>>, u)
  BY <1>1, <1>2, <1>6, <1>8, <1>9, <1>11, FromBinary
<1>13. From(c, p, 6, l, <<>>, u)
  BY <1>8, <1>12
<1> HIDE DEF l, r
<1>14. From(c, p, 10 + 1, Combined(c.acts[10].op, l, r), <<>>, u)
  BY <1>1, <1>3, <1>7, <1>8, <1>9, <1>13, FromBinary
<1> QED
  BY <1>8, <1>14 DEF x, y, z, sq, l, r, p

\* The operators of a composition compute it.
LEMMA BesselGood ==
    ASSUME NEW a \in AllValues, NEW op \in Bessel, NEW c, c.acts = BesselCode(op, a).actions,
           NEW u \in BOOLEAN, c.goal = {Flag(u, r) : r \in BesselOf(op, a)}
    PROVE  <<1, <<a>>, u>> \in Good(c)
<1> DEFINE p == <<1, <<a>>, u>>
           S == BesselOf(op, a)
           x == Defined({a})
           s == Applied("sin", x)
           k == Applied("cos", x)
           sq == Combined("mult", x, x)
<1>1. S \in SUBSET Results
  BY BesselResults
<1>2. c.goal = {Flag(u, r) : r \in S}
  OBVIOUS
<1>3. x \in SUBSET Results /\ s \in SUBSET Results /\ k \in SUBSET Results /\ sq \in SUBSET Results
  BY DefinedResults, BesselOps, AppliedTyped, CombinedTyped
<1>4. <<>> \in Seq(AllValues) /\ c.acts \in Seq(Actions)
  BY BesselActs
<1>5. CASE op = "besj0"
  <2>1. S = Combined("div", s, x)
    BY <1>5 DEF BesselOf
  <2>2. Len(c.acts) = 3 /\ c.acts[1].op = "sin" /\ c.acts[2] = Const(a) /\ c.acts[3].op = "div"
    BY <1>5, BesselActs
  <2>3. From(c, p, 4, Combined("div", s, x), <<>>, u)
    BY <1>4, <2>2, BesselRatio
  <2>4. 4 = Len(c.acts) + 1
    BY <2>2
  <2> HIDE DEF p, S, x, s
  <2> QED
    BY <1>1, <1>2, <1>4, <2>1, <2>3, <2>4, EndsAt DEF p
<1>6. CASE op = "besy0"
  <2> DEFINE q == Combined("div", k, x)
  <2>1. S = Applied("uminus", q)
    BY <1>6 DEF BesselOf
  <2>2. /\ Len(c.acts) = 4 /\ c.acts[1].op = "cos" /\ c.acts[2] = Const(a) /\ c.acts[3].op = "div"
        /\ c.acts[4].op = "uminus"
    BY <1>6, BesselActs
  <2>3. From(c, p, 4, q, <<>>, u)
    BY <1>4, <2>2, BesselRatio
  <2> HIDE DEF p, S, x, s, k
  <2>4. q \in SUBSET Results
    BY <1>3, BesselOps, CombinedTyped
  <2> HIDE DEF q
  <2>5. From(c, p, 4 + 1, Applied(c.acts[4].op, q), <<>>, u)
    <3>1. 4 \in 1..Len(c.acts) /\ c.acts[4].op \in UnaryOps
      BY <2>2, BesselOps
    <3> QED
      BY <1>4, <2>3, <2>4, <3>1, FromUnary
  <2>6. From(c, p, 5, S, <<>>, u) /\ 5 = Len(c.acts) + 1
    <3>1. 4 + 1 = 5 /\ 5 = Len(c.acts) + 1
      BY <2>2
    <3> QED
      BY <2>1, <2>2, <2>5, <3>1
  <2> QED
    BY <1>1, <1>2, <1>4, <2>6, EndsAt DEF p
<1>7. CASE op = "besj1"
  <2>1. S = Combined("minus", Combined("div", s, sq), Combined("div", k, x))
    BY <1>7 DEF BesselOf
  <2>2. /\ Len(c.acts) = 10 /\ c.acts[1].op = "sin" /\ c.acts[2] = Const(a) /\ c.acts[3] = Const(a)
        /\ c.acts[4].op = "mult" /\ c.acts[5].op = "div" /\ c.acts[6] = Const(a) /\ c.acts[7].op = "cos"
        /\ c.acts[8] = Const(a) /\ c.acts[9].op = "div" /\ c.acts[10].op = "minus"
    BY <1>7, BesselActs
  <2>3. From(c, p, 11, Combined("minus", Combined("div", s, sq), Combined("div", k, x)), <<>>, u)
    <3>1. 10 <= Len(c.acts)
      BY <2>2
    <3> QED
      BY <1>4, <2>2, <3>1, BesselSum
  <2>4. 11 = Len(c.acts) + 1
    BY <2>2
  <2> HIDE DEF p, S, x, s, k, sq
  <2> QED
    BY <1>1, <1>2, <1>4, <2>1, <2>3, <2>4, EndsAt DEF p
<1>8. CASE op = "besy1"
  <2> DEFINE q == Combined("plus", Combined("div", k, sq), Combined("div", s, x))
  <2>1. S = Applied("uminus", q)
    BY <1>8 DEF BesselOf
  <2>2. /\ Len(c.acts) = 11 /\ c.acts[1].op = "cos" /\ c.acts[2] = Const(a) /\ c.acts[3] = Const(a)
        /\ c.acts[4].op = "mult" /\ c.acts[5].op = "div" /\ c.acts[6] = Const(a) /\ c.acts[7].op = "sin"
        /\ c.acts[8] = Const(a) /\ c.acts[9].op = "div" /\ c.acts[10].op = "plus"
        /\ c.acts[11].op = "uminus"
    BY <1>8, BesselActs
  <2>3. From(c, p, 11, q, <<>>, u)
    <3>1. 10 <= Len(c.acts)
      BY <2>2
    <3> QED
      BY <1>4, <2>2, <3>1, BesselSum
  <2> HIDE DEF p, S, x, s, k, sq
  <2>4. q \in SUBSET Results
    <3> DEFINE l == Combined("div", k, sq)
               r == Combined("div", s, x)
    <3>1. l \in SUBSET Results /\ r \in SUBSET Results
      BY <1>3, BesselOps, CombinedTyped
    <3> HIDE DEF l, r
    <3>2. Combined("plus", l, r) \in SUBSET Results
      BY <3>1, BesselOps, CombinedTyped
    <3> QED
      BY <3>2 DEF l, r
  <2> HIDE DEF q
  <2>5. From(c, p, 11 + 1, Applied(c.acts[11].op, q), <<>>, u)
    <3>1. 11 \in 1..Len(c.acts) /\ c.acts[11].op \in UnaryOps
      BY <2>2, BesselOps
    <3> QED
      BY <1>4, <2>3, <2>4, <3>1, FromUnary
  <2>6. From(c, p, 12, S, <<>>, u) /\ 12 = Len(c.acts) + 1
    <3>1. 11 + 1 = 12 /\ 12 = Len(c.acts) + 1
      BY <2>2
    <3> QED
      BY <2>1, <2>2, <2>5, <3>1
  <2> QED
    BY <1>1, <1>2, <1>4, <2>6, EndsAt DEF p
<1> QED
  BY <1>5, <1>6, <1>7, <1>8 DEF Bessel

=============================================================================

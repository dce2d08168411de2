--------------------------- MODULE MCToddCoxeter ---------------------------
(* Instances of ToddCoxeter for TLC: all short presentations of groups on  *)
(* two generators, and the actions of these groups on three points.        *)
EXTENDS ToddCoxeter, TLC

CONSTANTS MaxLength   \* of a relation

Generators == {-2, -1, 1, 2}
Reduced(w) == \A p \in 1 .. Len(w) - 1 : w[p] # -w[p + 1]
ShortWords(n) == {w \in UNION {[1 .. m -> Generators] : m \in 1 .. n} : Reduced(w)}

\* Two relations in which both variables occur, and at most one short word
\* that generates the subgroup.
Occurring(u, v) ==
    {IF x < 0 THEN -x ELSE x :
        x \in {u[p] : p \in 1 .. Len(u)} \cup {v[p] : p \in 1 .. Len(v)}}

ShortPresentations ==
    {[rels |-> <<uv[1], uv[2]>>, sub |-> s] :
        uv \in {x \in ShortWords(MaxLength) \X ShortWords(MaxLength) :
                   Occurring(x[1], x[2]) = {1, 2}},
        s \in {<<>>} \cup {<<w>> : w \in ShortWords(1)}}

Points == 1 .. 3

\* All pairs of permutations of the points, as tables.
PermutationTables ==
    {[r \in Generators |-> [p \in Points |->
        IF r > 0 THEN f[r][p] ELSE CHOOSE q \in Points : f[-r][q] = p]] :
            f \in [{1, 2} -> Permutations(Points)]}

\* todd_coxeter([x . y^^-2, y]) and
\* todd_coxeter([y^^-4, y^^-1 . x^^2 . y^^-1, x . y . x^^-1]).
TrivialGroup == {[rels |-> <<<<1, -2, -2>>, <<2>>>>, sub |-> <<>>]}
GroupOfOrderTwo ==
    {[rels |-> <<<<-2, -2, -2, -2>>, <<-2, 1, 1, -2>>, <<1, 2, -1>>>>, sub |-> <<>>]}
=============================================================================

---------------------------- MODULE ToddCoxeter ----------------------------
(***************************************************************************)
(* Coset enumeration, src/todd-coxeter.lisp: todd_coxeter(relations,       *)
(* subgroup) finds the order of G/H, for the group G with these relations  *)
(* and the subgroup H that the words of "subgroup" generate.               *)
(*                                                                         *)
(* The variables x, y, ... are 1 .. NVars and their inverses the negative  *)
(* numbers.  The algorithm builds a table of the cosets: it traces every   *)
(* relation from every coset, inventing cosets where the table is          *)
(* undefined, and identifies two cosets when a relation forces it to.      *)
(* Identifying renumbers the cosets in the table, and in the queue of the  *)
(* identifications that are still to be done.                              *)
(***************************************************************************)
EXTENDS Integers, Sequences

CONSTANTS
    NVars,          \* number of variables in the relations
    Presentations,  \* the inputs: records of a "rels" and a "sub" list of words
    MaxCosets,      \* bound on ncosets: a bigger enumeration is not followed
    NPoints,        \* the result is compared with actions on 1 .. NPoints:
    PointTables     \* PointTables[r][p], for the variables and their inverses

Letters == (-NVars .. NVars) \ {0}
Cosets == 1 .. MaxCosets
Words == Seq(Letters) \ {<<>>}

ASSUME NVarsAssumption == NVars \in Nat
ASSUME MaxCosetsAssumption == MaxCosets \in Nat \ {0}
ASSUME NPointsAssumption == NPoints \in Nat \ {0}
ASSUME PresentationsAssumption ==
    \A p \in Presentations : p.rels \in Seq(Words) \ {<<>>} /\ p.sub \in Seq(Words)
\* $todd_coxeter takes the variables from the relations (listofvars).
ASSUME VariablesAssumption ==
    \A p \in Presentations, v \in 1 .. NVars :
        \E q \in 1 .. Len(p.rels) : \E l \in 1 .. Len(p.rels[q]) : p.rels[q][l] \in {v, -v}

VARIABLES
    pres,      \* the input
    ncosets,   \* tc-state-ncosets
    table,     \* tc-state-multiply-table: table[r][k] is k times r, 0 if undefined
    todo,      \* *todo*: pairs of cosets that are to be made equal, last one first
    phase,     \* "row", "replace", "done", or "full" when MaxCosets is exceeded
    i,         \* the row that is done, or still to be done
    left,      \* v in doing-row: the relations that row i has still to satisfy
    rel,       \* what is left of the first of them
    k,         \* the coset that the trace has reached
    misnamed,  \* a pair was popped in which the first coset is the greater one
    skipped    \* a coset was removed in front of row i

vars == <<pres, ncosets, table, todo, phase, i, left, rel, k, misnamed, skipped>>
traceVars == <<i, left, rel, k>>
ghostVars == <<misnamed, skipped>>

Relations(row) == IF row = 1 THEN pres.sub \o pres.rels ELSE pres.rels

\* Row "row" begins if there is such a row; otherwise the enumeration is over.
BeginRow(row, n) ==
    /\ i' = row
    /\ left' = Relations(row)
    /\ rel' = Head(Relations(row))
    /\ k' = row
    /\ phase' = IF row <= n THEN "row" ELSE "done"

Init ==
    /\ pres \in Presentations
    /\ ncosets = 1
    /\ table = [r \in Letters |-> [c \in Cosets |-> 0]]
    /\ todo = <<>>
    /\ phase = "row"
    /\ i = 1
    /\ left = Relations(1)
    /\ rel = Head(left)
    /\ k = 1
    /\ misnamed = FALSE
    /\ skipped = FALSE

-----------------------------------------------------------------------------
(* doing-row: one step for each letter of a relation.                      *)

\* Mutant of DefineMult: the inverse is forgotten.
DefineMultOneWay(t, c, r, s) == [t EXCEPT ![r] = [@ EXCEPT ![c] = s]]

\* define-tc-mult: k . r = s and k = s . r^-1 in the table t.
DefineMult(t, c, r, s) ==
    [t EXCEPT ![r] = [@ EXCEPT ![c] = s], ![-r] = [@ EXCEPT ![s] = c]]

\* next-coset leaves no trace of an earlier coset of that number.
Cleared(n) == [r \in Letters |-> [table[r] EXCEPT ![n] = 0]]

Tracing == phase = "row"
Product == table[Head(rel)][k]
LastLetter == Len(rel) = 1

NextCoset ==
    /\ Tracing /\ Product = 0 /\ ~LastLetter
    /\ ncosets < MaxCosets
    /\ ncosets' = ncosets + 1
    /\ table' = DefineMult(Cleared(ncosets + 1), k, Head(rel), ncosets + 1)
    /\ k' = ncosets + 1
    /\ rel' = Tail(rel)
    /\ UNCHANGED <<pres, todo, phase, i, left, ghostVars>>

Follow ==
    /\ Tracing /\ Product # 0 /\ ~LastLetter
    /\ k' = Product
    /\ rel' = Tail(rel)
    /\ UNCHANGED <<pres, ncosets, table, todo, phase, i, left, ghostVars>>

\* Mutant of Agrees: an undefined product is not compared with what the inverse
\* says.
AgreesUndefined == Product = 0 \/ Product = i

\* The relation leads back to coset i; if the table does not say so yet, it
\* does now.
Agrees ==
    IF Product = 0 THEN table[-Head(rel)][i] \in {0, k} ELSE Product = i

EndRelation ==
    /\ Tracing /\ LastLetter /\ Agrees
    /\ table' = IF Product = 0 /\ table[-Head(rel)][i] = 0
                  THEN DefineMult(table, k, Head(rel), i) ELSE table
    /\ IF Len(left) > 1
         THEN /\ left' = Tail(left)
              /\ rel' = left[2]
              /\ k' = i
              /\ UNCHANGED <<i, phase>>
         ELSE BeginRow(i + 1, ncosets)
    /\ UNCHANGED <<pres, ncosets, todo, ghostVars>>

Pair(a, b) == IF a < b THEN <<a, b>> ELSE <<b, a>>

\* Two cosets are the same.  doing-row gives up the row; when the relation was
\* the last one, its result nil says that the row is finished.
Coincidence ==
    /\ Tracing /\ LastLetter /\ ~Agrees
    /\ todo' = <<IF Product = 0 THEN Pair(k, table[-Head(rel)][i]) ELSE Pair(i, Product)>>
    /\ phase' = "replace"
    /\ i' = IF Len(left) > 1 THEN i ELSE i + 1
    /\ UNCHANGED <<pres, ncosets, table, left, rel, k, ghostVars>>

Overflow ==
    /\ Tracing /\ Product = 0 /\ ~LastLetter
    /\ ncosets = MaxCosets
    /\ phase' = "full"
    /\ UNCHANGED <<pres, ncosets, table, todo, traceVars, ghostVars>>

-----------------------------------------------------------------------------
(* replace-coset-in-multiply-table.                                        *)

\* Mutants of Renamed: the guard of the shift is lost; n is shifted, not replaced.
RenamedUnguarded(s, m, n) == IF s = n THEN m ELSE s - 1
RenamedShifted(s, m, n) == IF s >= n THEN s - 1 ELSE s

\* The number of coset s once n is replaced by m, and the later ones move up.
Renamed(s, m, n) == IF s > n THEN s - 1 ELSE IF s = n THEN m ELSE s

\* Mutant of Inherited: what n is sent to is dropped.
InheritedNothing(r, m, n) == table[r]

\* What n is sent to, m is sent to as well.
Inherited(r, m, n) ==
    IF table[r][m] = 0 THEN [table[r] EXCEPT ![m] = table[r][n]] ELSE table[r]

\* The column of variable r without coset n; beyond the last coset it is stale.
Merged(r, m, n) ==
    LET column == Inherited(r, m, n)
    IN [c \in Cosets |->
           IF c < n THEN Renamed(column[c], m, n)
           ELSE IF c < ncosets THEN Renamed(column[c + 1], m, n)
           ELSE column[c]]

\* The identifications that this one forces, in the order of the variables.
Clashes(m, n) ==
    LET clash(r) ==
            IF table[r][n] # 0 /\ table[r][m] # 0 /\ table[r][n] # table[r][m]
              THEN <<Pair(table[r][m], table[r][n])>> ELSE <<>>
        upTo[r \in 0 .. NVars] == IF r = 0 THEN <<>> ELSE upTo[r - 1] \o clash(r)
    IN upTo[NVars]

\* Mutant of Popped: the pair stays in the queue.
PoppedNothing == todo

Popped == SubSeq(todo, 1, Len(todo) - 1)

\* Replace the second coset of the last pair by the first.  When all cosets are
\* gone the enumeration is not followed further.
Replace ==
    /\ phase = "replace" /\ todo # <<>> /\ ncosets > 0
    /\ LET m == todo[Len(todo)][1]
           n == todo[Len(todo)][2]
           after == Popped \o Clashes(m, n)
       IN /\ m # n
          /\ table' = [r \in Letters |-> IF r > 0 THEN Merged(r, m, n) ELSE table[r]]
          /\ todo' = [q \in 1 .. Len(after) |->
                         <<Renamed(after[q][1], m, n), Renamed(after[q][2], m, n)>>]
          /\ misnamed' = (misnamed \/ m > n)
          /\ skipped' = (skipped \/ n < i)
    /\ ncosets' = ncosets - 1
    /\ UNCHANGED <<pres, phase, traceVars>>

\* A pair that an earlier replacement has already made equal.
SkipPair ==
    /\ phase = "replace" /\ todo # <<>>
    /\ todo[Len(todo)][1] = todo[Len(todo)][2]
    /\ todo' = Popped
    /\ UNCHANGED <<pres, ncosets, table, phase, traceVars, ghostVars>>

\* fill-in-inverses notes for every coset which coset variable r sends there.
\* Noted(r, b): what it has noted when it has been through the cosets up to b;
\* beyond the last coset the column of the inverse is not cleared first.
Noted(r, b) ==
    [c \in Cosets |->
        IF \E a \in 1 .. b : table[r][a] = c
          THEN CHOOSE a \in 1 .. b : table[r][a] = c
          ELSE IF c <= ncosets THEN 0 ELSE table[-r][c]]

\* Coset b is sent where something is noted already.
Repeats(r, b) == table[r][b] # 0 /\ Noted(r, b - 1)[table[r][b]] # 0
HasRepeat(r) == \E b \in 1 .. ncosets : Repeats(r, b)

\* The first repetition, of the first variable that has one, ends the filling.
RepeatFound ==
    /\ phase = "replace" /\ todo = <<>>
    /\ \E r \in 1 .. NVars, b \in 1 .. ncosets :
          /\ \A q \in 1 .. r - 1 : ~HasRepeat(q)
          /\ Repeats(r, b) /\ \A d \in 1 .. b - 1 : ~Repeats(r, d)
          /\ todo' = <<<<Noted(r, b - 1)[table[r][b]], b>>>>
          /\ table' = [q \in Letters |->
                          IF q > 0 \/ -q > r THEN table[q]
                          ELSE Noted(-q, IF -q = r THEN b - 1 ELSE ncosets)]
    /\ UNCHANGED <<pres, ncosets, phase, traceVars, ghostVars>>

FillInverses ==
    /\ phase = "replace" /\ todo = <<>>
    /\ \A r \in 1 .. NVars : ~HasRepeat(r)
    /\ table' = [r \in Letters |-> IF r > 0 THEN table[r] ELSE Noted(-r, ncosets)]
    /\ BeginRow(i, ncosets)
    /\ UNCHANGED <<pres, ncosets, todo, ghostVars>>

Next ==
    \/ NextCoset \/ Follow \/ EndRelation \/ Coincidence \/ Overflow
    \/ Replace \/ SkipPair \/ RepeatFound \/ FillInverses

Spec == Init /\ [][Next]_vars /\ WF_vars(Next)
-----------------------------------------------------------------------------
(* Properties.                                                             *)

TypeOK ==
    /\ pres.rels \in Seq(Words) \ {<<>>} /\ pres.sub \in Seq(Words)
    /\ ncosets \in 0 .. MaxCosets
    /\ table \in [Letters -> [Cosets -> Cosets \cup {0}]]
    /\ todo \in Seq(Cosets \X Cosets)
    /\ phase \in {"row", "replace", "done", "full"}
    /\ i \in Nat \ {0}
    /\ left \in Seq(Words)
    /\ rel \in Seq(Letters)
    /\ k \in Nat
    /\ misnamed \in BOOLEAN /\ skipped \in BOOLEAN

\* Where the word w leads from c in the table t, 0 if it leads nowhere.
Walk(t, c, w) ==
    LET at[n \in 0 .. Len(w)] ==
            IF n = 0 THEN c ELSE IF at[n - 1] = 0 THEN 0 ELSE t[w[n]][at[n - 1]]
    IN at[Len(w)]

\* The table t is an action of G, on the numbers 1 to n, in which H fixes 1.
IsAction(t, n) ==
    /\ \A r \in Letters, c \in 1 .. n :
          t[r][c] \in 1 .. n /\ t[-r][t[r][c]] = c
    /\ \A q \in 1 .. Len(pres.rels), c \in 1 .. n : Walk(t, c, pres.rels[q]) = c
    /\ \A q \in 1 .. Len(pres.sub) : Walk(t, 1, pres.sub[q]) = 1

\* Every coset but the first is reached from another set of cosets.
Transitive ==
    \A S \in SUBSET (1 .. ncosets) :
        1 \in S /\ (\A r \in Letters, c \in S : table[r][c] \in S) => S = 1 .. ncosets

\* While rows are done the columns of a variable and of its inverse agree, and
\* name only cosets that exist (the comment above doing-row: "the
\* multiply-table is accurate, up to our current state of knowledge").
TableAccurate ==
    phase \in {"row", "done"} /\ ~misnamed =>
        \A r \in Letters, c \in 1 .. ncosets :
            table[r][c] # 0 =>
                table[r][c] <= ncosets /\ table[-r][table[r][c]] = c

\* An enumeration that ends without having passed over a row gives the action
\* of G on the cosets of H (doing-row, replace-coset-in-multiply-table).
ResultIsAction ==
    phase = "done" /\ ~misnamed /\ ~skipped => IsAction(table, ncosets) /\ Transitive

\* No two cosets are identified but by the relations: every action of G in
\* which H fixes a point is an image of the table, and of the pairs to be made
\* equal (replace-coset-in-multiply-table, doing-row, fill-in-inverses).  With
\* ResultIsAction this makes the result the order of G/H.
NothingMerged ==
    ~misnamed =>
        \A t \in PointTables :
            IsAction(t, NPoints) =>
                \E f \in [1 .. ncosets -> 1 .. NPoints] :
                    /\ f[1] = 1
                    /\ \A r \in 1 .. NVars, c \in 1 .. ncosets :
                          table[r][c] # 0 => f[table[r][c]] = t[r][f[c]]
                    /\ \A q \in 1 .. Len(todo) : f[todo[q][1]] = f[todo[q][2]]

\* c and d are the same coset once the pending pairs of "pairs" are made equal.
Same(c, d, pairs) ==
    \/ c = d
    \/ \E q \in 1 .. Len(pairs) : pairs[q] \in {<<c, d>>, <<d, c>>}

\* "The replacement is done carefully so as not to lose ANY information from
\* multiply-table, without recording it in *todo*" (the comment above
\* replace-coset-in-multiply-table): every product that was known is known
\* under the new numbers, or will be once the pending pairs are made equal.
NothingLost ==
    [][\A m, n \in Cosets : Replace /\ todo[Len(todo)] = <<m, n>> /\ m < n =>
          \A r \in 1 .. NVars, c \in 1 .. ncosets :
              table[r][c] # 0 =>
                  Same(table'[r][Renamed(c, m, n)], Renamed(table[r][c], m, n), todo')]_vars

\* Every enumeration ends, unless it outgrows the bound or a pair is misnamed
\* (todd-coxeter: the loop over the rows, and the loop of the replacements).
Terminates == <>(phase \in {"done", "full"} \/ misnamed)

-----------------------------------------------------------------------------
(* What the source and the documentation say, and the code does not do.    *)

\* src/todd-coxeter.lisp, todd-coxeter: "Returns order of G/H, where G is
\* Free/(rels)"; the cosets that are counted satisfy the relations, also when
\* no pair was misnamed.
CosetsSatisfyRelations ==
    phase = "done" /\ ~misnamed =>
        \A q \in 1 .. Len(pres.rels), c \in 1 .. ncosets :
            Walk(table, c, pres.rels[q]) = c
=============================================================================

------------------------- MODULE ToddCoxeterProofs -------------------------
(* Coset enumeration, for any presentations, any bound on the cosets and    *)
(* any actions that the result is compared with: the table is accurate      *)
(* while rows are done, no two cosets are identified but by the relations,  *)
(* no product is lost, and the table that is left is an action of the group *)
(* on the cosets, all of which are reached from the first.                  *)
EXTENDS ToddCoxeter, TLAPS, FiniteSetTheorems, SequenceTheorems, NaturalsInduction,
        WellFoundedInduction

-----------------------------------------------------------------------------
(* Induction on the natural numbers, by least elements.                    *)

LEMMA LeastNatural ==
    ASSUME NEW S \in SUBSET Nat, S # {}
    PROVE  \E n \in S : \A m \in S : n <= m
<1> DEFINE R == {ss \in Nat \X Nat : ss[1] < ss[2]}
<1>1. IsWellFoundedOn(R, Nat)
  BY NatLessThanWellFounded DEF OpToRel
<1> HIDE DEF R
<1>2. PICK n \in S : \A m \in S : <<m, n>> \notin R
  BY <1>1, WFMin
<1>3. \A m \in S : ~ (m < n)
  BY <1>2 DEF R
<1> QED
  BY <1>3

\* A set that holds 0 and with each number the next one holds them all.
LEMMA EveryNatural ==
    ASSUME NEW S, 0 \in S, \A n \in Nat : n \in S => n + 1 \in S
    PROVE  \A n \in Nat : n \in S
<1> SUFFICES ASSUME Nat \ S # {} PROVE FALSE
  OBVIOUS
<1>1. PICK n \in Nat \ S : \A m \in Nat \ S : n <= m
  BY LeastNatural
<1>2. n - 1 \in Nat /\ n - 1 \in S
  BY <1>1
<1> QED
  BY <1>1, <1>2

-----------------------------------------------------------------------------
(* Clashes is made of a function by recursion on the variables.            *)

Clash(m, n, r) ==
    IF table[r][n] # 0 /\ table[r][m] # 0 /\ table[r][n] # table[r][m]
      THEN <<Pair(table[r][m], table[r][n])>> ELSE <<>>

\* g is that function, for the variables up to v.
IsUpTo(g, m, n, v) ==
    g = [r \in 0 .. v |-> IF r = 0 THEN <<>> ELSE g[r - 1] \o Clash(m, n, r)]

LEMMA UpToAt ==
    ASSUME NEW m, NEW n, NEW v \in Nat, NEW g, IsUpTo(g, m, n, v), NEW r \in 0 .. v
    PROVE  g[r] = IF r = 0 THEN <<>> ELSE g[r - 1] \o Clash(m, n, r)
<1>1. [q \in 0 .. v |-> IF q = 0 THEN <<>> ELSE g[q - 1] \o Clash(m, n, q)][r] =
         IF r = 0 THEN <<>> ELSE g[r - 1] \o Clash(m, n, r)
  OBVIOUS
<1> QED
  BY <1>1, Zenon DEF IsUpTo

LEMMA UpToExists ==
    ASSUME NEW m, NEW n, NEW v \in Nat
    PROVE  \E g : IsUpTo(g, m, n, v)
<1> DEFINE S == {k0 \in Nat : \E g : IsUpTo(g, m, n, k0)}
<1>1. 0 \in S
  <2>1. IsUpTo([r \in 0 .. 0 |-> <<>>], m, n, 0)
    BY DEF IsUpTo
  <2> QED
    BY <2>1
<1>2. ASSUME NEW d \in Nat, d \in S
      PROVE  d + 1 \in S
  <2>1. PICK g : IsUpTo(g, m, n, d)
    BY <1>2
  <2> DEFINE new == g[d] \o Clash(m, n, d + 1)
  <2> DEFINE h == [r \in 0 .. d + 1 |-> IF r = d + 1 THEN new ELSE g[r]]
  <2>2. ASSUME NEW r \in 0 .. d + 1
        PROVE  h[r] = IF r = 0 THEN <<>> ELSE h[r - 1] \o Clash(m, n, r)
    <3>1. CASE r = d + 1
      <4> HIDE DEF new
      <4>1. r # 0 /\ r - 1 = d /\ d \in 0 .. d + 1 /\ d # d + 1
        BY <3>1
      <4>2. h[r] = new /\ h[d] = g[d]
        BY <3>1, <4>1
      <4> QED
        BY <3>1, <4>1, <4>2 DEF new
    <3>2. CASE r # d + 1
      <4>1. r \in 0 .. d /\ (r # 0 => r - 1 \in 0 .. d)
        BY <3>2
      <4>2. h[r] = g[r] /\ (r # 0 => h[r - 1] = g[r - 1])
        BY <4>1
      <4>3. g[r] = IF r = 0 THEN <<>> ELSE g[r - 1] \o Clash(m, n, r)
        BY <2>1, <4>1, UpToAt
      <4> QED
        BY <4>2, <4>3
    <3> QED
      BY <3>1, <3>2
  <2>3. h = [r \in 0 .. d + 1 |-> IF r = 0 THEN <<>> ELSE h[r - 1] \o Clash(m, n, r)]
    <3>1. h = [r \in 0 .. d + 1 |-> h[r]]
      OBVIOUS
    <3> HIDE DEF h
    <3> QED
      BY <2>2, <3>1
  <2>4. IsUpTo(h, m, n, d + 1)
    BY <2>3 DEF IsUpTo
  <2> QED
    BY <2>4
<1> HIDE DEF S
<1>3. \A d \in Nat : d \in S
  BY <1>1, <1>2, EveryNatural
<1> QED
  BY <1>3 DEF S

UpToStep(up, m, n, r) == up[r] = IF r = 0 THEN <<>> ELSE up[r - 1] \o Clash(m, n, r)

LEMMA ClashesUpTo ==
    ASSUME NEW m, NEW n
    PROVE  \E up : /\ Clashes(m, n) = up[NVars]
                   /\ \A r \in 0 .. NVars : UpToStep(up, m, n, r)
<1>0. NVars \in Nat
  BY NVarsAssumption
<1> DEFINE up == CHOOSE g : IsUpTo(g, m, n, NVars)
<1>1. IsUpTo(up, m, n, NVars)
  BY <1>0, UpToExists
<1>2. Clashes(m, n) = up[NVars]
  BY DEF Clashes, IsUpTo, Clash
<1> HIDE DEF up
<1>3. \A r \in 0 .. NVars : UpToStep(up, m, n, r)
  <2> TAKE r \in 0 .. NVars
  <2>1. PICK v \in Nat : v = NVars
    BY <1>0
  <2>2. up[r] = IF r = 0 THEN <<>> ELSE up[r - 1] \o Clash(m, n, r)
    BY <1>1, <2>1, UpToAt
  <2> QED
    BY <2>2 DEF UpToStep
<1> QED
  BY <1>2, <1>3

LEMMA UpToType ==
    ASSUME NEW m, NEW n, NEW P, NEW up,
           \A r \in 0 .. NVars : UpToStep(up, m, n, r),
           \A r \in 1 .. NVars : Clash(m, n, r) \in Seq(P)
    PROVE  \A r \in 0 .. NVars : up[r] \in Seq(P)
<1>0. NVars \in Nat
  BY NVarsAssumption
<1> DEFINE S == {r \in Nat : r <= NVars => up[r] \in Seq(P)}
<1>1. 0 \in S
  <2>1. up[0] = <<>>
    BY <1>0 DEF UpToStep
  <2> QED
    BY <2>1, EmptySeq
<1>2. ASSUME NEW r \in Nat, r \in S PROVE r + 1 \in S
  <2> SUFFICES ASSUME r + 1 <= NVars PROVE up[r + 1] \in Seq(P)
    OBVIOUS
  <2>1. PICK d \in 0 .. NVars : d = r + 1 /\ d # 0 /\ d - 1 = r /\ r <= NVars /\ d \in 1 .. NVars
    BY <1>0
  <2>2. up[d] = up[r] \o Clash(m, n, d)
    BY <2>1 DEF UpToStep
  <2>3. up[r] \in Seq(P) /\ Clash(m, n, d) \in Seq(P)
    BY <1>2, <2>1
  <2> QED
    BY <2>1, <2>2, <2>3
<1> HIDE DEF S
<1>3. \A r \in Nat : r \in S
  BY <1>1, <1>2, EveryNatural
<1> QED
  BY <1>0, <1>3 DEF S

\* What holds of every pair that an identification forces holds of Clashes.
LEMMA ClashesAre ==
    ASSUME NEW m, NEW n, NEW P,
           \A r \in 1 .. NVars : Clash(m, n, r) \in Seq(P)
    PROVE  Clashes(m, n) \in Seq(P)
<1>1. PICK up : Clashes(m, n) = up[NVars] /\ \A r \in 0 .. NVars : UpToStep(up, m, n, r)
  BY ClashesUpTo
<1>2. NVars \in 0 .. NVars
  BY NVarsAssumption
<1> QED
  BY <1>1, <1>2, UpToType

\* Clashes has every pair that is forced.
LEMMA ClashesHave ==
    ASSUME NEW m, NEW n, NEW P, \A r \in 1 .. NVars : Clash(m, n, r) \in Seq(P),
           NEW x \in 1 .. NVars, NEW p, Clash(m, n, x) = <<p>>
    PROVE  \E q \in 1 .. Len(Clashes(m, n)) : Clashes(m, n)[q] = p
<1>0. NVars \in Nat
  BY NVarsAssumption
<1>1. PICK up : Clashes(m, n) = up[NVars] /\ \A r \in 0 .. NVars : UpToStep(up, m, n, r)
  BY ClashesUpTo
<1>2. \A r \in 0 .. NVars : up[r] \in Seq(P)
  BY <1>1, UpToType
<1> DEFINE S == {v \in Nat : x <= v /\ v <= NVars => \E q \in 1 .. Len(up[v]) : up[v][q] = p}
<1>3. 0 \in S
  OBVIOUS
<1>4. ASSUME NEW v \in Nat, v \in S PROVE v + 1 \in S
  <2> SUFFICES ASSUME x <= v + 1, v + 1 <= NVars
               PROVE  \E q \in 1 .. Len(up[v + 1]) : up[v + 1][q] = p
    OBVIOUS
  <2>1. PICK d \in 0 .. NVars : d = v + 1 /\ d # 0 /\ d - 1 = v /\ v \in 0 .. NVars /\ d \in 1 .. NVars
    BY <1>0
  <2>2. up[d] = up[v] \o Clash(m, n, d)
    BY <1>1, <2>1 DEF UpToStep
  <2>3. PICK a \in Seq(P), b \in Seq(P) : a = up[v] /\ b = Clash(m, n, d)
    BY <1>2, <2>1
  <2>4. CASE x = d
    <3>1. b = <<p>>
      BY <2>3, <2>4
    <3>2. Len(a) + 1 \in 1 .. Len(a \o b) /\ (a \o b)[Len(a) + 1] = p
      BY <3>1
    <3> QED
      BY <2>1, <2>2, <2>3, <3>2
  <2>5. CASE x # d
    <3>1. PICK q \in 1 .. Len(a) : a[q] = p
      BY <1>4, <2>1, <2>3, <2>5
    <3>2. q \in 1 .. Len(a \o b) /\ (a \o b)[q] = p
      BY <3>1
    <3> QED
      BY <2>1, <2>2, <2>3, <3>2
  <2> QED
    BY <2>4, <2>5
<1> HIDE DEF S
<1>5. \A v \in Nat : v \in S
  BY <1>3, <1>4, EveryNatural
<1> QED
  BY <1>0, <1>1, <1>5 DEF S

-----------------------------------------------------------------------------
(* Tables.                                                                 *)

Tables == [Letters -> [Cosets -> Cosets \cup {0}]]

LEMMA LettersFacts == \A r \in Letters : r \in Int /\ -r \in Letters /\ r # -r /\ -(-r) = r
BY NVarsAssumption DEF Letters

LEMMA Variables ==
    /\ \A r \in 1 .. NVars : r \in Letters
    /\ \A r \in Letters : r > 0 => r \in 1 .. NVars
    /\ \A r \in Letters : ~(r > 0) => -r \in 1 .. NVars
BY NVarsAssumption DEF Letters

\* u is t with one entry of a variable and one of its inverse written.
IsDefined(u, t, c, r, s) ==
    \A q \in Letters, d \in Cosets :
        u[q][d] = IF q = r /\ d = c THEN s ELSE IF q = -r /\ d = s THEN c ELSE t[q][d]

LEMMA DefineMultIs ==
    ASSUME NEW t \in Tables, NEW c \in Cosets, NEW r \in Letters, NEW s \in Cosets
    PROVE  DefineMult(t, c, r, s) \in Tables /\ IsDefined(DefineMult(t, c, r, s), t, c, r, s)
<1>0. -r \in Letters /\ r # -r
  BY LettersFacts
<1>1. \A q \in Letters : t[q] \in [Cosets -> Cosets \cup {0}]
  BY DEF Tables
<1> DEFINE u == [t[r] EXCEPT ![c] = s]
           v == [t[-r] EXCEPT ![s] = c]
<1>2. u \in [Cosets -> Cosets \cup {0}] /\ v \in [Cosets -> Cosets \cup {0}]
  BY <1>0, <1>1
<1>3. (\A d \in Cosets : u[d] = IF d = c THEN s ELSE t[r][d]) /\
      (\A d \in Cosets : v[d] = IF d = s THEN c ELSE t[-r][d])
  BY <1>0, <1>1
<1>4. DefineMult(t, c, r, s) = [t EXCEPT ![r] = u, ![-r] = v]
  BY <1>0 DEF DefineMult, Tables
<1> HIDE DEF u, v
<1>5. DefineMult(t, c, r, s) \in Tables
  BY <1>0, <1>2, <1>4 DEF Tables
<1>6. \A q \in Letters :
         DefineMult(t, c, r, s)[q] = IF q = -r THEN v ELSE IF q = r THEN u ELSE t[q]
  BY <1>0, <1>4 DEF Tables
<1> QED
  BY <1>0, <1>3, <1>5, <1>6 DEF IsDefined

LEMMA ClearedIs ==
    ASSUME table \in Tables, NEW n \in Cosets
    PROVE  /\ Cleared(n) \in Tables
           /\ \A q \in Letters, d \in Cosets :
                Cleared(n)[q][d] = IF d = n THEN 0 ELSE table[q][d]
<1>1. \A q \in Letters : table[q] \in [Cosets -> Cosets \cup {0}]
  BY DEF Tables
<1>2. \A q \in Letters : [table[q] EXCEPT ![n] = 0] \in [Cosets -> Cosets \cup {0}]
  BY <1>1
<1>3. \A q \in Letters : \A d \in Cosets :
         [table[q] EXCEPT ![n] = 0][d] = IF d = n THEN 0 ELSE table[q][d]
  BY <1>1
<1> QED
  BY <1>2, <1>3 DEF Cleared, Tables

\* Shifting and replacing the columns, and the inverses noted, give a table.
LEMMA MergedType ==
    ASSUME table \in Tables, ncosets \in 0 .. MaxCosets, NEW r \in Letters,
           NEW m \in Cosets, NEW n \in Cosets
    PROVE  Merged(r, m, n) \in [Cosets -> Cosets \cup {0}]
<1>0. MaxCosets \in Nat
  BY MaxCosetsAssumption
<1>1. PICK column \in [Cosets -> Cosets \cup {0}] : column = Inherited(r, m, n)
  <2>1. table[r] \in [Cosets -> Cosets \cup {0}]
    BY DEF Tables
  <2> QED
    BY <2>1 DEF Inherited
<1>2. \A e \in Cosets \cup {0} : Renamed(e, m, n) \in Cosets \cup {0}
  BY <1>0 DEF Renamed, Cosets
<1>3. \A c \in Cosets : c < ncosets => c + 1 \in Cosets
  BY <1>0 DEF Cosets
<1> QED
  BY <1>1, <1>2, <1>3 DEF Merged

LEMMA NotedType ==
    ASSUME table \in Tables, ncosets \in 0 .. MaxCosets, NEW r \in 1 .. NVars,
           NEW b \in 0 .. ncosets
    PROVE  Noted(r, b) \in [Cosets -> Cosets \cup {0}]
<1>1. \A a \in 1 .. b : a \in Cosets
  BY MaxCosetsAssumption DEF Cosets
<1>2. -r \in Letters
  BY Variables, LettersFacts
<1>3. \A c \in Cosets : table[-r][c] \in Cosets \cup {0}
  BY <1>2 DEF Tables
<1>4. ASSUME NEW c \in Cosets, \E a \in 1 .. b : table[r][a] = c
      PROVE  (CHOOSE a \in 1 .. b : table[r][a] = c) \in Cosets
  BY <1>1, <1>4
<1> QED
  BY <1>3, <1>4 DEF Noted

-----------------------------------------------------------------------------
(* Types.                                                                  *)

\* While rows are done there is a relation to trace, from a row of the table.
RowInv ==
    phase = "row" =>
        left # <<>> /\ rel \in Words /\ i \in 1 .. ncosets /\ k \in Cosets

TypeInv == TypeOK /\ RowInv

LEMMA TypeFacts ==
    ASSUME TypeOK
    PROVE  /\ table \in Tables /\ ncosets \in 0 .. MaxCosets /\ ncosets \in Nat
           /\ MaxCosets \in Nat /\ i \in Nat
BY MaxCosetsAssumption DEF TypeOK, Tables

\* The entries of a table, of letters and of cosets.
LEMMA EntryType ==
    ASSUME TypeOK
    PROVE  \A r \in Letters, c \in Cosets : table[r][c] \in Cosets \cup {0}
BY DEF TypeOK

LEMMA HeadTail ==
    ASSUME NEW w \in Words
    PROVE  /\ Head(w) \in Letters /\ w[1] = Head(w) /\ Len(w) \in Nat \ {0}
           /\ Tail(w) \in Seq(Letters) /\ Len(Tail(w)) = Len(w) - 1
           /\ Len(w) # 1 => Tail(w) \in Words
<1>1. w \in Seq(Letters) /\ w # <<>>
  BY DEF Words
<1>2. /\ Head(w) \in Letters /\ w[1] = Head(w) /\ Len(w) \in Nat \ {0}
      /\ Tail(w) \in Seq(Letters) /\ Len(Tail(w)) = Len(w) - 1
  BY <1>1, EmptySeq
<1>3. Len(w) # 1 => Tail(w) # <<>>
  BY <1>2, EmptySeq
<1> QED
  BY <1>2, <1>3 DEF Words

LEMMA RelationsType ==
    ASSUME TypeOK, NEW row
    PROVE  Relations(row) \in Seq(Words) /\ Relations(row) # <<>> /\ Head(Relations(row)) \in Words
<1>1. PICK rels \in Seq(Words) : rels = pres.rels /\ rels # <<>>
  BY DEF TypeOK
<1>2. PICK sub \in Seq(Words) : sub = pres.sub
  BY DEF TypeOK
<1>3. sub \o rels \in Seq(Words) /\ sub \o rels # <<>>
  BY <1>1, EmptySeq
<1>4. Relations(row) \in Seq(Words) /\ Relations(row) # <<>>
  BY <1>1, <1>2, <1>3 DEF Relations
<1> QED
  BY <1>4

\* The next row begins.
LEMMA BeginRowType ==
    ASSUME TypeOK, NEW row \in Nat \ {0}, NEW n \in 0 .. MaxCosets, BeginRow(row, n)
    PROVE  /\ i' = row /\ k' = row /\ left' = Relations(row) /\ rel' = Head(Relations(row))
           /\ left' \in Seq(Words) /\ left' # <<>> /\ rel' \in Words
           /\ phase' \in {"row", "done"} /\ (phase' = "row" <=> row <= n)
           /\ phase' = "row" => row \in 1 .. n /\ row \in Cosets
<1>1. row <= n => row \in 1 .. n /\ row \in Cosets
  BY MaxCosetsAssumption DEF Cosets
<1>2. i' = row /\ k' = row /\ left' = Relations(row) /\ rel' = Head(Relations(row))
  BY DEF BeginRow
<1>3. phase' = IF row <= n THEN "row" ELSE "done"
  BY DEF BeginRow
<1> QED
  BY <1>1, <1>2, <1>3, RelationsType

\* What the trace of a relation is at.
LEMMA TraceFacts ==
    ASSUME TypeInv, phase = "row"
    PROVE  /\ rel \in Words /\ Head(rel) \in Letters /\ -Head(rel) \in Letters
           /\ k \in Cosets /\ i \in Cosets /\ i \in 1 .. ncosets
           /\ Product \in Cosets \cup {0} /\ table[-Head(rel)][i] \in Cosets \cup {0}
           /\ left \in Seq(Words) /\ Len(left) \in Nat \ {0}
<1>1. rel \in Words /\ k \in Cosets /\ i \in 1 .. ncosets /\ left \in Seq(Words) /\ left # <<>>
  BY DEF TypeInv, RowInv, TypeOK
<1>2. i \in Cosets
  BY <1>1, TypeFacts DEF TypeInv, Cosets
<1>3. Head(rel) \in Letters /\ -Head(rel) \in Letters
  BY <1>1, HeadTail, LettersFacts
<1>4. Product \in Cosets \cup {0} /\ table[-Head(rel)][i] \in Cosets \cup {0}
  BY <1>1, <1>2, <1>3, EntryType DEF TypeInv, Product
<1>5. Len(left) \in Nat \ {0}
  BY <1>1, EmptySeq
<1> QED
  BY <1>1, <1>2, <1>3, <1>4, <1>5

LEMMA NextCosetType ==
    ASSUME TypeInv, NextCoset
    PROVE  TypeInv'
<1>1. phase = "row" /\ ~LastLetter /\ ncosets < MaxCosets
  BY DEF NextCoset, Tracing
<1>2. ncosets + 1 \in Cosets /\ ncosets + 1 \in 0 .. MaxCosets /\ \A j \in 1 .. ncosets : j \in 1 .. ncosets + 1
  BY <1>1, TypeFacts DEF TypeInv, Cosets
<1>3. table' \in Tables
  <2>1. Cleared(ncosets + 1) \in Tables
    BY <1>2, TypeFacts, ClearedIs DEF TypeInv
  <2> QED
    BY <1>1, <1>2, <2>1, TraceFacts, DefineMultIs DEF NextCoset
<1>4. rel' \in Words
  BY <1>1, TraceFacts, HeadTail DEF NextCoset, LastLetter
<1>5. TypeOK'
  BY <1>2, <1>3, <1>4 DEF NextCoset, TypeInv, TypeOK, Tables, Words, Cosets, ghostVars
<1>6. RowInv'
  BY <1>1, <1>2, <1>4, TraceFacts DEF NextCoset, TypeInv, RowInv
<1> QED
  BY <1>5, <1>6 DEF TypeInv

LEMMA FollowType ==
    ASSUME TypeInv, Follow
    PROVE  TypeInv'
<1>1. phase = "row" /\ ~LastLetter /\ Product # 0
  BY DEF Follow, Tracing
<1>2. rel' \in Words
  BY <1>1, TraceFacts, HeadTail DEF Follow, LastLetter
<1>3. k' \in Cosets
  BY <1>1, TraceFacts DEF Follow
<1>4. TypeOK'
  BY <1>2, <1>3 DEF Follow, TypeInv, TypeOK, Words, Cosets, ghostVars
<1> QED
  BY <1>1, <1>2, <1>3, <1>4 DEF Follow, TypeInv, RowInv

\* The table when a relation has led back to its row.
LEMMA EndTable ==
    ASSUME TypeInv, EndRelation
    PROVE  table' \in Tables
<1>1. phase = "row"
  BY DEF EndRelation, Tracing
<1> QED
  BY <1>1, TraceFacts, TypeFacts, DefineMultIs DEF EndRelation, TypeInv

LEMMA EndRelationType ==
    ASSUME TypeInv, EndRelation
    PROVE  TypeInv'
<1>1. phase = "row" /\ table' \in Tables
  BY EndTable DEF EndRelation, Tracing
<1>2. UNCHANGED <<pres, ncosets, todo, ghostVars>>
  BY DEF EndRelation
<1>3. CASE Len(left) > 1
  <2>1. left' = Tail(left) /\ rel' = left[2] /\ k' = i /\ UNCHANGED <<i, phase>>
    BY <1>3 DEF EndRelation
  <2>2. left' \in Seq(Words) /\ left' # <<>> /\ rel' \in Words
    <3>1. Tail(left) \in Seq(Words) /\ Len(Tail(left)) = Len(left) - 1 /\ left[2] \in Words
      BY <1>1, <1>3, TraceFacts
    <3>2. Len(Tail(left)) # 0
      BY <1>1, <1>3, <3>1, TraceFacts
    <3> QED
      BY <2>1, <3>1, <3>2, EmptySeq
  <2>3. k' \in Cosets /\ i \in 1 .. ncosets
    BY <1>1, <2>1, TraceFacts
  <2>4. TypeOK'
    BY <1>1, <1>2, <2>1, <2>2, <2>3 DEF TypeInv, TypeOK, Tables, Words, Cosets, ghostVars
  <2> QED
    BY <1>2, <2>1, <2>2, <2>3, <2>4 DEF TypeInv, RowInv
<1>4. CASE ~(Len(left) > 1)
  <2>1. BeginRow(i + 1, ncosets)
    BY <1>4 DEF EndRelation
  <2>2. i + 1 \in Nat \ {0} /\ ncosets \in 0 .. MaxCosets
    BY TypeFacts DEF TypeInv
  <2>3. /\ i' = i + 1 /\ k' = i + 1
        /\ left' \in Seq(Words) /\ left' # <<>> /\ rel' \in Words
        /\ phase' \in {"row", "done"}
        /\ phase' = "row" => i + 1 \in 1 .. ncosets /\ i + 1 \in Cosets
    BY <2>1, <2>2, BeginRowType DEF TypeInv
  <2>4. TypeOK'
    BY <1>1, <1>2, <2>2, <2>3 DEF TypeInv, TypeOK, Tables, Words, ghostVars
  <2> QED
    BY <1>2, <2>3, <2>4 DEF TypeInv, RowInv
<1> QED
  BY <1>3, <1>4

LEMMA PairType ==
    ASSUME NEW X, NEW a \in X, NEW b \in X
    PROVE  Pair(a, b) \in X \X X
BY DEF Pair

LEMMA OnePair ==
    ASSUME NEW X, NEW p \in X
    PROVE  <<p>> \in Seq(X) /\ Len(<<p>>) = 1 /\ <<p>>[1] = p
OBVIOUS

\* The two cosets that a coincidence makes equal.
LEMMA CoincidencePair ==
    ASSUME TypeInv, Coincidence
    PROVE  \/ /\ Product = 0 /\ table[-Head(rel)][i] \in Cosets
              /\ todo' = <<Pair(k, table[-Head(rel)][i])>>
           \/ /\ Product \in Cosets /\ todo' = <<Pair(i, Product)>>
<1>1. phase = "row" /\ ~Agrees
  BY DEF Coincidence, Tracing
<1>2. CASE Product = 0
  BY <1>1, <1>2, TraceFacts DEF Agrees, Coincidence
<1>3. CASE Product # 0
  BY <1>1, <1>3, TraceFacts DEF Coincidence
<1> QED
  BY <1>2, <1>3

LEMMA CoincidenceType ==
    ASSUME TypeInv, Coincidence
    PROVE  TypeInv'
<1>1. phase = "row" /\ phase' = "replace" /\ i' \in {i, i + 1} /\
      UNCHANGED <<pres, ncosets, table, left, rel, k, ghostVars>>
  BY DEF Coincidence, Tracing
<1>2. \E a, b \in Cosets : todo' = <<Pair(a, b)>>
  BY <1>1, CoincidencePair, TraceFacts
<1>3. todo' \in Seq(Cosets \X Cosets)
  BY <1>2, PairType, OnePair
<1>4. i' \in Nat \ {0}
  BY <1>1 DEF TypeInv, TypeOK
<1>5. TypeOK'
  BY <1>1, <1>3, <1>4 DEF TypeInv, TypeOK, ghostVars
<1> QED
  BY <1>1, <1>5 DEF TypeInv, RowInv

LEMMA OverflowType ==
    ASSUME TypeInv, Overflow
    PROVE  TypeInv'
BY DEF Overflow, TypeInv, TypeOK, RowInv, traceVars, ghostVars

\* The queue after a replacement: the pairs left and the pairs forced, renumbered.
LEMMA QueueIs ==
    ASSUME NEW P, todo \in Seq(P), todo # <<>>, NEW m, NEW n,
           \A r \in 1 .. NVars : Clash(m, n, r) \in Seq(P),
           NEW Q, \A p \in P : <<Renamed(p[1], m, n), Renamed(p[2], m, n)>> \in Q,
           todo' = [q \in 1 .. Len(Popped \o Clashes(m, n)) |->
                       <<Renamed((Popped \o Clashes(m, n))[q][1], m, n),
                         Renamed((Popped \o Clashes(m, n))[q][2], m, n)>>]
    PROVE  todo' \in Seq(Q)
<1>1. Popped \in Seq(P)
  <2>1. Len(todo) \in Nat \ {0}
    BY EmptySeq
  <2>2. /\ 1 \in Int /\ Len(todo) - 1 \in Int
        /\ \A j \in 1 .. Len(todo) - 1 : j \in 1 .. Len(todo)
    BY <2>1
  <2>3. \A j \in 1 .. Len(todo) - 1 : todo[j] \in P
    BY <2>2, ElementOfSeq
  <2> QED
    BY <2>2, <2>3, SubSeqProperties DEF Popped
<1>2. Clashes(m, n) \in Seq(P)
  BY ClashesAre
<1>3. PICK after \in Seq(P) : after = Popped \o Clashes(m, n)
  <2>1. \A x, y \in Seq(P) : x \o y \in Seq(P)
    OBVIOUS
  <2> QED
    BY <1>1, <1>2, <2>1
<1>4. \A q \in 1 .. Len(after) : <<Renamed(after[q][1], m, n), Renamed(after[q][2], m, n)>> \in Q
  BY ElementOfSeq
<1>5. todo' \in [1 .. Len(after) -> Q]
  BY <1>3, <1>4
<1>6. Len(after) \in Nat
  OBVIOUS
<1> QED
  BY <1>5, <1>6, SeqDef

LEMMA ClashType ==
    ASSUME NEW m, NEW n, NEW r, NEW P,
           table[r][n] # 0 /\ table[r][m] # 0 => Pair(table[r][m], table[r][n]) \in P
    PROVE  Clash(m, n, r) \in Seq(P)
BY EmptySeq, OnePair DEF Clash

LEMMA ReplaceType ==
    ASSUME TypeInv, Replace
    PROVE  TypeInv'
<1>0. /\ phase = "replace" /\ todo # <<>> /\ ncosets > 0 /\ ncosets' = ncosets - 1
      /\ UNCHANGED <<pres, phase, traceVars>>
  BY DEF Replace
<1>1. todo \in Seq(Cosets \X Cosets) /\ Len(todo) \in 1 .. Len(todo)
  BY <1>0, EmptySeq DEF TypeInv, TypeOK
<1>2. PICK m \in Cosets, n \in Cosets : m = todo[Len(todo)][1] /\ n = todo[Len(todo)][2]
  <2>1. todo[Len(todo)] \in Cosets \X Cosets
    BY <1>1, ElementOfSeq
  <2> QED
    BY <2>1
<1>3. table' = [r \in Letters |-> IF r > 0 THEN Merged(r, m, n) ELSE table[r]]
  BY <1>2 DEF Replace
<1>4. table' \in Tables
  BY <1>3, MergedType, TypeFacts DEF TypeInv, Tables
<1>5. todo' \in Seq(Cosets \X Cosets)
  <2>1. \A r \in 1 .. NVars : Clash(m, n, r) \in Seq(Cosets \X Cosets)
    <3> TAKE r \in 1 .. NVars
    <3>1. table[r][n] # 0 /\ table[r][m] # 0 => Pair(table[r][m], table[r][n]) \in Cosets \X Cosets
      BY Variables, EntryType, PairType DEF TypeInv
    <3> QED
      BY <3>1, ClashType
  <2>2. \A e \in Cosets : Renamed(e, m, n) \in Cosets
    BY TypeFacts DEF TypeInv, Renamed, Cosets
  <2>3. \A p \in Cosets \X Cosets :
           <<Renamed(p[1], m, n), Renamed(p[2], m, n)>> \in Cosets \X Cosets
    BY <2>2
  <2>4. todo' = [q \in 1 .. Len(Popped \o Clashes(m, n)) |->
                    <<Renamed((Popped \o Clashes(m, n))[q][1], m, n),
                      Renamed((Popped \o Clashes(m, n))[q][2], m, n)>>]
    BY <1>2 DEF Replace
  <2> QED
    BY <1>0, <1>1, <2>1, <2>3, <2>4, QueueIs
<1>6. misnamed' \in BOOLEAN /\ skipped' \in BOOLEAN
  BY DEF Replace
<1>7. ncosets' \in 0 .. MaxCosets
  BY <1>0, TypeFacts DEF TypeInv
<1>8. TypeOK'
  BY <1>0, <1>4, <1>5, <1>6, <1>7 DEF TypeInv, TypeOK, Tables, traceVars
<1> QED
  BY <1>0, <1>8 DEF TypeInv, RowInv

LEMMA SkipPairType ==
    ASSUME TypeInv, SkipPair
    PROVE  TypeInv' /\ \A P : todo \in Seq(P) => todo' \in Seq(P)
<1>1. ASSUME NEW P, todo \in Seq(P)
      PROVE  todo' \in Seq(P)
  <2>1. Len(todo) \in Nat \ {0}
    BY <1>1, EmptySeq DEF SkipPair
  <2>2. /\ 1 \in Int /\ Len(todo) - 1 \in Int
        /\ \A j \in 1 .. Len(todo) - 1 : j \in 1 .. Len(todo)
    BY <2>1
  <2>3. \A j \in 1 .. Len(todo) - 1 : todo[j] \in P
    BY <1>1, <2>2, ElementOfSeq
  <2> QED
    BY <2>2, <2>3, SubSeqProperties DEF Popped, SkipPair
<1>2. todo' \in Seq(Cosets \X Cosets)
  BY <1>1 DEF TypeInv, TypeOK
<1>3. TypeOK' /\ phase' = "replace"
  BY <1>2 DEF SkipPair, TypeInv, TypeOK, traceVars, ghostVars
<1> QED
  BY <1>1, <1>3 DEF TypeInv, RowInv

\* What fill-in-inverses has noted: a coset that is sent here, or, where nothing is
\* cleared, what is left of an earlier coset.
LEMMA NotedIs ==
    ASSUME NEW r, NEW b, NEW s \in Cosets
    PROVE  \/ \E a \in 1 .. b : Noted(r, b)[s] = a /\ table[r][a] = s
           \/ (\A a \in 1 .. b : table[r][a] # s) /\ s <= ncosets /\ Noted(r, b)[s] = 0
           \/ ~(s <= ncosets)
<1>1. Noted(r, b)[s] =
        IF \E a \in 1 .. b : table[r][a] = s
          THEN CHOOSE a \in 1 .. b : table[r][a] = s
          ELSE IF s <= ncosets THEN 0 ELSE table[-r][s]
  BY DEF Noted
<1> QED
  BY <1>1

\* A repetition: two cosets that a variable sends to the same one, if that exists.
IsRepetition(r, a, b) ==
    /\ table[r][b] \in Cosets
    /\ \/ a \in 1 .. b - 1 /\ table[r][a] = table[r][b]
       \/ table[r][b] > ncosets

LEMMA RepeatIs ==
    ASSUME TypeInv, RepeatFound
    PROVE  /\ \E r \in 1 .. NVars, b \in 1 .. ncosets, a \in Cosets :
                 todo' = <<<<a, b>>>> /\ IsRepetition(r, a, b)
           /\ table' \in Tables
           /\ \A r \in 1 .. NVars : table'[r] = table[r]
<1>1. PICK r \in 1 .. NVars, b \in 1 .. ncosets :
          /\ Repeats(r, b)
          /\ todo' = <<<<Noted(r, b - 1)[table[r][b]], b>>>>
          /\ table' = [q \in Letters |->
                          IF q > 0 \/ -q > r THEN table[q]
                          ELSE Noted(-q, IF -q = r THEN b - 1 ELSE ncosets)]
  BY DEF RepeatFound
<1>2. b \in Cosets /\ b - 1 \in 0 .. ncosets /\ ncosets \in 0 .. ncosets
  BY TypeFacts DEF TypeInv, Cosets
<1>3. PICK s \in Cosets : s = table[r][b]
  BY <1>1, <1>2, Variables, EntryType DEF TypeInv, Repeats
<1>4. PICK a \in Cosets : a = Noted(r, b - 1)[s]
  <2>1. Noted(r, b - 1) \in [Cosets -> Cosets \cup {0}]
    BY <1>2, TypeFacts, NotedType DEF TypeInv
  <2> QED
    BY <1>1, <1>3, <2>1 DEF Repeats
<1>5. IsRepetition(r, a, b)
  <2>1. CASE s <= ncosets
    <3>1. a # 0
      BY <1>4, TypeFacts DEF TypeInv, Cosets
    <3>2. \E d \in 1 .. b - 1 : a = d /\ table[r][d] = s
      BY <1>4, <2>1, <3>1, NotedIs
    <3> QED
      BY <1>3, <3>2 DEF IsRepetition
  <2>2. CASE ~(s <= ncosets)
    BY <1>3, <2>2, TypeFacts DEF TypeInv, IsRepetition, Cosets
  <2> QED
    BY <2>1, <2>2
<1>6. todo' = <<<<a, b>>>>
  BY <1>1, <1>3, <1>4
<1>7. table' \in Tables
  <2>1. ASSUME NEW q \in Letters, ~(q > 0), NEW d \in 0 .. ncosets
        PROVE  Noted(-q, d) \in [Cosets -> Cosets \cup {0}]
    BY <2>1, Variables, TypeFacts, NotedType DEF TypeInv
  <2>2. \A q \in Letters : table[q] \in [Cosets -> Cosets \cup {0}]
    BY TypeFacts DEF TypeInv, Tables
  <2>3. \A q \in Letters :
           (IF q > 0 \/ -q > r THEN table[q]
            ELSE Noted(-q, IF -q = r THEN b - 1 ELSE ncosets)) \in [Cosets -> Cosets \cup {0}]
    BY <1>2, <2>1, <2>2
  <2> QED
    BY <1>1, <2>3 DEF Tables
<1>8. \A q \in 1 .. NVars : table'[q] = table[q]
  BY <1>1, Variables, NVarsAssumption
<1> QED
  BY <1>5, <1>6, <1>7, <1>8

LEMMA RepeatFoundType ==
    ASSUME TypeInv, RepeatFound
    PROVE  TypeInv'
<1>0. phase' = "replace" /\ UNCHANGED <<pres, ncosets, phase, traceVars, ghostVars>>
  BY DEF RepeatFound
<1>1. PICK b \in 1 .. ncosets, a \in Cosets : todo' = <<<<a, b>>>>
  BY RepeatIs
<1>2. b \in Cosets
  BY TypeFacts DEF TypeInv, Cosets
<1>3. todo' \in Seq(Cosets \X Cosets)
  BY <1>1, <1>2, OnePair
<1>4. TypeOK'
  BY <1>0, <1>3, RepeatIs DEF TypeInv, TypeOK, Tables, traceVars, ghostVars
<1> QED
  BY <1>0, <1>4 DEF TypeInv, RowInv

\* The columns of the variables stay, those of the inverses are filled in.
LEMMA FilledIs ==
    ASSUME TypeInv, FillInverses
    PROVE  /\ table' \in Tables
           /\ \A r \in Letters :
                 table'[r] = IF r > 0 THEN table[r] ELSE Noted(-r, ncosets)
<1>1. table' = [r \in Letters |-> IF r > 0 THEN table[r] ELSE Noted(-r, ncosets)]
  BY DEF FillInverses
<1>2. ncosets \in 0 .. ncosets
  BY TypeFacts DEF TypeInv
<1>3. \A r \in Letters : ~(r > 0) => Noted(-r, ncosets) \in [Cosets -> Cosets \cup {0}]
  BY <1>2, Variables, TypeFacts, NotedType DEF TypeInv
<1>4. \A r \in Letters : table[r] \in [Cosets -> Cosets \cup {0}]
  BY TypeFacts DEF TypeInv, Tables
<1> QED
  BY <1>1, <1>3, <1>4 DEF Tables

LEMMA FillInversesType ==
    ASSUME TypeInv, FillInverses
    PROVE  TypeInv'
<1>0. BeginRow(i, ncosets) /\ UNCHANGED <<pres, ncosets, todo, ghostVars>> /\ table' \in Tables
  BY FilledIs DEF FillInverses
<1>1. i \in Nat \ {0} /\ ncosets \in 0 .. MaxCosets
  BY TypeFacts DEF TypeInv, TypeOK
<1>2. /\ i' = i /\ k' = i
      /\ left' \in Seq(Words) /\ left' # <<>> /\ rel' \in Words
      /\ phase' \in {"row", "done"}
      /\ phase' = "row" => i \in 1 .. ncosets /\ i \in Cosets
  BY <1>0, <1>1, BeginRowType DEF TypeInv
<1>3. TypeOK'
  BY <1>0, <1>1, <1>2 DEF TypeInv, TypeOK, Tables, Words, ghostVars
<1> QED
  BY <1>0, <1>2, <1>3 DEF TypeInv, RowInv

LEMMA TypeInit ==
    ASSUME Init
    PROVE  TypeInv
<1>1. MaxCosets \in Nat \ {0} /\ 1 \in Cosets
  BY MaxCosetsAssumption DEF Cosets
<1>2. pres.rels \in Seq(Words) \ {<<>>} /\ pres.sub \in Seq(Words)
  BY PresentationsAssumption DEF Init
<1>3. left \in Seq(Words) /\ left # <<>> /\ rel \in Words
  <2>1. PICK rels \in Seq(Words) : rels = pres.rels /\ rels # <<>>
    BY <1>2
  <2>2. PICK sub \in Seq(Words) : sub = pres.sub
    BY <1>2
  <2>3. sub \o rels \in Seq(Words) /\ sub \o rels # <<>>
    BY <2>1, <2>2, EmptySeq
  <2>4. left \in Seq(Words) /\ left # <<>>
    BY <2>1, <2>2, <2>3 DEF Init, Relations
  <2> QED
    BY <2>4 DEF Init
<1>4. TypeOK
  <2>1. table \in [Letters -> [Cosets -> Cosets \cup {0}]]
    BY DEF Init
  <2>2. todo \in Seq(Cosets \X Cosets)
    <3>1. todo = <<>>
      BY DEF Init
    <3> QED
      BY <3>1, EmptySeq
  <2>3. rel \in Seq(Letters)
    BY <1>3 DEF Words
  <2>4. ncosets \in 0 .. MaxCosets
    BY <1>1 DEF Init
  <2>5. phase \in {"row", "replace", "done", "full"} /\ i \in Nat \ {0} /\ k \in Nat
    BY DEF Init
  <2>6. misnamed \in BOOLEAN /\ skipped \in BOOLEAN
    BY Zenon DEF Init
  <2> QED
    BY <1>2, <1>3, <2>1, <2>2, <2>3, <2>4, <2>5, <2>6 DEF TypeOK
<1> QED
  BY <1>1, <1>3, <1>4 DEF Init, TypeInv, RowInv

LEMMA TypeNext ==
    ASSUME TypeInv, [Next]_vars
    PROVE  TypeInv'
<1>1. CASE UNCHANGED vars
  BY <1>1 DEF vars, TypeInv, TypeOK, RowInv
<1> QED
  BY <1>1, NextCosetType, FollowType, EndRelationType, CoincidenceType, OverflowType, ReplaceType,
     SkipPairType, RepeatFoundType, FillInversesType DEF Next

\* Every value has its type: a product is 0 or a coset, and only cosets are
\* queued (the arrays and the list of pairs of todd-coxeter).
THEOREM CosetsTypeCorrect == Spec => []TypeOK
<1>1. TypeInv => TypeOK
  BY DEF TypeInv
<1> QED
  BY <1>1, TypeInit, TypeNext, PTL DEF Spec

-----------------------------------------------------------------------------
(* The table is accurate while rows are done.                              *)

Accurate(t, n) ==
    \A r \in Letters, c \in 1 .. n :
        t[r][c] # 0 => t[r][c] <= n /\ t[-r][t[r][c]] = c

\* Only cosets that exist are named, by the columns of the variables at any time,
\* and by those of the inverses as well, which agree with them, while rows are
\* done.  A queued pair names cosets that exist; a replacement keeps that, for it
\* renumbers the queue with the table.
KnownInv ==
    ~misnamed =>
        /\ ncosets >= 1
        /\ \A r \in 1 .. NVars, c \in 1 .. ncosets : table[r][c] <= ncosets
        /\ todo \in Seq((1 .. ncosets) \X (1 .. ncosets))
        /\ phase = "row" => k <= ncosets
        /\ phase \in {"row", "done"} => Accurate(table, ncosets)

TableInv == TypeInv /\ KnownInv

LEMMA CosetIs ==
    ASSUME TypeOK
    PROVE  \A c \in 1 .. ncosets : c \in Cosets /\ c # 0 /\ c \in Nat
BY TypeFacts DEF Cosets

LEMMA KnownInit ==
    ASSUME Init
    PROVE  KnownInv
<1>1. \A r \in Letters, c \in Cosets : table[r][c] = 0
  BY DEF Init
<1>2. ncosets = 1 /\ k = 1 /\ todo = <<>> /\ phase = "row"
  BY DEF Init
<1>3. 1 .. 1 \subseteq Cosets
  BY MaxCosetsAssumption DEF Cosets
<1>4. \A r \in 1 .. NVars, c \in 1 .. ncosets : table[r][c] <= ncosets
  BY <1>1, <1>2, <1>3, Variables
<1>5. Accurate(table, ncosets)
  BY <1>1, <1>2, <1>3 DEF Accurate
<1>6. todo \in Seq((1 .. ncosets) \X (1 .. ncosets))
  BY <1>2, EmptySeq
<1> QED
  BY <1>2, <1>4, <1>5, <1>6 DEF KnownInv

\* A table that is accurate for n cosets, with one product more.
LEMMA DefineAccurate ==
    ASSUME NEW t \in Tables, NEW n \in Nat, n <= MaxCosets, Accurate(t, n),
           NEW c \in 1 .. n, NEW r \in Letters, NEW s \in 1 .. n,
           t[r][c] = 0, t[-r][s] = 0
    PROVE  Accurate(DefineMult(t, c, r, s), n)
<1>0. MaxCosets \in Nat /\ \A d \in 1 .. n : d \in Cosets /\ d # 0
  BY MaxCosetsAssumption DEF Cosets
<1>1. PICK u : u = DefineMult(t, c, r, s)
  OBVIOUS
<1>2. \A q \in Letters, d \in Cosets :
         u[q][d] = IF q = r /\ d = c THEN s ELSE IF q = -r /\ d = s THEN c ELSE t[q][d]
  <2>1. IsDefined(DefineMult(t, c, r, s), t, c, r, s)
    BY <1>0, DefineMultIs
  <2> QED
    BY <1>1, <2>1 DEF IsDefined
<1>3. r # -r /\ -r \in Letters /\ -(-r) = r
  BY LettersFacts
<1>4. ASSUME NEW q \in Letters, NEW d \in 1 .. n, u[q][d] # 0
      PROVE  u[q][d] <= n /\ u[-q][u[q][d]] = d
  <2>0. -q \in Letters /\ -(-q) = q /\ q # -q /\ d \in Cosets
    BY <1>0, LettersFacts
  <2>1. CASE q = r /\ d = c
    <3>1. u[q][d] = s
      BY <1>2, <2>0, <2>1
    <3>2. u[-q][s] = c
      BY <1>0, <1>2, <1>3, <2>0, <2>1
    <3> QED
      BY <2>1, <3>1, <3>2
  <2>2. CASE q = -r /\ d = s
    <3>1. u[q][d] = c /\ -q = r
      BY <1>2, <1>3, <2>0, <2>2
    <3>2. u[r][c] = s
      BY <1>0, <1>2
    <3> QED
      BY <2>2, <3>1, <3>2
  <2>3. CASE ~(q = r /\ d = c) /\ ~(q = -r /\ d = s)
    <3>1. PICK e : e = t[q][d]
      OBVIOUS
    <3>2. u[q][d] = e /\ e # 0
      BY <1>2, <1>4, <2>0, <2>3, <3>1
    <3>3. e <= n /\ t[-q][e] = d /\ e \in Cosets /\ d # 0
      <4>1. e \in Cosets \cup {0}
        BY <2>0, <3>1 DEF Tables
      <4> QED
        BY <1>0, <3>1, <3>2, <4>1 DEF Accurate
    <3>4. ~(-q = r /\ e = c) /\ ~(-q = -r /\ e = s)
      BY <1>3, <2>0, <3>3
    <3>5. u[-q][e] = d
      BY <1>2, <2>0, <3>3, <3>4
    <3> QED
      BY <3>2, <3>3, <3>5
  <2> QED
    BY <2>1, <2>2, <2>3
<1> QED
  BY <1>1, <1>4 DEF Accurate

\* A table that is accurate for n cosets stays so when a coset is added without products.
LEMMA ClearedAccurate ==
    ASSUME TypeOK, Accurate(table, ncosets), ncosets < MaxCosets
    PROVE  Accurate(Cleared(ncosets + 1), ncosets + 1)
<1>1. ncosets + 1 \in Cosets
  BY TypeFacts DEF Cosets
<1>2. PICK u \in Tables : u = Cleared(ncosets + 1)
  BY <1>1, TypeFacts, ClearedIs
<1>3. \A q \in Letters, d \in Cosets : u[q][d] = IF d = ncosets + 1 THEN 0 ELSE table[q][d]
  BY <1>1, <1>2, TypeFacts, ClearedIs
<1>4. ASSUME NEW q \in Letters, NEW d \in 1 .. ncosets + 1, u[q][d] # 0
      PROVE  u[q][d] <= ncosets + 1 /\ u[-q][u[q][d]] = d
  <2>1. d \in Cosets /\ -q \in Letters
    BY <1>1, TypeFacts, LettersFacts DEF Cosets
  <2>2. d # ncosets + 1 /\ d \in 1 .. ncosets
    BY <1>3, <1>4, <2>1, TypeFacts
  <2>3. PICK e \in Cosets : e = u[q][d]
    BY <1>2, <1>4, <2>1 DEF Tables
  <2>4. e = table[q][d] /\ e # 0
    BY <1>3, <1>4, <2>1, <2>2, <2>3
  <2>5. e <= ncosets /\ table[-q][e] = d
    BY <2>2, <2>4 DEF Accurate
  <2>6. e # ncosets + 1 /\ e <= ncosets + 1
    BY <2>3, <2>5, TypeFacts DEF Cosets
  <2>7. u[-q][e] = d
    BY <1>3, <2>1, <2>3, <2>5, <2>6
  <2> QED
    BY <2>3, <2>6, <2>7
<1> QED
  BY <1>2, <1>4 DEF Accurate

LEMMA NextCosetKnown ==
    ASSUME TableInv, NextCoset
    PROVE  KnownInv'
<1> SUFFICES ASSUME ~misnamed PROVE KnownInv'
  BY DEF NextCoset, KnownInv, ghostVars
<1>0. TypeInv /\ TypeOK /\ phase = "row" /\ ncosets < MaxCosets /\ Product = 0
  BY DEF NextCoset, Tracing, TableInv, TypeInv
<1>1. PICK n \in Nat : n = ncosets + 1 /\ n \in Cosets /\ n <= MaxCosets
  BY <1>0, TypeFacts DEF Cosets
<1>2. PICK u \in Tables : u = Cleared(n)
  BY <1>0, <1>1, TypeFacts, ClearedIs
<1>3. \A q \in Letters, d \in Cosets : u[q][d] = IF d = n THEN 0 ELSE table[q][d]
  BY <1>0, <1>1, <1>2, TypeFacts, ClearedIs
<1>4. PICK h \in Letters : h = Head(rel) /\ -h \in Letters
  BY <1>0, TraceFacts
<1>5. k \in 1 .. n /\ n \in 1 .. n /\ k \in Cosets /\ k # n /\ table[h][k] = 0
  BY <1>0, <1>1, <1>4, TraceFacts, TypeFacts DEF TableInv, KnownInv, Product, Cosets
<1>6. table' = DefineMult(u, k, h, n) /\ ncosets' = n /\ k' = n /\
      UNCHANGED <<todo, phase, misnamed>>
  BY <1>1, <1>2, <1>4 DEF NextCoset, ghostVars
<1>7. Accurate(u, n)
  BY <1>0, <1>1, <1>2, ClearedAccurate DEF TableInv, KnownInv
<1>8. u[h][k] = 0 /\ u[-h][n] = 0
  BY <1>1, <1>3, <1>4, <1>5
<1>9. Accurate(table', ncosets')
  BY <1>1, <1>4, <1>5, <1>6, <1>7, <1>8, DefineAccurate
<1>10. \A r \in 1 .. NVars, c \in 1 .. n : table'[r][c] <= n
  <2> TAKE r \in 1 .. NVars, c \in 1 .. n
  <2>1. CASE table'[r][c] = 0
    BY <1>1, <2>1
  <2>2. CASE table'[r][c] # 0
    BY <1>6, <1>9, <2>2, Variables DEF Accurate
  <2> QED
    BY <2>1, <2>2
<1>11. todo \in Seq((1 .. n) \X (1 .. n))
  <2>1. todo \in Seq((1 .. ncosets) \X (1 .. ncosets))
    BY DEF TableInv, KnownInv
  <2>2. Len(todo) \in Nat /\ \A q \in 1 .. Len(todo) : todo[q] \in (1 .. ncosets) \X (1 .. ncosets)
    BY <2>1, ElementOfSeq
  <2>3. 1 .. ncosets \subseteq 1 .. n
    BY <1>0, <1>1, TypeFacts
  <2>4. \A q \in 1 .. Len(todo) : todo[q] \in (1 .. n) \X (1 .. n)
    BY <2>2, <2>3
  <2>5. todo \in [1 .. Len(todo) -> (1 .. n) \X (1 .. n)]
    BY <2>1, <2>4, LenProperties
  <2> QED
    BY <2>2, <2>5, SeqDef
<1>12. /\ ncosets' >= 1 /\ k' <= ncosets'
       /\ \A r \in 1 .. NVars, c \in 1 .. ncosets' : table'[r][c] <= ncosets'
  BY <1>1, <1>6, <1>10 DEF Cosets
<1>13. todo' \in Seq((1 .. ncosets') \X (1 .. ncosets'))
  BY <1>6, <1>11
<1> QED
  BY <1>9, <1>12, <1>13 DEF KnownInv

LEMMA FollowKnown ==
    ASSUME TableInv, Follow
    PROVE  KnownInv'
<1> SUFFICES ASSUME ~misnamed PROVE KnownInv'
  BY DEF Follow, KnownInv, ghostVars
<1>0. TypeInv /\ TypeOK /\ phase = "row" /\ Product # 0 /\ k' = Product /\
      UNCHANGED <<ncosets, table, todo, phase, misnamed>>
  BY DEF Follow, Tracing, TableInv, TypeInv, ghostVars
<1>1. k \in 1 .. ncosets /\ Head(rel) \in Letters
  BY <1>0, TraceFacts, TypeFacts DEF TableInv, KnownInv, Cosets
<1>2. k' <= ncosets
  BY <1>0, <1>1 DEF TableInv, KnownInv, Accurate, Product
<1> QED
  BY <1>0, <1>2 DEF TableInv, KnownInv

LEMMA EndAccurate ==
    ASSUME TableInv, EndRelation, ~misnamed
    PROVE  Accurate(table', ncosets)
<1>0. TypeInv /\ TypeOK /\ phase = "row" /\ Agrees
  BY DEF EndRelation, Tracing, TableInv, TypeInv
<1>1. Accurate(table, ncosets) /\ table \in Tables /\ ncosets \in Nat /\ ncosets <= MaxCosets
  BY <1>0, TypeFacts DEF TableInv, KnownInv
<1>2. CASE Product = 0 /\ table[-Head(rel)][i] = 0
  <2>1. PICK h \in Letters : h = Head(rel)
    BY <1>0, TraceFacts
  <2>2. k \in 1 .. ncosets /\ i \in 1 .. ncosets
    BY <1>0, TraceFacts, TypeFacts DEF TableInv, KnownInv, Cosets
  <2>3. table[h][k] = 0 /\ table[-h][i] = 0
    BY <1>2, <2>1 DEF Product
  <2>4. table' = DefineMult(table, k, h, i)
    BY <1>2, <2>1 DEF EndRelation
  <2> QED
    BY <1>1, <2>2, <2>3, <2>4, DefineAccurate
<1>3. CASE ~(Product = 0 /\ table[-Head(rel)][i] = 0)
  BY <1>1, <1>3 DEF EndRelation
<1> QED
  BY <1>2, <1>3

LEMMA EndRelationKnown ==
    ASSUME TableInv, EndRelation
    PROVE  KnownInv'
<1> SUFFICES ASSUME ~misnamed PROVE KnownInv'
  BY DEF EndRelation, KnownInv, ghostVars
<1>0. /\ TypeInv /\ TypeOK /\ phase = "row" /\ ncosets >= 1
      /\ UNCHANGED <<ncosets, todo, misnamed>>
  BY DEF EndRelation, Tracing, TableInv, TypeInv, KnownInv, ghostVars
<1>1. Accurate(table', ncosets)
  BY EndAccurate
<1>2. \A r \in 1 .. NVars, c \in 1 .. ncosets : table'[r][c] <= ncosets
  <2> TAKE r \in 1 .. NVars, c \in 1 .. ncosets
  <2>1. CASE table'[r][c] = 0
    BY <1>0, <2>1, TypeFacts
  <2>2. CASE table'[r][c] # 0
    BY <1>1, <2>2, Variables DEF Accurate
  <2> QED
    BY <2>1, <2>2
<1>3. phase' = "row" => k' <= ncosets
  <2>1. CASE Len(left) > 1
    <3>1. k' = i
      BY <2>1 DEF EndRelation
    <3> QED
      BY <1>0, <3>1, TraceFacts, TypeFacts
  <2>2. CASE ~(Len(left) > 1)
    <3>1. BeginRow(i + 1, ncosets)
      BY <2>2 DEF EndRelation
    <3> QED
      BY <1>0, <3>1, TypeFacts DEF BeginRow
  <2> QED
    BY <2>1, <2>2
<1> QED
  BY <1>0, <1>1, <1>2, <1>3 DEF TableInv, KnownInv

LEMMA CoincidenceKnown ==
    ASSUME TableInv, Coincidence
    PROVE  KnownInv'
<1> SUFFICES ASSUME ~misnamed PROVE KnownInv'
  BY DEF Coincidence, KnownInv, ghostVars
<1>0. /\ TypeInv /\ TypeOK /\ phase = "row" /\ phase' = "replace"
      /\ UNCHANGED <<ncosets, table, misnamed>>
  BY DEF Coincidence, Tracing, TableInv, TypeInv, ghostVars
<1>1. PICK h \in Letters : h = Head(rel) /\ -h \in Letters
  BY <1>0, TraceFacts
<1>2. k \in 1 .. ncosets /\ i \in 1 .. ncosets
  BY <1>0, TraceFacts, TypeFacts DEF TableInv, KnownInv, Cosets
<1>3. Accurate(table, ncosets)
  BY <1>0 DEF TableInv, KnownInv
<1>4. \E a, b \in 1 .. ncosets : todo' = <<Pair(a, b)>>
  <2>1. CASE Product = 0 /\ table[-h][i] \in Cosets /\ todo' = <<Pair(k, table[-h][i])>>
    <3>1. table[-h][i] \in 1 .. ncosets
      <4>1. PICK s \in Cosets : s = table[-h][i]
        BY <2>1
      <4>2. s # 0 /\ s \in Nat /\ s >= 1
        BY TypeFacts, <1>0 DEF Cosets
      <4>3. s <= ncosets
        BY <1>1, <1>2, <1>3, <4>1, <4>2 DEF Accurate
      <4> QED
        BY <1>0, <4>1, <4>2, <4>3, TypeFacts
    <3> QED
      BY <1>2, <2>1, <3>1
  <2>2. CASE Product \in Cosets /\ todo' = <<Pair(i, Product)>>
    <3>1. Product \in 1 .. ncosets
      <4>1. PICK s \in Cosets : s = table[h][k] /\ s = Product
        BY <1>1, <2>2 DEF Product
      <4>2. s # 0 /\ s \in Nat /\ s >= 1
        BY TypeFacts, <1>0 DEF Cosets
      <4>3. s <= ncosets
        BY <1>2, <1>3, <4>1, <4>2 DEF Accurate
      <4> QED
        BY <1>0, <4>1, <4>2, <4>3, TypeFacts
    <3> QED
      BY <1>2, <2>2, <3>1
  <2> QED
    BY <1>0, <1>1, <2>1, <2>2, CoincidencePair
<1>5. todo' \in Seq((1 .. ncosets) \X (1 .. ncosets))
  BY <1>4, PairType, OnePair
<1> QED
  BY <1>0, <1>5 DEF TableInv, KnownInv

\* An entry of the merged column, for the cosets that are left.
LEMMA MergedAt ==
    ASSUME TypeOK, NEW r \in Letters, NEW m \in Cosets, NEW n \in Cosets,
           NEW c \in 1 .. ncosets - 1
    PROVE  LET d == IF c < n THEN c ELSE c + 1
               e == IF d = m /\ table[r][m] = 0 THEN table[r][n] ELSE table[r][d]
           IN Merged(r, m, n)[c] = Renamed(e, m, n)
<1>0. ncosets \in Nat /\ ncosets <= MaxCosets /\ MaxCosets \in Nat /\ n \in Nat
  BY TypeFacts DEF Cosets
<1> DEFINE d == IF c < n THEN c ELSE c + 1
<1>1. c \in Cosets /\ d \in Cosets /\ c < ncosets
  BY <1>0 DEF Cosets
<1>2. PICK column : column = Inherited(r, m, n)
  OBVIOUS
<1>3. Merged(r, m, n)[c] = Renamed(column[d], m, n)
  <2>1. Merged(r, m, n)[c] =
           IF c < n THEN Renamed(column[c], m, n)
           ELSE IF c < ncosets THEN Renamed(column[c + 1], m, n) ELSE column[c]
    BY <1>1, <1>2 DEF Merged
  <2> QED
    BY <1>1, <2>1
<1> HIDE DEF d
<1>4. column[d] = IF d = m /\ table[r][m] = 0 THEN table[r][n] ELSE table[r][d]
  <2>1. table[r] \in [Cosets -> Cosets \cup {0}]
    BY TypeFacts DEF Tables
  <2> QED
    BY <1>1, <1>2, <2>1 DEF Inherited
<1> QED
  BY <1>3, <1>4 DEF d

\* What a replacement does to the state, for the pair it takes.
Replaced(m, n) ==
    /\ phase = "replace" /\ todo # <<>> /\ ncosets > 0
    /\ m = todo[Len(todo)][1] /\ n = todo[Len(todo)][2] /\ m # n
    /\ table' = [r \in Letters |-> IF r > 0 THEN Merged(r, m, n) ELSE table[r]]
    /\ todo' = [q \in 1 .. Len(Popped \o Clashes(m, n)) |->
                    <<Renamed((Popped \o Clashes(m, n))[q][1], m, n),
                      Renamed((Popped \o Clashes(m, n))[q][2], m, n)>>]
    /\ misnamed' = (misnamed \/ m > n)
    /\ ncosets' = ncosets - 1
    /\ UNCHANGED <<pres, phase, traceVars>>

LEMMA ReplacedPair ==
    ASSUME Replace
    PROVE  Replaced(todo[Len(todo)][1], todo[Len(todo)][2])
BY DEF Replace, Replaced

\* A replacement that misnames no pair takes existing cosets, the smaller one first.
LEMMA ReplaceNamed ==
    ASSUME TableInv, Replace, ~misnamed'
    PROVE  ~misnamed /\ \E m, n \in 1 .. ncosets : m < n /\ Replaced(m, n)
<1>1. ~misnamed /\ ~(todo[Len(todo)][1] > todo[Len(todo)][2]) /\ todo # <<>>
  BY ReplacedPair DEF Replaced
<1>2. todo \in Seq((1 .. ncosets) \X (1 .. ncosets)) /\ Len(todo) \in 1 .. Len(todo)
  BY <1>1, EmptySeq DEF TableInv, KnownInv
<1>3. todo[Len(todo)] \in (1 .. ncosets) \X (1 .. ncosets)
  BY <1>2, ElementOfSeq
<1>4. PICK m \in 1 .. ncosets, n \in 1 .. ncosets : m = todo[Len(todo)][1] /\ n = todo[Len(todo)][2]
  BY <1>3
<1>5. Replaced(m, n)
  BY <1>4, ReplacedPair
<1>6. m < n
  BY <1>1, <1>4, <1>5, TypeFacts DEF TableInv, TypeInv, Replaced
<1> QED
  BY <1>1, <1>5, <1>6

LEMMA ReplaceKnown ==
    ASSUME TableInv, Replace
    PROVE  KnownInv'
<1> SUFFICES ASSUME ~misnamed' PROVE KnownInv'
  BY DEF KnownInv
<1>0. TypeInv /\ TypeOK /\ ncosets \in Nat /\ MaxCosets \in Nat
  BY TypeFacts DEF TableInv, TypeInv
<1>1. PICK m \in 1 .. ncosets, n \in 1 .. ncosets : m < n /\ Replaced(m, n)
  BY ReplaceNamed
<1>2. m \in Cosets /\ n \in Cosets /\ m \in Nat /\ n \in Nat /\ m >= 1 /\ n <= ncosets /\
      ncosets - 1 \in Nat /\ ncosets - 1 >= 1
  BY <1>0, <1>1, TypeFacts DEF Cosets
<1>3. ncosets' = ncosets - 1 /\ phase' = "replace"
  BY <1>1 DEF Replaced
<1>4. \A e \in 0 .. ncosets :
         Renamed(e, m, n) \in 0 .. ncosets - 1 /\ (e # 0 => Renamed(e, m, n) \in 1 .. ncosets - 1)
  BY <1>0, <1>1, <1>2 DEF Renamed
<1>5. \A r \in 1 .. NVars, c \in 1 .. ncosets : table[r][c] \in 0 .. ncosets
  <2> TAKE r \in 1 .. NVars, c \in 1 .. ncosets
  <2>1. table[r][c] \in Cosets \cup {0} /\ table[r][c] <= ncosets
    BY <1>0, CosetIs, EntryType, Variables, ReplaceNamed DEF TableInv, KnownInv
  <2> QED
    BY <1>0, <2>1 DEF Cosets
<1>6. \A r \in 1 .. NVars, c \in 1 .. ncosets - 1 : table'[r][c] <= ncosets - 1
  <2> TAKE r \in 1 .. NVars, c \in 1 .. ncosets - 1
  <2>1. table'[r] = Merged(r, m, n) /\ r \in Letters
    BY <1>1, Variables, NVarsAssumption DEF Replaced
  <2>2. c \in 1 .. ncosets /\ c + 1 \in 1 .. ncosets
    BY <1>0
  <2>3. \E e \in 0 .. ncosets : Merged(r, m, n)[c] = Renamed(e, m, n)
    BY <1>0, <1>2, <1>5, <2>1, <2>2, MergedAt
  <2> QED
    BY <1>0, <1>4, <2>1, <2>3
<1>7. todo' \in Seq((1 .. ncosets - 1) \X (1 .. ncosets - 1))
  <2> DEFINE P == (1 .. ncosets) \X (1 .. ncosets)
             Q == (1 .. ncosets - 1) \X (1 .. ncosets - 1)
  <2>1. \A r \in 1 .. NVars : Clash(m, n, r) \in Seq(P)
    <3> TAKE r \in 1 .. NVars
    <3>1. \A e \in 0 .. ncosets : e # 0 => e \in 1 .. ncosets
      BY <1>0
    <3>2. table[r][n] # 0 /\ table[r][m] # 0 =>
             Pair(table[r][m], table[r][n]) \in (1 .. ncosets) \X (1 .. ncosets)
      BY <1>5, <3>1, PairType
    <3> QED
      BY <3>2, ClashType
  <2>2. \A e \in 1 .. ncosets : Renamed(e, m, n) \in 1 .. ncosets - 1
    BY <1>0, <1>4
  <2>3. \A p \in P : <<Renamed(p[1], m, n), Renamed(p[2], m, n)>> \in Q
    BY <2>2
  <2>4. todo \in Seq(P) /\ todo # <<>>
    BY <1>1, ReplaceNamed DEF TableInv, KnownInv, Replaced
  <2>5. todo' = [q \in 1 .. Len(Popped \o Clashes(m, n)) |->
                    <<Renamed((Popped \o Clashes(m, n))[q][1], m, n),
                      Renamed((Popped \o Clashes(m, n))[q][2], m, n)>>]
    BY <1>1 DEF Replaced
  <2> HIDE DEF P, Q
  <2>6. todo' \in Seq(Q)
    BY <2>1, <2>3, <2>4, <2>5, QueueIs
  <2> QED
    BY <2>6 DEF Q
<1>8. /\ ncosets' >= 1
      /\ \A r \in 1 .. NVars, c \in 1 .. ncosets' : table'[r][c] <= ncosets'
      /\ todo' \in Seq((1 .. ncosets') \X (1 .. ncosets'))
  BY <1>2, <1>3, <1>6, <1>7
<1> QED
  BY <1>3, <1>8 DEF KnownInv

LEMMA SkipPairKnown ==
    ASSUME TableInv, SkipPair
    PROVE  KnownInv'
<1>1. phase' = "replace" /\ UNCHANGED <<ncosets, table, misnamed>>
  BY DEF SkipPair, ghostVars
<1>2. \A P : todo \in Seq(P) => todo' \in Seq(P)
  BY SkipPairType DEF TableInv
<1> QED
  BY <1>1, <1>2 DEF TableInv, KnownInv

LEMMA RepeatFoundKnown ==
    ASSUME TableInv, RepeatFound
    PROVE  KnownInv'
<1> SUFFICES ASSUME ~misnamed PROVE KnownInv'
  BY DEF RepeatFound, KnownInv, ghostVars
<1>1. phase' = "replace" /\ UNCHANGED <<ncosets, misnamed>>
  BY DEF RepeatFound, ghostVars
<1>2. PICK r \in 1 .. NVars, b \in 1 .. ncosets, a \in Cosets :
         todo' = <<<<a, b>>>> /\ IsRepetition(r, a, b)
  BY RepeatIs DEF TableInv
<1>3. a \in 1 .. ncosets
  <2>1. table[r][b] <= ncosets
    BY DEF TableInv, KnownInv
  <2>2. a \in 1 .. b - 1
    BY <1>2, <2>1, TypeFacts DEF IsRepetition, TableInv, TypeInv, Cosets
  <2> QED
    BY <2>2, TypeFacts DEF TableInv, TypeInv
<1>4. todo' \in Seq((1 .. ncosets) \X (1 .. ncosets))
  BY <1>2, <1>3, OnePair
<1>5. \A q \in 1 .. NVars : table'[q] = table[q]
  BY RepeatIs DEF TableInv
<1> QED
  BY <1>1, <1>4, <1>5 DEF TableInv, KnownInv

\* Where nothing is noted twice a variable sends no two cosets to the same one.
LEMMA NoRepeatInjective ==
    ASSUME TypeOK, NEW r \in 1 .. NVars, ~HasRepeat(r),
           \A c \in 1 .. ncosets : table[r][c] <= ncosets,
           NEW a \in 1 .. ncosets, NEW b \in 1 .. ncosets, a < b, table[r][b] # 0
    PROVE  table[r][a] # table[r][b]
<1> SUFFICES ASSUME table[r][a] = table[r][b] PROVE FALSE
  OBVIOUS
<1>1. PICK s \in Cosets : s = table[r][b]
  BY CosetIs, EntryType, Variables
<1>2. a \in 1 .. b - 1 /\ s <= ncosets /\ \A d \in 1 .. b - 1 : d # 0
  BY <1>1, TypeFacts
<1>3. Noted(r, b - 1)[s] # 0
  BY <1>1, <1>2, NotedIs
<1> QED
  BY <1>1, <1>3 DEF HasRepeat, Repeats

LEMMA FillAccurate ==
    ASSUME TableInv, FillInverses, ~misnamed
    PROVE  Accurate(table', ncosets)
<1>0. TypeInv /\ TypeOK /\ ncosets \in Nat
  BY TypeFacts DEF TableInv, TypeInv
<1>1. \A r \in Letters : table'[r] = IF r > 0 THEN table[r] ELSE Noted(-r, ncosets)
  BY <1>0, FilledIs
<1>2. \A r \in 1 .. NVars, c \in 1 .. ncosets : table[r][c] <= ncosets
  BY DEF TableInv, KnownInv
<1>3. \A r \in 1 .. NVars : r \in Letters /\ -r \in Letters /\ table'[r] = table[r]
                            /\ table'[-r] = Noted(r, ncosets)
  BY <1>1, Variables, LettersFacts, NVarsAssumption
<1>4. ASSUME NEW r \in 1 .. NVars, NEW c \in 1 .. ncosets, table'[r][c] # 0
      PROVE  table'[r][c] <= ncosets /\ table'[-r][table'[r][c]] = c
  <2>1. PICK s \in Cosets : s = table[r][c]
    BY <1>0, <1>3, <1>4, CosetIs, EntryType
  <2>2. s <= ncosets
    BY <1>2, <2>1
  <2>3. PICK a \in 1 .. ncosets : Noted(r, ncosets)[s] = a /\ table[r][a] = s
    BY <2>1, <2>2, NotedIs
  <2>4. ~HasRepeat(r)
    BY DEF FillInverses
  <2>5. s # 0
    BY <1>3, <1>4, <2>1
  <2>6. ~(a < c)
    BY <1>0, <1>2, <2>1, <2>3, <2>4, <2>5, NoRepeatInjective
  <2>7. ~(c < a)
    BY <1>0, <1>2, <2>1, <2>3, <2>4, <2>5, NoRepeatInjective
  <2>8. a = c
    BY <1>0, <2>6, <2>7
  <2> QED
    BY <1>3, <2>1, <2>2, <2>3, <2>8
<1>5. ASSUME NEW r \in 1 .. NVars, NEW c \in 1 .. ncosets, table'[-r][c] # 0
      PROVE  table'[-r][c] <= ncosets /\ table'[r][table'[-r][c]] = c
  <2>1. c \in Cosets /\ c <= ncosets
    BY <1>0, CosetIs
  <2>2. PICK a \in 1 .. ncosets : Noted(r, ncosets)[c] = a /\ table[r][a] = c
    BY <1>3, <1>5, <2>1, NotedIs
  <2> QED
    BY <1>0, <1>3, <2>2
<1>6. ASSUME NEW r \in Letters, NEW c \in 1 .. ncosets, table'[r][c] # 0
      PROVE  table'[r][c] <= ncosets /\ table'[-r][table'[r][c]] = c
  <2>1. CASE r > 0
    BY <1>4, <1>6, <2>1, Variables
  <2>2. CASE ~(r > 0)
    <3>1. -r \in 1 .. NVars /\ -(-r) = r
      BY <2>2, Variables, LettersFacts
    <3>2. PICK v \in 1 .. NVars : v = -r /\ -v = r
      BY <3>1
    <3> QED
      BY <1>5, <1>6, <3>2
  <2> QED
    BY <2>1, <2>2
<1> QED
  BY <1>6 DEF Accurate

LEMMA FillInversesKnown ==
    ASSUME TableInv, FillInverses
    PROVE  KnownInv'
<1> SUFFICES ASSUME ~misnamed PROVE KnownInv'
  BY DEF FillInverses, KnownInv, ghostVars
<1>0. TypeInv /\ ncosets \in Nat /\ ncosets >= 1
  BY TypeFacts DEF TableInv, TypeInv, KnownInv
<1>1. BeginRow(i, ncosets) /\ UNCHANGED <<ncosets, todo, misnamed>>
  BY DEF FillInverses, ghostVars
<1>2. phase' = "row" => k' <= ncosets
  BY <1>0, <1>1 DEF BeginRow
<1>3. \A r \in 1 .. NVars, c \in 1 .. ncosets : table'[r][c] <= ncosets
  <2> TAKE r \in 1 .. NVars, c \in 1 .. ncosets
  <2>1. table'[r] = table[r]
    BY <1>0, FilledIs, Variables, NVarsAssumption
  <2> QED
    BY <2>1 DEF TableInv, KnownInv
<1> QED
  BY <1>0, <1>1, <1>2, <1>3, FillAccurate DEF TableInv, KnownInv

LEMMA TableNext ==
    ASSUME TableInv, [Next]_vars
    PROVE  TableInv'
<1>1. TypeInv'
  BY TypeNext DEF TableInv
<1>2. UNCHANGED vars => KnownInv'
  BY DEF vars, TableInv, KnownInv
<1>3. Overflow => KnownInv'
  BY DEF Overflow, traceVars, ghostVars, TableInv, KnownInv
<1>4. KnownInv'
  BY <1>2, <1>3, NextCosetKnown, FollowKnown, EndRelationKnown, CoincidenceKnown, ReplaceKnown,
     SkipPairKnown, RepeatFoundKnown, FillInversesKnown DEF Next
<1> QED
  BY <1>1, <1>4 DEF TableInv

\* While rows are done the columns of a variable and of its inverse agree, and name
\* only cosets that exist, however many were identified and renumbered before
\* (define-tc-mult, replace-coset-in-multiply-table, fill-in-inverses).
THEOREM TableIsAccurate == Spec => []TableAccurate
<1>1. Init => TableInv
  BY TypeInit, KnownInit DEF TableInv
<1>2. TableInv => TableAccurate
  BY DEF TableInv, KnownInv, Accurate, TableAccurate
<1> QED
  BY <1>1, <1>2, TableNext, PTL DEF Spec

-----------------------------------------------------------------------------
(* Walks: made of a function by recursion on the letters of a word.        *)

\* g says where the first v letters of w lead.
IsTrace(g, t, c, w, v) ==
    g = [n \in 0 .. v |-> IF n = 0 THEN c ELSE IF g[n - 1] = 0 THEN 0 ELSE t[w[n]][g[n - 1]]]

TraceStep(g, t, c, w, n) ==
    g[n] = IF n = 0 THEN c ELSE IF g[n - 1] = 0 THEN 0 ELSE t[w[n]][g[n - 1]]

LEMMA TraceAt ==
    ASSUME NEW t, NEW c, NEW w, NEW v \in Nat, NEW g, IsTrace(g, t, c, w, v)
    PROVE  \A n \in 0 .. v : TraceStep(g, t, c, w, n)
<1> TAKE n \in 0 .. v
<1>1. [q \in 0 .. v |-> IF q = 0 THEN c ELSE IF g[q - 1] = 0 THEN 0 ELSE t[w[q]][g[q - 1]]][n] =
         IF n = 0 THEN c ELSE IF g[n - 1] = 0 THEN 0 ELSE t[w[n]][g[n - 1]]
  OBVIOUS
<1> QED
  BY <1>1, Zenon DEF IsTrace, TraceStep

LEMMA TraceExists ==
    ASSUME NEW t, NEW c, NEW w, NEW v \in Nat
    PROVE  \E g : IsTrace(g, t, c, w, v)
<1> DEFINE S == {k0 \in Nat : \E g : IsTrace(g, t, c, w, k0)}
<1>1. 0 \in S
  <2>1. IsTrace([n \in 0 .. 0 |-> c], t, c, w, 0)
    BY DEF IsTrace
  <2> QED
    BY <2>1
<1>2. ASSUME NEW d \in Nat, d \in S
      PROVE  d + 1 \in S
  <2>1. PICK g : IsTrace(g, t, c, w, d)
    BY <1>2
  <2> DEFINE new == IF g[d] = 0 THEN 0 ELSE t[w[d + 1]][g[d]]
  <2> DEFINE h == [n \in 0 .. d + 1 |-> IF n = d + 1 THEN new ELSE g[n]]
  <2>2. ASSUME NEW n \in 0 .. d + 1
        PROVE  h[n] = IF n = 0 THEN c ELSE IF h[n - 1] = 0 THEN 0 ELSE t[w[n]][h[n - 1]]
    <3>1. CASE n = d + 1
      <4> HIDE DEF new
      <4>1. n # 0 /\ n - 1 = d /\ d \in 0 .. d + 1 /\ d # d + 1
        BY <3>1
      <4>2. h[n] = new /\ h[d] = g[d]
        BY <3>1, <4>1
      <4> QED
        BY <3>1, <4>1, <4>2 DEF new
    <3>2. CASE n # d + 1
      <4>1. n \in 0 .. d /\ (n # 0 => n - 1 \in 0 .. d)
        BY <3>2
      <4>2. h[n] = g[n] /\ (n # 0 => h[n - 1] = g[n - 1])
        BY <4>1
      <4>3. TraceStep(g, t, c, w, n)
        BY <2>1, <4>1, TraceAt
      <4> QED
        BY <4>2, <4>3 DEF TraceStep
    <3> QED
      BY <3>1, <3>2
  <2>3. h = [n \in 0 .. d + 1 |-> IF n = 0 THEN c ELSE IF h[n - 1] = 0 THEN 0 ELSE t[w[n]][h[n - 1]]]
    <3>1. h = [n \in 0 .. d + 1 |-> h[n]]
      OBVIOUS
    <3> HIDE DEF h
    <3> QED
      BY <2>2, <3>1
  <2>4. IsTrace(h, t, c, w, d + 1)
    BY <2>3 DEF IsTrace
  <2> QED
    BY <2>4
<1> HIDE DEF S
<1>3. \A d \in Nat : d \in S
  BY <1>1, <1>2, EveryNatural
<1> QED
  BY <1>3 DEF S

\* A walk is the last value of such a function.
LEMMA WalkTrace ==
    ASSUME NEW t, NEW c, NEW w \in Words
    PROVE  \E g : Walk(t, c, w) = g[Len(w)] /\ IsTrace(g, t, c, w, Len(w))
<1>0. Len(w) \in Nat
  BY HeadTail
<1> DEFINE at == CHOOSE g : IsTrace(g, t, c, w, Len(w))
<1>1. IsTrace(at, t, c, w, Len(w))
  BY <1>0, TraceExists
<1>2. Walk(t, c, w) = at[Len(w)]
  BY DEF Walk, IsTrace
<1> QED
  BY <1>1, <1>2

\* The first letter of a walk, and the rest of it.
LEMMA WalkLast ==
    ASSUME NEW t, NEW c, c # 0, NEW w \in Words, Len(w) = 1
    PROVE  Walk(t, c, w) = t[Head(w)][c]
<1>1. PICK g : Walk(t, c, w) = g[Len(w)] /\ IsTrace(g, t, c, w, Len(w))
  BY WalkTrace
<1>2. PICK v \in Nat : v = Len(w) /\ v = 1
  OBVIOUS
<1>3. \A n \in 0 .. v : g[n] = IF n = 0 THEN c ELSE IF g[n - 1] = 0 THEN 0 ELSE t[w[n]][g[n - 1]]
  <2>1. \A n \in 0 .. v : TraceStep(g, t, c, w, n)
    BY <1>1, <1>2, TraceAt
  <2> QED
    BY <2>1 DEF TraceStep
<1>4. g[0] = c
  BY <1>2, <1>3
<1>5. g[1] = t[w[1]][c]
  BY <1>2, <1>3, <1>4
<1> QED
  BY <1>1, <1>5, HeadTail

LEMMA WalkStep ==
    ASSUME NEW t, NEW c, c # 0, NEW w \in Words, Len(w) # 1
    PROVE  Walk(t, c, w) = Walk(t, t[Head(w)][c], Tail(w))
<1>1. PICK g : Walk(t, c, w) = g[Len(w)] /\ IsTrace(g, t, c, w, Len(w))
  BY WalkTrace
<1>2. PICK u \in Words : u = Tail(w)
  BY HeadTail
<1>3. PICK d : d = t[Head(w)][c]
  OBVIOUS
<1>4. PICK h : Walk(t, d, u) = h[Len(u)] /\ IsTrace(h, t, d, u, Len(u))
  BY WalkTrace
<1>5. PICK v \in Nat : v = Len(w) /\ v - 1 \in Nat /\ v - 1 = Len(u) /\ v # 0
  BY <1>2, HeadTail
<1>6. \A n \in 0 .. v : g[n] = IF n = 0 THEN c ELSE IF g[n - 1] = 0 THEN 0 ELSE t[w[n]][g[n - 1]]
  <2>1. \A n \in 0 .. v : TraceStep(g, t, c, w, n)
    BY <1>1, <1>5, TraceAt
  <2> QED
    BY <2>1 DEF TraceStep
<1>7. \A n \in 0 .. v - 1 : h[n] = IF n = 0 THEN d ELSE IF h[n - 1] = 0 THEN 0 ELSE t[u[n]][h[n - 1]]
  <2>1. \A n \in 0 .. v - 1 : TraceStep(h, t, d, u, n)
    BY <1>4, <1>5, TraceAt
  <2> QED
    BY <2>1 DEF TraceStep
<1>8. \A n \in 1 .. v - 1 : u[n] = w[n + 1]
  BY <1>2, <1>5 DEF Words
<1> DEFINE S == {n \in Nat : n <= v - 1 => g[n + 1] = h[n]}
<1>9. 0 \in S
  <2>1. g[0] = c
    BY <1>5, <1>6
  <2>2. g[1] = t[w[1]][c]
    BY <1>5, <1>6, <2>1
  <2>3. h[0] = d
    BY <1>5, <1>7
  <2> QED
    BY <1>3, <2>2, <2>3, HeadTail
<1>10. ASSUME NEW n \in Nat, n \in S PROVE n + 1 \in S
  <2> SUFFICES ASSUME n + 1 <= v - 1 PROVE g[n + 1 + 1] = h[n + 1]
    OBVIOUS
  <2>1. g[n + 1] = h[n]
    BY <1>10, <1>5
  <2>2. PICK m \in 0 .. v : m = n + 1 + 1 /\ m - 1 = n + 1 /\ m # 0
    BY <1>5
  <2>3. g[m] = IF g[m - 1] = 0 THEN 0 ELSE t[w[m]][g[m - 1]]
    BY <1>6, <2>2
  <2>4. PICK l \in 0 .. v - 1 : l = n + 1 /\ l - 1 = n /\ l # 0 /\ l \in 1 .. v - 1
    BY <1>5
  <2>5. h[l] = IF h[l - 1] = 0 THEN 0 ELSE t[u[l]][h[l - 1]]
    BY <1>7, <2>4
  <2>6. u[l] = w[l + 1]
    BY <1>8, <2>4
  <2> QED
    BY <2>1, <2>2, <2>3, <2>4, <2>5, <2>6
<1> HIDE DEF S
<1>11. \A n \in Nat : n \in S
  BY <1>9, <1>10, EveryNatural
<1>12. g[v - 1 + 1] = h[v - 1]
  BY <1>5, <1>11 DEF S
<1> QED
  BY <1>1, <1>2, <1>3, <1>4, <1>5, <1>12

-----------------------------------------------------------------------------
(* Every action of the group, in which the subgroup fixes a point, is an   *)
(* image of the table.                                                     *)

ClosingWords(row) == {Relations(row)[q] : q \in 1 .. Len(Relations(row))}

\* The relations that a row has still to satisfy are relations of that row.
LeftInv == phase = "row" => left \in Seq(ClosingWords(i))

EqualPairs(f, n) == {p \in (1 .. n) \X (1 .. n) : f[p[1]] = f[p[2]]}

\* f sends the products that tab knows for the first n cosets to those of t.
IsImage(f, t, n, tab) ==
    /\ f \in [1 .. n -> 1 .. NPoints]
    /\ f[1] = 1
    /\ \A r \in 1 .. NVars, c \in 1 .. n : tab[r][c] # 0 => f[tab[r][c]] = t[r][f[c]]

\* The action t is an image of the table and of the queue; the trace that is
\* under way, from the row's coset, closes in t.
HasImage(t) ==
    \E f : /\ IsImage(f, t, ncosets, table)
           /\ todo \in Seq(EqualPairs(f, ncosets))
           /\ phase = "row" => Walk(t, f[k], rel) = f[i]

ImageInv ==
    ~misnamed => \A t \in PointTables : IsAction(t, NPoints) => HasImage(t)

LEMMA ActionFacts ==
    ASSUME NEW t, IsAction(t, NPoints)
    PROVE  \A r \in Letters, p \in 1 .. NPoints :
               /\ t[r][p] \in 1 .. NPoints /\ t[r][p] # 0 /\ p # 0
               /\ t[-r][t[r][p]] = p /\ t[r][t[-r][p]] = p
<1>1. \A r \in Letters, p \in 1 .. NPoints : t[r][p] \in 1 .. NPoints /\ t[-r][t[r][p]] = p
  BY DEF IsAction
<1>2. \A p \in 1 .. NPoints : p # 0
  BY NPointsAssumption
<1> QED
  BY <1>1, <1>2, LettersFacts

\* The relations of a row close at the image of its coset.
LEMMA RowCloses ==
    ASSUME TypeOK, NEW t, IsAction(t, NPoints), NEW row, NEW w \in ClosingWords(row),
           NEW p \in 1 .. NPoints, row = 1 => p = 1
    PROVE  Walk(t, p, w) = p
<1>1. PICK rels \in Seq(Words) : rels = pres.rels
  BY DEF TypeOK
<1>2. PICK sub \in Seq(Words) : sub = pres.sub
  BY DEF TypeOK
<1>3. (\A q \in 1 .. Len(rels) : Walk(t, p, rels[q]) = p) /\
      (\A q \in 1 .. Len(sub) : Walk(t, 1, sub[q]) = 1)
  BY <1>1, <1>2 DEF IsAction
<1>4. CASE row = 1
  <2>1. PICK q \in 1 .. Len(sub \o rels) : w = (sub \o rels)[q]
    BY <1>1, <1>2, <1>4 DEF ClosingWords, Relations
  <2>2. CASE q <= Len(sub)
    <3>1. w = sub[q] /\ q \in 1 .. Len(sub)
      BY <2>1, <2>2
    <3> QED
      BY <1>3, <1>4, <3>1
  <2>3. CASE ~(q <= Len(sub))
    <3>1. w = rels[q - Len(sub)] /\ q - Len(sub) \in 1 .. Len(rels)
      BY <2>1, <2>3
    <3> QED
      BY <1>3, <3>1
  <2> QED
    BY <2>2, <2>3
<1>5. CASE row # 1
  <2>1. PICK q \in 1 .. Len(rels) : w = rels[q]
    BY <1>1, <1>5 DEF ClosingWords, Relations
  <2> QED
    BY <1>3, <2>1
<1> QED
  BY <1>4, <1>5

\* The same for the variables' inverses, where the table is accurate.
LEMMA ImageOfLetters ==
    ASSUME TypeOK, Accurate(table, ncosets), NEW t, IsAction(t, NPoints),
           NEW f, IsImage(f, t, ncosets, table),
           NEW r \in Letters, NEW c \in 1 .. ncosets, table[r][c] # 0
    PROVE  table[r][c] \in 1 .. ncosets /\ f[table[r][c]] = t[r][f[c]]
<1>1. PICK s \in Cosets : s = table[r][c]
  BY CosetIs, EntryType
<1>2. s \in 1 .. ncosets
  BY <1>1, TypeFacts DEF Accurate, Cosets
<1>3. table[-r][s] = c
  BY <1>1 DEF Accurate
<1>4. f[c] \in 1 .. NPoints /\ f[s] \in 1 .. NPoints
  BY <1>2 DEF IsImage
<1>5. CASE r > 0
  BY <1>1, <1>2, <1>5, Variables DEF IsImage
<1>6. CASE ~(r > 0)
  <2>1. PICK v \in 1 .. NVars : v = -r /\ v \in Letters
    BY <1>6, Variables
  <2>2. f[c] = t[v][f[s]]
    BY <1>2, <1>3, <2>1, CosetIs DEF IsImage
  <2>3. t[r][t[-r][f[s]]] = f[s]
    BY <1>4, ActionFacts
  <2> QED
    BY <1>1, <1>2, <2>1, <2>2, <2>3
<1> QED
  BY <1>5, <1>6

LEMMA RelationsClose ==
    ASSUME TypeOK, NEW row
    PROVE  /\ Relations(row) \in Seq(ClosingWords(row))
           /\ Head(Relations(row)) \in ClosingWords(row)
<1>1. PICK v \in Seq(Words) : v = Relations(row) /\ v # <<>>
  BY RelationsType
<1>2. PICK W : W = ClosingWords(row)
  OBVIOUS
<1>3. Len(v) \in Nat \ {0} /\ \A q \in 1 .. Len(v) : v[q] \in W
  BY <1>1, <1>2, EmptySeq DEF ClosingWords
<1>4. v \in [1 .. Len(v) -> W]
  BY <1>1, <1>3, LenProperties
<1>5. v \in Seq(W)
  BY <1>3, <1>4, SeqDef
<1>6. Head(v) = v[1] /\ 1 \in 1 .. Len(v)
  BY <1>1, <1>3
<1> QED
  BY <1>1, <1>2, <1>3, <1>5, <1>6

LEMMA ImageInit ==
    ASSUME Init
    PROVE  LeftInv /\ ImageInv
<1>0. TypeOK
  BY TypeInit DEF TypeInv
<1>1. ncosets = 1 /\ i = 1 /\ k = 1 /\ todo = <<>> /\ left = Relations(1) /\ rel = Head(left)
  BY DEF Init
<1>2. left \in Seq(ClosingWords(i)) /\ rel \in ClosingWords(1)
  BY <1>0, <1>1, RelationsClose
<1>3. ASSUME NEW t \in PointTables, IsAction(t, NPoints)
      PROVE  HasImage(t)
  <2>1. PICK f : f = [c \in 1 .. 1 |-> 1]
    OBVIOUS
  <2>2. 1 \in 1 .. NPoints
    BY NPointsAssumption
  <2>3. \A r \in 1 .. NVars : table[r][1] = 0
    BY Variables, MaxCosetsAssumption DEF Init, Cosets
  <2>4. IsImage(f, t, ncosets, table)
    BY <1>1, <2>1, <2>2, <2>3 DEF IsImage
  <2>5. todo \in Seq(EqualPairs(f, ncosets))
    BY <1>1, EmptySeq
  <2>6. Walk(t, f[k], rel) = f[i]
    BY <1>0, <1>1, <1>2, <1>3, <2>1, <2>2, RowCloses
  <2> QED
    BY <2>4, <2>5, <2>6 DEF HasImage
<1> QED
  BY <1>2, <1>3 DEF LeftInv, ImageInv

\* What a step may assume: the table is accurate, and t has its map.
LEMMA TracedImage ==
    ASSUME TableInv, ~misnamed, phase = "row", NEW t, IsAction(t, NPoints), HasImage(t)
    PROVE  /\ TypeInv /\ TypeOK /\ Accurate(table, ncosets) /\ ncosets \in Nat
           /\ rel \in Words /\ Head(rel) \in Letters /\ -Head(rel) \in Letters
           /\ k \in 1 .. ncosets /\ i \in 1 .. ncosets
           /\ \E f : /\ IsImage(f, t, ncosets, table) /\ todo \in Seq(EqualPairs(f, ncosets))
                     /\ Walk(t, f[k], rel) = f[i]
                     /\ f[k] \in 1 .. NPoints /\ f[i] \in 1 .. NPoints /\ f[k] # 0
<1>1. TypeInv /\ TypeOK /\ Accurate(table, ncosets) /\ ncosets \in Nat
  BY TypeFacts DEF TableInv, TypeInv, KnownInv
<1>2. rel \in Words /\ Head(rel) \in Letters /\ -Head(rel) \in Letters
  BY <1>1, TraceFacts
<1>3. k \in 1 .. ncosets /\ i \in 1 .. ncosets
  BY <1>1, TraceFacts, TypeFacts DEF TableInv, KnownInv, Cosets
<1>4. PICK f : IsImage(f, t, ncosets, table) /\ todo \in Seq(EqualPairs(f, ncosets))
               /\ Walk(t, f[k], rel) = f[i]
  BY DEF HasImage
<1>5. f[k] \in 1 .. NPoints /\ f[i] \in 1 .. NPoints
  BY <1>3, <1>4 DEF IsImage
<1>6. f[k] # 0
  BY <1>5, NPointsAssumption
<1> QED
  BY <1>1, <1>2, <1>3, <1>4, <1>5, <1>6

\* A product more, that t agrees with.
LEMMA ImageOfDefined ==
    ASSUME NEW t, IsAction(t, NPoints), NEW n \in Nat, n <= MaxCosets, NEW tab \in Tables,
           NEW f, IsImage(f, t, n, tab), NEW c \in 1 .. n, NEW h \in Letters, NEW s \in 1 .. n,
           f[s] = t[h][f[c]]
    PROVE  IsImage(f, t, n, DefineMult(tab, c, h, s))
<1>0. MaxCosets \in Nat /\ \A d \in 1 .. n : d \in Cosets
  BY MaxCosetsAssumption DEF Cosets
<1>1. IsDefined(DefineMult(tab, c, h, s), tab, c, h, s)
  BY <1>0, DefineMultIs
<1>2. PICK u : u = DefineMult(tab, c, h, s)
  OBVIOUS
<1>3. f[c] \in 1 .. NPoints
  BY DEF IsImage
<1>4. t[-h][f[s]] = f[c]
  BY <1>3, ActionFacts
<1>5. ASSUME NEW r \in 1 .. NVars, NEW d \in 1 .. n, u[r][d] # 0
      PROVE  f[u[r][d]] = t[r][f[d]]
  <2>1. u[r][d] = IF r = h /\ d = c THEN s ELSE IF r = -h /\ d = s THEN c ELSE tab[r][d]
    BY <1>0, <1>1, <1>2, Variables DEF IsDefined
  <2> QED
    BY <1>4, <1>5, <2>1 DEF IsImage
<1> QED
  BY <1>2, <1>5 DEF IsImage

LEMMA NextCosetImage ==
    ASSUME TableInv, ~misnamed, NEW t, IsAction(t, NPoints), HasImage(t), NextCoset
    PROVE  HasImage(t)'
<1>0. phase = "row" /\ ncosets < MaxCosets /\ Product = 0 /\ ~LastLetter
  BY DEF NextCoset, Tracing
<1>1. /\ TypeInv /\ TypeOK /\ Accurate(table, ncosets) /\ ncosets \in Nat
      /\ rel \in Words /\ k \in 1 .. ncosets /\ i \in 1 .. ncosets
  BY <1>0, TracedImage
<1>2. PICK f : /\ IsImage(f, t, ncosets, table) /\ todo \in Seq(EqualPairs(f, ncosets))
               /\ Walk(t, f[k], rel) = f[i]
               /\ f[k] \in 1 .. NPoints /\ f[i] \in 1 .. NPoints /\ f[k] # 0
  BY <1>0, TracedImage
<1>3. PICK n \in Nat : n = ncosets + 1 /\ n \in Cosets /\ n <= MaxCosets
  BY <1>0, <1>1, TypeFacts DEF Cosets
<1>4. PICK h \in Letters : h = Head(rel)
  BY <1>0, TracedImage
<1>5. PICK p \in 1 .. NPoints : p = t[h][f[k]]
  BY <1>2, ActionFacts
<1>6. PICK g : g = [c \in 1 .. n |-> IF c = n THEN p ELSE f[c]]
  OBVIOUS
<1>7. g[n] = p /\ \A c \in 1 .. ncosets : c \in 1 .. n /\ c # n /\ g[c] = f[c]
  BY <1>1, <1>3, <1>6
<1>8. PICK u \in Tables : u = Cleared(n)
  BY <1>1, <1>3, TypeFacts, ClearedIs
<1>9. \A q \in Letters, d \in Cosets : u[q][d] = IF d = n THEN 0 ELSE table[q][d]
  BY <1>1, <1>3, <1>8, TypeFacts, ClearedIs
<1>10. table' = DefineMult(u, k, h, n) /\ ncosets' = n /\ k' = n /\ rel' = Tail(rel) /\
       UNCHANGED <<todo, phase, i>>
  BY <1>3, <1>4, <1>8 DEF NextCoset
<1>11. IsImage(g, t, n, u)
  <2>1. g \in [1 .. n -> 1 .. NPoints]
    <3>1. \A c \in 1 .. n : c # n => f[c] \in 1 .. NPoints
      BY <1>1, <1>2, <1>3 DEF IsImage
    <3> QED
      BY <1>6, <3>1
  <2>2. g[1] = 1
    BY <1>1, <1>2, <1>7 DEF IsImage
  <2>3. ASSUME NEW r \in 1 .. NVars, NEW c \in 1 .. n, u[r][c] # 0
        PROVE  g[u[r][c]] = t[r][g[c]]
    <3>1. r \in Letters /\ c \in Cosets
      BY <1>3, Variables, TypeFacts, <1>1 DEF Cosets
    <3>2. c # n /\ u[r][c] = table[r][c]
      BY <1>9, <2>3, <3>1
    <3>3. c \in 1 .. ncosets
      BY <1>1, <1>3, <3>2
    <3>4. table[r][c] \in 1 .. ncosets /\ f[table[r][c]] = t[r][f[c]]
      BY <1>1, <1>2, <2>3, <3>1, <3>2, <3>3, ImageOfLetters
    <3> QED
      BY <1>7, <3>2, <3>3, <3>4
  <2> QED
    BY <2>1, <2>2, <2>3 DEF IsImage
<1>12. IsImage(g, t, n, DefineMult(u, k, h, n))
  <2>1. k \in 1 .. n /\ n \in 1 .. n /\ g[n] = t[h][g[k]]
    BY <1>1, <1>3, <1>5, <1>7
  <2> QED
    BY <1>3, <1>11, <2>1, ImageOfDefined
<1>13. todo \in Seq(EqualPairs(g, n))
  <2>1. \A x \in EqualPairs(f, ncosets) : x \in EqualPairs(g, n)
    BY <1>1, <1>3, <1>7 DEF EqualPairs
  <2>2. Len(todo) \in Nat /\ \A q \in 1 .. Len(todo) : todo[q] \in EqualPairs(f, ncosets)
    BY <1>2, ElementOfSeq
  <2>3. todo \in [1 .. Len(todo) -> EqualPairs(g, n)]
    BY <1>2, <2>1, <2>2, LenProperties
  <2> QED
    BY <2>2, <2>3, SeqDef
<1>14. Walk(t, g[n], Tail(rel)) = g[i]
  <2>1. Len(rel) # 1
    BY <1>0 DEF LastLetter
  <2>2. Walk(t, f[k], rel) = Walk(t, t[Head(rel)][f[k]], Tail(rel))
    BY <1>1, <1>2, <2>1, WalkStep
  <2> QED
    BY <1>1, <1>2, <1>4, <1>5, <1>7, <2>2
<1>15. /\ IsImage(g, t, ncosets', table') /\ todo' \in Seq(EqualPairs(g, ncosets'))
       /\ Walk(t, g[k'], rel') = g[i']
  BY <1>10, <1>12, <1>13, <1>14
<1> QED
  BY <1>15 DEF HasImage

LEMMA FollowImage ==
    ASSUME TableInv, ~misnamed, NEW t, IsAction(t, NPoints), HasImage(t), Follow
    PROVE  HasImage(t)'
<1>0. phase = "row" /\ Product # 0 /\ ~LastLetter /\ k' = Product /\ rel' = Tail(rel) /\
      UNCHANGED <<ncosets, table, todo, phase, i>>
  BY DEF Follow, Tracing
<1>1. /\ TypeOK /\ Accurate(table, ncosets) /\ rel \in Words /\ Head(rel) \in Letters
      /\ k \in 1 .. ncosets
  BY <1>0, TracedImage
<1>2. PICK f : /\ IsImage(f, t, ncosets, table) /\ todo \in Seq(EqualPairs(f, ncosets))
               /\ Walk(t, f[k], rel) = f[i] /\ f[k] # 0
  BY <1>0, TracedImage
<1>3. f[Product] = t[Head(rel)][f[k]]
  BY <1>0, <1>1, <1>2, ImageOfLetters DEF Product
<1>4. Walk(t, f[k], rel) = Walk(t, t[Head(rel)][f[k]], Tail(rel))
  BY <1>0, <1>1, <1>2, WalkStep DEF LastLetter
<1>5. /\ IsImage(f, t, ncosets', table') /\ todo' \in Seq(EqualPairs(f, ncosets'))
      /\ Walk(t, f[k'], rel') = f[i']
  BY <1>0, <1>2, <1>3, <1>4
<1> QED
  BY <1>5 DEF HasImage

\* When a row begins the trace closes, for it is at its coset, with a relation.
LEMMA BeginRowImage ==
    ASSUME TypeOK, NEW t, IsAction(t, NPoints), NEW f, NEW tab, IsImage(f, t, ncosets, tab),
           NEW row \in Nat \ {0}, BeginRow(row, ncosets)
    PROVE  phase' = "row" => Walk(t, f[k'], rel') = f[i']
<1> SUFFICES ASSUME phase' = "row" PROVE Walk(t, f[k'], rel') = f[i']
  OBVIOUS
<1>1. row \in 1 .. ncosets /\ k' = row /\ i' = row /\ rel' = Head(Relations(row))
  BY TypeFacts DEF BeginRow
<1>2. f[row] \in 1 .. NPoints /\ (row = 1 => f[row] = 1)
  BY <1>1 DEF IsImage
<1>3. Head(Relations(row)) \in ClosingWords(row)
  BY RelationsClose
<1> QED
  BY <1>1, <1>2, <1>3, RowCloses

\* The last letter of a relation leads, in t, back to the row's coset.
LEMMA LastLetterImage ==
    ASSUME TableInv, ~misnamed, phase = "row", LastLetter, NEW t, IsAction(t, NPoints),
           HasImage(t)
    PROVE  \E f : /\ IsImage(f, t, ncosets, table) /\ todo \in Seq(EqualPairs(f, ncosets))
                  /\ t[Head(rel)][f[k]] = f[i] /\ t[-Head(rel)][f[i]] = f[k]
<1>1. PICK f : /\ IsImage(f, t, ncosets, table) /\ todo \in Seq(EqualPairs(f, ncosets))
               /\ Walk(t, f[k], rel) = f[i]
               /\ f[k] \in 1 .. NPoints /\ f[i] \in 1 .. NPoints /\ f[k] # 0
  BY TracedImage
<1>2. rel \in Words /\ Len(rel) = 1 /\ Head(rel) \in Letters
  BY TracedImage DEF LastLetter
<1>3. t[Head(rel)][f[k]] = f[i]
  BY <1>1, <1>2, WalkLast
<1>4. t[-Head(rel)][f[i]] = f[k]
  BY <1>1, <1>2, <1>3, ActionFacts
<1> QED
  BY <1>1, <1>3, <1>4

LEMMA EndRelationImage ==
    ASSUME TableInv, LeftInv, ~misnamed, NEW t, IsAction(t, NPoints), HasImage(t), EndRelation
    PROVE  HasImage(t)'
<1>0. phase = "row" /\ LastLetter /\ UNCHANGED <<ncosets, todo>>
  BY DEF EndRelation, Tracing
<1>1. /\ TypeInv /\ TypeOK /\ ncosets \in Nat /\ Head(rel) \in Letters
      /\ k \in 1 .. ncosets /\ i \in 1 .. ncosets /\ table \in Tables /\ ncosets <= MaxCosets
  BY <1>0, TracedImage, TypeFacts
<1>2. PICK f : /\ IsImage(f, t, ncosets, table) /\ todo \in Seq(EqualPairs(f, ncosets))
               /\ t[Head(rel)][f[k]] = f[i]
  BY <1>0, LastLetterImage
<1>3. IsImage(f, t, ncosets, table')
  <2>1. CASE Product = 0 /\ table[-Head(rel)][i] = 0
    <3>1. table' = DefineMult(table, k, Head(rel), i)
      BY <2>1 DEF EndRelation
    <3>2. PICK h \in Letters : h = Head(rel)
      BY <1>1
    <3>3. IsImage(f, t, ncosets, DefineMult(table, k, h, i))
      BY <1>1, <1>2, <3>2, ImageOfDefined
    <3> QED
      BY <3>1, <3>2, <3>3
  <2>2. CASE ~(Product = 0 /\ table[-Head(rel)][i] = 0)
    BY <1>2, <2>2 DEF EndRelation
  <2> QED
    BY <2>1, <2>2
<1>4. phase' = "row" => Walk(t, f[k'], rel') = f[i']
  <2>1. CASE Len(left) > 1
    <3>1. rel' = left[2] /\ k' = i /\ i' = i
      BY <2>1 DEF EndRelation
    <3>2. left[2] \in ClosingWords(i)
      <4>1. PICK W : W = ClosingWords(i)
        OBVIOUS
      <4>2. left \in Seq(W)
        BY <1>0, <4>1 DEF LeftInv
      <4> QED
        BY <2>1, <4>1, <4>2
    <3>3. f[i] \in 1 .. NPoints /\ (i = 1 => f[i] = 1)
      BY <1>1, <1>2 DEF IsImage
    <3> QED
      BY <1>1, <3>1, <3>2, <3>3, RowCloses
  <2>2. CASE ~(Len(left) > 1)
    <3>1. BeginRow(i + 1, ncosets) /\ i + 1 \in Nat \ {0}
      BY <1>1, <2>2 DEF EndRelation
    <3> QED
      BY <1>1, <1>3, <3>1, BeginRowImage
  <2> QED
    BY <2>1, <2>2
<1>5. IsImage(f, t, ncosets', table') /\ todo' \in Seq(EqualPairs(f, ncosets'))
  BY <1>0, <1>2, <1>3
<1> QED
  BY <1>4, <1>5 DEF HasImage

LEMMA CoincidenceImage ==
    ASSUME TableInv, ~misnamed, NEW t, IsAction(t, NPoints), HasImage(t), Coincidence
    PROVE  HasImage(t)'
<1>0. phase = "row" /\ LastLetter /\ phase' = "replace" /\ UNCHANGED <<ncosets, table>>
  BY DEF Coincidence, Tracing
<1>1. /\ TypeInv /\ TypeOK /\ Accurate(table, ncosets) /\ k \in 1 .. ncosets /\ i \in 1 .. ncosets
      /\ \A e \in Cosets : e # 0
  BY <1>0, TracedImage, TypeFacts DEF Cosets
<1>2. PICK f : /\ IsImage(f, t, ncosets, table)
               /\ t[Head(rel)][f[k]] = f[i] /\ t[-Head(rel)][f[i]] = f[k]
  BY <1>0, LastLetterImage
<1>3. PICK h \in Letters : h = Head(rel) /\ -h \in Letters
  BY <1>0, TracedImage
<1>4. \A a, b \in 1 .. ncosets : f[a] = f[b] => <<Pair(a, b)>> \in Seq(EqualPairs(f, ncosets))
  <2> TAKE a \in 1 .. ncosets, b \in 1 .. ncosets
  <2> HAVE f[a] = f[b]
  <2>1. Pair(a, b) \in EqualPairs(f, ncosets)
    BY DEF Pair, EqualPairs
  <2> QED
    BY <2>1, OnePair
<1>5. todo' \in Seq(EqualPairs(f, ncosets))
  <2>1. CASE Product = 0 /\ table[-h][i] \in Cosets /\ todo' = <<Pair(k, table[-h][i])>>
    <3>1. table[-h][i] \in 1 .. ncosets /\ f[table[-h][i]] = t[-h][f[i]]
      BY <1>1, <1>2, <1>3, <2>1, ImageOfLetters
    <3> QED
      BY <1>1, <1>2, <1>3, <1>4, <2>1, <3>1
  <2>2. CASE Product \in Cosets /\ todo' = <<Pair(i, Product)>>
    <3>1. Product \in 1 .. ncosets /\ f[Product] = t[h][f[k]]
      BY <1>1, <1>2, <1>3, <2>2, ImageOfLetters DEF Product
    <3> QED
      BY <1>1, <1>2, <1>3, <1>4, <2>2, <3>1
  <2> QED
    BY <1>1, <1>3, <2>1, <2>2, CoincidencePair
<1>6. IsImage(f, t, ncosets', table') /\ todo' \in Seq(EqualPairs(f, ncosets'))
  BY <1>0, <1>2, <1>5
<1> QED
  BY <1>0, <1>6 DEF HasImage

\* The map with coset n taken out.
Closed(f, n) == [c \in 1 .. ncosets - 1 |-> IF c < n THEN f[c] ELSE f[c + 1]]

LEMMA ReplaceImage ==
    ASSUME TableInv, NEW t, IsAction(t, NPoints), HasImage(t), Replace, ~misnamed'
    PROVE  HasImage(t)'
<1>0. TypeInv /\ TypeOK /\ ncosets \in Nat /\ ~misnamed
  BY ReplaceNamed, TypeFacts DEF TableInv, TypeInv
<1>1. PICK m \in 1 .. ncosets, n \in 1 .. ncosets : m < n /\ Replaced(m, n)
  BY ReplaceNamed
<1>2. m \in Cosets /\ n \in Cosets /\ m \in Nat /\ n \in Nat /\ m >= 1 /\ n <= ncosets
  BY <1>0, <1>1, CosetIs
<1>3. PICK f : IsImage(f, t, ncosets, table) /\ todo \in Seq(EqualPairs(f, ncosets))
  BY DEF HasImage
<1>4. ncosets' = ncosets - 1 /\ phase' = "replace" /\ todo # <<>>
  BY <1>1 DEF Replaced
<1>5. f[m] = f[n]
  <2>1. Len(todo) \in 1 .. Len(todo)
    BY <1>3, <1>4, EmptySeq
  <2>2. todo[Len(todo)] \in EqualPairs(f, ncosets)
    BY <1>3, <2>1, ElementOfSeq
  <2> QED
    BY <1>1, <2>2 DEF EqualPairs, Replaced
<1>6. PICK g : g = Closed(f, n)
  OBVIOUS
<1>7. \A c \in 1 .. ncosets - 1 : g[c] = IF c < n THEN f[c] ELSE f[c + 1]
  BY <1>6 DEF Closed
<1>8. \A e \in 1 .. ncosets :
         Renamed(e, m, n) \in 1 .. ncosets - 1 /\ g[Renamed(e, m, n)] = f[e]
  <2> TAKE e \in 1 .. ncosets
  <2>1. CASE e > n
    <3>1. Renamed(e, m, n) = e - 1 /\ e - 1 \in 1 .. ncosets - 1 /\ ~(e - 1 < n) /\ e - 1 + 1 = e
      BY <1>0, <1>2, <2>1 DEF Renamed
    <3> QED
      BY <1>7, <3>1
  <2>2. CASE e = n
    <3>1. Renamed(e, m, n) = m /\ m \in 1 .. ncosets - 1
      BY <1>0, <1>1, <1>2, <2>2 DEF Renamed
    <3> QED
      BY <1>1, <1>5, <1>7, <2>2, <3>1
  <2>3. CASE e < n
    <3>1. Renamed(e, m, n) = e /\ e \in 1 .. ncosets - 1
      BY <1>0, <1>2, <2>3 DEF Renamed
    <3> QED
      BY <1>7, <2>3, <3>1
  <2> QED
    BY <1>0, <1>2, <2>1, <2>2, <2>3
<1>9. \A r \in 1 .. NVars, c \in 1 .. ncosets :
         table[r][c] # 0 => table[r][c] \in 1 .. ncosets /\ f[table[r][c]] = t[r][f[c]]
  <2> TAKE r \in 1 .. NVars, c \in 1 .. ncosets
  <2> HAVE table[r][c] # 0
  <2>1. table[r][c] \in Cosets /\ table[r][c] <= ncosets
    BY <1>0, CosetIs, EntryType, Variables DEF TableInv, KnownInv
  <2> QED
    BY <1>0, <1>3, <2>1 DEF IsImage, Cosets
<1>10. IsImage(g, t, ncosets - 1, table')
  <2>1. g \in [1 .. ncosets - 1 -> 1 .. NPoints]
    <3>1. \A c \in 1 .. ncosets - 1 : c \in 1 .. ncosets /\ c + 1 \in 1 .. ncosets
      BY <1>0
    <3>2. \A c \in 1 .. ncosets - 1 :
             (IF c < n THEN f[c] ELSE f[c + 1]) \in 1 .. NPoints
      BY <1>3, <3>1 DEF IsImage
    <3> QED
      BY <1>6, <3>2 DEF Closed
  <2>2. g[1] = 1
    <3>1. 1 \in 1 .. ncosets - 1 /\ 1 < n
      BY <1>0, <1>1, <1>2
    <3> QED
      BY <1>3, <1>7, <3>1 DEF IsImage
  <2>3. ASSUME NEW r \in 1 .. NVars, NEW c \in 1 .. ncosets - 1, table'[r][c] # 0
        PROVE  g[table'[r][c]] = t[r][g[c]]
    <3>1. r \in Letters /\ table'[r] = Merged(r, m, n)
      BY <1>1, Variables, NVarsAssumption DEF Replaced
    <3>2. PICK d \in 1 .. ncosets : d = IF c < n THEN c ELSE c + 1
      <4>1. c \in 1 .. ncosets /\ c + 1 \in 1 .. ncosets
        BY <1>0
      <4> QED
        BY <4>1
    <3>3. PICK e : e = IF d = m /\ table[r][m] = 0 THEN table[r][n] ELSE table[r][d]
      OBVIOUS
    <3>4. table'[r][c] = Renamed(e, m, n)
      BY <1>0, <1>2, <3>1, <3>2, <3>3, MergedAt
    <3>5. e # 0
      <4>1. Renamed(0, m, n) = 0
        BY <1>1, <1>2 DEF Renamed
      <4> QED
        BY <2>3, <3>4, <4>1
    <3>6. e \in 1 .. ncosets /\ f[e] = t[r][f[d]]
      <4>1. CASE d = m /\ table[r][m] = 0
        BY <1>5, <1>9, <3>3, <3>5, <4>1
      <4>2. CASE ~(d = m /\ table[r][m] = 0)
        BY <1>9, <3>3, <3>5, <4>2
      <4> QED
        BY <4>1, <4>2
    <3>7. g[c] = f[d]
      BY <1>7, <3>2
    <3> QED
      BY <1>8, <3>4, <3>6, <3>7
  <2> QED
    BY <2>1, <2>2, <2>3 DEF IsImage
<1>11. todo' \in Seq(EqualPairs(g, ncosets - 1))
  <2> DEFINE P == EqualPairs(f, ncosets)
             Q == EqualPairs(g, ncosets - 1)
  <2>1. \A r \in 1 .. NVars : Clash(m, n, r) \in Seq(P)
    <3> TAKE r \in 1 .. NVars
    <3>1. table[r][n] # 0 /\ table[r][m] # 0 => Pair(table[r][m], table[r][n]) \in P
      <4> HAVE table[r][n] # 0 /\ table[r][m] # 0
      <4>1. PICK a \in 1 .. ncosets, b \in 1 .. ncosets :
               a = table[r][m] /\ b = table[r][n] /\ f[a] = f[b]
        BY <1>5, <1>9
      <4> QED
        BY <4>1 DEF Pair, EqualPairs
    <3> QED
      BY <3>1, ClashType
  <2>2. \A p \in P : <<Renamed(p[1], m, n), Renamed(p[2], m, n)>> \in Q
    <3> TAKE p \in P
    <3>1. p[1] \in 1 .. ncosets /\ p[2] \in 1 .. ncosets /\ f[p[1]] = f[p[2]]
      BY DEF EqualPairs
    <3>2. PICK a \in 1 .. ncosets - 1, b \in 1 .. ncosets - 1 :
             a = Renamed(p[1], m, n) /\ b = Renamed(p[2], m, n) /\ g[a] = g[b]
      BY <1>8, <3>1
    <3> QED
      BY <3>2 DEF EqualPairs
  <2>3. todo \in Seq(P) /\ todo # <<>>
    BY <1>3, <1>4
  <2>4. todo' = [q \in 1 .. Len(Popped \o Clashes(m, n)) |->
                    <<Renamed((Popped \o Clashes(m, n))[q][1], m, n),
                      Renamed((Popped \o Clashes(m, n))[q][2], m, n)>>]
    BY <1>1 DEF Replaced
  <2> HIDE DEF P, Q
  <2>5. todo' \in Seq(Q)
    BY <2>1, <2>2, <2>3, <2>4, QueueIs
  <2> QED
    BY <2>5 DEF Q
<1>12. IsImage(g, t, ncosets', table') /\ todo' \in Seq(EqualPairs(g, ncosets'))
  BY <1>4, <1>10, <1>11
<1> QED
  BY <1>4, <1>12 DEF HasImage

LEMMA SkipPairImage ==
    ASSUME TableInv, NEW t, HasImage(t), SkipPair
    PROVE  HasImage(t)'
<1>1. phase' = "replace" /\ UNCHANGED <<ncosets, table>>
  BY DEF SkipPair
<1>2. \A P : todo \in Seq(P) => todo' \in Seq(P)
  BY SkipPairType DEF TableInv
<1>3. PICK f : IsImage(f, t, ncosets, table) /\ todo \in Seq(EqualPairs(f, ncosets))
  BY DEF HasImage
<1>4. IsImage(f, t, ncosets', table') /\ todo' \in Seq(EqualPairs(f, ncosets'))
  BY <1>1, <1>2, <1>3
<1> QED
  BY <1>1, <1>4 DEF HasImage

LEMMA RepeatFoundImage ==
    ASSUME TableInv, ~misnamed, NEW t, IsAction(t, NPoints), HasImage(t), RepeatFound
    PROVE  HasImage(t)'
<1>0. TypeInv /\ TypeOK /\ ncosets \in Nat
  BY TypeFacts DEF TableInv, TypeInv
<1>1. phase' = "replace" /\ UNCHANGED ncosets
  BY DEF RepeatFound
<1>2. PICK r \in 1 .. NVars, b \in 1 .. ncosets, a \in Cosets :
         todo' = <<<<a, b>>>> /\ IsRepetition(r, a, b)
  BY <1>0, RepeatIs
<1>3. PICK f : IsImage(f, t, ncosets, table)
  BY DEF HasImage
<1>4. PICK s \in Cosets : s = table[r][b] /\ s # 0 /\ s <= ncosets
  <2>1. table[r][b] \in Cosets /\ table[r][b] <= ncosets
    BY <1>2 DEF IsRepetition, TableInv, KnownInv
  <2> QED
    BY <1>0, <2>1, TypeFacts DEF Cosets
<1>5. a \in 1 .. ncosets /\ table[r][a] = s
  <2>1. a \in 1 .. b - 1 /\ table[r][a] = s
    BY <1>0, <1>2, <1>4, TypeFacts DEF IsRepetition, Cosets
  <2> QED
    BY <1>0, <2>1
<1>6. f[s] = t[r][f[a]] /\ f[s] = t[r][f[b]] /\ f[a] \in 1 .. NPoints /\ f[b] \in 1 .. NPoints
  BY <1>3, <1>4, <1>5 DEF IsImage
<1>7. f[a] = f[b]
  <2>1. \A q \in Letters, p \in 1 .. NPoints : t[-q][t[q][p]] = p
    BY ActionFacts
  <2>2. t[-r][t[r][f[a]]] = f[a] /\ t[-r][t[r][f[b]]] = f[b]
    BY <1>6, <2>1, Variables
  <2> QED
    BY <1>6, <2>2
<1>8. todo' \in Seq(EqualPairs(f, ncosets))
  <2>1. <<a, b>> \in EqualPairs(f, ncosets)
    BY <1>5, <1>7 DEF EqualPairs
  <2> QED
    BY <1>2, <2>1, OnePair
<1>9. IsImage(f, t, ncosets, table')
  <2>1. \A q \in 1 .. NVars : table'[q] = table[q]
    BY <1>0, RepeatIs
  <2> QED
    BY <1>3, <2>1 DEF IsImage
<1>10. IsImage(f, t, ncosets', table') /\ todo' \in Seq(EqualPairs(f, ncosets'))
  BY <1>1, <1>8, <1>9
<1> QED
  BY <1>1, <1>10 DEF HasImage

LEMMA FillInversesImage ==
    ASSUME TableInv, NEW t, IsAction(t, NPoints), HasImage(t), FillInverses
    PROVE  HasImage(t)'
<1>0. TypeInv /\ TypeOK /\ i \in Nat \ {0}
  BY DEF TableInv, TypeInv, TypeOK
<1>1. BeginRow(i, ncosets) /\ UNCHANGED <<ncosets, todo>>
  BY DEF FillInverses
<1>2. PICK f : IsImage(f, t, ncosets, table) /\ todo \in Seq(EqualPairs(f, ncosets))
  BY DEF HasImage
<1>3. IsImage(f, t, ncosets, table')
  <2>1. \A q \in 1 .. NVars : table'[q] = table[q]
    BY <1>0, FilledIs, Variables, NVarsAssumption
  <2> QED
    BY <1>2, <2>1 DEF IsImage
<1>4. phase' = "row" => Walk(t, f[k'], rel') = f[i']
  BY <1>0, <1>1, <1>3, BeginRowImage
<1>5. IsImage(f, t, ncosets', table') /\ todo' \in Seq(EqualPairs(f, ncosets'))
  BY <1>1, <1>2, <1>3
<1> QED
  BY <1>4, <1>5 DEF HasImage

LEMMA BeginRowLeft ==
    ASSUME TypeOK, NEW row, NEW n, BeginRow(row, n), pres' = pres
    PROVE  LeftInv'
<1>1. i' = row /\ left' = Relations(row)
  BY DEF BeginRow
<1>2. \A r : ClosingWords(r)' = ClosingWords(r)
  BY DEF ClosingWords, Relations
<1>3. left' \in Seq(ClosingWords(row))
  BY <1>1, RelationsClose
<1>4. ClosingWords(i)' = ClosingWords(row)
  BY <1>1 DEF ClosingWords, Relations
<1> QED
  BY <1>3, <1>4 DEF LeftInv

LEMMA LeftNext ==
    ASSUME TableInv, LeftInv, [Next]_vars
    PROVE  LeftInv' /\ pres' = pres
<1>0. TypeInv /\ TypeOK
  BY DEF TableInv, TypeInv
<1>1. pres' = pres
  BY DEF Next, NextCoset, Follow, EndRelation, Coincidence, Overflow, Replace, SkipPair, RepeatFound,
     FillInverses, vars
<1>2. UNCHANGED <<i, phase, left>> => LeftInv'
  <2> SUFFICES ASSUME UNCHANGED <<i, phase, left>> PROVE LeftInv'
    OBVIOUS
  <2>1. ClosingWords(i)' = ClosingWords(i)
    BY <1>1 DEF ClosingWords, Relations
  <2> QED
    BY <2>1 DEF LeftInv
<1>3. CASE EndRelation
  <2>1. CASE Len(left) > 1
    <3>1. left' = Tail(left) /\ UNCHANGED <<i, phase>> /\ phase = "row"
      BY <1>3, <2>1 DEF EndRelation, Tracing
    <3>2. PICK W : W = ClosingWords(i)
      OBVIOUS
    <3>3. left \in Seq(W)
      BY <3>1, <3>2 DEF LeftInv
    <3>4. Tail(left) \in Seq(W)
      BY <2>1, <3>3
    <3>5. ClosingWords(i)' = W
      BY <1>1, <3>1, <3>2 DEF ClosingWords, Relations
    <3> QED
      BY <1>1, <3>1, <3>4, <3>5 DEF LeftInv
  <2>2. CASE ~(Len(left) > 1)
    <3>1. BeginRow(i + 1, ncosets)
      BY <1>3, <2>2 DEF EndRelation
    <3> QED
      BY <1>0, <1>1, <3>1, BeginRowLeft
  <2> QED
    BY <2>1, <2>2
<1>4. CASE FillInverses
  <2>1. BeginRow(i, ncosets)
    BY <1>4 DEF FillInverses
  <2> QED
    BY <1>0, <1>1, <2>1, BeginRowLeft
<1>5. NextCoset \/ Follow => LeftInv'
  BY <1>2 DEF NextCoset, Follow
<1>6. Coincidence \/ Overflow \/ Replace \/ SkipPair \/ RepeatFound => phase' # "row"
  BY DEF Coincidence, Overflow, Replace, SkipPair, RepeatFound
<1>7. phase' # "row" => LeftInv'
  BY DEF LeftInv
<1>8. UNCHANGED vars => LeftInv'
  BY <1>2 DEF vars
<1> QED
  BY <1>1, <1>3, <1>4, <1>5, <1>6, <1>7, <1>8 DEF Next

MergedInv == TableInv /\ LeftInv /\ ImageInv

LEMMA MergedNext ==
    ASSUME MergedInv, [Next]_vars
    PROVE  MergedInv'
<1>0. TableInv /\ TableInv' /\ LeftInv /\ LeftInv' /\ pres' = pres
  BY TableNext, LeftNext DEF MergedInv
<1>1. misnamed => misnamed'
  BY DEF Next, NextCoset, Follow, EndRelation, Coincidence, Overflow, Replace, SkipPair, RepeatFound,
     FillInverses, vars, ghostVars
<1>2. ASSUME ~misnamed', NEW t \in PointTables, IsAction(t, NPoints)'
      PROVE  HasImage(t)'
  <2>1. IsAction(t, NPoints)
    BY <1>0, <1>2 DEF IsAction
  <2>2. ~misnamed /\ HasImage(t)
    BY <1>1, <1>2, <2>1 DEF MergedInv, ImageInv
  <2>3. UNCHANGED vars => HasImage(t)'
    BY <2>2 DEF vars, HasImage
  <2>4. Overflow => HasImage(t)'
    BY <2>2 DEF Overflow, HasImage
  <2> QED
    BY <1>0, <1>2, <2>1, <2>2, <2>3, <2>4, NextCosetImage, FollowImage, EndRelationImage,
       CoincidenceImage, ReplaceImage, SkipPairImage, RepeatFoundImage, FillInversesImage DEF Next
<1> QED
  BY <1>0, <1>2 DEF MergedInv, ImageInv

\* No two cosets are identified but by the relations: at any time, for any
\* presentation, every action of the group in which the subgroup fixes a point is an
\* image of the table and of the pairs to be made equal.  Cosets that some action
\* keeps apart are never made one (doing-row, replace-coset-in-multiply-table,
\* fill-in-inverses).
THEOREM NothingIsMerged == Spec => []NothingMerged
<1>1. Init => MergedInv
  BY TypeInit, KnownInit, ImageInit DEF TableInv, MergedInv
<1>2. ASSUME MergedInv PROVE NothingMerged
  <2> SUFFICES ASSUME ~misnamed, NEW t \in PointTables, IsAction(t, NPoints)
               PROVE  \E f \in [1 .. ncosets -> 1 .. NPoints] :
                          /\ f[1] = 1
                          /\ \A r \in 1 .. NVars, c \in 1 .. ncosets :
                                table[r][c] # 0 => f[table[r][c]] = t[r][f[c]]
                          /\ \A q \in 1 .. Len(todo) : f[todo[q][1]] = f[todo[q][2]]
    BY DEF NothingMerged
  <2>1. PICK f : IsImage(f, t, ncosets, table) /\ todo \in Seq(EqualPairs(f, ncosets))
    BY <1>2 DEF MergedInv, ImageInv, HasImage
  <2>2. \A q \in 1 .. Len(todo) : f[todo[q][1]] = f[todo[q][2]]
    <3> TAKE q \in 1 .. Len(todo)
    <3>1. todo[q] \in EqualPairs(f, ncosets)
      BY <2>1, ElementOfSeq
    <3> QED
      BY <3>1 DEF EqualPairs
  <2> QED
    BY <2>1, <2>2 DEF IsImage
<1> QED
  BY <1>1, <1>2, MergedNext, PTL DEF Spec

-----------------------------------------------------------------------------
(* No product is lost when two cosets are identified.                      *)

\* The column of a variable after a replacement, where it is not stale.
LEMMA MergedEntry ==
    ASSUME TypeOK, NEW r \in Letters, NEW m \in Cosets, NEW n \in Cosets, m < n,
           NEW c \in 1 .. ncosets
    PROVE  Merged(r, m, n)[Renamed(c, m, n)] =
              IF c \in {m, n}
                THEN Renamed(IF table[r][m] = 0 THEN table[r][n] ELSE table[r][m], m, n)
                ELSE Renamed(table[r][c], m, n)
<1>0. ncosets \in Nat /\ ncosets <= MaxCosets /\ MaxCosets \in Nat /\ m \in Nat /\ n \in Nat
  BY TypeFacts DEF Cosets
<1>1. table[r] \in [Cosets -> Cosets \cup {0}] /\ c \in Cosets
  BY TypeFacts, CosetIs DEF Tables
<1>2. PICK column : column = Inherited(r, m, n)
  OBVIOUS
<1>3. /\ column[m] = IF table[r][m] = 0 THEN table[r][n] ELSE table[r][m]
      /\ \A d \in Cosets : d # m => column[d] = table[r][d]
  BY <1>1, <1>2 DEF Inherited
<1>4. \A d \in Cosets : Merged(r, m, n)[d] =
           IF d < n THEN Renamed(column[d], m, n)
           ELSE IF d < ncosets THEN Renamed(column[d + 1], m, n)
           ELSE column[d]
  BY <1>2 DEF Merged
<1>5. CASE c > n
  <2>1. Renamed(c, m, n) = c - 1 /\ c - 1 \in Cosets /\ ~(c - 1 < n) /\ c - 1 < ncosets /\ c - 1 + 1 = c
    BY <1>0, <1>1, <1>5 DEF Renamed, Cosets
  <2>2. c # m /\ c # n
    BY <1>0, <1>5
  <2> QED
    BY <1>1, <1>3, <1>4, <2>1, <2>2
<1>6. CASE c = n
  BY <1>0, <1>3, <1>4, <1>6 DEF Renamed
<1>7. CASE c < n
  BY <1>0, <1>1, <1>3, <1>4, <1>7 DEF Renamed
<1> QED
  BY <1>0, <1>5, <1>6, <1>7

\* The queue after a replacement has the pairs that were left in it, and the pair of
\* two products that differ.
LEMMA QueueHas ==
    ASSUME TypeOK, NEW m \in Cosets, NEW n \in Cosets, Replaced(m, n)
    PROVE  /\ \A q \in 1 .. Len(todo) - 1 : \E x \in 1 .. Len(todo') :
                 todo'[x] = <<Renamed(todo[q][1], m, n), Renamed(todo[q][2], m, n)>>
           /\ \A r \in 1 .. NVars :
                 table[r][n] # 0 /\ table[r][m] # 0 /\ table[r][n] # table[r][m] =>
                    \E x \in 1 .. Len(todo') :
                        LET p == Pair(table[r][m], table[r][n])
                        IN todo'[x] = <<Renamed(p[1], m, n), Renamed(p[2], m, n)>>
<1> DEFINE P == Cosets \X Cosets
<1>1. todo \in Seq(P) /\ todo # <<>> /\ Len(todo) \in Nat \ {0}
  BY EmptySeq DEF TypeOK, Replaced
<1>2. \A r \in 1 .. NVars : Clash(m, n, r) \in Seq(P)
  <2> TAKE r \in 1 .. NVars
  <2>1. table[r][n] # 0 /\ table[r][m] # 0 => Pair(table[r][m], table[r][n]) \in P
    BY Variables, EntryType, PairType
  <2> QED
    BY <2>1, ClashType
<1> HIDE DEF P
<1>3. PICK a \in Seq(P) : a = Popped /\ Len(a) = Len(todo) - 1 /\ \A q \in 1 .. Len(a) : a[q] = todo[q]
  <2>1. /\ 1 \in Int /\ Len(todo) - 1 \in Int
        /\ \A j \in 1 .. Len(todo) - 1 : j \in 1 .. Len(todo)
    BY <1>1
  <2>2. \A j \in 1 .. Len(todo) - 1 : todo[j] \in P
    BY <1>1, <2>1, ElementOfSeq
  <2>3. Popped \in Seq(P)
    BY <2>1, <2>2, SubSeqProperties DEF Popped
  <2>4. Len(Popped) = Len(todo) - 1 /\ \A q \in 1 .. Len(Popped) : Popped[q] = todo[q]
    <3>1. \A j \in 1 .. Len(todo) - 1 : j \in 1 .. Len(todo) /\ 1 + j - 1 = j
      BY <1>1
    <3>2. Len(Popped) = (IF 1 <= Len(todo) - 1 THEN Len(todo) - 1 - 1 + 1 ELSE 0)
      BY <2>1, <2>2, SubSeqProperties DEF Popped
    <3>3. Len(Popped) = Len(todo) - 1
      <4>1. PICK l \in Nat \ {0} : l = Len(todo)
        BY <1>1
      <4>2. (IF 1 <= l - 1 THEN l - 1 - 1 + 1 ELSE 0) = l - 1
        OBVIOUS
      <4> QED
        BY <3>2, <4>1, <4>2
    <3>4. \A q \in 1 .. Len(todo) - 1 : Popped[q] = todo[1 + q - 1]
      BY <1>1, <2>1, <2>2, <3>1, SubSeqProperties DEF Popped
    <3> QED
      BY <3>1, <3>3, <3>4
  <2> QED
    BY <2>3, <2>4
<1>4. PICK b \in Seq(P) : b = Clashes(m, n)
  BY <1>2, ClashesAre
<1>5. Len(a) \in Nat /\ Len(b) \in Nat /\ Len(a \o b) = Len(a) + Len(b) /\
      (\A q \in 1 .. Len(a) : (a \o b)[q] = a[q]) /\
      (\A q \in 1 .. Len(b) : (a \o b)[Len(a) + q] = b[q])
  OBVIOUS
<1>6. PICK e \in Seq(P) : e = a \o b
  <2>1. \A x, y \in Seq(P) : x \o y \in Seq(P)
    OBVIOUS
  <2> QED
    BY <2>1
<1>7. todo' = [q \in 1 .. Len(e) |-> <<Renamed(e[q][1], m, n), Renamed(e[q][2], m, n)>>]
  BY <1>3, <1>4, <1>6 DEF Replaced
<1>8. Len(todo') = Len(e) /\
      \A q \in 1 .. Len(e) : todo'[q] = <<Renamed(e[q][1], m, n), Renamed(e[q][2], m, n)>>
  BY <1>6, <1>7
<1>9. ASSUME NEW q \in 1 .. Len(todo) - 1
      PROVE  \E x \in 1 .. Len(todo') :
                 todo'[x] = <<Renamed(todo[q][1], m, n), Renamed(todo[q][2], m, n)>>
  <2>1. q \in 1 .. Len(a) /\ q \in 1 .. Len(e)
    BY <1>1, <1>3, <1>5, <1>6
  <2>2. e[q] = todo[q]
    BY <1>3, <1>5, <1>6, <2>1
  <2> QED
    BY <1>8, <2>1, <2>2
<1>10. ASSUME NEW r \in 1 .. NVars,
              table[r][n] # 0 /\ table[r][m] # 0 /\ table[r][n] # table[r][m]
       PROVE  \E x \in 1 .. Len(todo') :
                  LET p == Pair(table[r][m], table[r][n])
                  IN todo'[x] = <<Renamed(p[1], m, n), Renamed(p[2], m, n)>>
  <2>1. PICK p : p = Pair(table[r][m], table[r][n])
    OBVIOUS
  <2>2. Clash(m, n, r) = <<p>>
    BY <1>10, <2>1 DEF Clash
  <2>3. PICK q \in 1 .. Len(b) : b[q] = p
    BY <1>2, <1>4, <2>2, ClashesHave
  <2>4. Len(a) + q \in 1 .. Len(e) /\ e[Len(a) + q] = p
    BY <1>5, <1>6, <2>3
  <2>5. PICK x \in 1 .. Len(e) : e[x] = p
    BY <2>4
  <2> QED
    BY <1>8, <2>1, <2>5
<1> QED
  BY <1>9, <1>10

LEMMA KnownIsKept ==
    ASSUME TypeOK, NEW m \in Cosets, NEW n \in Cosets, m < n, Replaced(m, n),
           NEW r \in 1 .. NVars, NEW c \in 1 .. ncosets, table[r][c] # 0
    PROVE  Same(table'[r][Renamed(c, m, n)], Renamed(table[r][c], m, n), todo')
<1>1. table'[r] = Merged(r, m, n) /\ r \in Letters
  BY Variables, NVarsAssumption DEF Replaced
<1>2. m \in Nat /\ n \in Nat
  BY TypeFacts DEF Cosets
<1>3. table'[r][Renamed(c, m, n)] =
              IF c \in {m, n}
                THEN Renamed(IF table[r][m] = 0 THEN table[r][n] ELSE table[r][m], m, n)
                ELSE Renamed(table[r][c], m, n)
  BY <1>1, MergedEntry
<1>4. CASE c = n /\ table[r][m] # 0 /\ table[r][m] # table[r][n]
  <2>1. PICK a, b : a = table[r][m] /\ b = table[r][n]
    OBVIOUS
  <2>2. PICK x \in 1 .. Len(todo') :
           todo'[x] = <<Renamed(Pair(a, b)[1], m, n), Renamed(Pair(a, b)[2], m, n)>>
    BY <1>4, <2>1, QueueHas
  <2>3. \/ Pair(a, b) = <<a, b>>
        \/ Pair(a, b) = <<b, a>>
    BY DEF Pair
  <2>4. table'[r][Renamed(c, m, n)] = Renamed(a, m, n) /\ table[r][c] = b
    BY <1>3, <1>4, <2>1
  <2> QED
    BY <2>2, <2>3, <2>4 DEF Same
<1>5. CASE ~(c = n /\ table[r][m] # 0 /\ table[r][m] # table[r][n])
  BY <1>3, <1>5 DEF Same
<1> QED
  BY <1>4, <1>5

\* Every product that was known when a coset was replaced is known under the new
\* numbers, or the identification that makes it known is in the queue
\* (replace-coset-in-multiply-table).
THEOREM NoProductIsLost == Spec => NothingLost
<1>1. TypeInv => TypeOK
  BY DEF TypeInv
<1>2. ASSUME TypeInv, [Next]_vars
      PROVE  [\A m, n \in Cosets : Replace /\ todo[Len(todo)] = <<m, n>> /\ m < n =>
                 \A r \in 1 .. NVars, c \in 1 .. ncosets :
                     table[r][c] # 0 =>
                         Same(table'[r][Renamed(c, m, n)], Renamed(table[r][c], m, n), todo')]_vars
  <2>1. ASSUME NEW m \in Cosets, NEW n \in Cosets, Replace, todo[Len(todo)] = <<m, n>>, m < n
        PROVE  \A r \in 1 .. NVars, c \in 1 .. ncosets :
                   table[r][c] # 0 =>
                       Same(table'[r][Renamed(c, m, n)], Renamed(table[r][c], m, n), todo')
    <3>1. Replaced(m, n)
      BY <2>1, ReplacedPair
    <3> QED
      BY <1>1, <1>2, <2>1, <3>1, KnownIsKept
  <2> QED
    BY <2>1
<1> QED
  BY <1>2, TypeInit, TypeNext, PTL DEF Spec, NothingLost

-----------------------------------------------------------------------------
(* The relations close at the cosets of the rows that are finished, once   *)
(* the pending pairs are made equal; every coset is reached from the first.*)

\* The ways to make the pending pairs equal: f tells which cosets become one.
Quotients(n, queue) == {f \in [1 .. n -> Cosets] : queue \in Seq(EqualPairs(f, n))}

\* Some coset of x is sent by r to a coset of y, or one of y to one of x by -r.
Step(tab, n, f, r, x, y) ==
    IF r > 0
      THEN \E e \in 1 .. n : tab[r][e] # 0 /\ f[e] = x /\ f[tab[r][e]] = y
      ELSE \E e \in 1 .. n : tab[-r][e] # 0 /\ f[e] = y /\ f[tab[-r][e]] = x

\* p leads through the first s letters of w.
Path(tab, n, f, w, s, p) ==
    p \in [0 .. s -> Cosets] /\ \A q \in 1 .. s : Step(tab, n, f, w[q], p[q - 1], p[q])

\* The relation w leads from coset c back to it.
Closes(tab, n, f, w, c) ==
    \E p : Path(tab, n, f, w, Len(w), p) /\ p[0] = f[c] /\ p[Len(w)] = f[c]

\* v is what is left of w when x has been led to y.
Prefix(tab, n, f, w, v, x, y) ==
    \E s \in Nat : \E p :
        /\ s + Len(v) = Len(w) /\ \A q \in 1 .. Len(v) : v[q] = w[s + q]
        /\ Path(tab, n, f, w, s, p) /\ p[0] = x /\ p[s] = y

LEMMA PathExtended ==
    ASSUME NEW tab, NEW n, NEW f, NEW w, NEW s \in Nat, NEW p, Path(tab, n, f, w, s, p),
           NEW y \in Cosets, Step(tab, n, f, w[s + 1], p[s], y)
    PROVE  \E x : Path(tab, n, f, w, s + 1, x) /\ x[0] = p[0] /\ x[s + 1] = y
<1>1. p \in [0 .. s -> Cosets] /\ \A q \in 1 .. s : Step(tab, n, f, w[q], p[q - 1], p[q])
  BY DEF Path
<1>2. PICK x : x = [q \in 0 .. s + 1 |-> IF q = s + 1 THEN y ELSE p[q]]
  OBVIOUS
<1>3. x[s + 1] = y /\ \A q \in 0 .. s : x[q] = p[q]
  BY <1>2
<1>4. x \in [0 .. s + 1 -> Cosets]
  <2>1. \A q \in 0 .. s + 1 : q # s + 1 => q \in 0 .. s
    OBVIOUS
  <2> QED
    BY <1>1, <1>2, <2>1
<1>5. ASSUME NEW q \in 1 .. s + 1
      PROVE  Step(tab, n, f, w[q], x[q - 1], x[q])
  <2>1. CASE q = s + 1
    <3>1. q - 1 = s /\ s \in 0 .. s
      BY <2>1
    <3> QED
      BY <1>3, <2>1, <3>1
  <2>2. CASE q # s + 1
    <3>1. q \in 1 .. s /\ q \in 0 .. s /\ q - 1 \in 0 .. s
      BY <2>2
    <3>2. x[q] = p[q] /\ x[q - 1] = p[q - 1]
      BY <1>3, <3>1
    <3> QED
      BY <1>1, <3>1, <3>2
  <2> QED
    BY <2>1, <2>2
<1>6. x[0] = p[0] /\ 0 \in 0 .. s
  BY <1>3
<1> QED
  BY <1>3, <1>4, <1>5, <1>6 DEF Path

LEMMA PrefixBegins ==
    ASSUME NEW tab, NEW n, NEW f, NEW w \in Words, NEW x \in Cosets
    PROVE  Prefix(tab, n, f, w, w, x, x)
<1>1. PICK p : p = [q \in 0 .. 0 |-> x]
  OBVIOUS
<1>2. Path(tab, n, f, w, 0, p) /\ p[0] = x
  BY <1>1 DEF Path
<1>3. 0 + Len(w) = Len(w) /\ \A q \in 1 .. Len(w) : w[q] = w[0 + q]
  BY HeadTail
<1> QED
  BY <1>2, <1>3 DEF Prefix

LEMMA PrefixStep ==
    ASSUME NEW tab, NEW n, NEW f, NEW w \in Words, NEW v \in Words, Len(v) # 1,
           NEW x, NEW y, Prefix(tab, n, f, w, v, x, y),
           NEW z \in Cosets, Step(tab, n, f, Head(v), y, z)
    PROVE  Prefix(tab, n, f, w, Tail(v), x, z)
<1>1. PICK s, p :
        /\ s \in Nat
        /\ s + Len(v) = Len(w) /\ \A q \in 1 .. Len(v) : v[q] = w[s + q]
        /\ Path(tab, n, f, w, s, p) /\ p[0] = x /\ p[s] = y
  BY DEF Prefix
<1>2. v[1] = Head(v) /\ Len(v) \in Nat \ {0} /\ Len(Tail(v)) = Len(v) - 1
  BY HeadTail
<1>3. w[s + 1] = Head(v)
  BY <1>1, <1>2
<1>4. PICK u : Path(tab, n, f, w, s + 1, u) /\ u[0] = x /\ u[s + 1] = z
  BY <1>1, <1>3, PathExtended
<1>5. \A q \in 1 .. Len(v) - 1 : Tail(v)[q] = v[q + 1]
  BY <1>2 DEF Words
<1>6. ASSUME NEW q \in 1 .. Len(v) - 1
      PROVE  Tail(v)[q] = w[s + 1 + q]
  <2>1. q + 1 \in 1 .. Len(v) /\ s + (q + 1) = s + 1 + q
    BY <1>1, <1>2
  <2>2. v[q + 1] = w[s + (q + 1)]
    BY <1>1, <2>1
  <2> QED
    BY <1>5, <2>1, <2>2
<1>7. s + 1 \in Nat /\ s + 1 + Len(Tail(v)) = Len(w)
  BY <1>1, <1>2
<1> QED
  BY <1>2, <1>4, <1>6, <1>7 DEF Prefix

LEMMA PrefixCloses ==
    ASSUME NEW tab, NEW n, NEW f, NEW w \in Words, NEW v \in Words, Len(v) = 1,
           NEW c, NEW y, Prefix(tab, n, f, w, v, f[c], y),
           f[c] \in Cosets, Step(tab, n, f, Head(v), y, f[c])
    PROVE  Closes(tab, n, f, w, c)
<1>1. PICK s, p :
        /\ s \in Nat
        /\ s + Len(v) = Len(w) /\ \A q \in 1 .. Len(v) : v[q] = w[s + q]
        /\ Path(tab, n, f, w, s, p) /\ p[0] = f[c] /\ p[s] = y
  BY DEF Prefix
<1>2. w[s + 1] = Head(v) /\ s + 1 = Len(w)
  BY <1>1, HeadTail
<1>3. PICK u : Path(tab, n, f, w, s + 1, u) /\ u[0] = f[c] /\ u[s + 1] = f[c]
  BY <1>1, <1>2, PathExtended
<1> QED
  BY <1>2, <1>3 DEF Closes

\* A table with more products, and g, which is f on the cosets of tab, keep the steps.
Carries(tab, n, f, new, m, g) ==
    \A r \in 1 .. NVars, c \in 1 .. n : tab[r][c] # 0 =>
        \E e \in 1 .. m : new[r][e] # 0 /\ g[e] = f[c] /\ g[new[r][e]] = f[tab[r][c]]

LEMMA StepCarried ==
    ASSUME NEW tab, NEW n, NEW f, NEW new, NEW m, NEW g, Carries(tab, n, f, new, m, g),
           NEW r \in Letters, NEW x, NEW y, Step(tab, n, f, r, x, y)
    PROVE  Step(new, m, g, r, x, y)
<1>1. CASE r > 0
  BY <1>1, Variables DEF Step, Carries
<1>2. CASE ~(r > 0)
  <2>1. PICK v \in 1 .. NVars : v = -r
    BY <1>2, Variables
  <2>2. PICK c \in 1 .. n : tab[v][c] # 0 /\ f[c] = y /\ f[tab[v][c]] = x
    BY <1>2, <2>1 DEF Step
  <2>3. PICK e \in 1 .. m : new[v][e] # 0 /\ g[e] = f[c] /\ g[new[v][e]] = f[tab[v][c]]
    BY <2>2 DEF Carries
  <2> QED
    BY <1>2, <2>1, <2>2, <2>3 DEF Step
<1> QED
  BY <1>1, <1>2

LEMMA PathCarried ==
    ASSUME NEW tab, NEW n, NEW f, NEW new, NEW m, NEW g, Carries(tab, n, f, new, m, g),
           NEW w \in Words, NEW s \in 0 .. Len(w), NEW p, Path(tab, n, f, w, s, p)
    PROVE  Path(new, m, g, w, s, p)
<1>1. \A q \in 1 .. s : w[q] \in Letters
  BY HeadTail DEF Words
<1>2. \A q \in 1 .. s : Step(tab, n, f, w[q], p[q - 1], p[q])
  BY DEF Path
<1>3. \A q \in 1 .. s : Step(new, m, g, w[q], p[q - 1], p[q])
  BY <1>1, <1>2, StepCarried
<1> QED
  BY <1>3 DEF Path

LEMMA ClosesCarried ==
    ASSUME NEW tab, NEW n, NEW f, NEW new, NEW m, NEW g, Carries(tab, n, f, new, m, g),
           NEW w \in Words, NEW c, NEW d, f[c] = g[d], Closes(tab, n, f, w, c)
    PROVE  Closes(new, m, g, w, d)
<1>1. PICK p : Path(tab, n, f, w, Len(w), p) /\ p[0] = f[c] /\ p[Len(w)] = f[c]
  BY DEF Closes
<1>2. Len(w) \in 0 .. Len(w)
  BY HeadTail
<1>3. Path(new, m, g, w, Len(w), p)
  BY <1>1, <1>2, PathCarried
<1> QED
  BY <1>1, <1>3 DEF Closes

LEMMA PrefixCarried ==
    ASSUME NEW tab, NEW n, NEW f, NEW new, NEW m, NEW g, Carries(tab, n, f, new, m, g),
           NEW w \in Words, NEW v \in Words, NEW x, NEW y, Prefix(tab, n, f, w, v, x, y)
    PROVE  Prefix(new, m, g, w, v, x, y)
<1>1. PICK s, p :
        /\ s \in Nat
        /\ s + Len(v) = Len(w) /\ \A q \in 1 .. Len(v) : v[q] = w[s + q]
        /\ Path(tab, n, f, w, s, p) /\ p[0] = x /\ p[s] = y
  BY DEF Prefix
<1>2. s \in 0 .. Len(w)
  BY <1>1, HeadTail
<1>3. Path(new, m, g, w, s, p)
  BY <1>1, <1>2, PathCarried
<1> QED
  BY <1>1, <1>3 DEF Prefix

\* A product of an accurate table is a step.
LEMMA ProductIsStep ==
    ASSUME NEW tab \in Tables, NEW n \in Nat, n <= MaxCosets, Accurate(tab, n), NEW f,
           NEW h \in Letters, NEW c \in 1 .. n, NEW s, s = tab[h][c], s # 0
    PROVE  Step(tab, n, f, h, f[c], f[s])
<1>1. CASE h > 0
  BY <1>1 DEF Step
<1>2. CASE ~(h > 0)
  <2>1. c \in Cosets /\ s \in Cosets
    BY MaxCosetsAssumption DEF Tables, Cosets
  <2>2. s \in 1 .. n /\ tab[-h][s] = c /\ c # 0
    BY <2>1 DEF Accurate, Cosets
  <2> QED
    BY <1>2, <2>2 DEF Step
<1> QED
  BY <1>1, <1>2

RowsClose ==
    \A f \in Quotients(ncosets, todo), j \in 1 .. ncosets :
        j < i => \A w \in ClosingWords(j) : Closes(table, ncosets, f, w, j)

\* The relations of the row are still to be traced or close, and the first one left
\* has been traced up to the rest.
RowTraced ==
    \A f \in [1 .. ncosets -> Cosets] :
        /\ \A w \in ClosingWords(i) :
              (\E q \in 1 .. Len(left) : left[q] = w) \/ Closes(table, ncosets, f, w, i)
        /\ Prefix(table, ncosets, f, Head(left), rel, f[i], f[k])

\* The sets of cosets that hold the first one, and both or none of a pending pair.
Colours(n, queue) == {f \in [1 .. n -> {0, 1}] : f[1] = 1 /\ queue \in Seq(EqualPairs(f, n))}

Monochrome(f, n, tab) ==
    \A r \in 1 .. NVars, c \in 1 .. n : tab[r][c] # 0 => f[tab[r][c]] = f[c]

Reached ==
    \A f \in Colours(ncosets, todo) :
        Monochrome(f, ncosets, table) => \A c \in 1 .. ncosets : f[c] = 1

\* Nothing is pending unless cosets are being replaced.
QueueInv == phase # "replace" => todo = <<>>

ResultInv ==
    ~misnamed /\ ~skipped =>
        /\ RowsClose /\ Reached
        /\ phase = "row" => RowTraced
        /\ phase = "done" => i > ncosets

FinishedInv == TableInv /\ LeftInv /\ QueueInv /\ ResultInv /\ pres \in Presentations

LEMMA EmptyQueue ==
    ASSUME todo = <<>>
    PROVE  /\ \A n, f : f \in Quotients(n, todo) <=> f \in [1 .. n -> Cosets]
           /\ \A n, f : f \in Colours(n, todo) <=> f \in [1 .. n -> {0, 1}] /\ f[1] = 1
BY EmptySeq DEF Quotients, Colours

LEMMA ClosingType ==
    ASSUME TypeOK, NEW row
    PROVE  ClosingWords(row) \subseteq Words
<1>1. PICK v \in Seq(Words) : v = Relations(row)
  BY RelationsType
<1> QED
  BY <1>1, ElementOfSeq DEF ClosingWords

LEMMA SameWords ==
    ASSUME pres' = pres
    PROVE  (\A j : ClosingWords(j)' = ClosingWords(j)) /\ ClosingWords(i)' = ClosingWords(i')
BY DEF ClosingWords, Relations

\* To show RowsClose and RowTraced after a step.
LEMMA RowsCloseNext ==
    ASSUME pres' = pres,
           \A f \in Quotients(ncosets', todo'), j \in 1 .. ncosets' :
               j < i' => \A w \in ClosingWords(j) : Closes(table', ncosets', f, w, j)
    PROVE  RowsClose'
<1>1. \A j : ClosingWords(j)' = ClosingWords(j)
  BY SameWords
<1> QED
  BY <1>1 DEF RowsClose

LEMMA RowTracedNext ==
    ASSUME pres' = pres,
           \A f \in [1 .. ncosets' -> Cosets] :
               /\ \A w \in ClosingWords(i') :
                     (\E q \in 1 .. Len(left') : left'[q] = w) \/ Closes(table', ncosets', f, w, i')
               /\ Prefix(table', ncosets', f, Head(left'), rel', f[i'], f[k'])
    PROVE  RowTraced'
<1>1. ClosingWords(i)' = ClosingWords(i')
  BY SameWords
<1> QED
  BY <1>1 DEF RowTraced

LEMMA GrowsCarries ==
    ASSUME NEW n \in Nat, NEW m \in Nat, n <= m, NEW tab, NEW new,
           \A r \in 1 .. NVars, c \in 1 .. n :
               tab[r][c] # 0 => tab[r][c] \in 1 .. n /\ new[r][c] = tab[r][c],
           NEW f, NEW g, \A c \in 1 .. n : g[c] = f[c]
    PROVE  Carries(tab, n, f, new, m, g)
<1>1. \A c \in 1 .. n : c \in 1 .. m
  OBVIOUS
<1> QED
  BY <1>1 DEF Carries

\* What holds while a row is done.
LEMMA RowFacts ==
    ASSUME FinishedInv, ~misnamed, ~skipped, phase = "row"
    PROVE  /\ TypeInv /\ TypeOK /\ Accurate(table, ncosets) /\ table \in Tables
           /\ ncosets \in Nat /\ ncosets <= MaxCosets
           /\ rel \in Words /\ Head(rel) \in Letters /\ -Head(rel) \in Letters
           /\ k \in 1 .. ncosets /\ i \in 1 .. ncosets /\ todo = <<>>
           /\ Head(left) \in Words /\ RowsClose /\ Reached /\ RowTraced
           /\ \A r \in 1 .. NVars, c \in 1 .. ncosets :
                 table[r][c] # 0 => table[r][c] \in 1 .. ncosets
<1>1. TypeInv /\ TypeOK /\ Accurate(table, ncosets) /\ table \in Tables /\ ncosets \in Nat
      /\ ncosets <= MaxCosets
  BY TypeFacts DEF FinishedInv, TableInv, TypeInv, KnownInv
<1>2. rel \in Words /\ Head(rel) \in Letters /\ -Head(rel) \in Letters
  BY <1>1, TraceFacts
<1>3. k \in 1 .. ncosets /\ i \in 1 .. ncosets
  BY <1>1, TraceFacts, TypeFacts DEF FinishedInv, TableInv, KnownInv, Cosets
<1>4. Head(left) \in Words
  BY <1>1 DEF TypeInv, TypeOK, RowInv
<1>5. RowsClose /\ Reached /\ RowTraced /\ todo = <<>>
  BY DEF FinishedInv, ResultInv, QueueInv
<1>6. ASSUME NEW r \in 1 .. NVars, NEW c \in 1 .. ncosets, table[r][c] # 0
      PROVE  table[r][c] \in 1 .. ncosets
  <2>1. table[r][c] \in Cosets
    BY <1>1, <1>6, CosetIs, EntryType, Variables
  <2>2. table[r][c] <= ncosets
    BY <1>1, <1>6, Variables DEF Accurate
  <2> QED
    BY <1>1, <2>1, <2>2 DEF Cosets
<1> QED
  BY <1>1, <1>2, <1>3, <1>4, <1>5, <1>6

\* The table after a coset is invented.
LEMMA NextCosetTable ==
    ASSUME FinishedInv, ~misnamed, ~skipped, NextCoset
    PROVE  /\ phase = "row" /\ ncosets + 1 \in Cosets /\ ncosets + 1 <= MaxCosets
           /\ table'[Head(rel)][k] = ncosets + 1 /\ table'[-Head(rel)][ncosets + 1] = k
           /\ \A r \in 1 .. NVars, c \in 1 .. ncosets :
                 table[r][c] # 0 => table[r][c] \in 1 .. ncosets /\ table'[r][c] = table[r][c]
<1>0. phase = "row" /\ ncosets < MaxCosets /\ Product = 0
  BY DEF NextCoset, Tracing
<1>1. /\ TypeOK /\ ncosets \in Nat /\ k \in 1 .. ncosets
      /\ \A r \in 1 .. NVars, c \in 1 .. ncosets :
                 table[r][c] # 0 => table[r][c] \in 1 .. ncosets
  BY <1>0, RowFacts
<1>2. PICK n \in Nat : n = ncosets + 1 /\ n \in Cosets /\ n <= MaxCosets
  BY <1>0, <1>1, TypeFacts DEF Cosets
<1>3. PICK u \in Tables : u = Cleared(n)
  BY <1>1, <1>2, TypeFacts, ClearedIs
<1>4. \A q \in Letters, d \in Cosets : u[q][d] = IF d = n THEN 0 ELSE table[q][d]
  BY <1>1, <1>2, <1>3, TypeFacts, ClearedIs
<1>5. PICK h \in Letters : h = Head(rel) /\ -h \in Letters /\ h # -h
  BY <1>0, RowFacts, LettersFacts
<1>6. table' = DefineMult(u, k, h, n) /\ k \in Cosets /\ k # n
  BY <1>1, <1>2, <1>3, <1>5, CosetIs DEF NextCoset
<1>7. IsDefined(table', u, k, h, n)
  BY <1>2, <1>6, DefineMultIs
<1>8. table'[h][k] = n /\ table'[-h][n] = k
  BY <1>2, <1>5, <1>6, <1>7 DEF IsDefined
<1>9. ASSUME NEW r \in 1 .. NVars, NEW c \in 1 .. ncosets, table[r][c] # 0
      PROVE  table'[r][c] = table[r][c]
  <2>1. r \in Letters /\ c \in Cosets /\ c # n
    BY <1>1, <1>2, Variables, CosetIs
  <2>2. ~(r = h /\ c = k)
    BY <1>0, <1>5, <1>9 DEF Product
  <2> QED
    BY <1>4, <1>7, <2>1, <2>2 DEF IsDefined
<1> QED
  BY <1>0, <1>1, <1>2, <1>5, <1>8, <1>9

LEMMA NextCosetResult ==
    ASSUME FinishedInv, TableInv', NextCoset
    PROVE  ResultInv'
<1> SUFFICES ASSUME ~misnamed, ~skipped PROVE ResultInv'
  BY DEF NextCoset, ResultInv, ghostVars
<1>0. phase = "row" /\ phase' = "row" /\ ~LastLetter /\ ncosets' = ncosets + 1 /\ k' = ncosets + 1 /\
      rel' = Tail(rel) /\ UNCHANGED <<pres, todo, i, left, misnamed>>
  BY DEF NextCoset, Tracing, ghostVars
<1>1. /\ TypeOK /\ ncosets \in Nat /\ rel \in Words /\ Head(rel) \in Letters
      /\ k \in 1 .. ncosets /\ i \in 1 .. ncosets /\ todo = <<>> /\ Head(left) \in Words
      /\ RowsClose /\ Reached /\ RowTraced
  BY <1>0, RowFacts
<1>2. PICK n \in Nat : n = ncosets + 1
  BY <1>1
<1>3. PICK h \in Letters : h = Head(rel)
  BY <1>1
<1>4. /\ n \in Cosets /\ n <= MaxCosets
      /\ table'[h][k] = n /\ table'[-h][n] = k
      /\ \A r \in 1 .. NVars, c \in 1 .. ncosets :
            table[r][c] # 0 => table[r][c] \in 1 .. ncosets /\ table'[r][c] = table[r][c]
  BY <1>2, <1>3, NextCosetTable
<1>5. table' \in Tables /\ Accurate(table', n)
  BY <1>0, <1>2 DEF TableInv, TypeInv, TypeOK, Tables, KnownInv
<1>6. ASSUME NEW g, NEW X, g \in [1 .. n -> X]
      PROVE  \E f \in [1 .. ncosets -> X] :
                 Carries(table, ncosets, f, table', n, g) /\ \A c \in 1 .. ncosets : f[c] = g[c]
  <2>1. \A c \in 1 .. ncosets : c \in 1 .. n
    BY <1>1, <1>2
  <2>2. PICK f \in [1 .. ncosets -> X] : f = [c \in 1 .. ncosets |-> g[c]]
    BY <1>6, <2>1
  <2>3. \A c \in 1 .. ncosets : g[c] = f[c]
    BY <2>2
  <2>4. ncosets <= n
    BY <1>1, <1>2
  <2> QED
    BY <1>1, <1>4, <2>3, <2>4, GrowsCarries
<1>7. RowsClose'
  <2>1. ASSUME NEW g \in Quotients(n, todo'), NEW j \in 1 .. n, j < i, NEW w \in ClosingWords(j)
        PROVE  Closes(table', n, g, w, j)
    <3>1. g \in [1 .. n -> Cosets]
      BY DEF Quotients
    <3>2. PICK f \in [1 .. ncosets -> Cosets] :
             Carries(table, ncosets, f, table', n, g) /\ \A c \in 1 .. ncosets : f[c] = g[c]
      BY <1>6, <3>1
    <3>3. j \in 1 .. ncosets /\ w \in Words
      BY <1>1, <1>2, <2>1, ClosingType
    <3>4. Closes(table, ncosets, f, w, j)
      BY <1>1, <2>1, <3>3, EmptyQueue DEF RowsClose
    <3> QED
      BY <3>2, <3>3, <3>4, ClosesCarried
  <2> QED
    BY <1>0, <1>2, <2>1, RowsCloseNext
<1>8. RowTraced'
  <2>1. ASSUME NEW g \in [1 .. n -> Cosets]
        PROVE  /\ \A w \in ClosingWords(i) :
                     (\E q \in 1 .. Len(left) : left[q] = w) \/ Closes(table', n, g, w, i)
               /\ Prefix(table', n, g, Head(left), Tail(rel), g[i], g[n])
    <3>1. PICK f \in [1 .. ncosets -> Cosets] :
             Carries(table, ncosets, f, table', n, g) /\ \A c \in 1 .. ncosets : f[c] = g[c]
      BY <1>6
    <3>2. ASSUME NEW w \in ClosingWords(i), ~ \E q \in 1 .. Len(left) : left[q] = w
          PROVE  Closes(table', n, g, w, i)
      <4>1. Closes(table, ncosets, f, w, i) /\ w \in Words
        BY <1>1, <3>2, ClosingType DEF RowTraced
      <4> QED
        BY <1>1, <3>1, <4>1, ClosesCarried
    <3>3. Prefix(table, ncosets, f, Head(left), rel, f[i], f[k])
      BY <1>1 DEF RowTraced
    <3>4. Prefix(table', n, g, Head(left), rel, g[i], g[k])
      <4>1. Prefix(table', n, g, Head(left), rel, f[i], f[k])
        BY <1>1, <3>1, <3>3, PrefixCarried
      <4> QED
        BY <1>1, <3>1, <4>1
    <3>5. Step(table', n, g, Head(rel), g[k], g[n])
      <4>1. k \in 1 .. n /\ n # 0
        BY <1>1, <1>2
      <4> QED
        BY <1>3, <1>4, <1>5, <4>1, ProductIsStep
    <3>6. Len(rel) # 1 /\ g[n] \in Cosets
      BY <1>0, <1>1, <1>2 DEF LastLetter
    <3>7. Prefix(table', n, g, Head(left), Tail(rel), g[i], g[n])
      BY <1>1, <3>4, <3>5, <3>6, PrefixStep
    <3> QED
      BY <3>2, <3>7
  <2> QED
    BY <1>0, <1>2, <2>1, RowTracedNext
<1>9. Reached'
  <2>1. ASSUME NEW g \in Colours(n, todo'), Monochrome(g, n, table')
        PROVE  \A c \in 1 .. n : g[c] = 1
    <3>0. g \in [1 .. n -> {0, 1}] /\ g[1] = 1
      BY DEF Colours
    <3>1. PICK f \in [1 .. ncosets -> {0, 1}] :
             Carries(table, ncosets, f, table', n, g) /\ \A c \in 1 .. ncosets : f[c] = g[c]
      BY <1>6, <3>0
    <3>2. f \in Colours(ncosets, todo)
      BY <1>1, <3>0, <3>1, EmptyQueue
    <3>3. Monochrome(f, ncosets, table)
      <4>1. ASSUME NEW r \in 1 .. NVars, NEW c \in 1 .. ncosets, table[r][c] # 0
            PROVE  f[table[r][c]] = f[c]
        <5>1. table[r][c] \in 1 .. ncosets /\ table'[r][c] = table[r][c] /\ c \in 1 .. n
          BY <1>1, <1>2, <1>4, <4>1
        <5>2. g[table'[r][c]] = g[c]
          BY <2>1, <4>1, <5>1 DEF Monochrome
        <5> QED
          BY <3>1, <5>1, <5>2
      <4> QED
        BY <4>1 DEF Monochrome
    <3>4. \A c \in 1 .. ncosets : g[c] = 1
      BY <1>1, <3>1, <3>2, <3>3 DEF Reached
    <3>5. g[n] = g[k]
      <4>1. k \in 1 .. n /\ n \in 1 .. n /\ k # 0 /\ n # 0
        BY <1>1, <1>2
      <4>2. CASE h > 0
        BY <1>3, <1>4, <2>1, <4>1, <4>2, Variables DEF Monochrome
      <4>3. CASE ~(h > 0)
        <5>1. PICK v \in 1 .. NVars : v = -h
          BY <4>3, Variables
        <5> QED
          BY <1>4, <2>1, <4>1, <5>1 DEF Monochrome
      <4> QED
        BY <4>2, <4>3
    <3> QED
      BY <1>1, <1>2, <3>4, <3>5
  <2> QED
    BY <1>0, <1>2, <2>1 DEF Reached
<1> QED
  BY <1>0, <1>7, <1>8, <1>9 DEF ResultInv

LEMMA FollowResult ==
    ASSUME FinishedInv, Follow
    PROVE  ResultInv'
<1> SUFFICES ASSUME ~misnamed, ~skipped PROVE ResultInv'
  BY DEF Follow, ResultInv, ghostVars
<1>0. phase = "row" /\ phase' = "row" /\ ~LastLetter /\ k' = Product /\ Product # 0 /\
      rel' = Tail(rel) /\ UNCHANGED <<pres, ncosets, table, todo, i, left>>
  BY DEF Follow, Tracing
<1>1. /\ TypeOK /\ ncosets \in Nat /\ rel \in Words /\ Head(rel) \in Letters
      /\ k \in 1 .. ncosets /\ i \in 1 .. ncosets /\ todo = <<>> /\ Head(left) \in Words
      /\ RowsClose /\ Reached /\ RowTraced /\ table \in Tables /\ Accurate(table, ncosets)
      /\ ncosets <= MaxCosets
  BY <1>0, RowFacts
<1>2. PICK s \in 1 .. ncosets : s = Product
  <2>1. Product \in Cosets
    BY <1>0, <1>1, CosetIs, EntryType DEF Product
  <2>2. Product <= ncosets
    BY <1>0, <1>1 DEF Product, Accurate
  <2> QED
    BY <1>1, <2>1, <2>2 DEF Cosets
<1>3. ASSUME NEW f \in [1 .. ncosets -> Cosets]
      PROVE  Prefix(table, ncosets, f, Head(left), Tail(rel), f[i], f[s])
  <2>1. Step(table, ncosets, f, Head(rel), f[k], f[s])
    BY <1>0, <1>1, <1>2, ProductIsStep DEF Product
  <2>2. Prefix(table, ncosets, f, Head(left), rel, f[i], f[k])
    BY <1>1 DEF RowTraced
  <2>3. Len(rel) # 1 /\ f[s] \in Cosets
    BY <1>0, <1>2 DEF LastLetter
  <2> QED
    BY <1>1, <2>1, <2>2, <2>3, PrefixStep
<1>4. RowTraced'
  BY <1>0, <1>1, <1>2, <1>3, RowTracedNext DEF RowTraced
<1>5. RowsClose'
  BY <1>0, <1>1, RowsCloseNext DEF RowsClose
<1>6. Reached'
  BY <1>0, <1>1 DEF Reached
<1> QED
  BY <1>0, <1>4, <1>5, <1>6 DEF ResultInv

\* What a row begins with: nothing of it has been traced.
LEMMA BeginRowTraced ==
    ASSUME TypeOK, NEW row \in Nat \ {0}, BeginRow(row, ncosets), phase' = "row",
           pres' = pres, ncosets' = ncosets
    PROVE  RowTraced'
<1>1. /\ i' = row /\ k' = row /\ left' = Relations(row) /\ rel' = Head(left')
      /\ row \in 1 .. ncosets /\ rel' \in Words
  BY RelationsType, TypeFacts DEF BeginRow
<1>2. ASSUME NEW f \in [1 .. ncosets -> Cosets]
      PROVE  /\ \A w \in ClosingWords(row) : \E q \in 1 .. Len(left') : left'[q] = w
             /\ Prefix(table', ncosets, f, Head(left'), rel', f[row], f[row])
  <2>1. \A w \in ClosingWords(row) : \E q \in 1 .. Len(left') : left'[q] = w
    BY <1>1 DEF ClosingWords
  <2>2. f[row] \in Cosets
    BY <1>1
  <2> QED
    BY <1>1, <2>1, <2>2, PrefixBegins
<1> QED
  BY <1>1, <1>2, RowTracedNext

\* The product that a relation ends with, in the table after it.
LEMMA EndProduct ==
    ASSUME FinishedInv, ~misnamed, ~skipped, EndRelation
    PROVE  /\ phase = "row" /\ table'[Head(rel)][k] = i /\ table' \in Tables
           /\ Accurate(table', ncosets)
           /\ \A r \in 1 .. NVars, c \in 1 .. ncosets :
                 table[r][c] # 0 => table[r][c] \in 1 .. ncosets /\ table'[r][c] = table[r][c]
<1>0. phase = "row" /\ Agrees
  BY DEF EndRelation, Tracing
<1>1. /\ TypeInv /\ TypeOK /\ ncosets \in Nat /\ table \in Tables /\ ncosets <= MaxCosets
      /\ k \in 1 .. ncosets /\ i \in 1 .. ncosets /\ Accurate(table, ncosets)
      /\ k \in Cosets /\ i \in Cosets /\ k # 0
      /\ \A r \in 1 .. NVars, c \in 1 .. ncosets :
                 table[r][c] # 0 => table[r][c] \in 1 .. ncosets
  BY <1>0, RowFacts, CosetIs
<1>2. PICK h \in Letters : h = Head(rel) /\ -h \in Letters /\ h # -h /\ -(-h) = h
  BY <1>0, RowFacts, LettersFacts
<1>3. Accurate(table', ncosets) /\ table' \in Tables
  BY <1>1, EndAccurate, EndTable DEF FinishedInv
<1>4. CASE table[h][k] = 0 /\ table[-h][i] = 0
  <2>1. table' = DefineMult(table, k, h, i)
    BY <1>2, <1>4 DEF EndRelation, Product
  <2>2. IsDefined(table', table, k, h, i)
    BY <1>1, <2>1, DefineMultIs
  <2>3. table'[h][k] = i
    BY <1>1, <1>2, <2>2 DEF IsDefined
  <2>4. ASSUME NEW r \in 1 .. NVars, NEW c \in 1 .. ncosets, table[r][c] # 0
        PROVE  table'[r][c] = table[r][c]
    BY <1>1, <1>4, <2>2, <2>4, Variables, CosetIs DEF IsDefined
  <2> QED
    BY <1>0, <1>1, <1>2, <1>3, <2>3, <2>4
<1>5. CASE ~(table[h][k] = 0 /\ table[-h][i] = 0)
  <2>1. table' = table
    BY <1>2, <1>5 DEF EndRelation, Product
  <2>2. table[h][k] = i
    <3>1. CASE table[h][k] = 0
      <4>1. table[-h][i] = k
        BY <1>0, <1>2, <1>5, <3>1 DEF Agrees, Product
      <4>2. table[-(-h)][k] = i
        BY <1>1, <1>2, <4>1 DEF Accurate
      <4> QED
        BY <1>2, <4>2
    <3>2. CASE table[h][k] # 0
      BY <1>0, <1>2, <3>2 DEF Agrees, Product
    <3> QED
      BY <3>1, <3>2
  <2> QED
    BY <1>0, <1>1, <1>2, <1>3, <2>1, <2>2
<1> QED
  BY <1>4, <1>5

LEMMA EndRelationResult ==
    ASSUME FinishedInv, EndRelation
    PROVE  ResultInv'
<1> SUFFICES ASSUME ~misnamed, ~skipped PROVE ResultInv'
  BY DEF EndRelation, ResultInv, ghostVars
<1>0. phase = "row" /\ LastLetter /\ UNCHANGED <<pres, ncosets, todo>>
  BY DEF EndRelation, Tracing
<1>1. /\ TypeOK /\ ncosets \in Nat /\ rel \in Words /\ Head(rel) \in Letters
      /\ k \in 1 .. ncosets /\ i \in 1 .. ncosets /\ todo = <<>> /\ Head(left) \in Words
      /\ RowsClose /\ Reached /\ RowTraced /\ ncosets <= MaxCosets
  BY <1>0, RowFacts
<1>2. /\ table'[Head(rel)][k] = i /\ table' \in Tables /\ Accurate(table', ncosets)
      /\ \A r \in 1 .. NVars, c \in 1 .. ncosets :
                 table[r][c] # 0 => table[r][c] \in 1 .. ncosets /\ table'[r][c] = table[r][c]
  BY EndProduct
<1>3. \A f : Carries(table, ncosets, f, table', ncosets, f)
  <2> TAKE f
  <2>1. \A c \in 1 .. ncosets : f[c] = f[c]
    OBVIOUS
  <2>2. ncosets <= ncosets
    BY <1>1
  <2> QED
    BY <1>1, <1>2, <2>1, <2>2, GrowsCarries
<1>4. ASSUME NEW f \in [1 .. ncosets -> Cosets], NEW j \in 1 .. ncosets, j < i,
             NEW w \in ClosingWords(j)
      PROVE  Closes(table', ncosets, f, w, j)
  <2>1. Closes(table, ncosets, f, w, j) /\ w \in Words
    BY <1>1, <1>4, EmptyQueue, ClosingType DEF RowsClose
  <2> QED
    BY <1>3, <2>1, ClosesCarried
\* The relation that ends closes.
<1>5. ASSUME NEW f \in [1 .. ncosets -> Cosets]
      PROVE  Closes(table', ncosets, f, Head(left), i)
  <2>1. Prefix(table, ncosets, f, Head(left), rel, f[i], f[k])
    BY <1>1 DEF RowTraced
  <2>2. Prefix(table', ncosets, f, Head(left), rel, f[i], f[k])
    BY <1>1, <1>3, <2>1, PrefixCarried
  <2>3. Step(table', ncosets, f, Head(rel), f[k], f[i])
    <3>1. i # 0
      BY <1>1
    <3> QED
      BY <1>1, <1>2, <3>1, ProductIsStep
  <2>4. f[i] \in Cosets /\ Len(rel) = 1
    BY <1>0, <1>1 DEF LastLetter
  <2> QED
    BY <1>1, <2>2, <2>3, <2>4, PrefixCloses
\* The others of the row close, or are left.
<1>6. ASSUME NEW f \in [1 .. ncosets -> Cosets], NEW w \in ClosingWords(i)
      PROVE  (\E q \in 1 .. Len(left) : left[q] = w /\ q # 1) \/ Closes(table', ncosets, f, w, i)
  <2>1. CASE Closes(table, ncosets, f, w, i)
    BY <1>1, <1>3, <2>1, ClosesCarried, ClosingType
  <2>2. CASE \E q \in 1 .. Len(left) : left[q] = w
    <3>1. PICK q \in 1 .. Len(left) : left[q] = w
      BY <2>2
    <3>2. left[1] = Head(left)
      BY <1>0 DEF FinishedInv, LeftInv
    <3> QED
      BY <1>5, <3>1, <3>2
  <2> QED
    BY <1>1, <2>1, <2>2 DEF RowTraced
<1>7. Reached'
  <2>1. ASSUME NEW f \in Colours(ncosets, todo), Monochrome(f, ncosets, table')
        PROVE  Monochrome(f, ncosets, table)
    <3>1. ASSUME NEW r \in 1 .. NVars, NEW c \in 1 .. ncosets, table[r][c] # 0
          PROVE  f[table[r][c]] = f[c]
      <4>1. table'[r][c] = table[r][c]
        BY <1>2, <3>1
      <4>2. f[table'[r][c]] = f[c]
        BY <2>1, <3>1, <4>1 DEF Monochrome
      <4> QED
        BY <4>1, <4>2
    <3> QED
      BY <3>1 DEF Monochrome
  <2> QED
    BY <1>0, <1>1, <2>1 DEF Reached
<1>8. CASE Len(left) > 1
  <2>1. left' = Tail(left) /\ rel' = left[2] /\ k' = i /\ UNCHANGED <<i, phase>>
    BY <1>8 DEF EndRelation
  <2>2. RowsClose'
    BY <1>0, <1>1, <1>4, <2>1, RowsCloseNext, EmptyQueue
  <2>3. left \in Seq(Words)
    BY <1>1 DEF TypeOK
  <2>4. /\ Len(Tail(left)) = Len(left) - 1 /\ Len(left) \in Nat
        /\ \A q \in 1 .. Len(left) - 1 : Tail(left)[q] = left[q + 1]
        /\ Head(Tail(left)) = left[2] /\ left[2] \in Words
    BY <1>8, <2>3
  <2>5. ASSUME NEW f \in [1 .. ncosets -> Cosets], NEW w \in ClosingWords(i),
               NEW q \in 1 .. Len(left), left[q] = w, q # 1
        PROVE  \E x \in 1 .. Len(Tail(left)) : Tail(left)[x] = w
    <3>1. PICK x \in 1 .. Len(left) - 1 : x + 1 = q
      <4>1. q - 1 \in 1 .. Len(left) - 1 /\ q - 1 + 1 = q
        BY <2>4, <2>5
      <4> QED
        BY <4>1
    <3> QED
      BY <2>4, <2>5, <3>1
  <2>6. \A f \in [1 .. ncosets -> Cosets] :
           Prefix(table', ncosets, f, left[2], left[2], f[i], f[i])
    BY <1>1, <2>4, PrefixBegins
  <2>7. RowTraced'
    BY <1>0, <1>6, <2>1, <2>4, <2>5, <2>6, RowTracedNext
  <2> QED
    BY <1>0, <1>7, <2>1, <2>2, <2>7 DEF ResultInv
<1>9. CASE ~(Len(left) > 1)
  <2>1. BeginRow(i + 1, ncosets) /\ i + 1 \in Nat \ {0}
    BY <1>1, <1>9 DEF EndRelation
  <2>2. i' = i + 1 /\ phase' = IF i + 1 <= ncosets THEN "row" ELSE "done"
    BY <2>1 DEF BeginRow
  <2>3. phase' = "row" => RowTraced'
    BY <1>0, <1>1, <2>1, BeginRowTraced
  <2>4. Len(left) \in Nat
    BY <1>1 DEF TypeOK
  <2>5. ASSUME NEW f \in [1 .. ncosets -> Cosets], NEW j \in 1 .. ncosets, j < i + 1,
               NEW w \in ClosingWords(j)
        PROVE  Closes(table', ncosets, f, w, j)
    <3>1. CASE j < i
      BY <1>4, <3>1
    <3>2. CASE ~(j < i)
      <4>1. j = i
        BY <1>1, <2>5, <3>2
      <4>2. \A q \in 1 .. Len(left) : q = 1
        BY <1>9, <2>4
      <4> QED
        BY <1>6, <4>1, <4>2
    <3> QED
      BY <3>1, <3>2
  <2>6. RowsClose'
    BY <1>0, <1>1, <2>2, <2>5, RowsCloseNext, EmptyQueue
  <2>7. phase' = "done" => i' > ncosets'
    BY <1>0, <1>1, <2>2
  <2> QED
    BY <1>7, <2>3, <2>6, <2>7 DEF ResultInv
<1> QED
  BY <1>8, <1>9

LEMMA CoincidenceResult ==
    ASSUME FinishedInv, Coincidence
    PROVE  ResultInv'
<1> SUFFICES ASSUME ~misnamed, ~skipped PROVE ResultInv'
  BY DEF Coincidence, ResultInv, ghostVars
<1>0. /\ phase = "row" /\ LastLetter /\ phase' = "replace" /\ UNCHANGED <<pres, ncosets, table>>
      /\ i' = IF Len(left) > 1 THEN i ELSE i + 1
  BY DEF Coincidence, Tracing
<1>1. /\ TypeInv /\ TypeOK /\ ncosets \in Nat /\ rel \in Words
      /\ k \in 1 .. ncosets /\ i \in 1 .. ncosets /\ todo = <<>> /\ Head(left) \in Words
      /\ RowsClose /\ Reached /\ RowTraced /\ table \in Tables /\ Accurate(table, ncosets)
      /\ ncosets <= MaxCosets /\ \A c \in Cosets : c # 0
  BY <1>0, RowFacts, TypeFacts DEF Cosets
<1>2. PICK h \in Letters : h = Head(rel) /\ -h \in Letters /\ -(-h) = h
  BY <1>0, RowFacts, LettersFacts
\* When the pair is made equal the relation closes.
<1>3. ASSUME NEW f \in Quotients(ncosets, todo')
      PROVE  Step(table, ncosets, f, h, f[k], f[i])
  <2>0. f \in [1 .. ncosets -> Cosets] /\ todo' \in Seq(EqualPairs(f, ncosets))
    BY DEF Quotients
  <2>1. \A a, b : todo' = <<Pair(a, b)>> => f[a] = f[b]
    <3> TAKE a, b
    <3> HAVE todo' = <<Pair(a, b)>>
    <3>1. Len(todo') = 1 /\ todo'[1] = Pair(a, b)
      OBVIOUS
    <3>2. Pair(a, b) \in EqualPairs(f, ncosets)
      BY <2>0, <3>1, ElementOfSeq
    <3>3. \/ Pair(a, b) = <<a, b>>
          \/ Pair(a, b) = <<b, a>>
      BY DEF Pair
    <3> QED
      BY <3>2, <3>3 DEF EqualPairs
  <2>2. CASE Product = 0 /\ table[-h][i] \in Cosets /\ todo' = <<Pair(k, table[-h][i])>>
    <3>1. PICK u \in Cosets : u = table[-h][i] /\ u # 0
      BY <1>1, <2>2
    <3>2. u <= ncosets /\ table[-(-h)][u] = i
      BY <1>1, <1>2, <3>1 DEF Accurate
    <3>3. u \in 1 .. ncosets /\ table[h][u] = i /\ i # 0
      BY <1>1, <1>2, <3>1, <3>2 DEF Cosets
    <3>4. Step(table, ncosets, f, h, f[u], f[i])
      BY <1>1, <3>3, ProductIsStep
    <3>5. f[k] = f[u]
      BY <2>1, <2>2, <3>1
    <3> QED
      BY <3>4, <3>5
  <2>3. CASE Product \in Cosets /\ todo' = <<Pair(i, Product)>>
    <3>1. PICK u \in Cosets : u = table[h][k] /\ u = Product /\ u # 0
      BY <1>1, <1>2, <2>3 DEF Product
    <3>2. Step(table, ncosets, f, h, f[k], f[u])
      BY <1>1, <3>1, ProductIsStep
    <3>3. f[i] = f[u]
      BY <2>1, <2>3, <3>1
    <3> QED
      BY <3>2, <3>3
  <2> QED
    BY <1>1, <1>2, <2>2, <2>3, CoincidencePair
<1>4. ASSUME NEW f \in Quotients(ncosets, todo'), NEW j \in 1 .. ncosets, j < i',
             NEW w \in ClosingWords(j)
      PROVE  Closes(table, ncosets, f, w, j)
  <2>0. f \in [1 .. ncosets -> Cosets]
    BY DEF Quotients
  <2>1. CASE j < i
    BY <1>1, <2>0, <2>1, EmptyQueue DEF RowsClose
  <2>2. CASE ~(j < i)
    <3>1. ~(Len(left) > 1) /\ j = i
      BY <1>0, <1>1, <1>4, <2>2
    <3>2. CASE Closes(table, ncosets, f, w, i)
      BY <3>1, <3>2
    <3>3. CASE \E q \in 1 .. Len(left) : left[q] = w
      <4>1. Len(left) \in Nat
        BY <1>1 DEF TypeOK
      <4>2. w = Head(left)
        BY <3>1, <3>3, <4>1
      <4>3. Prefix(table, ncosets, f, Head(left), rel, f[i], f[k])
        BY <1>1, <2>0 DEF RowTraced
      <4>4. f[i] \in Cosets /\ Len(rel) = 1 /\ Step(table, ncosets, f, Head(rel), f[k], f[i])
        BY <1>0, <1>1, <1>2, <1>3, <2>0 DEF LastLetter
      <4> QED
        BY <1>1, <3>1, <4>2, <4>3, <4>4, PrefixCloses
    <3> QED
      BY <1>1, <2>0, <3>1, <3>2, <3>3 DEF RowTraced
  <2> QED
    BY <2>1, <2>2
<1>5. RowsClose'
  BY <1>0, <1>4, RowsCloseNext
<1>6. Reached'
  <2>1. \A f \in Colours(ncosets, todo') : f \in Colours(ncosets, todo)
    BY <1>1, EmptyQueue DEF Colours
  <2> QED
    BY <1>0, <1>1, <2>1 DEF Reached
<1> QED
  BY <1>0, <1>5, <1>6 DEF ResultInv

\* A map of the cosets that are left, under the numbers from before.
Renumbered(g, m, n) == [c \in 1 .. ncosets |-> g[Renamed(c, m, n)]]

LEMMA RenamedIs ==
    ASSUME TypeOK, NEW m \in 1 .. ncosets, NEW n \in 1 .. ncosets, m < n
    PROVE  /\ \A c \in 1 .. ncosets : Renamed(c, m, n) \in 1 .. ncosets - 1
           /\ Renamed(m, m, n) = m /\ Renamed(n, m, n) = m
           /\ \A c \in 1 .. ncosets : c < n => Renamed(c, m, n) = c
           /\ \A d \in 1 .. ncosets - 1 : \E c \in 1 .. ncosets : Renamed(c, m, n) = d
<1>1. ncosets \in Nat
  BY TypeFacts
<1>2. /\ \A c \in 1 .. ncosets : Renamed(c, m, n) \in 1 .. ncosets - 1
      /\ Renamed(m, m, n) = m /\ Renamed(n, m, n) = m
      /\ \A c \in 1 .. ncosets : c < n => Renamed(c, m, n) = c
  BY <1>1 DEF Renamed
<1>3. ASSUME NEW d \in 1 .. ncosets - 1
      PROVE  \E c \in 1 .. ncosets : Renamed(c, m, n) = d
  <2>1. CASE d < n
    <3>1. d \in 1 .. ncosets
      BY <1>1
    <3> QED
      BY <1>2, <2>1, <3>1
  <2>2. CASE ~(d < n)
    <3>1. d + 1 \in 1 .. ncosets /\ Renamed(d + 1, m, n) = d
      BY <1>1, <2>2 DEF Renamed
    <3> QED
      BY <3>1
  <2> QED
    BY <2>1, <2>2
<1> QED
  BY <1>2, <1>3

\* A map that makes the new queue equal makes the old one equal, under the old
\* numbers, and has the images of all products.
LEMMA PulledBack ==
    ASSUME TableInv, NEW m \in 1 .. ncosets, NEW n \in 1 .. ncosets, m < n, Replaced(m, n), ~misnamed,
           NEW X, NEW g \in [1 .. ncosets - 1 -> X],
           todo' \in Seq(EqualPairs(g, ncosets - 1))
    PROVE  LET f == Renumbered(g, m, n)
           IN  /\ f \in [1 .. ncosets -> X] /\ todo \in Seq(EqualPairs(f, ncosets))
               /\ Carries(table, ncosets, f, table', ncosets - 1, g)
<1>0. TypeInv /\ TypeOK /\ ncosets \in Nat /\ m \in Cosets /\ n \in Cosets
  BY TypeFacts, CosetIs DEF TableInv, TypeInv
<1>1. \A c \in 1 .. ncosets : Renamed(c, m, n) \in 1 .. ncosets - 1
  BY <1>0, RenamedIs
<1>2. PICK f : f = Renumbered(g, m, n)
  OBVIOUS
<1>3. f \in [1 .. ncosets -> X] /\ \A c \in 1 .. ncosets : f[c] = g[Renamed(c, m, n)]
  BY <1>1, <1>2 DEF Renumbered
<1>4. todo \in Seq((1 .. ncosets) \X (1 .. ncosets)) /\ todo # <<>>
  BY DEF TableInv, KnownInv, Replaced
<1>5. ASSUME NEW q \in 1 .. Len(todo)
      PROVE  todo[q] \in EqualPairs(f, ncosets)
  <2>1. todo[q] \in (1 .. ncosets) \X (1 .. ncosets)
    BY <1>4, ElementOfSeq
  <2>2. PICK a \in 1 .. ncosets, b \in 1 .. ncosets : todo[q] = <<a, b>>
    BY <2>1
  <2>3. f[a] = f[b]
    <3>1. CASE q = Len(todo)
      <4>1. a = m /\ b = n
        BY <2>2, <3>1 DEF Replaced
      <4> QED
        BY <1>0, <1>3, <4>1, RenamedIs
    <3>2. CASE q # Len(todo)
      <4>1. q \in 1 .. Len(todo) - 1
        BY <1>4, <3>2
      <4>2. PICK x \in 1 .. Len(todo') : todo'[x] = <<Renamed(a, m, n), Renamed(b, m, n)>>
        <5>1. PICK x \in 1 .. Len(todo') :
                 todo'[x] = <<Renamed(todo[q][1], m, n), Renamed(todo[q][2], m, n)>>
          BY <1>0, <4>1, QueueHas
        <5> QED
          BY <2>2, <5>1
      <4>3. todo'[x] \in EqualPairs(g, ncosets - 1)
        BY ElementOfSeq
      <4>4. g[Renamed(a, m, n)] = g[Renamed(b, m, n)]
        BY <4>2, <4>3 DEF EqualPairs
      <4> QED
        BY <1>3, <4>4
    <3> QED
      BY <3>1, <3>2
  <2> QED
    BY <2>2, <2>3 DEF EqualPairs
<1>6. todo \in Seq(EqualPairs(f, ncosets))
  <2>1. Len(todo) \in Nat
    BY <1>4
  <2>2. todo \in [1 .. Len(todo) -> EqualPairs(f, ncosets)]
    BY <1>4, <1>5, LenProperties
  <2> QED
    BY <2>1, <2>2, SeqDef
<1>7. ASSUME NEW r \in 1 .. NVars, NEW c \in 1 .. ncosets, table[r][c] # 0
      PROVE  \E e \in 1 .. ncosets - 1 :
                 table'[r][e] # 0 /\ g[e] = f[c] /\ g[table'[r][e]] = f[table[r][c]]
  <2>1. table[r][c] \in 1 .. ncosets
    <3>1. table[r][c] \in Cosets /\ table[r][c] <= ncosets
      BY <1>0, <1>7, CosetIs, EntryType, Variables DEF TableInv, KnownInv
    <3> QED
      BY <1>0, <3>1 DEF Cosets
  <2>2. PICK e \in 1 .. ncosets - 1, s \in 1 .. ncosets - 1 :
           e = Renamed(c, m, n) /\ s = Renamed(table[r][c], m, n)
    BY <1>1, <2>1
  <2>3. PICK d : d = table'[r][e]
    OBVIOUS
  <2>4. Same(d, s, todo')
    BY <1>0, <1>7, <2>2, <2>3, KnownIsKept
  <2>5. d \in 1 .. ncosets - 1 /\ g[d] = g[s]
    <3>1. CASE d = s
      BY <3>1
    <3>2. CASE \E q \in 1 .. Len(todo') : todo'[q] \in {<<d, s>>, <<s, d>>}
      <4>1. PICK q \in 1 .. Len(todo') : todo'[q] \in {<<d, s>>, <<s, d>>}
        BY <3>2
      <4>2. todo'[q] \in EqualPairs(g, ncosets - 1)
        BY ElementOfSeq
      <4> QED
        BY <4>1, <4>2 DEF EqualPairs
    <3> QED
      BY <2>4, <3>1, <3>2 DEF Same
  <2>6. d # 0
    BY <1>0, <2>5
  <2> QED
    BY <1>3, <2>1, <2>2, <2>3, <2>5, <2>6
<1> QED
  BY <1>2, <1>3, <1>6, <1>7 DEF Carries

LEMMA ReplaceResult ==
    ASSUME FinishedInv, Replace
    PROVE  ResultInv'
<1> SUFFICES ASSUME ~misnamed', ~skipped' PROVE ResultInv'
  BY DEF ResultInv
<1>0. /\ TableInv /\ TypeOK /\ ncosets \in Nat /\ ~misnamed /\ ~skipped
      /\ ~(todo[Len(todo)][2] < i)
  BY ReplaceNamed, TypeFacts DEF FinishedInv, TableInv, TypeInv, Replace
<1>1. PICK m \in 1 .. ncosets, n \in 1 .. ncosets : m < n /\ Replaced(m, n)
  BY <1>0, ReplaceNamed
<1>2. /\ ncosets' = ncosets - 1 /\ phase' = "replace" /\ UNCHANGED <<pres, i>> /\ ~(n < i)
      /\ i \in Nat
  BY <1>0, <1>1, TypeFacts DEF Replaced, traceVars
<1>3. RowsClose /\ Reached
  BY <1>0 DEF FinishedInv, ResultInv
<1>4. ASSUME NEW g \in Quotients(ncosets - 1, todo'), NEW j \in 1 .. ncosets - 1, j < i,
             NEW w \in ClosingWords(j)
      PROVE  Closes(table', ncosets - 1, g, w, j)
  <2>1. g \in [1 .. ncosets - 1 -> Cosets] /\ todo' \in Seq(EqualPairs(g, ncosets - 1))
    BY DEF Quotients
  <2>2. PICK f : f = Renumbered(g, m, n)
    OBVIOUS
  <2>3. /\ f \in [1 .. ncosets -> Cosets] /\ todo \in Seq(EqualPairs(f, ncosets))
        /\ Carries(table, ncosets, f, table', ncosets - 1, g)
    BY <1>0, <1>1, <2>1, <2>2, PulledBack
  <2>4. j \in 1 .. ncosets /\ j < n
    BY <1>0, <1>2, <1>4
  <2>5. f[j] = g[j]
    <3>1. Renamed(j, m, n) = j
      BY <1>0, <1>1, <2>4, RenamedIs
    <3> QED
      BY <2>2, <2>4, <3>1 DEF Renumbered
  <2>6. Closes(table, ncosets, f, w, j) /\ w \in Words
    BY <1>0, <1>3, <1>4, <2>3, <2>4, ClosingType DEF RowsClose, Quotients
  <2>7. \A l : Carries(table, ncosets, f, table', l, g) => Closes(table', l, g, w, j)
    BY <2>5, <2>6, ClosesCarried
  <2> QED
    BY <2>3, <2>7
<1>5. RowsClose'
  BY <1>2, <1>4, RowsCloseNext
<1>6. ASSUME NEW g \in Colours(ncosets - 1, todo'), Monochrome(g, ncosets - 1, table')
      PROVE  \A d \in 1 .. ncosets - 1 : g[d] = 1
  <2>1. g \in [1 .. ncosets - 1 -> {0, 1}] /\ g[1] = 1 /\ todo' \in Seq(EqualPairs(g, ncosets - 1))
    BY DEF Colours
  <2>2. PICK f : f = Renumbered(g, m, n)
    OBVIOUS
  <2>3. /\ f \in [1 .. ncosets -> {0, 1}] /\ todo \in Seq(EqualPairs(f, ncosets))
        /\ Carries(table, ncosets, f, table', ncosets - 1, g)
    BY <1>0, <1>1, <2>1, <2>2, PulledBack
  <2>4. \A c \in 1 .. ncosets : f[c] = g[Renamed(c, m, n)]
    BY <2>2 DEF Renumbered
  <2>5. f[1] = 1
    <3>1. 1 \in 1 .. ncosets /\ 1 < n
      BY <1>0, <1>1
    <3>2. Renamed(1, m, n) = 1
      BY <1>0, <1>1, <3>1, RenamedIs
    <3> QED
      BY <2>1, <2>4, <3>1, <3>2
  <2>6. Monochrome(f, ncosets, table)
    <3>1. ASSUME NEW r \in 1 .. NVars, NEW c \in 1 .. ncosets, table[r][c] # 0
          PROVE  f[table[r][c]] = f[c]
      <4>1. PICK e \in 1 .. ncosets - 1 :
               table'[r][e] # 0 /\ g[e] = f[c] /\ g[table'[r][e]] = f[table[r][c]]
        BY <2>3, <3>1 DEF Carries
      <4>2. g[table'[r][e]] = g[e]
        BY <1>6, <4>1 DEF Monochrome
      <4> QED
        BY <4>1, <4>2
    <3> QED
      BY <3>1 DEF Monochrome
  <2>7. \A c \in 1 .. ncosets : f[c] = 1
    BY <1>3, <2>3, <2>5, <2>6 DEF Reached, Colours
  <2>8. \A d \in 1 .. ncosets - 1 : \E c \in 1 .. ncosets : Renamed(c, m, n) = d
    BY <1>0, <1>1, RenamedIs
  <2> QED
    BY <2>4, <2>7, <2>8
<1>7. Reached'
  BY <1>2, <1>6 DEF Reached
<1> QED
  BY <1>2, <1>5, <1>7 DEF ResultInv

\* A pair of one coset can be left out of the queue.
LEMMA SkippedIsEqual ==
    ASSUME TableInv, ~misnamed, SkipPair, NEW f, todo' \in Seq(EqualPairs(f, ncosets))
    PROVE  todo \in Seq(EqualPairs(f, ncosets))
<1>1. todo \in Seq((1 .. ncosets) \X (1 .. ncosets)) /\ todo # <<>> /\ Len(todo) \in Nat \ {0}
  BY EmptySeq DEF TableInv, KnownInv, SkipPair
<1>2. /\ 1 \in Int /\ Len(todo) - 1 \in Int
      /\ \A j \in 1 .. Len(todo) - 1 : j \in 1 .. Len(todo) /\ 1 + j - 1 = j
  BY <1>1
<1>3. \A j \in 1 .. Len(todo) - 1 : todo[j] \in (1 .. ncosets) \X (1 .. ncosets)
  BY <1>1, <1>2, ElementOfSeq
<1>4. todo' = SubSeq(todo, 1, Len(todo) - 1)
  BY DEF SkipPair, Popped
<1>5. Len(todo') = Len(todo) - 1
  <2>1. Len(todo') = (IF 1 <= Len(todo) - 1 THEN Len(todo) - 1 - 1 + 1 ELSE 0)
    BY <1>2, <1>3, <1>4, SubSeqProperties
  <2>2. PICK l \in Nat \ {0} : l = Len(todo)
    BY <1>1
  <2>3. (IF 1 <= l - 1 THEN l - 1 - 1 + 1 ELSE 0) = l - 1
    OBVIOUS
  <2> QED
    BY <2>1, <2>2, <2>3
<1>6. \A q \in 1 .. Len(todo) - 1 - 1 + 1 : todo'[q] = todo[1 + q - 1]
  BY <1>2, <1>3, <1>4, SubSeqProperties
<1>7. ASSUME NEW q \in 1 .. Len(todo)
      PROVE  todo[q] \in EqualPairs(f, ncosets)
  <2>1. CASE q = Len(todo)
    <3>1. todo[q] \in (1 .. ncosets) \X (1 .. ncosets)
      BY <1>1, ElementOfSeq
    <3>2. todo[q][1] = todo[q][2]
      BY <2>1 DEF SkipPair
    <3> QED
      BY <3>1, <3>2 DEF EqualPairs
  <2>2. CASE q # Len(todo)
    <3>1. q \in 1 .. Len(todo) - 1 /\ q \in 1 .. Len(todo')
      BY <1>1, <1>5, <2>2
    <3>2. todo'[q] = todo[q]
      BY <1>1, <1>2, <1>6, <3>1
    <3>3. todo'[q] \in EqualPairs(f, ncosets)
      BY <3>1, ElementOfSeq
    <3> QED
      BY <3>2, <3>3
  <2> QED
    BY <2>1, <2>2
<1>8. todo \in [1 .. Len(todo) -> EqualPairs(f, ncosets)]
  BY <1>1, <1>7, LenProperties
<1>9. Len(todo) \in Nat
  BY <1>1
<1> QED
  BY <1>8, <1>9, SeqDef

LEMMA SkipPairResult ==
    ASSUME FinishedInv, SkipPair
    PROVE  ResultInv'
<1> SUFFICES ASSUME ~misnamed, ~skipped PROVE ResultInv'
  BY DEF SkipPair, ResultInv, ghostVars
<1>0. phase' = "replace" /\ UNCHANGED <<pres, ncosets, table, i>>
  BY DEF SkipPair, traceVars
<1>1. RowsClose /\ Reached /\ TableInv
  BY DEF FinishedInv, ResultInv
<1>2. \A f : todo' \in Seq(EqualPairs(f, ncosets)) => todo \in Seq(EqualPairs(f, ncosets))
  BY <1>1, SkippedIsEqual
<1>3. RowsClose'
  <2>1. \A f \in Quotients(ncosets, todo') : f \in Quotients(ncosets, todo)
    BY <1>2 DEF Quotients
  <2> QED
    BY <1>0, <1>1, <2>1, RowsCloseNext DEF RowsClose
<1>4. Reached'
  <2>1. \A f \in Colours(ncosets, todo') : f \in Colours(ncosets, todo)
    BY <1>2 DEF Colours
  <2> QED
    BY <1>0, <1>1, <2>1 DEF Reached
<1> QED
  BY <1>0, <1>3, <1>4 DEF ResultInv

\* The columns of the variables are all that the relations are followed in.
LEMMA VariablesCarry ==
    ASSUME TableInv, ~misnamed, \A r \in 1 .. NVars : table'[r] = table[r]
    PROVE  /\ \A f : Carries(table, ncosets, f, table', ncosets, f)
           /\ \A f : Monochrome(f, ncosets, table') => Monochrome(f, ncosets, table)
<1>1. \A f : Carries(table, ncosets, f, table', ncosets, f)
  BY DEF Carries
<1>2. \A f : Monochrome(f, ncosets, table') => Monochrome(f, ncosets, table)
  BY DEF Monochrome
<1> QED
  BY <1>1, <1>2

LEMMA RepeatFoundResult ==
    ASSUME FinishedInv, RepeatFound
    PROVE  ResultInv'
<1> SUFFICES ASSUME ~misnamed, ~skipped PROVE ResultInv'
  BY DEF RepeatFound, ResultInv, ghostVars
<1>0. phase' = "replace" /\ todo = <<>> /\ UNCHANGED <<pres, ncosets, i>>
  BY DEF RepeatFound, traceVars
<1>1. RowsClose /\ Reached /\ TableInv /\ TypeInv /\ TypeOK
  BY DEF FinishedInv, ResultInv, TableInv, TypeInv
<1>2. \A r \in 1 .. NVars : table'[r] = table[r]
  BY <1>1, RepeatIs
<1>3. RowsClose'
  <2>1. ASSUME NEW f \in Quotients(ncosets, todo'), NEW j \in 1 .. ncosets, j < i,
               NEW w \in ClosingWords(j)
        PROVE  Closes(table', ncosets, f, w, j)
    <3>1. f \in Quotients(ncosets, todo)
      BY <1>0, EmptyQueue DEF Quotients
    <3>2. Closes(table, ncosets, f, w, j) /\ w \in Words
      BY <1>1, <2>1, <3>1, ClosingType DEF RowsClose
    <3>3. Carries(table, ncosets, f, table', ncosets, f)
      BY <1>1, <1>2, VariablesCarry
    <3> QED
      BY <3>2, <3>3, ClosesCarried
  <2> QED
    BY <1>0, <2>1, RowsCloseNext
<1>4. Reached'
  <2>1. \A f \in Colours(ncosets, todo') : f \in Colours(ncosets, todo)
    BY <1>0, EmptyQueue DEF Colours
  <2>2. \A f : Monochrome(f, ncosets, table') => Monochrome(f, ncosets, table)
    BY <1>1, <1>2, VariablesCarry
  <2> QED
    BY <1>0, <1>1, <2>1, <2>2 DEF Reached
<1> QED
  BY <1>0, <1>3, <1>4 DEF ResultInv

LEMMA FillInversesResult ==
    ASSUME FinishedInv, FillInverses
    PROVE  ResultInv'
<1> SUFFICES ASSUME ~misnamed, ~skipped PROVE ResultInv'
  BY DEF FillInverses, ResultInv, ghostVars
<1>0. BeginRow(i, ncosets) /\ UNCHANGED <<pres, ncosets, todo>>
  BY DEF FillInverses
<1>1. /\ RowsClose /\ Reached /\ TableInv /\ TypeInv /\ TypeOK /\ i \in Nat \ {0}
      /\ ncosets \in Nat
  BY TypeFacts DEF FinishedInv, ResultInv, TableInv, TypeInv, TypeOK
<1>2. \A r \in 1 .. NVars : table'[r] = table[r]
  BY <1>1, FilledIs, Variables, NVarsAssumption
<1>3. i' = i /\ phase' = IF i <= ncosets THEN "row" ELSE "done"
  BY <1>0 DEF BeginRow
<1>4. RowsClose'
  <2>1. ASSUME NEW f \in Quotients(ncosets, todo'), NEW j \in 1 .. ncosets, j < i,
               NEW w \in ClosingWords(j)
        PROVE  Closes(table', ncosets, f, w, j)
    <3>1. Closes(table, ncosets, f, w, j) /\ w \in Words
      BY <1>0, <1>1, <2>1, ClosingType DEF RowsClose
    <3>2. Carries(table, ncosets, f, table', ncosets, f)
      BY <1>1, <1>2, VariablesCarry
    <3> QED
      BY <3>1, <3>2, ClosesCarried
  <2> QED
    BY <1>0, <1>3, <2>1, RowsCloseNext
<1>5. Reached'
  <2>1. \A f : Monochrome(f, ncosets, table') => Monochrome(f, ncosets, table)
    BY <1>1, <1>2, VariablesCarry
  <2> QED
    BY <1>0, <1>1, <2>1 DEF Reached
<1>6. phase' = "row" => RowTraced'
  BY <1>0, <1>1, BeginRowTraced
<1>7. phase' = "done" => i' > ncosets'
  BY <1>0, <1>1, <1>3
<1> QED
  BY <1>4, <1>5, <1>6, <1>7 DEF ResultInv

LEMMA QueueNext ==
    ASSUME FinishedInv, [Next]_vars
    PROVE  QueueInv'
<1>1. NextCoset \/ Follow \/ EndRelation \/ Overflow => todo' = todo /\ todo = <<>>
  BY DEF NextCoset, Follow, EndRelation, Overflow, Tracing, FinishedInv, QueueInv
<1>2. Coincidence \/ Replace \/ SkipPair \/ RepeatFound => phase' = "replace"
  BY DEF Coincidence, Replace, SkipPair, RepeatFound
<1>3. FillInverses => todo' = todo /\ todo = <<>>
  BY DEF FillInverses
<1>4. UNCHANGED vars => QueueInv'
  BY DEF vars, FinishedInv, QueueInv
<1> QED
  BY <1>1, <1>2, <1>3, <1>4 DEF Next, QueueInv

LEMMA FinishedNext ==
    ASSUME FinishedInv, [Next]_vars
    PROVE  FinishedInv'
<1>1. TableInv' /\ LeftInv' /\ QueueInv' /\ pres' = pres
  BY TableNext, LeftNext, QueueNext DEF FinishedInv
<1>2. UNCHANGED vars => ResultInv'
  <2> SUFFICES ASSUME UNCHANGED vars PROVE ResultInv'
    OBVIOUS
  <2>1. \A j : ClosingWords(j)' = ClosingWords(j)
    BY SameWords DEF vars
  <2>2. ClosingWords(i)' = ClosingWords(i)
    BY SameWords DEF vars
  <2> QED
    BY <2>1, <2>2 DEF vars, FinishedInv, ResultInv, RowsClose, RowTraced, Reached
<1>3. Overflow => ResultInv'
  <2> SUFFICES ASSUME Overflow PROVE ResultInv'
    OBVIOUS
  <2>1. phase' = "full" /\ UNCHANGED <<pres, ncosets, table, todo, i, left, rel, k, misnamed, skipped>>
    BY DEF Overflow, traceVars, ghostVars
  <2>2. \A j : ClosingWords(j)' = ClosingWords(j)
    BY <2>1, SameWords
  <2> QED
    BY <2>1, <2>2 DEF FinishedInv, ResultInv, RowsClose, Reached
<1>4. ResultInv'
  BY <1>1, <1>2, <1>3, NextCosetResult, FollowResult, EndRelationResult, CoincidenceResult,
     ReplaceResult, SkipPairResult, RepeatFoundResult, FillInversesResult DEF Next
<1> QED
  BY <1>1, <1>4 DEF FinishedInv

LEMMA FinishedInit ==
    ASSUME Init
    PROVE  FinishedInv
<1>0. TypeInv /\ TypeOK /\ TableInv /\ LeftInv
  BY TypeInit, KnownInit, ImageInit DEF TypeInv, TableInv
<1>1. ncosets = 1 /\ i = 1 /\ k = 1 /\ todo = <<>> /\ left = Relations(1) /\ rel = Head(left) /\ phase = "row"
  BY DEF Init
<1>2. RowsClose
  <2>1. \A j \in 1 .. 1 : ~(j < 1)
    OBVIOUS
  <2> QED
    BY <1>1, <2>1 DEF RowsClose
<1>3. Reached
  <2>1. \A c \in 1 .. 1 : c = 1
    OBVIOUS
  <2> QED
    BY <1>1, <2>1 DEF Reached, Colours
<1>4. RowTraced
  <2>1. ASSUME NEW f \in [1 .. 1 -> Cosets]
        PROVE  /\ \A w \in ClosingWords(1) : \E q \in 1 .. Len(left) : left[q] = w
               /\ Prefix(table, 1, f, Head(left), rel, f[1], f[1])
    <3>1. \A w \in ClosingWords(1) : \E q \in 1 .. Len(left) : left[q] = w
      BY <1>1 DEF ClosingWords
    <3>2. rel \in Words
      BY <1>0, <1>1, RelationsType
    <3>3. f[1] \in Cosets
      OBVIOUS
    <3> QED
      BY <1>1, <3>1, <3>2, <3>3, PrefixBegins
  <2> QED
    BY <1>1, <2>1 DEF RowTraced
<1>5. QueueInv /\ ResultInv
  BY <1>1, <1>2, <1>3, <1>4 DEF QueueInv, ResultInv
<1>6. pres \in Presentations
  BY DEF Init
<1> QED
  BY <1>0, <1>5, <1>6 DEF FinishedInv

-----------------------------------------------------------------------------
(* The result.                                                             *)

\* c is led back to c, through the cosets p.
Loop(w, c, p) ==
    /\ p \in [0 .. Len(w) -> 1 .. ncosets] /\ p[0] = c /\ p[Len(w)] = c
    /\ \A q \in 1 .. Len(w) : table[w[q]][p[q - 1]] = p[q]

IsFinished == FinishedInv /\ phase = "done" /\ ~misnamed /\ ~skipped

LEMMA FinishedFacts ==
    ASSUME IsFinished
    PROVE  /\ TypeOK /\ ncosets \in Nat /\ ncosets >= 1 /\ ncosets <= MaxCosets /\ i > ncosets
           /\ i \in Nat /\ todo = <<>> /\ Accurate(table, ncosets) /\ RowsClose /\ Reached
           /\ pres \in Presentations
BY TypeFacts DEF IsFinished, FinishedInv, TableInv, TypeInv, KnownInv, ResultInv, QueueInv

LEMMA FinishedLoops ==
    ASSUME IsFinished, NEW c \in 1 .. ncosets, NEW w \in ClosingWords(c)
    PROVE  w \in Words /\ \E p : Loop(w, c, p)
<1>0. /\ TypeOK /\ ncosets \in Nat /\ i > ncosets /\ i \in Nat /\ todo = <<>>
      /\ Accurate(table, ncosets) /\ RowsClose
  BY FinishedFacts
<1>1. PICK f : f = [d \in 1 .. ncosets |-> d]
  OBVIOUS
<1>2. f \in [1 .. ncosets -> Cosets] /\ \A d \in 1 .. ncosets : f[d] = d
  BY <1>0, <1>1, CosetIs
<1>3. w \in Words /\ Closes(table, ncosets, f, w, c)
  <2>1. c < i
    BY <1>0
  <2> QED
    BY <1>0, <1>2, <2>1, EmptyQueue, ClosingType DEF RowsClose
<1>4. PICK p : Path(table, ncosets, f, w, Len(w), p) /\ p[0] = c /\ p[Len(w)] = c
  BY <1>2, <1>3 DEF Closes
<1>5. Len(w) \in Nat \ {0} /\ \A q \in 1 .. Len(w) : w[q] \in Letters
  BY <1>3, HeadTail DEF Words
<1>6. ASSUME NEW r \in Letters, NEW x, NEW y, Step(table, ncosets, f, r, x, y)
      PROVE  y \in 1 .. ncosets /\ table[r][x] = y
  <2>1. \A l \in Letters, e \in 1 .. ncosets :
           table[l][e] # 0 => table[l][e] \in 1 .. ncosets /\ table[-l][table[l][e]] = e
    <3> TAKE l \in Letters, e \in 1 .. ncosets
    <3> HAVE table[l][e] # 0
    <3>1. table[l][e] \in Cosets
      BY <1>0, CosetIs, EntryType
    <3> QED
      BY <1>0, <3>1 DEF Accurate, Cosets
  <2>2. CASE r > 0
    <3>1. PICK e \in 1 .. ncosets : table[r][e] # 0 /\ f[e] = x /\ f[table[r][e]] = y
      BY <1>6, <2>2 DEF Step
    <3> QED
      BY <1>2, <2>1, <3>1
  <2>3. CASE ~(r > 0)
    <3>1. PICK e \in 1 .. ncosets : table[-r][e] # 0 /\ f[e] = y /\ f[table[-r][e]] = x
      BY <1>6, <2>3 DEF Step
    <3>2. -r \in Letters /\ -(-r) = r
      BY LettersFacts
    <3>3. table[-r][e] \in 1 .. ncosets /\ table[-(-r)][table[-r][e]] = e
      BY <2>1, <3>1, <3>2
    <3> QED
      BY <1>2, <3>1, <3>2, <3>3
  <2> QED
    BY <2>2, <2>3
<1>7. \A q \in 1 .. Len(w) : p[q] \in 1 .. ncosets /\ table[w[q]][p[q - 1]] = p[q]
  BY <1>4, <1>5, <1>6 DEF Path
<1>8. p \in [0 .. Len(w) -> 1 .. ncosets]
  <2>1. \A q \in 0 .. Len(w) : q = 0 \/ q \in 1 .. Len(w)
    BY <1>5
  <2>2. \A q \in 0 .. Len(w) : p[q] \in 1 .. ncosets
    BY <1>4, <1>7, <2>1
  <2> QED
    BY <1>4, <2>2 DEF Path
<1> QED
  BY <1>3, <1>4, <1>7, <1>8 DEF Loop

\* A loop is what Walk finds.
LEMMA LoopIsWalk ==
    ASSUME ncosets \in Nat, NEW w \in Words, NEW c \in 1 .. ncosets, NEW p, Loop(w, c, p)
    PROVE  Walk(table, c, w) = c
<1>1. PICK g : Walk(table, c, w) = g[Len(w)] /\ IsTrace(g, table, c, w, Len(w))
  BY WalkTrace
<1>2. PICK v \in Nat : v = Len(w)
  BY HeadTail
<1>3. \A n \in 0 .. v : TraceStep(g, table, c, w, n)
  BY <1>1, <1>2, TraceAt
<1>4. /\ p[0] = c /\ p[v] = c /\ \A q \in 0 .. v : p[q] # 0
      /\ \A q \in 1 .. v : table[w[q]][p[q - 1]] = p[q]
  BY <1>2 DEF Loop
<1> DEFINE S == {n \in Nat : n <= v => g[n] = p[n]}
<1>5. 0 \in S
  BY <1>3, <1>4 DEF TraceStep
<1>6. ASSUME NEW n \in Nat, n \in S PROVE n + 1 \in S
  <2> SUFFICES ASSUME n + 1 <= v PROVE g[n + 1] = p[n + 1]
    OBVIOUS
  <2>1. PICK m \in 1 .. v : m = n + 1 /\ m - 1 = n /\ m # 0 /\ m \in 0 .. v /\ n \in 0 .. v
    OBVIOUS
  <2>2. g[m] = IF g[m - 1] = 0 THEN 0 ELSE table[w[m]][g[m - 1]]
    BY <1>3, <2>1 DEF TraceStep
  <2>3. g[n] = p[n] /\ p[n] # 0
    BY <1>4, <1>6, <2>1
  <2> QED
    BY <1>4, <2>1, <2>2, <2>3
<1> HIDE DEF S
<1>7. \A n \in Nat : n \in S
  BY <1>5, <1>6, EveryNatural
<1>8. g[v] = p[v]
  BY <1>7 DEF S
<1> QED
  BY <1>1, <1>2, <1>4, <1>8

\* A letter that is defined for all cosets sends some coset to each.
LEMMA TotalIsOnto ==
    ASSUME IsFinished, NEW r \in Letters,
           \A c \in 1 .. ncosets : table[r][c] \in 1 .. ncosets
    PROVE  \A d \in 1 .. ncosets : \E c \in 1 .. ncosets : table[r][c] = d
<1>0. ncosets \in Nat /\ Accurate(table, ncosets)
  BY FinishedFacts
<1>1. PICK N : N = 1 .. ncosets
  OBVIOUS
<1>2. IsFiniteSet(N)
  BY <1>0, <1>1, FS_Interval
<1>3. PICK F \in [N -> N] : F = [c \in N |-> table[r][c]]
  BY <1>1
<1>4. \A c \in N : table[r][c] # 0 /\ table[-r][table[r][c]] = c
  BY <1>0, <1>1 DEF Accurate
<1>4a. \A c \in N : F[c] = table[r][c]
  BY <1>3
<1>4b. \A c, d \in N : F[c] = F[d] => c = d
  BY <1>4, <1>4a
<1>5. F \in Injection(N, N)
  BY <1>3, <1>4b DEF Injection, IsInjective
<1>6. F \in Surjection(N, N)
  BY <1>2, <1>5, FS_Injection
<1> QED
  BY <1>1, <1>3, <1>6 DEF Surjection

\* What closes at every coset sends some coset to each, with every part of it.
LEMMA PartsAreTotal ==
    ASSUME IsFinished, NEW w \in Words, \A c \in 1 .. ncosets : \E p : Loop(w, c, p),
           NEW l \in 1 .. Len(w)
    PROVE  \A c \in 1 .. ncosets : table[w[l]][c] \in 1 .. ncosets
<1>0. ncosets \in Nat /\ Len(w) \in Nat \ {0} /\ \A q \in 1 .. Len(w) : w[q] \in Letters
  BY FinishedFacts, HeadTail DEF Words
<1>1. PICK P : P = [c \in 1 .. ncosets |-> CHOOSE p : Loop(w, c, p)]
  OBVIOUS
<1>2. \A c \in 1 .. ncosets : Loop(w, c, P[c])
  BY <1>1
<1>3. ASSUME NEW s \in Nat, s + 1 <= Len(w),
             \A d \in 1 .. ncosets : \E c \in 1 .. ncosets : P[c][s] = d
      PROVE  \A d \in 1 .. ncosets :
                table[w[s + 1]][d] \in 1 .. ncosets /\ \E c \in 1 .. ncosets : P[c][s] = d
                /\ P[c][s + 1] = table[w[s + 1]][d]
  <2> TAKE d \in 1 .. ncosets
  <2>1. PICK c \in 1 .. ncosets : P[c][s] = d
    BY <1>3
  <2>2. PICK m \in 1 .. Len(w) : m = s + 1 /\ m - 1 = s /\ m \in 0 .. Len(w)
    BY <1>0, <1>3
  <2>3. table[w[m]][P[c][m - 1]] = P[c][m] /\ P[c][m] \in 1 .. ncosets
    BY <1>2, <2>2 DEF Loop
  <2> QED
    BY <2>1, <2>2, <2>3
<1> DEFINE S == {s \in Nat : s <= Len(w) =>
                     \A d \in 1 .. ncosets : \E c \in 1 .. ncosets : P[c][s] = d}
<1>4. 0 \in S
  BY <1>2 DEF Loop
<1>5. ASSUME NEW s \in Nat, s \in S PROVE s + 1 \in S
  <2> SUFFICES ASSUME s + 1 <= Len(w), NEW y \in 1 .. ncosets
               PROVE  \E c \in 1 .. ncosets : P[c][s + 1] = y
    OBVIOUS
  <2>1. \A d \in 1 .. ncosets : \E c \in 1 .. ncosets : P[c][s] = d
    BY <1>0, <1>5
  <2>2. \A d \in 1 .. ncosets :
           table[w[s + 1]][d] \in 1 .. ncosets /\ \E c \in 1 .. ncosets : P[c][s] = d
           /\ P[c][s + 1] = table[w[s + 1]][d]
    BY <1>3, <2>1
  <2>3. w[s + 1] \in Letters
    BY <1>0
  <2>4. PICK x \in 1 .. ncosets : table[w[s + 1]][x] = y
    BY <2>2, <2>3, TotalIsOnto
  <2> QED
    BY <2>2, <2>4
<1> HIDE DEF S
<1>6. \A s \in Nat : s \in S
  BY <1>4, <1>5, EveryNatural
<1>7. PICK s \in Nat : s + 1 = l /\ s <= Len(w) /\ s + 1 <= Len(w)
  <2>1. l - 1 \in Nat /\ l - 1 + 1 = l /\ l - 1 <= Len(w) /\ l <= Len(w)
    BY <1>0
  <2> QED
    BY <2>1
<1>8. \A d \in 1 .. ncosets : \E c \in 1 .. ncosets : P[c][s] = d
  BY <1>6, <1>7 DEF S
<1>9. \A d \in 1 .. ncosets : table[w[s + 1]][d] \in 1 .. ncosets
  BY <1>3, <1>7, <1>8
<1> QED
  BY <1>7, <1>9

LEMMA RelationsAreClosing ==
    ASSUME TypeOK
    PROVE  /\ \A q \in 1 .. Len(pres.rels) : \A row : pres.rels[q] \in ClosingWords(row)
           /\ \A q \in 1 .. Len(pres.sub) : pres.sub[q] \in ClosingWords(1)
<1>1. PICK rels \in Seq(Words) : rels = pres.rels
  BY DEF TypeOK
<1>2. PICK sub \in Seq(Words) : sub = pres.sub
  BY DEF TypeOK
<1>3. PICK v : v = sub \o rels
  OBVIOUS
<1>4. \A q \in 1 .. Len(sub) : q \in 1 .. Len(v) /\ v[q] = sub[q]
  BY <1>3
<1>5. \A q \in 1 .. Len(rels) : Len(sub) + q \in 1 .. Len(v) /\ v[Len(sub) + q] = rels[q]
  BY <1>3
<1>6. Relations(1) = v /\ \A row : row # 1 => Relations(row) = rels
  BY <1>1, <1>2, <1>3 DEF Relations
<1>7. ASSUME NEW q \in 1 .. Len(rels), NEW row
      PROVE  rels[q] \in ClosingWords(row)
  <2>1. CASE row = 1
    <3>1. PICK x \in 1 .. Len(v) : v[x] = rels[q]
      BY <1>5
    <3> QED
      BY <1>6, <2>1, <3>1 DEF ClosingWords
  <2>2. CASE row # 1
    BY <1>6, <2>2 DEF ClosingWords
  <2> QED
    BY <2>1, <2>2
<1>8. ASSUME NEW q \in 1 .. Len(sub)
      PROVE  sub[q] \in ClosingWords(1)
  BY <1>4, <1>6 DEF ClosingWords
<1> QED
  BY <1>1, <1>2, <1>7, <1>8

\* Every variable occurs in a relation, so that all products are defined.
LEMMA AllDefined ==
    ASSUME IsFinished
    PROVE  \A r \in Letters, c \in 1 .. ncosets : table[r][c] \in 1 .. ncosets
<1>0. TypeOK /\ pres \in Presentations /\ Accurate(table, ncosets) /\ ncosets \in Nat
  BY FinishedFacts
<1>1. ASSUME NEW r \in Letters, \A c \in 1 .. ncosets : table[r][c] \in 1 .. ncosets
      PROVE  \A d \in 1 .. ncosets : table[-r][d] \in 1 .. ncosets
  <2> TAKE d \in 1 .. ncosets
  <2>1. PICK c \in 1 .. ncosets : table[r][c] = d
    BY <1>1, TotalIsOnto
  <2>2. d # 0
    BY <1>0
  <2>3. table[-r][d] = c
    BY <1>0, <2>1, <2>2 DEF Accurate
  <2> QED
    BY <2>3
<1>2. ASSUME NEW v \in 1 .. NVars
      PROVE  /\ \A c \in 1 .. ncosets : table[v][c] \in 1 .. ncosets
             /\ \A c \in 1 .. ncosets : table[-v][c] \in 1 .. ncosets
  <2>0. v \in Letters /\ -v \in Letters /\ -(-v) = v
    BY Variables, LettersFacts
  <2>0a. PICK q \in 1 .. Len(pres.rels) :
            \E m \in 1 .. Len(pres.rels[q]) : pres.rels[q][m] \in {v, -v}
    BY <1>0, VariablesAssumption
  <2>1. PICK l \in 1 .. Len(pres.rels[q]) : pres.rels[q][l] \in {v, -v}
    BY <2>0a
  <2>2. PICK w : w = pres.rels[q]
    OBVIOUS
  <2>3. \A c \in 1 .. ncosets : w \in ClosingWords(c)
    BY <1>0, <2>2, RelationsAreClosing
  <2>4. \A c \in 1 .. ncosets : w \in Words /\ \E p : Loop(w, c, p)
    BY <2>3, FinishedLoops
  <2>5. 1 \in 1 .. ncosets
    BY FinishedFacts
  <2>6. \A c \in 1 .. ncosets : table[w[l]][c] \in 1 .. ncosets
    BY <2>2, <2>4, <2>5, PartsAreTotal
  <2>7. CASE w[l] = v
    BY <1>1, <2>0, <2>6, <2>7
  <2>8. CASE w[l] = -v
    <3>1. PICK u \in Letters : u = -v /\ -u = v
      BY <2>0
    <3> QED
      BY <1>1, <2>6, <2>8, <3>1
  <2> QED
    BY <2>1, <2>2, <2>7, <2>8
<1>3. ASSUME NEW r \in Letters
      PROVE  \A c \in 1 .. ncosets : table[r][c] \in 1 .. ncosets
  <2>1. CASE r > 0
    BY <1>2, <2>1, Variables
  <2>2. CASE ~(r > 0)
    <3>1. PICK v \in 1 .. NVars : v = -r /\ -v = r
      BY <2>2, Variables, LettersFacts
    <3> QED
      BY <1>2, <3>1
  <2> QED
    BY <2>1, <2>2
<1> QED
  BY <1>3

LEMMA FinishedIsTransitive ==
    ASSUME IsFinished
    PROVE  Transitive
<1>0. TypeOK /\ Reached /\ todo = <<>> /\ ncosets \in Nat /\ ncosets >= 1 /\ Accurate(table, ncosets)
  BY FinishedFacts
<1>1. ASSUME NEW S \in SUBSET (1 .. ncosets), 1 \in S,
             \A r \in Letters, c \in S : table[r][c] \in S
      PROVE  S = 1 .. ncosets
  <2>1. PICK f : f = [c \in 1 .. ncosets |-> IF c \in S THEN 1 ELSE 0]
    OBVIOUS
  <2>2. f \in [1 .. ncosets -> {0, 1}] /\ \A c \in 1 .. ncosets : f[c] = 1 <=> c \in S
    BY <2>1
  <2>3. \A c \in 1 .. ncosets : c \notin S => f[c] = 0
    BY <2>1
  <2>4. 1 \in 1 .. ncosets /\ f[1] = 1
    BY <1>0, <1>1, <2>2
  <2>5. Monochrome(f, ncosets, table)
    <3>1. ASSUME NEW r \in 1 .. NVars, NEW c \in 1 .. ncosets, table[r][c] # 0
          PROVE  f[table[r][c]] = f[c]
      <4>0. r \in Letters /\ -r \in Letters
        BY Variables, LettersFacts
      <4>1. PICK d \in 1 .. ncosets : d = table[r][c] /\ table[-r][d] = c
        BY <1>0, <3>1, <4>0, AllDefined DEF Accurate
      <4>2. c \in S => d \in S
        BY <1>1, <4>0, <4>1
      <4>3. d \in S => c \in S
        BY <1>1, <4>0, <4>1
      <4> QED
        BY <2>2, <2>3, <4>1, <4>2, <4>3
    <3> QED
      BY <3>1 DEF Monochrome
  <2>6. \A c \in 1 .. ncosets : f[c] = 1
    BY <1>0, <2>2, <2>4, <2>5, EmptyQueue DEF Reached
  <2> QED
    BY <2>2, <2>6
<1> QED
  BY <1>1 DEF Transitive

\* An enumeration that ends, in which no pair was misnamed and no row passed over,
\* has found an action of the group in which the subgroup fixes the first coset, and
\* every coset is reached from that one, for every presentation.  With
\* NothingIsMerged: it has found the cosets (todd-coxeter, doing-row,
\* replace-coset-in-multiply-table, fill-in-inverses).
THEOREM ResultIsAnAction == Spec => []ResultIsAction
<1>1. Init => FinishedInv
  BY FinishedInit
<1>2. ASSUME FinishedInv PROVE ResultIsAction
  <2> SUFFICES ASSUME phase = "done", ~misnamed, ~skipped
               PROVE  IsAction(table, ncosets) /\ Transitive
    BY DEF ResultIsAction
  <2>0. IsFinished
    BY <1>2 DEF IsFinished
  <2>1. /\ TypeOK /\ ncosets \in Nat /\ Accurate(table, ncosets) /\ 1 \in 1 .. ncosets
        /\ \A c \in 1 .. ncosets : c # 0
    BY <2>0, FinishedFacts
  <2>2. \A r \in Letters, c \in 1 .. ncosets :
           table[r][c] \in 1 .. ncosets /\ table[-r][table[r][c]] = c
    BY <2>0, <2>1, AllDefined DEF Accurate
  <2>3. \A c \in 1 .. ncosets : \A w \in ClosingWords(c) : Walk(table, c, w) = c
    BY <2>0, <2>1, FinishedLoops, LoopIsWalk
  <2>4. \A q \in 1 .. Len(pres.rels), c \in 1 .. ncosets : Walk(table, c, pres.rels[q]) = c
    BY <2>1, <2>3, RelationsAreClosing
  <2>5. \A q \in 1 .. Len(pres.sub) : Walk(table, 1, pres.sub[q]) = 1
    BY <2>1, <2>3, RelationsAreClosing
  <2>6. IsAction(table, ncosets)
    BY <2>2, <2>4, <2>5 DEF IsAction
  <2> QED
    BY <2>0, <2>6, FinishedIsTransitive
<1> QED
  BY <1>1, <1>2, FinishedNext, PTL DEF Spec
=============================================================================

--------------------------- MODULE BindingsProofs ---------------------------
(***************************************************************************)
(* The shared stacks of the evaluator stay in order on every path, for any *)
(* variables, values, functions and lists of names; and they implement the *)
(* scopes of Scopes: until a step puts the stacks out of order, every      *)
(* evaluation restores what it has found, whichever way it is left.        *)
(***************************************************************************)
EXTENDS Bindings, SequenceTheorems, WellFoundedInduction, TLAPS

Cells == Values \cup Vars \cup {Unbound}
Defs == Props \cup {NoProp}

-----------------------------------------------------------------------------
(* Induction on natural numbers, in the form that sets allow.              *)

\* A set of natural numbers that is not empty has a least element.
LEMMA LeastNatural ==
    ASSUME NEW S \in SUBSET Nat, S # {}
    PROVE  \E n \in S : \A m \in S : n <= m
<1> DEFINE R == {ss \in Nat \X Nat : ss[1] < ss[2]}
<1>1. IsWellFoundedOn(R, Nat)
  BY NatLessThanWellFounded DEF OpToRel
<1> HIDE DEF R
<1>2. PICK n \in S : \A m \in S : <<m, n>> \notin R
  BY <1>1, WFMin
<1>3. \A m \in S : ~ (m < n)
  BY <1>2 DEF R
<1> QED
  BY <1>3

\* A set that holds 0 and with each number the next one holds them all.
LEMMA EveryNatural ==
    ASSUME NEW S, 0 \in S, \A n \in Nat : n \in S => n + 1 \in S
    PROVE  \A n \in Nat : n \in S
<1> SUFFICES ASSUME Nat \ S # {} PROVE FALSE
  OBVIOUS
<1>1. PICK n \in Nat \ S : \A m \in Nat \ S : n <= m
  BY LeastNatural
<1>2. n - 1 \in Nat /\ n - 1 \in S
  BY <1>1
<1> QED
  BY <1>1, <1>2

\* A set of numbers up to a bound that is not empty has a greatest element.
LEMMA GreatestNatural ==
    ASSUME NEW b \in Nat, NEW S \in SUBSET (0 .. b), S # {}
    PROVE  \E n \in S : \A m \in S : m <= n
<1> DEFINE T == {t \in 0 .. b : b - t \in S}
<1>1. T \in SUBSET Nat /\ T # {}
  <2>1. PICK m \in S : TRUE
    OBVIOUS
  <2>2. b - m \in 0 .. b /\ b - (b - m) = m
    BY <2>1
  <2>3. b - m \in T
    BY <2>1, <2>2
  <2>4. T \in SUBSET Nat
    OBVIOUS
  <2> QED
    BY <2>3, <2>4
<1>2. PICK k \in T : \A m \in T : k <= m
  BY <1>1, LeastNatural
<1>3. b - k \in S /\ \A m \in S : m <= b - k
  <2>1. k \in 0 .. b /\ b - k \in S
    BY <1>2
  <2>2. ASSUME NEW m \in S
        PROVE  m <= b - k
    <3>1. b - m \in T
      OBVIOUS
    <3>2. k <= b - m
      BY <1>2, <3>1
    <3> QED
      BY <2>1, <3>2
  <2> QED
    BY <2>1, <2>2
<1> QED
  BY <1>3

-----------------------------------------------------------------------------
(* Positions of a name in a list, and the ends of a stack.                 *)

LEMMA FirstOfFacts ==
    ASSUME NEW X, NEW names \in Seq(X), NEW n, Occurs(n, names)
    PROVE  /\ FirstOf(n, names) \in 1 .. Len(names)
           /\ names[FirstOf(n, names)] = n
           /\ \A r \in 1 .. FirstOf(n, names) - 1 : names[r] # n
           /\ ~Occurs(n, SubSeq(names, 1, FirstOf(n, names) - 1))
<1> DEFINE S == {q \in 1 .. Len(names) : names[q] = n}
<1>1. S \in SUBSET Nat /\ S # {}
  BY DEF Occurs
<1>2. PICK q \in S : \A r \in S : q <= r
  BY <1>1, LeastNatural
<1>3. ASSUME NEW p \in 1 .. Len(names)
      PROVE  /\ SubSeq(names, 1, p - 1) \in Seq(X)
             /\ Len(SubSeq(names, 1, p - 1)) = p - 1
             /\ \A r \in 1 .. p - 1 : SubSeq(names, 1, p - 1)[r] = names[r]
  BY SubSeqProperties, ElementOfSeq
<1>4. \A p \in 1 .. Len(names) :
         Occurs(n, SubSeq(names, 1, p - 1)) <=> \E r \in 1 .. p - 1 : names[r] = n
  BY <1>3 DEF Occurs
<1>5. q \in 1 .. Len(names) /\ names[q] = n /\ ~Occurs(n, SubSeq(names, 1, q - 1))
  BY <1>2, <1>4
<1>6. /\ FirstOf(n, names) \in 1 .. Len(names)
      /\ names[FirstOf(n, names)] = n
      /\ ~Occurs(n, SubSeq(names, 1, FirstOf(n, names) - 1))
  BY <1>5 DEF FirstOf
<1> QED
  BY <1>4, <1>6

LEMMA LastOfFacts ==
    ASSUME NEW X, NEW names \in Seq(X), NEW n, Occurs(n, names)
    PROVE  /\ LastOf(n, names) \in 1 .. Len(names)
           /\ names[LastOf(n, names)] = n
<1> DEFINE S == {q \in 1 .. Len(names) : names[q] = n}
<1>1. Len(names) \in Nat /\ S \in SUBSET (0 .. Len(names)) /\ S # {}
  BY DEF Occurs
<1>2. PICK q \in S : \A r \in S : r <= q
  BY <1>1, GreatestNatural
<1>3. q \in 1 .. Len(names) /\ names[q] = n /\ \A r \in q + 1 .. Len(names) : names[r] # n
  BY <1>2
<1> QED
  BY <1>3 DEF LastOf

LEMMA CutFacts ==
    ASSUME NEW X, NEW s \in Seq(X), NEW n \in 0 .. Len(s)
    PROVE  /\ Cut(s, n) \in Seq(X)
           /\ Len(Cut(s, n)) = Len(s) - n
           /\ \A i \in 1 .. Len(s) - n : Cut(s, n)[i] = s[i]
BY SubSeqProperties, ElementOfSeq DEF Cut

LEMMA NewestFacts ==
    ASSUME NEW X, NEW s \in Seq(X), NEW n \in 0 .. Len(s)
    PROVE  /\ Newest(s, n) \in Seq(X)
           /\ Len(Newest(s, n)) = n
           /\ \A i \in 1 .. n : Newest(s, n)[i] = s[Len(s) - n + i]
<1>1. /\ Len(s) - n + 1 \in Int /\ Len(s) \in Int
      /\ \A i \in Len(s) - n + 1 .. Len(s) : s[i] \in X
  OBVIOUS
<1> QED
  BY <1>1, SubSeqProperties DEF Newest

-----------------------------------------------------------------------------
(* What Set, Saved and Undone do to the cells.                             *)

\* Setting the cells, and saving what they were, keeps them of their type.
LEMMA SetType ==
    ASSUME NEW X, NEW Y, NEW names \in Seq(X), NEW news, NEW cells \in [X -> Y],
           \A q \in 1 .. Len(names) : news[q] \in Y
    PROVE  Set(names, news, cells) \in [X -> Y]
<1>1. ASSUME NEW n \in X, Occurs(n, names)
      PROVE  news[LastOf(n, names)] \in Y
  BY <1>1, LastOfFacts
<1> QED
  BY <1>1 DEF Set

\* What the cells are when the first names of a list have been set.
LEMMA SetBefore ==
    ASSUME NEW X, NEW Y, NEW names \in Seq(X), NEW news \in [1 .. Len(names) -> Y],
           NEW cells \in [X -> Y], NEW q \in 1 .. Len(names)
    PROVE  Set(SubSeq(names, 1, q - 1), news, cells) \in [X -> Y]
<1>1. /\ SubSeq(names, 1, q - 1) \in Seq(X)
      /\ Len(SubSeq(names, 1, q - 1)) = q - 1
  BY SubSeqProperties, ElementOfSeq
<1>2. PICK before \in Seq(X) : before = SubSeq(names, 1, q - 1)
  BY <1>1
<1>3. \A r \in 1 .. Len(before) : news[r] \in Y
  BY <1>1, <1>2
<1>4. Set(before, news, cells) \in [X -> Y]
  BY <1>2, <1>3, SetType
<1> QED
  BY <1>2, <1>4

LEMMA SavedType ==
    ASSUME NEW X, NEW Y, NEW names \in Seq(X), NEW news \in [1 .. Len(names) -> Y],
           NEW cells \in [X -> Y]
    PROVE  Saved(names, news, cells) \in Seq(Y)
<1>1. ASSUME NEW q \in 1 .. Len(names)
      PROVE  Set(SubSeq(names, 1, q - 1), news, cells)[names[q]] \in Y
  <2>1. Set(SubSeq(names, 1, q - 1), news, cells) \in [X -> Y]
    BY SetBefore
  <2> QED
    BY <2>1, ElementOfSeq
<1>2. Saved(names, news, cells) \in [1 .. Len(names) -> Y] /\ Len(names) \in Nat
  BY <1>1 DEF Saved
<1> QED
  BY <1>2, SeqDef

LEMMA SavedLen ==
    ASSUME NEW X, NEW names \in Seq(X), NEW news, NEW cells
    PROVE  Len(Saved(names, news, cells)) = Len(names)
BY DEF Saved

\* The value saved for the first occurrence of a name is the one it had.
LEMMA SavedFirst ==
    ASSUME NEW X, NEW names \in Seq(X), NEW news, NEW cells,
           NEW n \in DOMAIN cells, Occurs(n, names)
    PROVE  Saved(names, news, cells)[FirstOf(n, names)] = cells[n]
<1>1. /\ FirstOf(n, names) \in 1 .. Len(names)
      /\ names[FirstOf(n, names)] = n
      /\ ~Occurs(n, SubSeq(names, 1, FirstOf(n, names) - 1))
  BY FirstOfFacts
<1>2. Set(SubSeq(names, 1, FirstOf(n, names) - 1), news, cells)[n] = cells[n]
  BY <1>1 DEF Set
<1> QED
  BY <1>1, <1>2 DEF Saved

\* Restoring gives each name the value that was saved for its first occurrence.
LEMMA UndoneFacts ==
    ASSUME NEW X, NEW Y, NEW names \in Seq(X), NEW saved \in Seq(Y),
           NEW cells \in [X -> Y], Len(names) <= Len(saved)
    PROVE  /\ Undone(names, saved, cells) \in [X -> Y]
           /\ \A n \in X : Undone(names, saved, cells)[n] =
                 IF Occurs(n, names)
                   THEN saved[Len(saved) - Len(names) + FirstOf(n, names)] ELSE cells[n]
<1>1. Len(names) \in 0 .. Len(saved)
  OBVIOUS
<1>2. \A i \in 1 .. Len(names) :
         /\ Newest(saved, Len(names))[i] = saved[Len(saved) - Len(names) + i]
         /\ saved[Len(saved) - Len(names) + i] \in Y
  <2>1. \A i \in 1 .. Len(names) :
           Newest(saved, Len(names))[i] = saved[Len(saved) - Len(names) + i]
    BY <1>1, NewestFacts
  <2> QED
    BY <1>1, <2>1, ElementOfSeq
<1>3. \A n \in X : Occurs(n, names) => FirstOf(n, names) \in 1 .. Len(names)
  BY FirstOfFacts
<1> QED
  BY <1>2, <1>3 DEF Undone

-----------------------------------------------------------------------------
(* FlattenSeq, which is recursive: the function exists, and it takes a     *)
(* concatenation to a concatenation.                                       *)

IsFlat(g, seqs, n) ==
    g = [i \in 1 .. n |-> IF i = 1 THEN seqs[i] ELSE g[i - 1] \o seqs[i]]

LEMMA FlatAt ==
    ASSUME NEW seqs, NEW n \in Nat, NEW g, IsFlat(g, seqs, n), NEW k \in 1 .. n
    PROVE  g[k] = IF k = 1 THEN seqs[k] ELSE g[k - 1] \o seqs[k]
<1>1. [i \in 1 .. n |-> IF i = 1 THEN seqs[i] ELSE g[i - 1] \o seqs[i]][k] =
         IF k = 1 THEN seqs[k] ELSE g[k - 1] \o seqs[k]
  OBVIOUS
<1> QED
  BY <1>1, Zenon DEF IsFlat

LEMMA FlatExists ==
    ASSUME NEW seqs, NEW n \in Nat
    PROVE  \E g : IsFlat(g, seqs, n)
<1> DEFINE S == {k \in Nat : \E g : IsFlat(g, seqs, k)}
<1>1. 0 \in S
  <2>1. IsFlat([i \in 1 .. 0 |-> 0], seqs, 0)
    BY DEF IsFlat
  <2> QED
    BY <2>1
<1>2. ASSUME NEW k \in Nat, k \in S
      PROVE  k + 1 \in S
  <2>1. PICK g : IsFlat(g, seqs, k)
    BY <1>2
  <2> DEFINE new == IF k = 0 THEN seqs[1] ELSE g[k] \o seqs[k + 1]
  <2> DEFINE h == [i \in 1 .. k + 1 |-> IF i = k + 1 THEN new ELSE g[i]]
  <2>2. ASSUME NEW i \in 1 .. k + 1
        PROVE  h[i] = IF i = 1 THEN seqs[i] ELSE h[i - 1] \o seqs[i]
    <3>1. CASE i = k + 1
      BY <3>1
    <3>2. CASE i # k + 1
      <4>1. i \in 1 .. k /\ (i # 1 => i - 1 \in 1 .. k)
        BY <3>2
      <4>2. h[i] = g[i] /\ (i # 1 => h[i - 1] = g[i - 1])
        BY <4>1
      <4>3. g[i] = IF i = 1 THEN seqs[i] ELSE g[i - 1] \o seqs[i]
        BY <2>1, <4>1, FlatAt
      <4> QED
        BY <4>2, <4>3
    <3> QED
      BY <3>1, <3>2
  <2>3. h = [i \in 1 .. k + 1 |-> IF i = 1 THEN seqs[i] ELSE h[i - 1] \o seqs[i]]
    <3>1. h = [i \in 1 .. k + 1 |-> h[i]]
      OBVIOUS
    <3> HIDE DEF h
    <3> QED
      BY <2>2, <3>1
  <2>4. IsFlat(h, seqs, k + 1)
    BY <2>3 DEF IsFlat
  <2> QED
    BY <2>4
<1> HIDE DEF S
<1>3. \A k \in Nat : k \in S
  BY <1>1, <1>2, EveryNatural
<1> QED
  BY <1>3 DEF S

LEMMA FlatAgree ==
    ASSUME NEW X, NEW s \in Seq(X), NEW e \in X,
           NEW g, IsFlat(g, s, Len(s)), NEW h, IsFlat(h, Append(s, e), Len(s) + 1)
    PROVE  \A i \in 1 .. Len(s) : g[i] = h[i]
<1> DEFINE n == Len(s)
<1> DEFINE m == Len(s) + 1
<1> DEFINE t == Append(s, e)
<1>0. n \in Nat /\ m \in Nat /\ m = n + 1 /\ \A i \in 1 .. n : s[i] = t[i]
  OBVIOUS
<1> DEFINE S == {k \in Nat : k \in 1 .. n => g[k] = h[k]}
<1>1. 0 \in S
  OBVIOUS
<1>2. ASSUME NEW k \in Nat, k \in S
      PROVE  k + 1 \in S
  <2>1. SUFFICES ASSUME k + 1 \in 1 .. n PROVE g[k + 1] = h[k + 1]
    OBVIOUS
  <2>2. k # 0 => g[k] = h[k]
    BY <1>2, <2>1
  <2>3. /\ k + 1 \in 1 .. n /\ k + 1 \in 1 .. m
        /\ s[k + 1] = t[k + 1]
    BY <1>0, <2>1
  <2> HIDE DEF n, m, t
  <2>5. IsFlat(g, s, n) /\ IsFlat(h, t, m)
    BY DEF n, m, t
  <2>6. g[k + 1] = IF k + 1 = 1 THEN s[k + 1] ELSE g[k + 1 - 1] \o s[k + 1]
    BY <1>0, <2>3, <2>5, FlatAt
  <2>7. h[k + 1] = IF k + 1 = 1 THEN t[k + 1] ELSE h[k + 1 - 1] \o t[k + 1]
    BY <1>0, <2>3, <2>5, FlatAt
  <2>4. k + 1 - 1 = k
    OBVIOUS
  <2> QED
    BY <2>1, <2>2, <2>3, <2>4, <2>6, <2>7
<1> HIDE DEF S
<1>3. \A k \in Nat : k \in S
  BY <1>1, <1>2, EveryNatural
<1> QED
  BY <1>3 DEF S

LEMMA FlattenIs ==
    ASSUME NEW X, NEW s \in Seq(Seq(X)), Len(s) # 0
    PROVE  \E g : IsFlat(g, s, Len(s)) /\ FlattenSeq(s) = g[Len(s)]
<1> DEFINE f == CHOOSE g : IsFlat(g, s, Len(s))
<1>1. IsFlat(f, s, Len(s))
  <2>1. Len(s) \in Nat
    OBVIOUS
  <2>2. \E g : IsFlat(g, s, Len(s))
    BY <2>1, FlatExists
  <2> QED
    BY <2>2
<1>2. FlattenSeq(s) = f[Len(s)]
  BY DEF FlattenSeq, IsFlat
<1> QED
  BY <1>1, <1>2

LEMMA FlattenAppend ==
    ASSUME NEW X, NEW s \in Seq(Seq(X)), NEW e \in Seq(X)
    PROVE  FlattenSeq(Append(s, e)) = FlattenSeq(s) \o e
<1> DEFINE t == Append(s, e)
<1>1. /\ t \in Seq(Seq(X)) /\ Len(t) = Len(s) + 1 /\ Len(s) \in Nat
      /\ t[Len(s) + 1] = e /\ \A i \in 1 .. Len(s) : t[i] = s[i]
  OBVIOUS
<1> HIDE DEF t
<1>2. PICK h : IsFlat(h, t, Len(t)) /\ FlattenSeq(t) = h[Len(t)]
  BY <1>1, FlattenIs
<1>3. h[Len(s) + 1] = IF Len(s) = 0 THEN e ELSE h[Len(s)] \o e
  <2>1. /\ Len(s) + 1 \in 1 .. Len(t) /\ Len(t) \in Nat
        /\ (Len(s) + 1 = 1 <=> Len(s) = 0) /\ Len(s) + 1 - 1 = Len(s)
    BY <1>1
  <2>2. h[Len(s) + 1] = IF Len(s) + 1 = 1 THEN t[Len(s) + 1]
                        ELSE h[Len(s) + 1 - 1] \o t[Len(s) + 1]
    BY <1>2, <2>1, FlatAt
  <2> QED
    BY <1>1, <2>1, <2>2
<1>4. CASE Len(s) = 0
  <2>1. s = <<>>
    BY <1>4, EmptySeq
  <2>2. FlattenSeq(s) = <<>>
    BY <2>1, <1>4 DEF FlattenSeq
  <2>3. <<>> \o e = e
    BY ConcatEmptySeq
  <2> QED
    BY <1>1, <1>2, <1>3, <1>4, <2>2, <2>3 DEF t
<1>5. CASE Len(s) # 0
  <2>1. PICK g : IsFlat(g, s, Len(s)) /\ FlattenSeq(s) = g[Len(s)]
    BY <1>5, FlattenIs
  <2>2. \A i \in 1 .. Len(s) : g[i] = h[i]
    <3>1. IsFlat(h, Append(s, e), Len(s) + 1)
      BY <1>1, <1>2 DEF t
    <3> QED
      BY <2>1, <3>1, FlatAgree
  <2>3. g[Len(s)] = h[Len(s)]
    BY <1>1, <1>5, <2>2
  <2> QED
    BY <1>1, <1>2, <1>3, <1>5, <2>1, <2>3 DEF t
<1> QED
  BY <1>4, <1>5

LEMMA FlattenEmpty == FlattenSeq(<<>>) = <<>>
BY EmptySeq DEF FlattenSeq

LEMMA FlattenType ==
    ASSUME NEW X
    PROVE  \A s \in Seq(Seq(X)) : FlattenSeq(s) \in Seq(X)
<1> DEFINE S == {k \in Nat : \A s \in Seq(Seq(X)) : Len(s) = k => FlattenSeq(s) \in Seq(X)}
<1>1. 0 \in S
  <2>1. \A s \in Seq(Seq(X)) : Len(s) = 0 => s = <<>>
    BY EmptySeq
  <2> QED
    BY <2>1, FlattenEmpty
<1>2. ASSUME NEW k \in Nat, k \in S
      PROVE  k + 1 \in S
  <2> SUFFICES ASSUME NEW s \in Seq(Seq(X)), Len(s) = k + 1
               PROVE  FlattenSeq(s) \in Seq(X)
    OBVIOUS
  <2>1. s # <<>>
    BY EmptySeq
  <2>2. PICK r \in Seq(Seq(X)), e \in Seq(X) : s = Append(r, e)
    BY <2>1, SequenceEmptyOrAppend
  <2>3. Len(r) = k
    BY <2>2, AppendProperties
  <2>4. FlattenSeq(r) \in Seq(X)
    BY <1>2, <2>3
  <2>5. FlattenSeq(s) = FlattenSeq(r) \o e
    BY <2>2, FlattenAppend
  <2> QED
    BY <2>4, <2>5, ConcatProperties
<1> HIDE DEF S
<1>3. \A k \in Nat : k \in S
  BY <1>1, <1>2, EveryNatural
<1> QED
  BY <1>3 DEF S

LEMMA FlattenConcat ==
    ASSUME NEW X, NEW s \in Seq(Seq(X))
    PROVE  \A t \in Seq(Seq(X)) : FlattenSeq(s \o t) = FlattenSeq(s) \o FlattenSeq(t)
<1> DEFINE S == {k \in Nat : \A t \in Seq(Seq(X)) :
                    Len(t) = k => FlattenSeq(s \o t) = FlattenSeq(s) \o FlattenSeq(t)}
<1>0. FlattenSeq(s) \in Seq(X)
  BY FlattenType
<1>1. 0 \in S
  <2>1. \A t \in Seq(Seq(X)) : Len(t) = 0 => t = <<>>
    BY EmptySeq
  <2>2. s \o <<>> = s /\ FlattenSeq(s) \o <<>> = FlattenSeq(s)
    BY <1>0, ConcatEmptySeq
  <2> QED
    BY <2>1, <2>2, FlattenEmpty
<1>2. ASSUME NEW k \in Nat, k \in S
      PROVE  k + 1 \in S
  <2> SUFFICES ASSUME NEW t \in Seq(Seq(X)), Len(t) = k + 1
               PROVE  FlattenSeq(s \o t) = FlattenSeq(s) \o FlattenSeq(t)
    OBVIOUS
  <2>1. t # <<>>
    BY EmptySeq
  <2>2. PICK r \in Seq(Seq(X)), e \in Seq(X) : t = Append(r, e)
    BY <2>1, SequenceEmptyOrAppend
  <2>3. Len(r) = k
    BY <2>2, AppendProperties
  <2>4. FlattenSeq(s \o r) = FlattenSeq(s) \o FlattenSeq(r)
    BY <1>2, <2>3
  <2>5. s \o t = Append(s \o r, e) /\ s \o r \in Seq(Seq(X))
    BY <2>2
  <2>6. /\ FlattenSeq(s \o t) = FlattenSeq(s \o r) \o e
        /\ FlattenSeq(t) = FlattenSeq(r) \o e
    BY <2>2, <2>5, FlattenAppend
  <2>7. FlattenSeq(r) \in Seq(X)
    BY FlattenType
  <2>8. (FlattenSeq(s) \o FlattenSeq(r)) \o e = FlattenSeq(s) \o (FlattenSeq(r) \o e)
    BY <1>0, <2>2, <2>7, ConcatAssociative
  <2> QED
    BY <2>4, <2>6, <2>8
<1> HIDE DEF S
<1>3. \A k \in Nat : k \in S
  BY <1>1, <1>2, EveryNatural
<1> QED
  BY <1>3 DEF S

-----------------------------------------------------------------------------
(* The inductive invariant.                                                *)

Entry(f) == IF HasEntry(f) THEN 1 ELSE 0

\* Where the bindings and the entries of the evaluation q end.
BindsEnd(q) == IF q = Len(stack) THEN Len(bindlist) ELSE stack[q + 1].binds
LocsEnd(q) == IF q = Len(stack) THEN Len(loclist) ELSE stack[q + 1].locs

CatchesBare ==
    \A q \in 1 .. Len(stack) :
        stack[q].kind \in {"errcatch", "catch"} =>
            stack[q].stage = "body" /\ stack[q].names = <<>>

\* What the evaluations have bound lies on bindlist end to end.
BindsChained ==
    /\ Len(mspeclist) = Len(bindlist)
    /\ \A q \in 1 .. Len(stack) :
          /\ stack[q].binds + Len(BoundNames(stack[q])) = BindsEnd(q)
          /\ \A i \in 1 .. Len(BoundNames(stack[q])) :
                bindlist[stack[q].binds + i] = BoundNames(stack[q])[i]
    /\ IF stack = <<>> THEN bindlist = <<>> ELSE stack[1].binds = 0

BindsOrdered ==
    /\ \A q \in 1 .. Len(stack) :
          stack[q].binds + Len(BoundNames(stack[q])) <= Len(bindlist)
    /\ \A q, r \in 1 .. Len(stack) :
          q < r => stack[q].binds + Len(BoundNames(stack[q])) <= stack[r].binds

\* An entry of loclist is above what its evaluation has found; an ev that fails
\* leaves one behind, so more than that holds only before the first fault.
LocsOrdered ==
    /\ \A q \in 1 .. Len(stack) : stack[q].locs + Entry(stack[q]) <= Len(loclist)
    /\ \A q, r \in 1 .. Len(stack) :
          q < r => stack[q].locs + Entry(stack[q]) <= stack[r].locs

LocsChained ==
    fault = "none" =>
        /\ \A q \in 1 .. Len(stack) : stack[q].locs + Entry(stack[q]) = LocsEnd(q)
        /\ IF stack = <<>> THEN loclist = <<>> ELSE stack[1].locs = 0

\* Every function on loclist has its properties saved.
DefsSaved ==
    /\ Len(FlattenSeq(loclist)) <= Len(mproplist)
    /\ fault = "none" => Len(FlattenSeq(loclist)) = Len(mproplist)

StacksInv ==
    /\ TypeOK
    /\ CatchesBare
    /\ BindsChained /\ BindsOrdered
    /\ LocsOrdered /\ LocsChained
    /\ DefsSaved

-----------------------------------------------------------------------------
(* The operations on the stacks.                                           *)

\* The names are on bindlist, and as many values on mspeclist.
Bound(names, bl, ml) ==
    /\ value' \in [Vars -> Cells]
    /\ bindlist' \in Seq(Vars) /\ Len(bindlist') = Len(bl) + Len(names)
    /\ \A i \in 1 .. Len(bl) : bindlist'[i] = bl[i]
    /\ \A i \in 1 .. Len(names) : bindlist'[Len(bl) + i] = names[i]
    /\ mspeclist' \in Seq(Cells) /\ Len(mspeclist') = Len(ml) + Len(names)

LEMMA MbindFacts ==
    ASSUME NEW names \in Seq(Vars), NEW news \in [1 .. Len(names) -> Cells],
           NEW cells \in [Vars -> Cells], NEW bl \in Seq(Vars), NEW ml \in Seq(Cells),
           Mbind(names, news, cells, bl, ml)
    PROVE  Bound(names, bl, ml)
<1>0. \A q \in 1 .. Len(names) : news[q] \in Cells
  OBVIOUS
<1>1. value' \in [Vars -> Cells]
  BY <1>0, SetType DEF Mbind
<1>2. /\ Saved(names, news, cells) \in Seq(Cells)
      /\ Len(Saved(names, news, cells)) = Len(names)
  BY SavedType, SavedLen
<1>3. /\ bindlist' \in Seq(Vars) /\ Len(bindlist') = Len(bl) + Len(names)
      /\ \A i \in 1 .. Len(bl) : bindlist'[i] = bl[i]
      /\ \A i \in 1 .. Len(names) : bindlist'[Len(bl) + i] = names[i]
  BY DEF Mbind
<1>4. mspeclist' \in Seq(Cells) /\ Len(mspeclist') = Len(ml) + Len(names)
  <2>1. PICK saved \in Seq(Cells) : saved = Saved(names, news, cells)
    BY <1>2
  <2>2. mspeclist' = ml \o saved
    BY <2>1 DEF Mbind
  <2>3. ml \o saved \in Seq(Cells) /\ Len(ml \o saved) = Len(ml) + Len(saved)
    BY <2>1
  <2> QED
    BY <1>2, <2>1, <2>2, <2>3
<1> QED
  BY <1>1, <1>3, <1>4 DEF Bound

\* n values are back from mspeclist.
Unbinds(n) ==
    /\ value' \in [Vars -> Cells]
    /\ bindlist' \in Seq(Vars) /\ Len(bindlist') = Len(bindlist) - n
    /\ \A i \in 1 .. Len(bindlist) - n : bindlist'[i] = bindlist[i]
    /\ mspeclist' \in Seq(Cells) /\ Len(mspeclist') = Len(bindlist) - n

LEMMA MunbindFacts ==
    ASSUME TypeOK, Len(mspeclist) = Len(bindlist),
           NEW names \in Seq(Vars), Len(names) <= Len(bindlist), Munbind(names)
    PROVE  Unbinds(Len(names))
<1>1. bindlist \in Seq(Vars) /\ mspeclist \in Seq(Cells) /\ value \in [Vars -> Cells]
  BY DEF TypeOK, Cells
<1>2. value' \in [Vars -> Cells]
  <2>1. Undone(names, mspeclist, value) \in [Vars -> Cells]
    BY <1>1, UndoneFacts
  <2> QED
    BY <2>1 DEF Munbind
<1>3. Len(names) \in 0 .. Len(bindlist) /\ Len(names) \in 0 .. Len(mspeclist)
  BY <1>1
<1>4. /\ bindlist' \in Seq(Vars) /\ Len(bindlist') = Len(bindlist) - Len(names)
      /\ \A i \in 1 .. Len(bindlist) - Len(names) : bindlist'[i] = bindlist[i]
  BY <1>1, <1>3, CutFacts DEF Munbind
<1>5. mspeclist' \in Seq(Cells) /\ Len(mspeclist') = Len(mspeclist) - Len(names)
  BY <1>1, <1>3, CutFacts DEF Munbind
<1> QED
  BY <1>2, <1>4, <1>5 DEF Unbinds

\* A stack is what a cut leaves of it and what the cut takes.
LEMMA CutAndNewest ==
    ASSUME NEW X, NEW s \in Seq(X), NEW n \in 0 .. Len(s)
    PROVE  s = Cut(s, n) \o Newest(s, n)
<1>1. Len(s) \in Nat
  OBVIOUS
<1>2. /\ 1 \in 1 .. Len(s) + 1 /\ Len(s) - n \in 1 - 1 .. Len(s)
      /\ Len(s) \in Len(s) - n .. Len(s)
  BY <1>1
<1>3. SubSeq(s, 1, Len(s) - n) \o SubSeq(s, Len(s) - n + 1, Len(s)) = SubSeq(s, 1, Len(s))
  BY <1>2, ConcatAdjacentSubSeq
<1> QED
  BY <1>3, SubSeqFull DEF Cut, Newest

\* n entries are off loclist, and the properties that they saved are back.
Drops(n) ==
    /\ prop' \in [Funs -> Defs]
    /\ mproplist' \in Seq(Defs)
    /\ loclist' \in Seq(Seq(Funs)) /\ Len(loclist') = Len(loclist) - n
    /\ Len(FlattenSeq(loclist')) <= Len(mproplist')
    /\ fault = "none" => Len(FlattenSeq(loclist')) = Len(mproplist')

LEMMA MunlocalFacts ==
    ASSUME TypeOK, DefsSaved, NEW n \in 0 .. Len(loclist), Munlocal(n)
    PROVE  Drops(n)
<1> DEFINE names == FlattenSeq(Newest(loclist, n))
<1> DEFINE kept == Cut(loclist, n)
<1>1. loclist \in Seq(Seq(Funs)) /\ mproplist \in Seq(Defs) /\ prop \in [Funs -> Defs]
  BY DEF TypeOK, Defs
<1>2. /\ kept \in Seq(Seq(Funs)) /\ Len(kept) = Len(loclist) - n
      /\ Newest(loclist, n) \in Seq(Seq(Funs))
      /\ loclist = kept \o Newest(loclist, n)
  BY <1>1, CutFacts, NewestFacts, CutAndNewest
<1>3. names \in Seq(Funs) /\ FlattenSeq(kept) \in Seq(Funs)
  BY <1>2, FlattenType
<1>4. FlattenSeq(loclist) = FlattenSeq(kept) \o names
  BY <1>2, FlattenConcat
<1>5. prop' = Undone(names, mproplist, prop) /\ mproplist' = Cut(mproplist, Len(names))
      /\ loclist' = kept
  BY DEF Munlocal
<1> HIDE DEF names, kept
<1>6. Len(FlattenSeq(loclist)) = Len(FlattenSeq(kept)) + Len(names)
  BY <1>3, <1>4
<1>7. Len(names) \in 0 .. Len(mproplist)
  BY <1>1, <1>3, <1>6 DEF DefsSaved
<1>8. prop' \in [Funs -> Defs]
  <2>1. Undone(names, mproplist, prop) \in [Funs -> Defs]
    BY <1>1, <1>3, <1>7, UndoneFacts
  <2> QED
    BY <2>1, <1>5
<1>9. mproplist' \in Seq(Defs) /\ Len(mproplist') = Len(mproplist) - Len(names)
  BY <1>1, <1>5, <1>7, CutFacts
<1> QED
  BY <1>1, <1>2, <1>3, <1>5, <1>6, <1>7, <1>8, <1>9 DEF DefsSaved, Drops

LEMMA HideFacts ==
    ASSUME TypeOK, NEW l \in Seq(Funs), Hide(l)
    PROVE  /\ prop' \in [Funs -> Defs]
           /\ mproplist' \in Seq(Defs) /\ Len(mproplist') = Len(mproplist) + Len(l)
<1>1. mproplist \in Seq(Defs) /\ prop \in [Funs -> Defs]
  BY DEF TypeOK, Defs
<1>2. NoProps(l) \in [1 .. Len(l) -> Defs] /\ \A q \in 1 .. Len(l) : NoProps(l)[q] \in Defs
  BY DEF NoProps, Defs
<1>3. prop' \in [Funs -> Defs]
  BY <1>1, <1>2, SetType DEF Hide
<1>4. Saved(l, NoProps(l), prop) \in Seq(Defs) /\ Len(Saved(l, NoProps(l), prop)) = Len(l)
  BY <1>1, <1>2, SavedType, SavedLen
<1>5. PICK saved \in Seq(Defs) : saved = Saved(l, NoProps(l), prop)
  BY <1>4
<1>6. mproplist' = mproplist \o saved
  BY <1>5 DEF Hide
<1>7. mproplist \o saved \in Seq(Defs) /\ Len(mproplist \o saved) = Len(mproplist) + Len(saved)
  BY <1>1, <1>5
<1> QED
  BY <1>3, <1>4, <1>5, <1>6, <1>7

-----------------------------------------------------------------------------
(* The four ways in which a step changes the evaluations and the lengths of *)
(* the stacks.                                                              *)

\* Nothing is bound, pushed or left.
Keeps ==
    /\ Len(stack') = Len(stack)
    /\ \A q \in 1 .. Len(stack) :
          /\ stack'[q].kind = stack[q].kind /\ stack'[q].stage = stack[q].stage
          /\ stack'[q].names = stack[q].names
          /\ stack'[q].binds = stack[q].binds /\ stack'[q].locs = stack[q].locs
    /\ bindlist' = bindlist /\ mspeclist' = mspeclist
    /\ Len(loclist') = Len(loclist)

\* An evaluation begins.
Begins(f) ==
    /\ stack' = Append(stack, f)
    /\ \/ f.stage = "args"
       \/ f.kind \in {"errcatch", "catch"} /\ f.stage = "body" /\ f.names = <<>>
    /\ f.kind \in {"errcatch", "catch"} => f.stage = "body"
    /\ f.binds = Len(bindlist) /\ f.locs = Len(loclist)
    /\ bindlist' = bindlist /\ mspeclist' = mspeclist /\ loclist' = loclist

\* The evaluation on top binds other variables, or pushes its entry.
Changes(f) ==
    /\ stack # <<>>
    /\ stack' = WithTop(f)
    /\ f.kind = Top.kind /\ f.kind \notin {"errcatch", "catch"}
    /\ f.binds = Top.binds /\ f.locs = Top.locs
    /\ Len(mspeclist') = Len(bindlist')
    /\ Len(bindlist') = Top.binds + Len(BoundNames(f))
    /\ \A i \in 1 .. Top.binds : bindlist'[i] = bindlist[i]
    /\ \A i \in 1 .. Len(BoundNames(f)) : bindlist'[Top.binds + i] = BoundNames(f)[i]
    /\ Len(loclist') + Entry(Top) = Len(loclist) + Entry(f)

\* The evaluation on top ends.
Ends ==
    /\ stack # <<>>
    /\ stack' = Rest
    /\ Len(mspeclist') = Len(bindlist')
    /\ Len(bindlist') = Top.binds
    /\ \A i \in 1 .. Top.binds : bindlist'[i] = bindlist[i]
    /\ Top.locs <= Len(loclist')
    /\ fault' = "none" => Len(loclist') = Top.locs

FrameInv == CatchesBare /\ BindsChained /\ BindsOrdered /\ LocsOrdered /\ LocsChained

\* A fault is never taken back.
FaultStays == fault' = "none" => fault = "none"

LEMMA FrameFacts ==
    ASSUME NEW f \in Frames
    PROVE  /\ BoundNames(f) \in Seq(Vars) /\ Len(BoundNames(f)) \in Nat
           /\ f.binds \in Nat /\ f.locs \in Nat /\ Entry(f) \in {0, 1}
BY EmptySeq DEF Frames, BoundNames, Entry

LEMMA KeepsStep ==
    ASSUME TypeOK, TypeOK', FrameInv, FaultStays, Keeps
    PROVE  FrameInv'
<1>1. \A q \in 1 .. Len(stack) :
         /\ BoundNames(stack'[q]) = BoundNames(stack[q])
         /\ Entry(stack'[q]) = Entry(stack[q])
  BY DEF Keeps, BoundNames, Entry, HasEntry
<1>2. (stack = <<>>) <=> (stack = <<>>)'
  BY EmptySeq DEF TypeOK, Keeps
<1>3. loclist = <<>> => loclist' = <<>>
  BY EmptySeq DEF TypeOK, Keeps
<1>4. CatchesBare'
  BY DEF FrameInv, CatchesBare, Keeps
<1>5. BindsChained'
  <2>1. \A q \in 1 .. Len(stack) : BindsEnd(q)' = BindsEnd(q)
    BY DEF TypeOK, BindsEnd, Keeps
  <2>2. \A q \in 1 .. Len(stack) :
           /\ stack'[q].binds + Len(BoundNames(stack'[q])) = BindsEnd(q)'
           /\ \A i \in 1 .. Len(BoundNames(stack'[q])) :
                 bindlist'[stack'[q].binds + i] = BoundNames(stack'[q])[i]
    BY <1>1, <2>1 DEF FrameInv, BindsChained, Keeps
  <2>3. /\ Len(mspeclist') = Len(bindlist')
        /\ IF stack' = <<>> THEN bindlist' = <<>> ELSE stack'[1].binds = 0
    <3>1. stack # <<>> => 1 \in 1 .. Len(stack)
      BY EmptySeq DEF TypeOK
    <3> QED
      BY <1>2, <3>1 DEF FrameInv, BindsChained, Keeps
  <2> QED
    BY <2>2, <2>3 DEF BindsChained, BoundNames, Keeps
<1>6. BindsOrdered'
  BY <1>1 DEF FrameInv, BindsOrdered, BoundNames, Keeps
<1>7. LocsOrdered'
  BY <1>1 DEF FrameInv, LocsOrdered, Entry, HasEntry, Keeps
<1>8. LocsChained'
  <2>1. ASSUME NEW q \in 1 .. Len(stack)
        PROVE  LocsEnd(q)' = LocsEnd(q)
    <3>1. q # Len(stack) => q + 1 \in 1 .. Len(stack)
      BY DEF TypeOK
    <3> QED
      BY <3>1 DEF LocsEnd, Keeps
  <2>2. fault' = "none" => \A q \in 1 .. Len(stack) :
           stack'[q].locs + Entry(stack'[q]) = LocsEnd(q)'
    BY <1>1, <2>1 DEF FrameInv, LocsChained, Keeps, FaultStays
  <2>3. fault' = "none" => IF stack' = <<>> THEN loclist' = <<>> ELSE stack'[1].locs = 0
    <3>1. stack # <<>> => 1 \in 1 .. Len(stack)
      BY EmptySeq DEF TypeOK
    <3> QED
      BY <1>2, <1>3, <3>1 DEF FrameInv, LocsChained, Keeps, FaultStays
  <2> QED
    BY <2>2, <2>3 DEF LocsChained, Entry, HasEntry, Keeps
<1> QED
  BY <1>4, <1>5, <1>6, <1>7, <1>8 DEF FrameInv

LEMMA BeginsStep ==
    ASSUME TypeOK, TypeOK', FrameInv, FaultStays, NEW f \in Frames, Begins(f)
    PROVE  FrameInv'
<1>0. PICK n \in Nat : n = Len(stack)
  BY DEF TypeOK
<1>1. /\ n \in Nat /\ Len(stack') = n + 1 /\ stack'[n + 1] = f
      /\ \A q \in 1 .. n : stack'[q] = stack[q]
      /\ stack' # <<>>
  <2>1. stack \in Seq(Frames) /\ stack' = Append(stack, f)
    BY DEF TypeOK, Begins
  <2>2. /\ Len(stack') = Len(stack) + 1 /\ stack'[Len(stack) + 1] = f
        /\ \A q \in 1 .. Len(stack) : stack'[q] = stack[q]
    BY <2>1
  <2>3. stack' # <<>>
    BY <2>1, AppendProperties
  <2> QED
    BY <1>0, <2>2, <2>3
<1>2. /\ BoundNames(f) = <<>> /\ Entry(f) = 0 /\ Len(BoundNames(f)) = 0
      /\ f.binds = Len(bindlist) /\ f.locs = Len(loclist)
  BY EmptySeq DEF Begins, BoundNames, Entry, HasEntry
<1>3. bindlist' = bindlist /\ mspeclist' = mspeclist /\ loclist' = loclist
  BY DEF Begins
<1>4. Len(bindlist) \in Nat /\ Len(loclist) \in Nat
  BY DEF TypeOK
<1>5. \A q \in 1 .. n + 1 : q \in 1 .. n \/ q = n + 1
  BY <1>1
<1>6. n = Len(stack)
  BY <1>0
<1>7. n = 0 => stack = <<>>
  BY <1>6, EmptySeq DEF TypeOK
<1>8. stack = <<>> => n = 0
  BY <1>6, EmptySeq
<1>9. /\ stack = <<>> => bindlist = <<>> /\ Len(bindlist) = 0
      /\ stack = <<>> /\ fault = "none" => loclist = <<>> /\ Len(loclist) = 0
  BY EmptySeq DEF FrameInv, BindsChained, LocsChained
<1>10. CatchesBare'
  <2>1. f.kind \in {"errcatch", "catch"} => f.stage = "body" /\ f.names = <<>>
    BY DEF Begins
  <2> QED
    BY <1>1, <1>5, <1>6, <2>1 DEF FrameInv, CatchesBare
<1>11. BindsChained'
  <2>1. \A q \in 1 .. n : BindsEnd(q)' = BindsEnd(q)
    BY <1>1, <1>2, <1>3, <1>6 DEF BindsEnd
  <2>2. BindsEnd(n + 1)' = Len(bindlist)
    BY <1>1, <1>3 DEF BindsEnd
  <2>3. ASSUME NEW q \in 1 .. n + 1
        PROVE  /\ stack'[q].binds + Len(BoundNames(stack'[q])) = BindsEnd(q)'
               /\ \A i \in 1 .. Len(BoundNames(stack'[q])) :
                     bindlist'[stack'[q].binds + i] = BoundNames(stack'[q])[i]
    <3>1. CASE q = n + 1
      BY <1>1, <1>2, <1>4, <2>2, <3>1
    <3>2. CASE q \in 1 .. n
      BY <1>1, <1>3, <1>6, <2>1, <3>2 DEF FrameInv, BindsChained
    <3> QED
      BY <1>5, <3>1, <3>2
  <2>4. stack'[1].binds = 0
    <3>1. CASE n = 0
      BY <1>1, <1>2, <1>7, <1>9, <3>1
    <3>2. CASE n # 0
      BY <1>1, <1>8, <3>2 DEF FrameInv, BindsChained
    <3> QED
      BY <3>1, <3>2
  <2>5. Len(mspeclist') = Len(bindlist')
    BY <1>3 DEF FrameInv, BindsChained
  <2>6. \A q \in 1 .. Len(stack') : q \in 1 .. n + 1
    BY <1>1
  <2> QED
    BY <1>1, <2>3, <2>4, <2>5, <2>6 DEF BindsChained, BoundNames
<1>12. BindsOrdered'
  <2>1. ASSUME NEW q \in 1 .. n + 1
        PROVE  stack'[q].binds + Len(BoundNames(stack'[q])) <= Len(bindlist')
    BY <1>1, <1>2, <1>3, <1>4, <1>5, <1>6 DEF FrameInv, BindsOrdered
  <2>2. ASSUME NEW q \in 1 .. n + 1, NEW r \in 1 .. n + 1, q < r
        PROVE  stack'[q].binds + Len(BoundNames(stack'[q])) <= stack'[r].binds
    <3>1. q \in 1 .. n
      BY <1>1, <2>2
    <3>2. CASE r = n + 1
      BY <1>1, <1>2, <1>6, <3>1, <3>2 DEF FrameInv, BindsOrdered
    <3>3. CASE r \in 1 .. n
      BY <1>1, <1>6, <2>2, <3>1, <3>3 DEF FrameInv, BindsOrdered
    <3> QED
      BY <1>5, <3>2, <3>3
  <2> QED
    BY <1>1, <2>1, <2>2 DEF BindsOrdered, BoundNames
<1>13. LocsOrdered'
  <2>1. ASSUME NEW q \in 1 .. n + 1
        PROVE  stack'[q].locs + Entry(stack'[q]) <= Len(loclist')
    BY <1>1, <1>2, <1>3, <1>4, <1>5, <1>6 DEF FrameInv, LocsOrdered
  <2>2. ASSUME NEW q \in 1 .. n + 1, NEW r \in 1 .. n + 1, q < r
        PROVE  stack'[q].locs + Entry(stack'[q]) <= stack'[r].locs
    <3>1. q \in 1 .. n
      BY <1>1, <2>2
    <3>2. CASE r = n + 1
      BY <1>1, <1>2, <1>6, <3>1, <3>2 DEF FrameInv, LocsOrdered
    <3>3. CASE r \in 1 .. n
      BY <1>1, <1>6, <2>2, <3>1, <3>3 DEF FrameInv, LocsOrdered
    <3> QED
      BY <1>5, <3>2, <3>3
  <2> QED
    BY <1>1, <2>1, <2>2 DEF LocsOrdered, Entry, HasEntry
<1>14. LocsChained'
  <2> SUFFICES ASSUME fault' = "none"
               PROVE  /\ \A q \in 1 .. n + 1 :
                            stack'[q].locs + Entry(stack'[q]) = LocsEnd(q)'
                      /\ stack'[1].locs = 0
    BY <1>1 DEF LocsChained, Entry, HasEntry
  <2>0. /\ fault = "none"
        /\ \A q \in 1 .. n : stack[q].locs + Entry(stack[q]) = LocsEnd(q)
        /\ IF stack = <<>> THEN loclist = <<>> ELSE stack[1].locs = 0
    BY <1>6 DEF FaultStays, FrameInv, LocsChained
  <2>1. \A q \in 1 .. n : LocsEnd(q)' = LocsEnd(q)
    BY <1>1, <1>2, <1>3, <1>6 DEF LocsEnd
  <2>2. LocsEnd(n + 1)' = Len(loclist)
    BY <1>1, <1>3 DEF LocsEnd
  <2>3. stack'[1].locs = 0
    <3>1. CASE n = 0
      BY <1>1, <1>2, <1>7, <1>9, <2>0, <3>1
    <3>2. CASE n # 0
      BY <1>1, <1>8, <2>0, <3>2
    <3> QED
      BY <3>1, <3>2
  <2> QED
    BY <1>1, <1>2, <1>4, <1>5, <2>0, <2>1, <2>2, <2>3
<1> QED
  BY <1>10, <1>11, <1>12, <1>13, <1>14 DEF FrameInv

LEMMA ChangesStep ==
    ASSUME TypeOK, TypeOK', FrameInv, FaultStays, NEW f \in Frames, Changes(f)
    PROVE  FrameInv'
<1>0. PICK n \in Nat \ {0} : n = Len(stack)
  BY EmptySeq DEF TypeOK, Changes
<1>1. /\ n \in 1 .. n /\ Len(stack') = n /\ stack'[n] = f /\ Top = stack[n]
      /\ \A q \in 1 .. n - 1 : stack'[q] = stack[q]
      /\ stack' # <<>> /\ stack # <<>>
  <2>1. stack \in Seq(Frames) /\ stack' = Append(Cut(stack, 1), f) /\ 1 \in 0 .. Len(stack)
    BY <1>0 DEF TypeOK, Changes, WithTop, Rest
  <2>2. PICK rest \in Seq(Frames) : rest = Cut(stack, 1)
    BY <2>1, CutFacts
  <2>3. Len(rest) = n - 1 /\ \A q \in 1 .. n - 1 : rest[q] = stack[q]
    BY <1>0, <2>1, <2>2, CutFacts
  <2>4. /\ Len(stack') = Len(rest) + 1 /\ stack'[Len(rest) + 1] = f /\ stack' # <<>>
        /\ \A q \in 1 .. Len(rest) : stack'[q] = rest[q]
    BY <2>1, <2>2, AppendProperties
  <2> QED
    BY <1>0, <2>3, <2>4 DEF Top, Changes
<1>2. /\ BoundNames(f) \in Seq(Vars) /\ Len(BoundNames(f)) \in Nat
      /\ f.binds \in Nat /\ f.locs \in Nat /\ Entry(f) \in {0, 1}
  BY FrameFacts
<1>3. \A q \in 1 .. n : /\ stack[q].binds \in Nat /\ stack[q].locs \in Nat
                        /\ Len(BoundNames(stack[q])) \in Nat /\ Entry(stack[q]) \in {0, 1}
  BY <1>0, FrameFacts DEF TypeOK
<1>4. Len(bindlist) \in Nat /\ Len(loclist) \in Nat /\ Len(bindlist') \in Nat /\ Len(loclist') \in Nat
  BY DEF TypeOK
<1>5. \A q \in 1 .. n : q \in 1 .. n - 1 \/ q = n
  BY <1>0
<1>6. /\ f.binds = stack[n].binds /\ f.locs = stack[n].locs
      /\ Len(bindlist') = f.binds + Len(BoundNames(f))
      /\ Len(loclist') + Entry(stack[n]) = Len(loclist) + Entry(f)
      /\ \A i \in 1 .. f.binds : bindlist'[i] = bindlist[i]
      /\ \A i \in 1 .. Len(BoundNames(f)) : bindlist'[f.binds + i] = BoundNames(f)[i]
      /\ Len(mspeclist') = Len(bindlist')
      /\ f.kind \notin {"errcatch", "catch"}
  BY <1>1 DEF Changes
<1>7. \A q \in 1 .. n - 1 : stack[q].binds + Len(BoundNames(stack[q])) <= stack[n].binds
  BY <1>0, <1>1 DEF FrameInv, BindsOrdered
<1>8. \A q \in 1 .. n - 1 : stack[q].locs + Entry(stack[q]) <= stack[n].locs
  BY <1>0, <1>1 DEF FrameInv, LocsOrdered
<1>9. stack[n].locs + Entry(stack[n]) <= Len(loclist)
  BY <1>0, <1>1 DEF FrameInv, LocsOrdered
<1>15. /\ stack[n].binds \in Nat /\ stack[n].locs \in Nat /\ Entry(stack[n]) \in {0, 1}
       /\ \A q \in 1 .. n - 1 : q \in 1 .. n
  BY <1>1, <1>3
<1>10. CatchesBare'
  BY <1>0, <1>1, <1>5, <1>6 DEF FrameInv, CatchesBare
<1>11. BindsChained'
  <2>1. ASSUME NEW q \in 1 .. n - 1
        PROVE  BindsEnd(q)' = BindsEnd(q)
    <3>1. q + 1 \in 1 .. n /\ q # n /\ (q + 1 # n => q + 1 \in 1 .. n - 1)
      BY <1>0
    <3>2. stack'[q + 1].binds = stack[q + 1].binds
      BY <1>1, <1>6, <3>1
    <3> QED
      BY <1>0, <1>1, <3>1, <3>2 DEF BindsEnd
  <2>2. BindsEnd(n)' = Len(bindlist')
    BY <1>1 DEF BindsEnd
  <2>3. ASSUME NEW q \in 1 .. n
        PROVE  /\ stack'[q].binds + Len(BoundNames(stack'[q])) = BindsEnd(q)'
               /\ \A i \in 1 .. Len(BoundNames(stack'[q])) :
                     bindlist'[stack'[q].binds + i] = BoundNames(stack'[q])[i]
    <3>1. CASE q = n
      BY <1>1, <1>6, <2>2, <3>1
    <3>2. CASE q \in 1 .. n - 1
      <4>1. /\ stack[q].binds + Len(BoundNames(stack[q])) = BindsEnd(q)
            /\ \A i \in 1 .. Len(BoundNames(stack[q])) :
                  bindlist[stack[q].binds + i] = BoundNames(stack[q])[i]
        BY <1>0 DEF FrameInv, BindsChained
      <4>2. \A i \in 1 .. Len(BoundNames(stack[q])) : stack[q].binds + i \in 1 .. f.binds
        <5>1. stack[q].binds \in Nat /\ Len(BoundNames(stack[q])) \in Nat
          BY <1>3
        <5>2. stack[q].binds + Len(BoundNames(stack[q])) <= f.binds
          BY <1>6, <1>7, <3>2
        <5> QED
          BY <1>2, <5>1, <5>2
      <4>3. \A i \in 1 .. Len(BoundNames(stack[q])) :
               bindlist'[stack[q].binds + i] = bindlist[stack[q].binds + i]
        BY <1>6, <4>2
      <4> QED
        BY <1>1, <2>1, <3>2, <4>1, <4>3
    <3> QED
      BY <1>5, <3>1, <3>2
  <2>4. stack'[1].binds = 0
    <3>1. stack[1].binds = 0
      BY <1>1 DEF FrameInv, BindsChained
    <3>2. CASE n = 1
      BY <1>1, <1>6, <3>1, <3>2
    <3>3. CASE n # 1
      BY <1>0, <1>1, <3>1, <3>3
    <3> QED
      BY <3>2, <3>3
  <2> QED
    BY <1>1, <1>6, <2>3, <2>4 DEF BindsChained, BoundNames
<1>12. BindsOrdered'
  <2>1. ASSUME NEW q \in 1 .. n
        PROVE  stack'[q].binds + Len(BoundNames(stack'[q])) <= Len(bindlist')
    <3>1. CASE q = n
      BY <1>1, <1>2, <1>6, <3>1
    <3>2. CASE q \in 1 .. n - 1
      <4>1. stack[q].binds \in Nat /\ Len(BoundNames(stack[q])) \in Nat
        BY <1>3
      <4>2. stack[q].binds + Len(BoundNames(stack[q])) <= f.binds
        BY <1>6, <1>7, <3>2
      <4>3. f.binds <= Len(bindlist')
        BY <1>2, <1>6
      <4> QED
        BY <1>1, <1>2, <1>4, <3>2, <4>1, <4>2, <4>3
    <3> QED
      BY <1>5, <3>1, <3>2
  <2>2. ASSUME NEW q \in 1 .. n, NEW r \in 1 .. n, q < r
        PROVE  stack'[q].binds + Len(BoundNames(stack'[q])) <= stack'[r].binds
    <3>1. q \in 1 .. n - 1
      BY <1>0, <2>2
    <3>2. CASE r = n
      BY <1>1, <1>6, <1>7, <3>1, <3>2
    <3>3. CASE r \in 1 .. n - 1
      BY <1>0, <1>1, <2>2, <3>1, <3>3 DEF FrameInv, BindsOrdered
    <3> QED
      BY <1>5, <3>2, <3>3
  <2> QED
    BY <1>1, <2>1, <2>2 DEF BindsOrdered, BoundNames
<1>13. LocsOrdered'
  <2>1. ASSUME NEW q \in 1 .. n
        PROVE  stack'[q].locs + Entry(stack'[q]) <= Len(loclist')
    <3>0. f.locs + Entry(f) <= Len(loclist') /\ f.locs <= Len(loclist')
      BY <1>2, <1>4, <1>6, <1>9, <1>15
    <3>1. CASE q = n
      BY <1>1, <3>0, <3>1
    <3>2. CASE q \in 1 .. n - 1
      <4>1. stack[q].locs \in Nat /\ Entry(stack[q]) \in {0, 1}
        BY <1>3
      <4>2. stack[q].locs + Entry(stack[q]) <= f.locs
        BY <1>6, <1>8, <3>2
      <4> QED
        BY <1>1, <1>2, <1>4, <3>0, <3>2, <4>1, <4>2
    <3> QED
      BY <1>5, <3>1, <3>2
  <2>2. ASSUME NEW q \in 1 .. n, NEW r \in 1 .. n, q < r
        PROVE  stack'[q].locs + Entry(stack'[q]) <= stack'[r].locs
    <3>1. q \in 1 .. n - 1
      BY <1>0, <2>2
    <3>2. CASE r = n
      BY <1>1, <1>6, <1>8, <3>1, <3>2
    <3>3. CASE r \in 1 .. n - 1
      BY <1>0, <1>1, <2>2, <3>1, <3>3 DEF FrameInv, LocsOrdered
    <3> QED
      BY <1>5, <3>2, <3>3
  <2> QED
    BY <1>1, <2>1, <2>2 DEF LocsOrdered, Entry, HasEntry
<1>14. LocsChained'
  <2> SUFFICES ASSUME fault' = "none"
               PROVE  /\ \A q \in 1 .. n :
                            stack'[q].locs + Entry(stack'[q]) = LocsEnd(q)'
                      /\ stack'[1].locs = 0
    BY <1>1 DEF LocsChained, Entry, HasEntry
  <2>0. /\ \A q \in 1 .. n : stack[q].locs + Entry(stack[q]) = LocsEnd(q)
        /\ stack[1].locs = 0
    BY <1>0, <1>1 DEF FaultStays, FrameInv, LocsChained
  <2>1. ASSUME NEW q \in 1 .. n - 1
        PROVE  LocsEnd(q)' = LocsEnd(q)
    <3>1. q + 1 \in 1 .. n /\ q # n /\ (q + 1 # n => q + 1 \in 1 .. n - 1)
      BY <1>0
    <3>2. stack'[q + 1].locs = stack[q + 1].locs
      BY <1>1, <1>6, <3>1
    <3> QED
      BY <1>0, <1>1, <3>1, <3>2 DEF LocsEnd
  <2>2. LocsEnd(n)' = Len(loclist') /\ LocsEnd(n) = Len(loclist)
    BY <1>0, <1>1 DEF LocsEnd
  <2>3. stack[n].locs + Entry(stack[n]) = Len(loclist)
    BY <1>1, <2>0, <2>2
  <2>4. stack'[n].locs + Entry(stack'[n]) = LocsEnd(n)'
    <3>1. f.locs + Entry(f) = Len(loclist')
      BY <1>2, <1>4, <1>6, <1>15, <2>3
    <3> QED
      BY <1>1, <2>2, <3>1
  <2>5. stack'[1].locs = 0
    BY <1>0, <1>1, <1>6, <2>0
  <2> QED
    BY <1>1, <1>5, <2>0, <2>1, <2>4, <2>5
<1> QED
  BY <1>10, <1>11, <1>12, <1>13, <1>14 DEF FrameInv

LEMMA EndsStep ==
    ASSUME TypeOK, TypeOK', FrameInv, FaultStays, Ends
    PROVE  FrameInv'
<1>0. PICK n \in Nat \ {0} : n = Len(stack)
  BY EmptySeq DEF TypeOK, Ends
<1>1. /\ n \in 1 .. n /\ Len(stack') = n - 1 /\ Top = stack[n]
      /\ \A q \in 1 .. n - 1 : stack'[q] = stack[q] /\ q \in 1 .. n /\ q < n
      /\ stack # <<>> /\ (stack' = <<>> <=> n = 1)
  <2>1. stack \in Seq(Frames) /\ stack' = Cut(stack, 1) /\ 1 \in 0 .. Len(stack)
    BY <1>0 DEF TypeOK, Ends, Rest
  <2>2. Len(stack') = n - 1 /\ \A q \in 1 .. n - 1 : stack'[q] = stack[q]
    BY <1>0, <2>1, CutFacts
  <2>3. stack' = <<>> <=> n = 1
    <3>1. stack' \in Seq(Frames)
      BY DEF TypeOK
    <3>2. stack' = <<>> <=> Len(stack') = 0
      BY <3>1, EmptySeq
    <3> QED
      BY <1>0, <2>2, <3>2
  <2> QED
    BY <1>0, <2>2, <2>3 DEF Top, Ends
<1>3. \A q \in 1 .. n : /\ stack[q].binds \in Nat /\ stack[q].locs \in Nat
                        /\ Len(BoundNames(stack[q])) \in Nat /\ Entry(stack[q]) \in {0, 1}
  BY <1>0, FrameFacts DEF TypeOK
<1>4. Len(bindlist) \in Nat /\ Len(loclist) \in Nat /\ Len(bindlist') \in Nat /\ Len(loclist') \in Nat
  BY DEF TypeOK
<1>6. /\ Len(bindlist') = stack[n].binds
      /\ \A i \in 1 .. stack[n].binds : bindlist'[i] = bindlist[i]
      /\ Len(mspeclist') = Len(bindlist')
      /\ stack[n].locs <= Len(loclist')
      /\ fault' = "none" => Len(loclist') = stack[n].locs
  BY <1>1 DEF Ends
<1>7. \A q \in 1 .. n - 1 : stack[q].binds + Len(BoundNames(stack[q])) <= stack[n].binds
  BY <1>0, <1>1 DEF FrameInv, BindsOrdered
<1>8. \A q \in 1 .. n - 1 : stack[q].locs + Entry(stack[q]) <= stack[n].locs
  BY <1>0, <1>1 DEF FrameInv, LocsOrdered
<1>15. /\ stack[n].binds \in Nat /\ stack[n].locs \in Nat /\ Entry(stack[n]) \in {0, 1}
       /\ \A q \in 1 .. n - 1 : q \in 1 .. n
  BY <1>1, <1>3
<1>10. CatchesBare'
  BY <1>0, <1>1 DEF FrameInv, CatchesBare
<1>11. BindsChained'
  <2>1. ASSUME NEW q \in 1 .. n - 1
        PROVE  BindsEnd(q)' = BindsEnd(q)
    <3>1. q + 1 \in 1 .. n /\ q # n /\ (q # n - 1 => q + 1 \in 1 .. n - 1)
          /\ (q = n - 1 => q + 1 = n)
      BY <1>0
    <3>2. CASE q = n - 1
      <4>1. BindsEnd(q)' = Len(bindlist')
        BY <1>1, <3>2 DEF BindsEnd
      <4>2. BindsEnd(q) = stack[n].binds
        BY <1>0, <3>1, <3>2 DEF BindsEnd
      <4> QED
        BY <1>6, <4>1, <4>2
    <3>3. CASE q # n - 1
      BY <1>0, <1>1, <3>1, <3>3 DEF BindsEnd
    <3> QED
      BY <3>2, <3>3
  <2>3. ASSUME NEW q \in 1 .. n - 1
        PROVE  /\ stack'[q].binds + Len(BoundNames(stack'[q])) = BindsEnd(q)'
               /\ \A i \in 1 .. Len(BoundNames(stack'[q])) :
                     bindlist'[stack'[q].binds + i] = BoundNames(stack'[q])[i]
    <4>1. /\ stack[q].binds + Len(BoundNames(stack[q])) = BindsEnd(q)
          /\ \A i \in 1 .. Len(BoundNames(stack[q])) :
                bindlist[stack[q].binds + i] = BoundNames(stack[q])[i]
      BY <1>0, <1>1 DEF FrameInv, BindsChained
    <4>2. \A i \in 1 .. Len(BoundNames(stack[q])) : stack[q].binds + i \in 1 .. stack[n].binds
      BY <1>1, <1>3, <1>7
    <4>3. \A i \in 1 .. Len(BoundNames(stack[q])) :
             bindlist'[stack[q].binds + i] = bindlist[stack[q].binds + i]
      BY <1>6, <4>2
    <4> QED
      BY <1>1, <2>1, <4>1, <4>3
  <2>4. IF stack' = <<>> THEN bindlist' = <<>> ELSE stack'[1].binds = 0
    <3>1. stack[1].binds = 0
      BY <1>1 DEF FrameInv, BindsChained
    <3>2. CASE n = 1
      BY <1>1, <1>6, <3>1, <3>2, EmptySeq DEF TypeOK
    <3>3. CASE n # 1
      BY <1>0, <1>1, <3>1, <3>3
    <3> QED
      BY <3>2, <3>3
  <2> QED
    BY <1>1, <1>6, <2>3, <2>4 DEF BindsChained, BoundNames
<1>12. BindsOrdered'
  <2>1. ASSUME NEW q \in 1 .. n - 1
        PROVE  stack'[q].binds + Len(BoundNames(stack'[q])) <= Len(bindlist')
    BY <1>1, <1>6, <1>7
  <2>2. ASSUME NEW q \in 1 .. n - 1, NEW r \in 1 .. n - 1, q < r
        PROVE  stack'[q].binds + Len(BoundNames(stack'[q])) <= stack'[r].binds
    BY <1>0, <1>1, <2>2 DEF FrameInv, BindsOrdered
  <2> QED
    BY <1>1, <2>1, <2>2 DEF BindsOrdered, BoundNames
<1>13. LocsOrdered'
  <2>1. ASSUME NEW q \in 1 .. n - 1
        PROVE  stack'[q].locs + Entry(stack'[q]) <= Len(loclist')
    <3>1. stack[q].locs \in Nat /\ Entry(stack[q]) \in {0, 1}
      BY <1>3, <1>15
    <3>2. stack[q].locs + Entry(stack[q]) <= stack[n].locs
      BY <1>8
    <3> QED
      BY <1>1, <1>4, <1>6, <1>15, <3>1, <3>2
  <2>2. ASSUME NEW q \in 1 .. n - 1, NEW r \in 1 .. n - 1, q < r
        PROVE  stack'[q].locs + Entry(stack'[q]) <= stack'[r].locs
    BY <1>0, <1>1, <2>2 DEF FrameInv, LocsOrdered
  <2> QED
    BY <1>1, <2>1, <2>2 DEF LocsOrdered, Entry, HasEntry
<1>14. LocsChained'
  <2> SUFFICES ASSUME fault' = "none"
               PROVE  /\ \A q \in 1 .. n - 1 :
                            stack'[q].locs + Entry(stack'[q]) = LocsEnd(q)'
                      /\ IF stack' = <<>> THEN loclist' = <<>> ELSE stack'[1].locs = 0
    BY <1>1 DEF LocsChained, Entry, HasEntry
  <2>0. /\ \A q \in 1 .. n : stack[q].locs + Entry(stack[q]) = LocsEnd(q)
        /\ stack[1].locs = 0
    BY <1>0, <1>1 DEF FaultStays, FrameInv, LocsChained
  <2>1. ASSUME NEW q \in 1 .. n - 1
        PROVE  LocsEnd(q)' = LocsEnd(q)
    <3>1. q + 1 \in 1 .. n /\ q # n /\ (q # n - 1 => q + 1 \in 1 .. n - 1)
          /\ (q = n - 1 => q + 1 = n)
      BY <1>0
    <3>2. CASE q = n - 1
      <4>1. LocsEnd(q)' = Len(loclist')
        BY <1>1, <3>2 DEF LocsEnd
      <4>2. LocsEnd(q) = stack[n].locs
        BY <1>0, <3>1, <3>2 DEF LocsEnd
      <4> QED
        BY <1>6, <4>1, <4>2
    <3>3. CASE q # n - 1
      BY <1>0, <1>1, <3>1, <3>3 DEF LocsEnd
    <3> QED
      BY <3>2, <3>3
  <2>5. IF stack' = <<>> THEN loclist' = <<>> ELSE stack'[1].locs = 0
    <3>2. CASE n = 1
      BY <1>1, <1>6, <2>0, <3>2, EmptySeq DEF TypeOK
    <3>3. CASE n # 1
      BY <1>0, <1>1, <2>0, <3>3
    <3> QED
      BY <3>2, <3>3
  <2> QED
    BY <1>1, <2>0, <2>1, <2>5
<1> QED
  BY <1>10, <1>11, <1>12, <1>13, <1>14 DEF FrameInv

-----------------------------------------------------------------------------
(* Every action keeps the invariant.                                       *)

LEMMA TopFacts ==
    ASSUME StacksInv, stack # <<>>
    PROVE  /\ Len(stack) \in 1 .. Len(stack) /\ Top = stack[Len(stack)]
           /\ Top \in Frames /\ Top.names \in Seq(Vars)
           /\ Top.binds \in Nat /\ Top.locs \in Nat /\ Entry(Top) \in {0, 1}
           /\ BoundNames(Top) \in Seq(Vars) /\ Len(BoundNames(Top)) \in Nat
           /\ Top.binds + Len(BoundNames(Top)) = Len(bindlist)
           /\ Len(mspeclist) = Len(bindlist)
           /\ Top.locs + Entry(Top) <= Len(loclist)
           /\ fault = "none" => Top.locs + Entry(Top) = Len(loclist)
           /\ Top.kind \in {"errcatch", "catch"} => Top.stage = "body" /\ Top.names = <<>>
<1>1. Len(stack) \in 1 .. Len(stack) /\ Top = stack[Len(stack)]
  BY EmptySeq DEF StacksInv, TypeOK, Top
<1>2. Top \in Frames
  BY <1>1 DEF StacksInv, TypeOK
<1>3. Top.binds + Len(BoundNames(Top)) = BindsEnd(Len(stack)) /\ Len(mspeclist) = Len(bindlist)
  BY <1>1 DEF StacksInv, BindsChained
<1>4. /\ Top.locs + Entry(Top) <= Len(loclist)
      /\ fault = "none" => Top.locs + Entry(Top) = LocsEnd(Len(stack))
  BY <1>1 DEF StacksInv, LocsOrdered, LocsChained
<1>5. Top.kind \in {"errcatch", "catch"} => Top.stage = "body" /\ Top.names = <<>>
  BY <1>1 DEF StacksInv, CatchesBare
<1>6. Top.names \in Seq(Vars)
  BY <1>2 DEF Frames
<1> QED
  BY <1>1, <1>2, <1>3, <1>4, <1>5, <1>6, FrameFacts DEF BindsEnd, LocsEnd

LEMMA RestFacts ==
    ASSUME StacksInv, stack # <<>>
    PROVE  /\ Rest \in Seq(Frames)
           /\ \A f \in Frames : WithTop(f) \in Seq(Frames)
<1>1. stack \in Seq(Frames) /\ 1 \in 0 .. Len(stack)
  BY TopFacts DEF StacksInv, TypeOK
<1>2. Rest \in Seq(Frames)
  BY <1>1, CutFacts DEF Rest
<1> QED
  BY <1>2, AppendProperties DEF WithTop

LEMMA EnterStep ==
    ASSUME StacksInv, NEW kind \in Kinds, NEW stage \in {"args", "body"},
           NEW names \in Seq(Vars), NEW mlocp \in BOOLEAN,
           \/ stage = "args" /\ kind \notin {"errcatch", "catch"}
           \/ stage = "body" /\ kind \in {"errcatch", "catch"} /\ names = <<>>,
           Enter(kind, stage, names, mlocp),
           UNCHANGED <<valueVars, localVars, mode, fault>>
    PROVE  StacksInv'
<1> DEFINE f == [kind |-> kind, stage |-> stage, names |-> names, mlocp |-> mlocp,
                 binds |-> Len(bindlist), locs |-> Len(loclist)]
<1>1. stack' = Append(stack, f)
  BY DEF Enter
<1>2. f \in Frames
  BY DEF StacksInv, TypeOK, Frames
<1>3. Begins(f)
  <2>1. /\ f.stage = stage /\ f.kind = kind /\ f.names = names
        /\ f.binds = Len(bindlist) /\ f.locs = Len(loclist)
    OBVIOUS
  <2> HIDE DEF f
  <2>2. bindlist' = bindlist /\ mspeclist' = mspeclist /\ loclist' = loclist
    BY DEF valueVars, localVars
  <2>3. \/ f.stage = "args" /\ f.kind \notin {"errcatch", "catch"}
        \/ f.kind \in {"errcatch", "catch"} /\ f.stage = "body" /\ f.names = <<>>
    BY <2>1
  <2>4. f.kind \in {"errcatch", "catch"} => f.stage = "body"
    BY <2>3
  <2> QED
    BY <1>1, <2>1, <2>2, <2>3, <2>4 DEF Begins
<1> HIDE DEF f
<1>4. TypeOK'
  BY <1>1, <1>2 DEF StacksInv, TypeOK, valueVars, localVars
<1>5. FaultStays
  BY DEF FaultStays
<1>6. FrameInv'
  BY <1>2, <1>3, <1>4, <1>5, BeginsStep DEF StacksInv, FrameInv
<1>7. DefsSaved'
  BY DEF StacksInv, DefsSaved, localVars
<1> QED
  BY <1>4, <1>6, <1>7 DEF StacksInv, FrameInv

LEMMA EnterScopeStep ==
    ASSUME StacksInv, EnterScope
    PROVE  StacksInv'
<1>1. UNCHANGED <<valueVars, localVars, mode, fault>>
  BY DEF EnterScope
<1>2. CASE \E kind \in {"block", "lambda"}, names \in VarLists : Enter(kind, "args", names, TRUE)
  <2>1. PICK kind \in {"block", "lambda"}, names \in VarLists : Enter(kind, "args", names, TRUE)
    BY <1>2
  <2>2. kind \in Kinds /\ kind \notin {"errcatch", "catch"} /\ names \in Seq(Vars)
    BY <2>1, ListsAssumption DEF Kinds
  <2> QED
    BY <1>1, <2>1, <2>2, EnterStep
<1>3. CASE \E names \in VarLists : Len(names) = 1 /\ Enter("loop", "args", names, FALSE)
  <2>1. PICK names \in VarLists : Enter("loop", "args", names, FALSE)
    BY <1>3
  <2>2. "loop" \in Kinds /\ names \in Seq(Vars)
    BY <2>1, ListsAssumption DEF Kinds
  <2> QED
    BY <1>1, <2>1, <2>2, EnterStep
<1>4. CASE \E names \in EvLists : Enter("ev", "args", names, FALSE)
  <2>1. PICK names \in EvLists : Enter("ev", "args", names, FALSE)
    BY <1>4
  <2>2. "ev" \in Kinds /\ names \in Seq(Vars)
    BY <2>1, ListsAssumption DEF Kinds
  <2> QED
    BY <1>1, <2>1, <2>2, EnterStep
<1> QED
  BY <1>2, <1>3, <1>4 DEF EnterScope

LEMMA EnterCatchStep ==
    ASSUME StacksInv, EnterCatch
    PROVE  StacksInv'
<1>1. PICK kind \in {"errcatch", "catch"} : Enter(kind, "body", <<>>, FALSE)
  BY DEF EnterCatch
<1>2. kind \in Kinds /\ <<>> \in Seq(Vars) /\ UNCHANGED <<valueVars, localVars, mode, fault>>
  BY <1>1, EmptySeq DEF Kinds, EnterCatch
<1> QED
  BY <1>1, <1>2, EnterStep

LEMMA InitsType ==
    ASSUME NEW names \in Seq(Vars), NEW news \in Inits(names)
    PROVE  news \in [1 .. Len(names) -> Cells]
<1>1. CASE news = names
  BY <1>1, LenProperties DEF Cells
<1>2. CASE news # names
  <2>1. PICK w \in Values : news = [q \in 1 .. Len(names) |-> w]
    BY <1>2 DEF Inits
  <2> QED
    BY <2>1 DEF Cells
<1> QED
  BY <1>1, <1>2

LEMMA BindStep ==
    ASSUME StacksInv, Bind
    PROVE  StacksInv'
<1> DEFINE f == [Top EXCEPT !.stage = "body"]
<1>1. stack # <<>> /\ Top.stage = "args" /\ Top.kind # "ev" /\ stack' = WithTop(f)
  BY DEF Bind, Running
<1>2. /\ Top \in Frames /\ f \in Frames
      /\ f.kind = Top.kind /\ f.binds = Top.binds /\ f.locs = Top.locs /\ f.stage = "body"
      /\ BoundNames(f) = Top.names /\ Top.names \in Seq(Vars)
      /\ Top.kind \notin {"errcatch", "catch"}
      /\ Top.binds = Len(bindlist) /\ Len(mspeclist) = Len(bindlist)
  BY <1>1, TopFacts, EmptySeq DEF Frames, BoundNames
<1>3. Entry(Top) = 0 /\ Entry(f) = IF Top.kind = "loop" THEN 0 ELSE 1
  BY <1>1, <1>2 DEF Entry, HasEntry, Frames, Kinds
<1> HIDE DEF f
<1>4. PICK news \in Inits(Top.names) : Mbind(Top.names, news, value, bindlist, mspeclist)
  BY DEF Bind
<1>5. /\ value' \in [Vars -> Cells]
      /\ bindlist' \in Seq(Vars) /\ Len(bindlist') = Len(bindlist) + Len(Top.names)
      /\ \A i \in 1 .. Len(bindlist) : bindlist'[i] = bindlist[i]
      /\ \A i \in 1 .. Len(Top.names) : bindlist'[Len(bindlist) + i] = Top.names[i]
      /\ mspeclist' \in Seq(Cells) /\ Len(mspeclist') = Len(mspeclist) + Len(Top.names)
  <2>1. news \in [1 .. Len(Top.names) -> Cells]
    BY <1>2, <1>4, InitsType
  <2>2. value \in [Vars -> Cells] /\ bindlist \in Seq(Vars) /\ mspeclist \in Seq(Cells)
    BY DEF StacksInv, TypeOK, Cells
  <2>3. Bound(Top.names, bindlist, mspeclist)
    BY <1>2, <1>4, <2>1, <2>2, MbindFacts
  <2> QED
    BY <2>3 DEF Bound
<1>6. /\ loclist' \in Seq(Seq(Funs)) /\ FlattenSeq(loclist') = FlattenSeq(loclist)
      /\ Len(loclist') = Len(loclist) + IF Top.kind = "loop" THEN 0 ELSE 1
  <2>1. loclist \in Seq(Seq(Funs)) /\ <<>> \in Seq(Funs)
    BY EmptySeq DEF StacksInv, TypeOK
  <2>2. CASE Top.kind = "loop"
    BY <2>1, <2>2 DEF Bind
  <2>3. CASE Top.kind # "loop"
    <3>1. loclist' = Append(loclist, <<>>)
      BY <2>3 DEF Bind
    <3>2. FlattenSeq(loclist') = FlattenSeq(loclist) \o <<>>
      BY <2>1, <3>1, FlattenAppend
    <3>3. FlattenSeq(loclist) \o <<>> = FlattenSeq(loclist)
      BY <2>1, FlattenType, ConcatEmptySeq
    <3>4. loclist' \in Seq(Seq(Funs)) /\ Len(loclist') = Len(loclist) + 1
      BY <2>1, <3>1, AppendProperties
    <3> QED
      BY <2>3, <3>2, <3>3, <3>4
  <2> QED
    BY <2>2, <2>3
<1>7. UNCHANGED <<prop, mproplist, mode, fault>>
  BY DEF Bind
<1>8. TypeOK'
  BY <1>1, <1>2, <1>5, <1>6, <1>7, RestFacts DEF StacksInv, TypeOK, Cells
<1>9. DefsSaved' /\ FaultStays
  BY <1>6, <1>7 DEF StacksInv, DefsSaved, FaultStays
<1>10. Changes(f)
  <2>1. Len(loclist) \in Nat
    BY DEF StacksInv, TypeOK
  <2>2. Len(loclist') + Entry(Top) = Len(loclist) + Entry(f)
    BY <1>3, <1>6, <2>1
  <2> QED
    BY <1>1, <1>2, <1>5, <2>2 DEF Changes
<1>11. FrameInv'
  BY <1>2, <1>8, <1>9, <1>10, ChangesStep DEF StacksInv, FrameInv
<1> QED
  BY <1>8, <1>9, <1>11 DEF StacksInv, FrameInv

LEMMA Errlfun1Facts ==
    ASSUME StacksInv, stack # <<>>, Top.kind \in {"errcatch", "catch"}, Errlfun1(Top)
    PROVE  /\ Unbinds(0) /\ Drops(Len(loclist) - Top.locs)
           /\ Len(BoundNames(Top)) = 0 /\ Top.locs \in 0 .. Len(loclist)
<1>1. Len(BoundNames(Top)) = 0 /\ Top.binds = Len(bindlist) /\ Len(mspeclist) = Len(bindlist)
  BY TopFacts, EmptySeq DEF BoundNames
<1>2. /\ Len(bindlist) - Top.binds = 0 /\ Len(bindlist) \in Nat /\ Len(loclist) \in Nat
  BY <1>1 DEF StacksInv, TypeOK
<1>3. Top.locs \in Nat /\ Top.locs <= Len(loclist)
  <2>1. Top.locs \in Nat /\ Entry(Top) \in {0, 1} /\ Top.locs + Entry(Top) <= Len(loclist)
    BY TopFacts
  <2> QED
    BY <1>2, <2>1
<1>4. Newest(bindlist, 0) = <<>>
  BY <1>2, SubSeqEmpty DEF Newest
<1>5. Munbind(<<>>) /\ Munlocal(Len(loclist) - Top.locs)
  BY <1>2, <1>4 DEF Errlfun1
<1>6. <<>> \in Seq(Vars) /\ Len(<<>>) = 0 /\ 0 <= Len(bindlist)
  BY <1>2, EmptySeq
<1>7. Unbinds(0)
  <2>1. Unbinds(Len(<<>>))
    BY <1>1, <1>5, <1>6, MunbindFacts DEF StacksInv
  <2> QED
    BY <1>6, <2>1
<1>8. Drops(Len(loclist) - Top.locs)
  <2>1. Len(loclist) - Top.locs \in 0 .. Len(loclist)
    BY <1>2, <1>3
  <2> QED
    BY <1>5, <2>1, MunlocalFacts DEF StacksInv
<1> QED
  BY <1>1, <1>2, <1>3, <1>7, <1>8

\* An evaluation that takes n entries back is left.
LEMMA LeftStep ==
    ASSUME StacksInv, stack # <<>>, stack' = Rest,
           mode' \in {"run", "error", "return", "go", "throw"},
           fault' \in Faults \cup {"none"}, FaultStays,
           Unbinds(Len(BoundNames(Top))),
           NEW n \in 0 .. Len(loclist) - Top.locs, Drops(n),
           fault' = "none" => n = Len(loclist) - Top.locs
    PROVE  StacksInv'
<1>1. TypeOK'
  BY RestFacts DEF StacksInv, TypeOK, Cells, Defs, Unbinds, Drops
<1>2. DefsSaved'
  BY DEF DefsSaved, Drops, FaultStays
<1>3. Ends
  <2>1. /\ Len(bindlist) - Len(BoundNames(Top)) = Top.binds /\ Top.binds \in Nat
        /\ Len(bindlist) \in Nat
    <3>1. /\ Top.binds + Len(BoundNames(Top)) = Len(bindlist) /\ Top.binds \in Nat
          /\ Len(BoundNames(Top)) \in Nat
      BY TopFacts
    <3> QED
      BY <3>1
  <2>2. /\ Len(bindlist') = Top.binds /\ Len(mspeclist') = Len(bindlist')
        /\ \A i \in 1 .. Top.binds : bindlist'[i] = bindlist[i]
    BY <2>1 DEF Unbinds
  <2>3. /\ Top.locs <= Len(loclist')
        /\ fault' = "none" => Len(loclist') = Top.locs
    <3>1. Top.locs \in Nat /\ Len(loclist) \in Nat
      BY TopFacts DEF StacksInv, TypeOK
    <3>2. Len(loclist') = Len(loclist) - n
      BY DEF Drops
    <3> QED
      BY <3>1, <3>2
  <2> QED
    BY <2>2, <2>3 DEF Ends
<1>4. FrameInv'
  BY <1>1, <1>3, EndsStep DEF StacksInv, FrameInv
<1> QED
  BY <1>1, <1>2, <1>4 DEF StacksInv, FrameInv

LEMMA CleanupStep ==
    ASSUME StacksInv, stack # <<>>, Cleanup(Top), stack' = Rest,
           mode' \in {"run", "error", "return", "go", "throw"},
           fault' \in Faults \cup {"none"}, FaultStays,
           HasEntry(Top) /\ ~TakesEntryBack(Top) => fault' # "none"
    PROVE  StacksInv'
<1>0. /\ Top.locs \in Nat /\ Entry(Top) \in {0, 1} /\ Len(loclist) \in Nat
      /\ Top.locs + Entry(Top) <= Len(loclist)
      /\ fault = "none" => Top.locs + Entry(Top) = Len(loclist)
      /\ BoundNames(Top) \in Seq(Vars) /\ Len(BoundNames(Top)) <= Len(bindlist)
      /\ Len(mspeclist) = Len(bindlist)
  BY TopFacts DEF StacksInv, TypeOK
<1>1. CASE Top.kind = "catch"
  <2>1. Errlfun1(Top)
    BY <1>1 DEF Cleanup
  <2>2. /\ Unbinds(0) /\ Drops(Len(loclist) - Top.locs)
        /\ Len(BoundNames(Top)) = 0 /\ Top.locs \in 0 .. Len(loclist)
    BY <1>1, <2>1, Errlfun1Facts
  <2>3. PICK n \in 0 .. Len(loclist) - Top.locs : n = Len(loclist) - Top.locs
    BY <1>0, <2>2
  <2> QED
    BY <2>2, <2>3, LeftStep
<1>2. CASE Top.kind # "catch"
  <2>1. Munbind(BoundNames(Top))
    BY <1>2 DEF Cleanup
  <2>2. Unbinds(Len(BoundNames(Top)))
    BY <1>0, <2>1, MunbindFacts DEF StacksInv
  <2>3. CASE TakesEntryBack(Top)
    <3>1. Munlocal(1) /\ Entry(Top) = 1
      BY <1>2, <2>3 DEF Cleanup, TakesEntryBack, Entry
    <3>2. 1 \in 0 .. Len(loclist) /\ 1 \in 0 .. Len(loclist) - Top.locs
      BY <1>0, <3>1
    <3>3. Drops(1)
      BY <3>1, <3>2, MunlocalFacts DEF StacksInv
    <3>4. fault' = "none" => 1 = Len(loclist) - Top.locs
      BY <1>0, <3>1 DEF FaultStays
    <3> QED
      BY <2>2, <3>2, <3>3, <3>4, LeftStep
  <2>4. CASE ~TakesEntryBack(Top)
    <3>1. UNCHANGED localVars
      BY <1>2, <2>4 DEF Cleanup
    <3>2. Drops(0)
      BY <1>0, <3>1 DEF Drops, localVars, StacksInv, TypeOK, DefsSaved, Defs
    <3>3. fault' = "none" => 0 = Len(loclist) - Top.locs
      BY <1>0, <2>4 DEF FaultStays, Entry
    <3>4. 0 \in 0 .. Len(loclist) - Top.locs
      BY <1>0
    <3> QED
      BY <2>2, <3>2, <3>3, <3>4, LeftStep
  <2> QED
    BY <2>3, <2>4
<1> QED
  BY <1>1, <1>2

LEMMA FirstFaultFacts ==
    ASSUME StacksInv, NEW kind \in Faults, FirstFault(kind)
    PROVE  fault' \in Faults \cup {"none"} /\ fault' # "none"
BY DEF StacksInv, TypeOK, FirstFault, Faults

LEMMA LeaveStep ==
    ASSUME StacksInv, Leave
    PROVE  StacksInv'
<1>1. stack # <<>> /\ Cleanup(Top) /\ stack' = Rest /\ UNCHANGED <<mode, fault>>
  BY DEF Leave, Running
<1>2. HasEntry(Top) => TakesEntryBack(Top)
  BY DEF Leave, TakesEntryBack
<1> QED
  BY <1>1, <1>2, CleanupStep DEF FaultStays, StacksInv, TypeOK

LEMMA UnwindStep ==
    ASSUME StacksInv, Unwind
    PROVE  StacksInv'
<1>1. stack # <<>> /\ Cleanup(Top) /\ stack' = Rest /\ UNCHANGED mode
  BY DEF Unwind, Unwinding
<1>2. CASE HasEntry(Top) /\ ~TakesEntryBack(Top)
  <2>1. FirstFault("ev") /\ "ev" \in Faults
    BY <1>2 DEF Unwind, Faults
  <2>2. fault' \in Faults \cup {"none"} /\ fault' # "none"
    BY <2>1, FirstFaultFacts
  <2> QED
    BY <1>1, <2>2, CleanupStep DEF FaultStays, StacksInv, TypeOK
<1>3. CASE ~(HasEntry(Top) /\ ~TakesEntryBack(Top))
  <2>1. UNCHANGED fault
    BY <1>3 DEF Unwind
  <2> QED
    BY <1>1, <1>3, <2>1, CleanupStep DEF FaultStays, StacksInv, TypeOK
<1> QED
  BY <1>2, <1>3

LEMMA CaughtStep ==
    ASSUME StacksInv, Caught
    PROVE  StacksInv'
<1>1. /\ stack # <<>> /\ Errlfun1(Top) /\ stack' = Rest /\ mode' = "run" /\ fault' = fault
      /\ Top.kind = "errcatch"
  BY DEF Caught, Unwinding, Stops
<1>2. /\ Unbinds(0) /\ Drops(Len(loclist) - Top.locs)
      /\ Len(BoundNames(Top)) = 0 /\ Top.locs \in 0 .. Len(loclist)
  BY <1>1, Errlfun1Facts
<1>3. PICK n \in 0 .. Len(loclist) - Top.locs : n = Len(loclist) - Top.locs
  BY <1>2 DEF StacksInv, TypeOK
<1>4. fault' \in Faults \cup {"none"} /\ FaultStays
  BY <1>1 DEF StacksInv, TypeOK, FaultStays
<1> QED
  BY <1>1, <1>2, <1>3, <1>4, LeftStep

LEMMA LandsStep ==
    ASSUME StacksInv, ThrowLands \/ ReturnLands
    PROVE  StacksInv'
<1>1. stack # <<>> /\ Cleanup(Top) /\ stack' = Rest /\ mode' = "run" /\ fault' = fault
  BY DEF ThrowLands, ReturnLands, Unwinding
<1>2. HasEntry(Top) => TakesEntryBack(Top)
  BY DEF ThrowLands, ReturnLands, Stops, IsTarget, TakesEntryBack, HasEntry
<1> QED
  BY <1>1, <1>2, CleanupStep DEF FaultStays, StacksInv, TypeOK

\* The evaluation on top has bound other names or pushed its entry.
LEMMA ChangedStep ==
    ASSUME StacksInv, NEW f \in Frames, Changes(f), FaultStays, DefsSaved',
           value' \in [Vars -> Cells], prop' \in [Funs -> Defs],
           bindlist' \in Seq(Vars), mspeclist' \in Seq(Cells),
           loclist' \in Seq(Seq(Funs)), mproplist' \in Seq(Defs),
           mode' \in {"run", "error", "return", "go", "throw"},
           fault' \in Faults \cup {"none"}
    PROVE  StacksInv'
<1>1. TypeOK'
  BY RestFacts DEF TypeOK, Cells, Defs, Changes
<1>2. FrameInv'
  BY <1>1, ChangesStep DEF StacksInv, FrameInv
<1> QED
  BY <1>1, <1>2 DEF StacksInv, FrameInv

\* What ev does to the lists of its functions.
LEMMA EvAtomsLocs ==
    ASSUME StacksInv, EvAtoms
    PROVE  /\ prop' \in [Funs -> Defs] /\ mproplist' \in Seq(Defs)
           /\ loclist' \in Seq(Seq(Funs)) /\ Len(loclist') = Len(loclist) + 1
           /\ mode' \in {"run", "error"} /\ fault' \in Faults \cup {"none"}
           /\ FaultStays /\ DefsSaved'
<1>0. loclist \in Seq(Seq(Funs)) /\ <<>> \in Seq(Funs) /\ mode = "run"
  BY EmptySeq DEF StacksInv, TypeOK, EvAtoms, Running
<1>1. PICK l \in FunLists \cup {<<>>} :
          \/ /\ Hide(l)
             /\ loclist' = Append(loclist, l)
             /\ UNCHANGED <<mode, fault>>
          \/ \E n \in 1 .. Len(l) :
                /\ Hide(SubSeq(l, 1, n - 1))
                /\ loclist' = Append(loclist, <<>>)
                /\ mode' = "error"
                /\ FirstFault("array")
  BY DEF EvAtoms
<1>2. l \in Seq(Funs)
  BY <1>0, <1>1, ListsAssumption
<1>3. FlattenSeq(loclist) \in Seq(Funs) /\ Len(FlattenSeq(loclist)) \in Nat
  BY <1>0, FlattenType
<1>4. CASE Hide(l) /\ loclist' = Append(loclist, l) /\ UNCHANGED <<mode, fault>>
  <2>1. /\ prop' \in [Funs -> Defs] /\ mproplist' \in Seq(Defs)
        /\ Len(mproplist') = Len(mproplist) + Len(l)
    BY <1>2, <1>4, HideFacts DEF StacksInv
  <2>2. loclist' \in Seq(Seq(Funs)) /\ Len(loclist') = Len(loclist) + 1
    BY <1>0, <1>2, <1>4, AppendProperties
  <2>3. FlattenSeq(loclist') = FlattenSeq(loclist) \o l
    BY <1>0, <1>2, <1>4, FlattenAppend
  <2>4. Len(FlattenSeq(loclist')) = Len(FlattenSeq(loclist)) + Len(l)
    BY <1>2, <1>3, <2>3
  <2>5. Len(l) \in Nat /\ Len(mproplist) \in Nat
    BY <1>2 DEF StacksInv, TypeOK
  <2>6. DefsSaved'
    <3>1. fault' = fault
      BY <1>4
    <3> QED
      BY <1>3, <2>1, <2>4, <2>5, <3>1 DEF StacksInv, DefsSaved
  <2> QED
    BY <1>0, <1>4, <2>1, <2>2, <2>6 DEF StacksInv, TypeOK, FaultStays
<1>5. CASE \E n \in 1 .. Len(l) :
                /\ Hide(SubSeq(l, 1, n - 1))
                /\ loclist' = Append(loclist, <<>>)
                /\ mode' = "error"
                /\ FirstFault("array")
  <2>1. PICK n \in 1 .. Len(l) :
                /\ Hide(SubSeq(l, 1, n - 1))
                /\ loclist' = Append(loclist, <<>>)
                /\ mode' = "error"
                /\ FirstFault("array")
    BY <1>5
  <2>2. PICK r \in Seq(Funs) : r = SubSeq(l, 1, n - 1)
    <3>1. n \in 1 .. Len(l) /\ Len(l) \in Nat /\ \A i \in 1 .. n - 1 : i \in 1 .. Len(l)
      BY <1>2, <2>1
    <3>2. \A i \in 1 .. n - 1 : l[i] \in Funs
      BY <1>2, <3>1, ElementOfSeq
    <3>3. SubSeq(l, 1, n - 1) \in Seq(Funs)
      BY <3>1, <3>2, SubSeqProperties
    <3> QED
      BY <3>3
  <2>3. /\ prop' \in [Funs -> Defs] /\ mproplist' \in Seq(Defs)
        /\ Len(mproplist') = Len(mproplist) + Len(r)
    BY <2>1, <2>2, HideFacts DEF StacksInv
  <2>4. loclist' \in Seq(Seq(Funs)) /\ Len(loclist') = Len(loclist) + 1
    BY <1>0, <2>1, AppendProperties
  <2>5. FlattenSeq(loclist') = FlattenSeq(loclist)
    <3>1. FlattenSeq(loclist') = FlattenSeq(loclist) \o <<>>
      BY <1>0, <2>1, FlattenAppend
    <3> QED
      BY <1>3, <3>1, ConcatEmptySeq
  <2>6. Len(r) \in Nat /\ Len(mproplist) \in Nat
    BY <2>2 DEF StacksInv, TypeOK
  <2>7. fault' \in Faults \cup {"none"} /\ fault' # "none"
    BY <2>1, FirstFaultFacts DEF Faults
  <2>8. Len(FlattenSeq(loclist)) <= Len(mproplist')
    BY <1>3, <2>3, <2>6 DEF StacksInv, DefsSaved
  <2> QED
    BY <2>1, <2>3, <2>4, <2>5, <2>7, <2>8 DEF FaultStays, DefsSaved
<1> QED
  BY <1>1, <1>4, <1>5

LEMMA EvAtomsStep ==
    ASSUME StacksInv, EvAtoms
    PROVE  StacksInv'
<1> DEFINE f == [Top EXCEPT !.stage = "atoms"]
<1>1. stack # <<>> /\ Top.stage = "args" /\ Top.kind = "ev" /\ stack' = WithTop(f)
  BY DEF EvAtoms, Running
<1>2. /\ Top \in Frames /\ f \in Frames
      /\ f.kind = "ev" /\ f.binds = Top.binds /\ f.locs = Top.locs /\ f.stage = "atoms"
      /\ BoundNames(f) = Top.names /\ Top.names \in Seq(Vars)
      /\ Top.binds = Len(bindlist) /\ Len(mspeclist) = Len(bindlist)
  BY <1>1, TopFacts, EmptySeq DEF Frames, BoundNames
<1>3. Entry(Top) = 0 /\ Entry(f) = 1
  BY <1>1, <1>2 DEF Entry, HasEntry
<1> HIDE DEF f
<1>4. Bound(Top.names, bindlist, mspeclist)
  <2>1. Mbind(Top.names, Top.names, value, bindlist, mspeclist)
    BY DEF EvAtoms
  <2>2. Top.names \in [1 .. Len(Top.names) -> Cells]
    BY <1>2, InitsType DEF Inits
  <2>3. value \in [Vars -> Cells] /\ bindlist \in Seq(Vars) /\ mspeclist \in Seq(Cells)
    BY DEF StacksInv, TypeOK, Cells
  <2> QED
    BY <1>2, <2>1, <2>2, <2>3, MbindFacts
<1>5. /\ prop' \in [Funs -> Defs] /\ mproplist' \in Seq(Defs)
      /\ loclist' \in Seq(Seq(Funs)) /\ Len(loclist') = Len(loclist) + 1
      /\ mode' \in {"run", "error"} /\ fault' \in Faults \cup {"none"}
      /\ FaultStays /\ DefsSaved'
  BY EvAtomsLocs
<1>6. Changes(f)
  <2>1. Len(loclist') + Entry(Top) = Len(loclist) + Entry(f)
    BY <1>3, <1>5 DEF StacksInv, TypeOK
  <2> QED
    BY <1>1, <1>2, <1>4, <2>1 DEF Changes, Bound
<1> QED
  BY <1>2, <1>4, <1>5, <1>6, ChangedStep DEF Bound

LEMMA EvBodyStep ==
    ASSUME StacksInv, EvBody
    PROVE  StacksInv'
<1> DEFINE f == [Top EXCEPT !.stage = "body"]
<1> DEFINE k == Len(Top.names)
<1>1. /\ stack # <<>> /\ Top.stage = "atoms" /\ Top.kind = "ev" /\ stack' = WithTop(f)
      /\ UNCHANGED <<localVars, mode, fault>>
  BY DEF EvBody, Running
<1>2. /\ Top \in Frames /\ f \in Frames
      /\ f.kind = "ev" /\ f.binds = Top.binds /\ f.locs = Top.locs /\ f.stage = "body"
      /\ BoundNames(f) = Top.names /\ BoundNames(Top) = Top.names /\ Top.names \in Seq(Vars)
      /\ Top.binds \in Nat /\ Top.binds + k = Len(bindlist) /\ Len(mspeclist) = Len(bindlist)
  BY <1>1, TopFacts DEF Frames, BoundNames
<1>3. Entry(Top) = 1 /\ Entry(f) = 1
  BY <1>1, <1>2 DEF Entry, HasEntry
<1> HIDE DEF f
<1>4. PICK news \in Inits(Top.names) :
          Mbind(Top.names, news, Undone(Top.names, mspeclist, value),
                Cut(bindlist, Len(Top.names)), Cut(mspeclist, Len(Top.names)))
  BY DEF EvBody
<1>5. value \in [Vars -> Cells] /\ bindlist \in Seq(Vars) /\ mspeclist \in Seq(Cells)
  BY DEF StacksInv, TypeOK, Cells
<1>6. k \in Nat /\ k \in 0 .. Len(bindlist) /\ k \in 0 .. Len(mspeclist)
  BY <1>2
<1>7. /\ Cut(bindlist, k) \in Seq(Vars) /\ Len(Cut(bindlist, k)) = Top.binds
      /\ \A i \in 1 .. Top.binds : Cut(bindlist, k)[i] = bindlist[i]
      /\ Cut(mspeclist, k) \in Seq(Cells) /\ Len(Cut(mspeclist, k)) = Top.binds
  <2>1. Len(bindlist) - k = Top.binds /\ Len(mspeclist) - k = Top.binds
    BY <1>2, <1>6
  <2> QED
    BY <1>5, <1>6, <2>1, CutFacts
<1>8. Bound(Top.names, Cut(bindlist, k), Cut(mspeclist, k))
  <2>1. news \in [1 .. Len(Top.names) -> Cells]
    BY <1>2, <1>4, InitsType
  <2>2. Undone(Top.names, mspeclist, value) \in [Vars -> Cells]
    BY <1>2, <1>5, <1>6, UndoneFacts
  <2> QED
    BY <1>2, <1>4, <1>7, <2>1, <2>2, MbindFacts
<1>9. Changes(f)
  <2>1. \A i \in 1 .. Top.binds : bindlist'[i] = bindlist[i]
    BY <1>7, <1>8 DEF Bound
  <2>2. /\ Len(mspeclist') = Len(bindlist')
        /\ Len(bindlist') = Top.binds + Len(BoundNames(f))
        /\ \A i \in 1 .. Len(BoundNames(f)) : bindlist'[Top.binds + i] = BoundNames(f)[i]
    BY <1>2, <1>7, <1>8 DEF Bound
  <2>3. Len(loclist') + Entry(Top) = Len(loclist) + Entry(f)
    BY <1>1, <1>3 DEF localVars
  <2> QED
    BY <1>1, <1>2, <2>1, <2>2, <2>3 DEF Changes
<1>10. FaultStays /\ DefsSaved'
  BY <1>1 DEF StacksInv, DefsSaved, FaultStays, localVars
<1> QED
  BY <1>1, <1>2, <1>8, <1>9, <1>10, ChangedStep DEF Bound, StacksInv, TypeOK, localVars, Defs

LEMMA EvBodyFailsStep ==
    ASSUME StacksInv, EvBodyFails
    PROVE  StacksInv'
<1> DEFINE f == [Top EXCEPT !.stage = "body", !.names = <<>>]
<1>1. /\ stack # <<>> /\ Top.stage = "atoms" /\ Top.kind = "ev" /\ stack' = WithTop(f)
      /\ mode' = "error" /\ UNCHANGED <<localVars, fault>> /\ Munbind(Top.names)
  BY DEF EvBodyFails, Running
<1>2. /\ Top \in Frames /\ f \in Frames
      /\ f.kind = "ev" /\ f.binds = Top.binds /\ f.locs = Top.locs /\ f.stage = "body"
      /\ BoundNames(f) = <<>> /\ Len(BoundNames(f)) = 0
      /\ BoundNames(Top) = Top.names /\ Top.names \in Seq(Vars) /\ Len(Top.names) \in Nat
      /\ Top.binds \in Nat /\ Top.binds + Len(Top.names) = Len(bindlist)
      /\ Len(mspeclist) = Len(bindlist)
  BY <1>1, TopFacts, EmptySeq DEF Frames, BoundNames
<1>3. Entry(Top) = 1 /\ Entry(f) = 1
  BY <1>1, <1>2 DEF Entry, HasEntry
<1> HIDE DEF f
<1>4. Unbinds(Len(Top.names))
  BY <1>1, <1>2, MunbindFacts DEF StacksInv
<1>5. Len(bindlist) - Len(Top.names) = Top.binds
  BY <1>2
<1>6. Changes(f)
  <2>1. Len(loclist') + Entry(Top) = Len(loclist) + Entry(f)
    BY <1>1, <1>3 DEF localVars
  <2>2. /\ Len(bindlist') = Top.binds + Len(BoundNames(f)) /\ Len(mspeclist') = Len(bindlist')
        /\ \A i \in 1 .. Top.binds : bindlist'[i] = bindlist[i]
    BY <1>2, <1>4, <1>5 DEF Unbinds
  <2>3. \A i \in 1 .. Len(BoundNames(f)) : bindlist'[Top.binds + i] = BoundNames(f)[i]
    BY <1>2
  <2> QED
    BY <1>1, <1>2, <2>1, <2>2, <2>3 DEF Changes
<1>7. FaultStays /\ DefsSaved'
  BY <1>1 DEF StacksInv, DefsSaved, FaultStays, localVars
<1> QED
  BY <1>1, <1>2, <1>4, <1>6, <1>7, ChangedStep DEF Unbinds, StacksInv, TypeOK, localVars, Defs

\* A step in which no evaluation begins, changes or ends.
LEMMA KeptStep ==
    ASSUME StacksInv, TypeOK', DefsSaved', FaultStays, Keeps
    PROVE  StacksInv'
BY KeepsStep DEF StacksInv, FrameInv

\* Nothing but the cells, the mode and the fault is changed.
LEMMA QuietStep ==
    ASSUME StacksInv, UNCHANGED <<bindlist, mspeclist, loclist, mproplist, stack>>,
           value' \in [Vars -> Cells], prop' \in [Funs -> Defs],
           mode' \in {"run", "error", "return", "go", "throw"},
           fault' \in Faults \cup {"none"}, FaultStays
    PROVE  StacksInv'
<1>1. TypeOK'
  BY DEF StacksInv, TypeOK, Cells, Defs
<1>2. DefsSaved'
  BY DEF StacksInv, DefsSaved, FaultStays
<1>3. Keeps
  BY DEF Keeps
<1> QED
  BY <1>1, <1>2, <1>3, KeptStep

\* Only the mode changes.
LEMMA ModeStep ==
    ASSUME StacksInv, UNCHANGED <<valueVars, localVars, stack, fault>>,
           mode' \in {"run", "error", "return", "go", "throw"}
    PROVE  StacksInv'
BY QuietStep DEF valueVars, localVars, StacksInv, TypeOK, Cells, Defs, FaultStays

LEMMA BindPartlyStep ==
    ASSUME StacksInv, BindPartly
    PROVE  StacksInv'
<1>1. PICK q \in 1 .. Len(Top.names), w \in Values : value' = [value EXCEPT ![Top.names[q]] = w]
  BY DEF BindPartly
<1>2. value' \in [Vars -> Cells]
  BY <1>1 DEF StacksInv, TypeOK, Cells
<1>3. fault' \in Faults \cup {"none"} /\ fault' # "none"
  BY FirstFaultFacts DEF BindPartly, Faults
<1> QED
  BY <1>2, <1>3, QuietStep DEF BindPartly, localVars, StacksInv, TypeOK, Defs, FaultStays

LEMMA AssignStep ==
    ASSUME StacksInv, Assign
    PROVE  StacksInv'
<1>1. value' \in [Vars -> Cells]
  BY DEF Assign, StacksInv, TypeOK, Cells
<1> QED
  BY <1>1, QuietStep DEF Assign, localVars, StacksInv, TypeOK, Defs, FaultStays

LEMMA DefineStep ==
    ASSUME StacksInv, Define
    PROVE  StacksInv'
<1>1. prop' \in [Funs -> Defs]
  BY DEF Define, StacksInv, TypeOK, Defs
<1> QED
  BY <1>1, QuietStep DEF Define, valueVars, StacksInv, TypeOK, Cells, FaultStays

\* The innermost block or call is one of the evaluations.
LEMMA InnermostFacts ==
    ASSUME StacksInv, Innermost # 0
    PROVE  /\ Innermost \in 1 .. Len(stack)
           /\ stack[Innermost].kind \in {"block", "lambda"}
           /\ \A r \in 1 .. Len(stack) : stack[r].kind \in {"block", "lambda"} => r <= Innermost
<1> DEFINE S == {q \in 1 .. Len(stack) : stack[q].kind \in {"block", "lambda"}}
<1>1. S # {} /\ Innermost = CHOOSE q \in S : \A r \in S : r <= q
  BY DEF Innermost
<1>2. Len(stack) \in Nat /\ S \in SUBSET (0 .. Len(stack))
  BY DEF StacksInv, TypeOK
<1>3. \E q \in S : \A r \in S : r <= q
  BY <1>1, <1>2, GreatestNatural
<1> QED
  BY <1>1, <1>3

\* local replaces the last entry of loclist.
LEMMA LocalFacts ==
    ASSUME StacksInv, loclist # <<>>, NEW l \in Seq(Funs)
    PROVE  LET new == Append(Cut(loclist, 1), l)
           IN /\ new \in Seq(Seq(Funs)) /\ Len(new) = Len(loclist)
              /\ Last(loclist) \in Seq(Funs)
              /\ loclist = Append(Cut(loclist, 1), Last(loclist))
              /\ Len(FlattenSeq(new)) + Len(Last(loclist)) = Len(FlattenSeq(loclist)) + Len(l)
<1>0. loclist \in Seq(Seq(Funs)) /\ Len(loclist) \in Nat \ {0} /\ 1 \in 0 .. Len(loclist)
  BY EmptySeq DEF StacksInv, TypeOK
<1>1. PICK kept \in Seq(Seq(Funs)) : kept = Cut(loclist, 1)
  BY <1>0, CutFacts
<1>2. Len(kept) = Len(loclist) - 1 /\ \A i \in 1 .. Len(loclist) - 1 : kept[i] = loclist[i]
  BY <1>0, <1>1, CutFacts
<1>3. Last(loclist) = loclist[Len(loclist)] /\ Last(loclist) \in Seq(Funs)
  BY <1>0, ElementOfSeq DEF Last
<1>4. loclist = Append(kept, Last(loclist))
  <2>1. PICK e \in Seq(Funs) : e = Last(loclist)
    BY <1>3
  <2>2. Append(kept, e) \in Seq(Seq(Funs)) /\ Len(Append(kept, e)) = Len(loclist)
    BY <1>0, <1>2
  <2>3. \A i \in 1 .. Len(loclist) : loclist[i] = Append(kept, e)[i]
    BY <1>0, <1>2, <1>3, <2>1
  <2> QED
    BY <1>0, <2>1, <2>2, <2>3, SeqEqual
<1>5. /\ FlattenSeq(loclist) = FlattenSeq(kept) \o Last(loclist)
      /\ FlattenSeq(Append(kept, l)) = FlattenSeq(kept) \o l
      /\ FlattenSeq(kept) \in Seq(Funs)
  BY <1>3, <1>4, FlattenAppend, FlattenType
<1>6. /\ Len(FlattenSeq(loclist)) = Len(FlattenSeq(kept)) + Len(Last(loclist))
      /\ Len(FlattenSeq(Append(kept, l))) = Len(FlattenSeq(kept)) + Len(l)
      /\ Len(FlattenSeq(kept)) \in Nat /\ Len(l) \in Nat /\ Len(Last(loclist)) \in Nat
  BY <1>3, <1>5
<1>7. Append(kept, l) \in Seq(Seq(Funs)) /\ Len(Append(kept, l)) = Len(loclist)
  BY <1>0, <1>2, AppendProperties
<1> QED
  BY <1>1, <1>3, <1>4, <1>6, <1>7

\* local takes the mlocp of the innermost block or call; the evaluations are
\* what they were in all else.
LEMMA LocalFrames ==
    ASSUME StacksInv, Local, Len(loclist') = Len(loclist)
    PROVE  stack' \in Seq(Frames) /\ Keeps
<1>1. Innermost \in 1 .. Len(stack) /\ stack' = [stack EXCEPT ![Innermost].mlocp = FALSE]
  BY InnermostFacts DEF Local, Mlocp
<1>2. stack \in Seq(Frames)
  BY DEF StacksInv, TypeOK
<1>3. PICK g \in Frames : g = [stack[Innermost] EXCEPT !.mlocp = FALSE]
  <2>1. \A f \in Frames : [f EXCEPT !.mlocp = FALSE] \in Frames
    BY DEF Frames
  <2> QED
    BY <1>1, <1>2, <2>1
<1>4. stack' = [stack EXCEPT ![Innermost] = g]
  BY <1>1, <1>3
<1>5. stack' \in Seq(Frames) /\ Len(stack') = Len(stack)
  BY <1>1, <1>2, <1>3, <1>4, ExceptSeq
<1>6. \A q \in 1 .. Len(stack) :
        stack'[q] = IF q = Innermost THEN [stack[q] EXCEPT !.mlocp = FALSE] ELSE stack[q]
  <2>1. \A q \in 1 .. Len(stack) :
          [stack EXCEPT ![Innermost] = g][q] = IF q = Innermost THEN g ELSE stack[q]
    BY <1>1, <1>2, <1>3, ExceptSeq
  <2> QED
    BY <1>3, <1>4, <2>1
<1>7. \A q \in 1 .. Len(stack) : stack[q] \in Frames
  BY <1>2
<1>8. \A q \in 1 .. Len(stack) :
        /\ stack'[q].kind = stack[q].kind /\ stack'[q].stage = stack[q].stage
        /\ stack'[q].names = stack[q].names
        /\ stack'[q].binds = stack[q].binds /\ stack'[q].locs = stack[q].locs
  <2>1. ASSUME NEW f \in Frames, NEW h, h = [f EXCEPT !.mlocp = FALSE]
        PROVE  /\ h.kind = f.kind /\ h.stage = f.stage /\ h.names = f.names
               /\ h.binds = f.binds /\ h.locs = f.locs
    BY <2>1 DEF Frames
  <2> QED
    BY <1>6, <1>7, <2>1
<1> QED
  BY <1>5, <1>8 DEF Keeps, Local, valueVars

LEMMA LocalStep ==
    ASSUME StacksInv, Local
    PROVE  StacksInv'
<1>1. PICK l \in FunLists : Hide(l) /\ loclist' = Append(Cut(loclist, 1), l)
  BY DEF Local
<1>2. l \in Seq(Funs) /\ Len(l) \in Nat
  BY <1>1, ListsAssumption
<1>3. /\ prop' \in [Funs -> Defs] /\ mproplist' \in Seq(Defs)
      /\ Len(mproplist') = Len(mproplist) + Len(l)
  BY <1>1, <1>2, HideFacts DEF StacksInv
<1>4. /\ loclist' \in Seq(Seq(Funs)) /\ Len(loclist') = Len(loclist)
      /\ Last(loclist) \in Seq(Funs)
      /\ Len(FlattenSeq(loclist')) + Len(Last(loclist)) = Len(FlattenSeq(loclist)) + Len(l)
  BY <1>1, <1>2, LocalFacts DEF Local
<1>6. /\ fault' \in Faults \cup {"none"} /\ FaultStays
      /\ fault' = "none" => Last(loclist) = <<>>
  <2>1. CASE Last(loclist) = <<>>
    BY <2>1 DEF Local, StacksInv, TypeOK, FaultStays
  <2>2. CASE Last(loclist) # <<>>
    <3>1. FirstFault("entry")
      BY <2>2 DEF Local
    <3> QED
      BY <3>1, FirstFaultFacts DEF FaultStays, Faults
  <2> QED
    BY <2>1, <2>2
<1>7. stack' \in Seq(Frames) /\ Keeps
  BY <1>4, LocalFrames
<1>8. DefsSaved'
  <2>1. FlattenSeq(loclist) \in Seq(Funs) /\ FlattenSeq(loclist') \in Seq(Funs)
    BY <1>4, FlattenType DEF StacksInv, TypeOK
  <2>2. /\ Len(FlattenSeq(loclist)) \in Nat /\ Len(FlattenSeq(loclist')) \in Nat
        /\ Len(Last(loclist)) \in Nat /\ Len(mproplist) \in Nat
    BY <1>4, <2>1 DEF StacksInv, TypeOK
  <2>3. Last(loclist) = <<>> => Len(Last(loclist)) = 0
    BY EmptySeq
  <2> QED
    BY <1>2, <1>3, <1>4, <1>6, <2>2, <2>3 DEF DefsSaved, StacksInv, FaultStays
<1>9. TypeOK'
  BY <1>3, <1>4, <1>6, <1>7 DEF Local, StacksInv, TypeOK, Defs, valueVars
<1> QED
  BY <1>6, <1>7, <1>8, <1>9, KeptStep

\* A local that fails saves properties whose functions are on no list.
LEMMA HiddenStep ==
    ASSUME StacksInv, NEW l \in Seq(Funs), Hide(l),
           UNCHANGED <<valueVars, loclist, stack>>,
           mode' = "error", fault' \in Faults, fault' # "none"
    PROVE  StacksInv'
<1>1. /\ prop' \in [Funs -> Defs] /\ mproplist' \in Seq(Defs)
      /\ Len(mproplist') = Len(mproplist) + Len(l) /\ Len(l) \in Nat /\ Len(mproplist) \in Nat
  BY HideFacts DEF StacksInv, TypeOK
<1>2. FlattenSeq(loclist) \in Seq(Funs) /\ Len(FlattenSeq(loclist)) \in Nat
  BY FlattenType DEF StacksInv, TypeOK
<1>3. DefsSaved'
  BY <1>1, <1>2 DEF StacksInv, DefsSaved
<1>4. TypeOK'
  BY <1>1 DEF StacksInv, TypeOK, Defs, valueVars
<1>5. Keeps /\ FaultStays
  BY DEF Keeps, valueVars, FaultStays
<1> QED
  BY <1>3, <1>4, <1>5, KeptStep

LEMMA LocalFailsStep ==
    ASSUME StacksInv, LocalFails \/ LocalHasNoEntry
    PROVE  StacksInv'
<1>1. UNCHANGED <<valueVars, loclist, stack>> /\ mode' = "error"
  BY DEF LocalFails, LocalHasNoEntry
<1>2. fault' \in Faults /\ fault' # "none"
  <2>1. \E kind \in Faults : FirstFault(kind)
    BY DEF LocalFails, LocalHasNoEntry, Faults
  <2> QED
    BY <2>1, FirstFaultFacts
<1>3. \E l \in Seq(Funs) : Hide(l)
  <2>1. CASE LocalHasNoEntry
    BY <2>1, ListsAssumption DEF LocalHasNoEntry
  <2>2. CASE LocalFails
    <3>1. PICK l \in FunLists : \E n \in 1 .. Len(l) : Hide(SubSeq(l, 1, n))
      BY <2>2 DEF LocalFails
    <3>2. PICK n \in 1 .. Len(l) : Hide(SubSeq(l, 1, n))
      BY <3>1
    <3>3. l \in Seq(Funs)
      BY <3>1, ListsAssumption
    <3>4. SubSeq(l, 1, n) \in Seq(Funs)
      BY <3>2, <3>3, SubSeqProperties, ElementOfSeq
    <3> QED
      BY <3>2, <3>4
  <2> QED
    BY <2>1, <2>2
<1> QED
  BY <1>1, <1>2, <1>3, HiddenStep

LEMMA StacksInit ==
    ASSUME Init
    PROVE  StacksInv
<1>1. TypeOK
  BY EmptySeq DEF Init, TypeOK
<1>2. Len(stack) = 0 /\ Len(bindlist) = 0 /\ Len(mspeclist) = 0 /\ Len(loclist) = 0
  BY EmptySeq DEF Init
<1>3. CatchesBare /\ BindsChained /\ BindsOrdered /\ LocsOrdered /\ LocsChained
  BY <1>2 DEF Init, CatchesBare, BindsChained, BindsOrdered, LocsOrdered, LocsChained
<1>4. DefsSaved
  <2>1. FlattenSeq(loclist) = <<>> /\ Len(FlattenSeq(loclist)) = 0 /\ Len(mproplist) = 0
    BY FlattenEmpty, EmptySeq DEF Init
  <2> QED
    BY <2>1 DEF DefsSaved
<1> QED
  BY <1>1, <1>3, <1>4 DEF StacksInv

LEMMA StacksNext ==
    ASSUME StacksInv, [Next]_vars
    PROVE  StacksInv'
<1>1. CASE EnterScope
  BY <1>1, EnterScopeStep
<1>2. CASE EnterCatch
  BY <1>2, EnterCatchStep
<1>3. CASE Bind
  BY <1>3, BindStep
<1>4. CASE BindPartly
  BY <1>4, BindPartlyStep
<1>5. CASE Local
  BY <1>5, LocalStep
<1>6. CASE LocalFails \/ LocalHasNoEntry
  BY <1>6, LocalFailsStep
<1>7. CASE EvAtoms
  BY <1>7, EvAtomsStep
<1>8. CASE EvBody
  BY <1>8, EvBodyStep
<1>9. CASE EvBodyFails
  BY <1>9, EvBodyFailsStep
<1>10. CASE Assign
  BY <1>10, AssignStep
<1>11. CASE Define
  BY <1>11, DefineStep
<1>12. CASE Leave
  BY <1>12, LeaveStep
<1>13. CASE Raise \/ Return \/ Go \/ Throw \/ GoLands \/ LandingFails \/ TopLevel
  BY <1>13, ModeStep DEF Raise, Return, Go, Throw, GoLands, LandingFails, TopLevel
<1>14. CASE Unwind
  BY <1>14, UnwindStep
<1>15. CASE Caught
  BY <1>15, CaughtStep
<1>16. CASE ThrowLands \/ ReturnLands
  BY <1>16, LandsStep
<1>17. CASE UNCHANGED vars
  BY <1>17, QuietStep DEF vars, StacksInv, TypeOK, Cells, Defs, FaultStays
<1> QED
  BY <1>1, <1>2, <1>3, <1>4, <1>5, <1>6, <1>7, <1>8, <1>9, <1>10, <1>11, <1>12, <1>13,
     <1>14, <1>15, <1>16, <1>17 DEF Next

-----------------------------------------------------------------------------
(* The invariants.                                                         *)

LEMMA StacksAlways == Spec => []StacksInv
<1>1. Init => StacksInv
  BY StacksInit
<1>2. StacksInv /\ [Next]_vars => StacksInv'
  BY StacksNext
<1> QED
  BY <1>1, <1>2, PTL DEF Spec

\* The cells hold values, the stacks hold what they are for, and an evaluation
\* is what mlambda, mprog, mdo, ev and the catches make: for any lists of names.
THEOREM StacksTypeCorrect == Spec => []TypeOK
<1>1. StacksInv => TypeOK
  BY DEF StacksInv
<1> QED
  BY <1>1, StacksAlways, PTL

\* What an errcatch or catch has found is still the beginning of bindlist and of
\* loclist, whatever has gone wrong inside: errlfun1 always comes to its end.
THEOREM CatchesFindTheirTails == Spec => []TailsKept
<1>1. StacksInv => TailsKept
  <2> SUFFICES ASSUME StacksInv, NEW q \in 1 .. Len(stack)
               PROVE  stack[q].binds <= Len(bindlist) /\ stack[q].locs <= Len(loclist)
    BY DEF TailsKept
  <2>1. stack[q] \in Frames /\ Len(bindlist) \in Nat /\ Len(loclist) \in Nat
    BY DEF StacksInv, TypeOK
  <2>2. /\ stack[q].binds \in Nat /\ Len(BoundNames(stack[q])) \in Nat
        /\ stack[q].locs \in Nat /\ Entry(stack[q]) \in {0, 1}
    BY <2>1, FrameFacts
  <2>3. /\ stack[q].binds + Len(BoundNames(stack[q])) <= Len(bindlist)
        /\ stack[q].locs + Entry(stack[q]) <= Len(loclist)
    BY DEF StacksInv, BindsOrdered, LocsOrdered
  <2> QED
    BY <2>1, <2>2, <2>3
<1> QED
  BY <1>1, StacksAlways, PTL

\* bindlist is exactly what the evaluations have bound, one after the other.
THEOREM BindingsAreNested == Spec => []BindlistIsNested
<1>1. StacksInv => BindlistIsNested
  <2> SUFFICES ASSUME StacksInv
               PROVE  BindlistIsNested
    OBVIOUS
  <2>1. ASSUME NEW q \in 1 .. Len(stack)
        PROVE  /\ stack[q].binds + Len(BoundNames(stack[q])) = BindsEnd(q)
               /\ SubSeq(bindlist, stack[q].binds + 1, BindsEnd(q)) = BoundNames(stack[q])
    <3>1. PICK names \in Seq(Vars) : names = BoundNames(stack[q])
      BY FrameFacts DEF StacksInv, TypeOK
    <3>2. PICK start \in Nat : start = stack[q].binds
      <4>1. stack[q] \in Frames
        BY DEF StacksInv, TypeOK
      <4> QED
        BY <4>1, FrameFacts
    <3>3. /\ start + Len(names) = BindsEnd(q)
          /\ \A i \in 1 .. Len(names) : bindlist[start + i] = names[i]
      BY <3>1, <3>2 DEF StacksInv, BindsChained
    <3>4. start + Len(names) <= Len(bindlist) /\ bindlist \in Seq(Vars) /\ Len(names) \in Nat
      BY <3>1, <3>2 DEF StacksInv, BindsOrdered, TypeOK
    <3>5. \A i \in start + 1 .. start + Len(names) : bindlist[i] \in Vars
      BY <3>4, ElementOfSeq
    <3>6. /\ SubSeq(bindlist, start + 1, start + Len(names)) \in Seq(Vars)
          /\ Len(SubSeq(bindlist, start + 1, start + Len(names))) = Len(names)
          /\ \A i \in 1 .. Len(names) :
                SubSeq(bindlist, start + 1, start + Len(names))[i] = bindlist[start + i]
      BY <3>4, <3>5, SubSeqProperties
    <3>7. SubSeq(bindlist, start + 1, start + Len(names)) = names
      BY <3>1, <3>3, <3>6, SeqEqual
    <3> QED
      BY <3>1, <3>2, <3>3, <3>7
  <2> QED
    BY <2>1 DEF StacksInv, BindsChained, BindlistIsNested, BindsEnd
<1> QED
  BY <1>1, StacksAlways, PTL

\* No return or go is ever refused as illegal: where it lands, every binding
\* made inside has been taken back.
THEOREM ReturnsNeverIllegal == Spec => []ReturnsAreLegal
<1>1. StacksInv => ReturnsAreLegal
  <2> SUFFICES ASSUME StacksInv, mode \in {"return", "go"}, stack # <<>>, Stops(Top)
               PROVE  IsLegal(Top)
    BY DEF ReturnsAreLegal
  <2>1. BoundNames(Top) = Top.names
    BY DEF Stops, IsTarget, BoundNames
  <2> QED
    BY <2>1, TopFacts DEF IsLegal
<1> QED
  BY <1>1, StacksAlways, PTL

-----------------------------------------------------------------------------
(* The refinement of Scopes.                                               *)

-----------------------------------------------------------------------------
(* Scopes as functions of the stacks.                                      *)

ScopeIn(f, ml, ll, pl) ==
    [vals |-> Slice(ml, f.binds, BoundNames(f)),
     defs |-> IF HasEntry(f)
                THEN Slice(pl, Len(FlattenSeq(SubSeq(ll, 1, f.locs))), ll[f.locs + 1])
                ELSE <<>>,
     hides |-> HasEntry(f)]

Plain == [vals |-> <<>>, defs |-> <<>>, hides |-> FALSE]

LEMMA ToSetIs ==
    ASSUME NEW X, NEW names \in Seq(X), NEW n
    PROVE  n \in ToSet(names) <=> Occurs(n, names)
BY DEF ToSet, Occurs

LEMMA ToSetType ==
    ASSUME NEW X, NEW names \in Seq(X)
    PROVE  ToSet(names) \in SUBSET X
BY ElementOfSeq DEF ToSet

\* A function on nothing is the empty sequence.
LEMMA NoFunction ==
    ASSUME NEW g, g = [n \in {} |-> g[n]]
    PROVE  g = <<>>
<1>1. <<>> \in [1 .. 0 -> {}]
  BY EmptySeq, SeqDef
<1>2. 1 .. 0 = {}
  OBVIOUS
<1> QED
  BY <1>1, <1>2

LEMMA SliceOfNone == \A s, start : Slice(s, start, <<>>) = <<>>
<1> SUFFICES ASSUME NEW s, NEW start PROVE Slice(s, start, <<>>) = <<>>
  OBVIOUS
<1>1. ToSet(<<>>) = {}
  BY EmptySeq DEF ToSet
<1> DEFINE g == Slice(s, start, <<>>)
<1>2. g = [n \in {} |-> g[n]]
  BY <1>1 DEF Slice
<1> QED
  BY <1>2, NoFunction

\* Two stacks have the same n entries above the start.
Agree(s, t, start, n) == \A i \in 1 .. n : t[start + i] = s[start + i]

LEMMA AgreePart ==
    ASSUME NEW s, NEW t, NEW k \in Nat, Agree(s, t, 0, k),
           NEW start \in Nat, NEW n \in Nat, start + n <= k
    PROVE  Agree(s, t, start, n)
<1>1. \A i \in 1 .. k : t[i] = s[i]
  BY DEF Agree
<1>2. \A i \in 1 .. n : start + i \in 1 .. k
  OBVIOUS
<1> QED
  BY <1>1, <1>2 DEF Agree

LEMMA SliceSame ==
    ASSUME NEW X, NEW names \in Seq(X), NEW start, NEW s, NEW t,
           Agree(s, t, start, Len(names))
    PROVE  Slice(t, start, names) = Slice(s, start, names)
<1>1. \A n \in ToSet(names) : FirstOf(n, names) \in 1 .. Len(names)
  BY ToSetIs, FirstOfFacts
<1>2. \A n \in ToSet(names) : t[start + FirstOf(n, names)] = s[start + FirstOf(n, names)]
  BY <1>1 DEF Agree
<1> QED
  BY <1>2 DEF Slice

LEMMA Prefix ==
    ASSUME NEW X, NEW s \in Seq(X), NEW j \in Nat, j <= Len(s)
    PROVE  /\ SubSeq(s, 1, j) \in Seq(X) /\ Len(SubSeq(s, 1, j)) = j
           /\ \A i \in 1 .. j : SubSeq(s, 1, j)[i] = s[i]
<1>1. \A i \in 1 .. j : s[i] \in X
  BY ElementOfSeq
<1> QED
  BY <1>1, SubSeqProperties

LEMMA PrefixAppend ==
    ASSUME NEW X, NEW s \in Seq(X), NEW j \in Nat, j < Len(s)
    PROVE  s[j + 1] \in X /\ SubSeq(s, 1, j + 1) = Append(SubSeq(s, 1, j), s[j + 1])
<1>0. j + 1 \in 1 .. Len(s) /\ j + 1 \in Nat /\ j + 1 <= Len(s) /\ j <= Len(s)
  OBVIOUS
<1>1. PICK e \in X : e = s[j + 1]
  BY <1>0, ElementOfSeq
<1>2. PICK a \in Seq(X) : a = SubSeq(s, 1, j)
  BY <1>0, Prefix
<1>3. PICK b \in Seq(X) : b = SubSeq(s, 1, j + 1)
  BY <1>0, Prefix
<1>4. Len(a) = j /\ \A i \in 1 .. j : a[i] = s[i]
  BY <1>0, <1>2, Prefix
<1>5. Len(b) = j + 1 /\ \A i \in 1 .. j + 1 : b[i] = s[i]
  BY <1>0, <1>3, Prefix
<1>6. /\ Append(a, e) \in Seq(X) /\ Len(Append(a, e)) = j + 1
      /\ \A i \in 1 .. j + 1 : b[i] = Append(a, e)[i]
  BY <1>1, <1>4, <1>5
<1>7. b = Append(a, e)
  BY <1>5, <1>6, SeqEqual
<1> QED
  BY <1>1, <1>2, <1>3, <1>7

\* What two lists have in common, they have in common in every part of it.
LEMMA PrefixesAgree ==
    ASSUME NEW X, NEW s \in Seq(X), NEW t \in Seq(X), NEW m \in Nat,
           m <= Len(s), m <= Len(t), SubSeq(t, 1, m) = SubSeq(s, 1, m), NEW j \in Nat, j < m
    PROVE  SubSeq(t, 1, j) = SubSeq(s, 1, j) /\ t[j + 1] = s[j + 1]
<1>0. j <= Len(s) /\ j <= Len(t) /\ j + 1 \in 1 .. m
  OBVIOUS
<1>1. \A i \in 1 .. m : SubSeq(s, 1, m)[i] = s[i]
  BY Prefix
<1>2. \A i \in 1 .. m : SubSeq(t, 1, m)[i] = t[i]
  BY Prefix
<1>3. \A i \in 1 .. m : t[i] = s[i]
  BY <1>1, <1>2
<1>4. PICK a \in Seq(X) : a = SubSeq(s, 1, j)
  BY <1>0, Prefix
<1>5. PICK b \in Seq(X) : b = SubSeq(t, 1, j)
  BY <1>0, Prefix
<1>6. Len(a) = j /\ \A i \in 1 .. j : a[i] = s[i]
  BY <1>0, <1>4, Prefix
<1>7. Len(b) = j /\ \A i \in 1 .. j : b[i] = t[i]
  BY <1>0, <1>5, Prefix
<1>8. \A i \in 1 .. j : i \in 1 .. m
  OBVIOUS
<1>9. \A i \in 1 .. j : b[i] = a[i]
  BY <1>3, <1>6, <1>7, <1>8
<1>10. b = a
  BY <1>6, <1>7, <1>9, SeqEqual
<1> QED
  BY <1>0, <1>3, <1>4, <1>5, <1>10

LEMMA PrefixOfPrefix ==
    ASSUME NEW X, NEW s \in Seq(X), NEW m \in Nat, m <= Len(s), NEW j \in Nat, j < m
    PROVE  /\ SubSeq(SubSeq(s, 1, m), 1, j) = SubSeq(s, 1, j)
           /\ SubSeq(s, 1, m)[j + 1] = s[j + 1]
<1>1. PICK t \in Seq(X) : t = SubSeq(s, 1, m)
  BY Prefix
<1>2. Len(t) = m
  BY <1>1, Prefix
<1>3. SubSeq(t, 1, m) = SubSeq(s, 1, m)
  BY <1>1, <1>2, SubSeqFull
<1>4. m <= Len(t)
  BY <1>2
<1>5. SubSeq(t, 1, j) = SubSeq(s, 1, j) /\ t[j + 1] = s[j + 1]
  BY <1>1, <1>3, <1>4, PrefixesAgree
<1> QED
  BY <1>1, <1>5

\* The flattening of the first entries of a list of lists is the beginning of its
\* flattening.
LEMMA FlattenPart ==
    ASSUME NEW X, NEW ll \in Seq(Seq(X)), NEW j \in Nat, j < Len(ll)
    PROVE  /\ SubSeq(ll, 1, j) \in Seq(Seq(X)) /\ ll[j + 1] \in Seq(X)
           /\ Len(FlattenSeq(SubSeq(ll, 1, j))) \in Nat /\ Len(ll[j + 1]) \in Nat
           /\ Len(FlattenSeq(ll)) \in Nat
           /\ Len(FlattenSeq(SubSeq(ll, 1, j))) + Len(ll[j + 1]) <= Len(FlattenSeq(ll))
<1>0. Len(ll) \in Nat /\ j + 1 \in 1 .. Len(ll) /\ j + 1 \in Nat /\ j + 1 <= Len(ll) /\ j <= Len(ll)
  OBVIOUS
<1>1. PICK e \in Seq(X) : e = ll[j + 1]
  BY <1>0, ElementOfSeq
<1>2. PICK a \in Seq(Seq(X)) : a = SubSeq(ll, 1, j)
  BY <1>0, Prefix
<1>3. PICK b \in Seq(Seq(X)) : b = SubSeq(ll, j + 2, Len(ll))
  <2>1. j + 2 \in Int /\ Len(ll) \in Int /\ \A i \in j + 2 .. Len(ll) : i \in 1 .. Len(ll)
    BY <1>0
  <2>2. \A i \in j + 2 .. Len(ll) : ll[i] \in Seq(X)
    BY <2>1, ElementOfSeq
  <2>3. SubSeq(ll, j + 2, Len(ll)) \in Seq(Seq(X))
    BY <2>1, <2>2, SubSeqProperties
  <2> QED
    BY <2>3
<1>4. SubSeq(ll, 1, j + 1) = Append(a, e)
  BY <1>1, <1>2, PrefixAppend
<1>5. ll = Append(a, e) \o b
  <2>1. /\ 1 \in 1 .. Len(ll) + 1 /\ j + 1 \in 1 - 1 .. Len(ll)
        /\ Len(ll) \in j + 1 .. Len(ll) /\ j + 1 + 1 = j + 2
    BY <1>0
  <2>2. SubSeq(ll, 1, j + 1) \o SubSeq(ll, j + 1 + 1, Len(ll)) = SubSeq(ll, 1, Len(ll))
    BY <2>1, ConcatAdjacentSubSeq
  <2>3. SubSeq(ll, 1, j + 1) \o SubSeq(ll, j + 2, Len(ll)) = ll
    BY <2>1, <2>2, SubSeqFull
  <2> QED
    BY <1>3, <1>4, <2>3
<1>6. FlattenSeq(a) \in Seq(X) /\ FlattenSeq(b) \in Seq(X)
  BY FlattenType
<1>7. Append(a, e) \in Seq(Seq(X))
  OBVIOUS
<1>8. FlattenSeq(ll) = (FlattenSeq(a) \o e) \o FlattenSeq(b)
  <2>1. FlattenSeq(Append(a, e) \o b) = FlattenSeq(Append(a, e)) \o FlattenSeq(b)
    BY <1>7, FlattenConcat
  <2>2. FlattenSeq(Append(a, e)) = FlattenSeq(a) \o e
    BY FlattenAppend
  <2> QED
    BY <1>5, <2>1, <2>2
<1>9. PICK u \in Seq(X) : u = FlattenSeq(a)
  BY <1>6
<1>10. PICK w \in Seq(X) : w = FlattenSeq(b)
  BY <1>6
<1>11. /\ Len((u \o e) \o w) = Len(u) + Len(e) + Len(w)
       /\ Len(u) \in Nat /\ Len(w) \in Nat /\ Len(e) \in Nat
  OBVIOUS
<1>12. Len(u) + Len(e) <= Len((u \o e) \o w) /\ Len((u \o e) \o w) \in Nat
  BY <1>11
<1> QED
  BY <1>1, <1>2, <1>8, <1>9, <1>10, <1>11, <1>12

\* The stacks have the first k values, the first m entries, and the properties that
\* these entries have saved in common.
InCommon(k, ml, ml2, m, ll, ll2, pl, pl2) ==
    /\ Agree(ml, ml2, 0, k)
    /\ m <= Len(ll) /\ m <= Len(ll2) /\ SubSeq(ll2, 1, m) = SubSeq(ll, 1, m)
    /\ Agree(pl, pl2, 0, Len(FlattenSeq(SubSeq(ll, 1, m))))

\* An evaluation's scope depends on the part of the stacks up to what it has
\* pushed.
LEMMA ScopeStays ==
    ASSUME NEW f \in Frames, NEW k \in Nat, NEW m \in Nat, NEW ml, NEW ml2,
           NEW ll \in Seq(Seq(Funs)), NEW ll2 \in Seq(Seq(Funs)), NEW pl, NEW pl2,
           InCommon(k, ml, ml2, m, ll, ll2, pl, pl2),
           f.binds + Len(BoundNames(f)) <= k, f.locs + Entry(f) <= m
    PROVE  ScopeIn(f, ml2, ll2, pl2) = ScopeIn(f, ml, ll, pl)
<1>0. /\ Agree(ml, ml2, 0, k)
      /\ m <= Len(ll) /\ m <= Len(ll2) /\ SubSeq(ll2, 1, m) = SubSeq(ll, 1, m)
      /\ Agree(pl, pl2, 0, Len(FlattenSeq(SubSeq(ll, 1, m))))
  BY DEF InCommon
<1>1. /\ BoundNames(f) \in Seq(Vars) /\ Len(BoundNames(f)) \in Nat
      /\ f.binds \in Nat /\ f.locs \in Nat /\ Entry(f) \in {0, 1}
  BY FrameFacts
<1>2. Slice(ml2, f.binds, BoundNames(f)) = Slice(ml, f.binds, BoundNames(f))
  <2>1. Agree(ml, ml2, f.binds, Len(BoundNames(f)))
    BY <1>0, <1>1, AgreePart
  <2> QED
    BY <1>1, <2>1, SliceSame
<1>3. ASSUME HasEntry(f)
      PROVE  Slice(pl2, Len(FlattenSeq(SubSeq(ll2, 1, f.locs))), ll2[f.locs + 1]) =
             Slice(pl, Len(FlattenSeq(SubSeq(ll, 1, f.locs))), ll[f.locs + 1])
  <2>1. PICK j \in Nat : j = f.locs /\ j < m
    BY <1>1, <1>3 DEF Entry
  <2>2. SubSeq(ll2, 1, j) = SubSeq(ll, 1, j) /\ ll2[j + 1] = ll[j + 1]
    BY <1>0, <2>1, PrefixesAgree
  <2>3. PICK g \in Seq(Seq(Funs)) : g = SubSeq(ll, 1, m)
    BY <1>0, Prefix
  <2>4. Len(g) = m /\ j < Len(g)
    BY <1>0, <2>1, <2>3, Prefix
  <2>5. SubSeq(g, 1, j) = SubSeq(ll, 1, j) /\ g[j + 1] = ll[j + 1]
    BY <1>0, <2>1, <2>3, PrefixOfPrefix
  <2>6. PICK start \in Nat : start = Len(FlattenSeq(SubSeq(g, 1, j)))
    BY <2>4, FlattenPart
  <2>7. PICK names \in Seq(Funs) : names = g[j + 1]
    BY <2>4, FlattenPart
  <2>8. start + Len(names) <= Len(FlattenSeq(g)) /\ Len(FlattenSeq(g)) \in Nat /\ Len(names) \in Nat
    BY <2>4, <2>6, <2>7, FlattenPart
  <2>9. Agree(pl, pl2, start, Len(names))
    BY <1>0, <2>3, <2>8, AgreePart
  <2>10. Slice(pl2, start, names) = Slice(pl, start, names)
    BY <2>9, SliceSame
  <2> QED
    BY <2>1, <2>2, <2>5, <2>6, <2>7, <2>10
<1> QED
  BY <1>2, <1>3 DEF ScopeIn

-----------------------------------------------------------------------------
(* Lists of scopes that differ at their ends.                              *)

IsList(s, n) == s = [q \in 1 .. n |-> s[q]]
SameBelow(s, t, n) == \A q \in 1 .. n : t[q] = s[q]

LEMMA ListIsSeq ==
    ASSUME NEW n \in Nat, NEW s, IsList(s, n), NEW Y, \A q \in 1 .. n : s[q] \in Y
    PROVE  s \in Seq(Y) /\ Len(s) = n
<1>1. s \in [1 .. n -> Y]
  BY Zenon DEF IsList
<1>2. s \in Seq(Y)
  BY <1>1, SeqDef
<1>3. DOMAIN s = 1 .. n
  BY <1>1
<1> QED
  BY <1>2, <1>3, LenProperties

LEMMA ListAppend ==
    ASSUME NEW n \in Nat, NEW s, IsList(s, n), NEW t, IsList(t, n + 1), SameBelow(s, t, n)
    PROVE  t = Append(s, t[n + 1]) /\ Len(s) = n
<1> DEFINE Y == {s[q] : q \in 1 .. n} \cup {t[q] : q \in 1 .. n + 1}
<1>1. (\A q \in 1 .. n : s[q] \in Y) /\ (\A q \in 1 .. n + 1 : t[q] \in Y)
  OBVIOUS
<1> HIDE DEF Y
<1>2. s \in Seq(Y) /\ Len(s) = n
  BY <1>1, ListIsSeq
<1>3. t \in Seq(Y) /\ Len(t) = n + 1
  <2>1. n + 1 \in Nat
    OBVIOUS
  <2> QED
    BY <1>1, <2>1, ListIsSeq
<1>4. PICK e \in Y : e = t[n + 1]
  BY <1>1
<1>5. /\ Append(s, e) \in Seq(Y) /\ Len(Append(s, e)) = n + 1
      /\ \A q \in 1 .. n : Append(s, e)[q] = s[q]
      /\ Append(s, e)[n + 1] = e
  BY <1>2, AppendProperties
<1>6. \A q \in 1 .. n + 1 : t[q] = Append(s, e)[q]
  BY <1>4, <1>5 DEF SameBelow
<1>7. t = Append(s, e)
  BY <1>3, <1>5, <1>6, SeqEqual
<1> QED
  BY <1>2, <1>4, <1>7

LEMMA ListRest ==
    ASSUME NEW n \in Nat \ {0}, NEW s, IsList(s, n), NEW t, IsList(t, n - 1),
           SameBelow(s, t, n - 1)
    PROVE  t = SubSeq(s, 1, Len(s) - 1) /\ Len(s) = n /\ s # <<>>
<1> DEFINE Y == {s[q] : q \in 1 .. n}
<1>1. (\A q \in 1 .. n : s[q] \in Y) /\ (\A q \in 1 .. n - 1 : t[q] \in Y)
  <2>1. \A q \in 1 .. n - 1 : q \in 1 .. n
    OBVIOUS
  <2> QED
    BY <2>1 DEF SameBelow
<1> HIDE DEF Y
<1>2. s \in Seq(Y) /\ Len(s) = n
  BY <1>1, ListIsSeq
<1>3. t \in Seq(Y) /\ Len(t) = n - 1
  <2>1. n - 1 \in Nat
    OBVIOUS
  <2> QED
    BY <1>1, <2>1, ListIsSeq
<1>4. PICK a \in Seq(Y) : a = SubSeq(s, 1, n - 1)
  <2>1. n - 1 \in Nat /\ n - 1 <= Len(s)
    BY <1>2
  <2> QED
    BY <1>2, <2>1, Prefix
<1>5. Len(a) = n - 1 /\ \A q \in 1 .. n - 1 : a[q] = s[q]
  BY <1>2, <1>4, Prefix
<1>6. \A q \in 1 .. n - 1 : t[q] = a[q]
  BY <1>5 DEF SameBelow
<1>7. t = a
  BY <1>3, <1>5, <1>6, SeqEqual
<1>8. s # <<>>
  BY <1>2, EmptySeq
<1> QED
  BY <1>2, <1>4, <1>7, <1>8

LEMMA ListTop ==
    ASSUME NEW n \in Nat \ {0}, NEW s, IsList(s, n), NEW t, IsList(t, n),
           SameBelow(s, t, n - 1)
    PROVE  t = Append(SubSeq(s, 1, Len(s) - 1), t[n]) /\ Len(s) = n /\ s # <<>>
<1> DEFINE r == [q \in 1 .. n - 1 |-> s[q]]
<1>1. \A q \in 1 .. n - 1 : r[q] = s[q]
  OBVIOUS
<1>2. IsList(r, n - 1) /\ SameBelow(s, r, n - 1)
  BY <1>1 DEF IsList, SameBelow
<1> HIDE DEF r
<1>3. r = SubSeq(s, 1, Len(s) - 1) /\ Len(s) = n /\ s # <<>>
  BY <1>2, ListRest
<1>4. n - 1 \in Nat /\ n - 1 + 1 = n
  OBVIOUS
<1>5. SameBelow(r, t, n - 1)
  BY <1>1 DEF SameBelow
<1>6. t = Append(r, t[n])
  BY <1>2, <1>4, <1>5, ListAppend
<1> QED
  BY <1>3, <1>6

LEMMA ListSame ==
    ASSUME NEW n \in Nat, NEW s, IsList(s, n), NEW t, IsList(t, n), SameBelow(s, t, n)
    PROVE  t = s
BY Zenon DEF IsList, SameBelow

-----------------------------------------------------------------------------
(* The scopes of a state, and of the next one.                             *)

LEMMA BarIs ==
    ASSUME fault = "none"
    PROVE  /\ IsList(scopesBar, Len(stack))
           /\ \A q \in 1 .. Len(stack) :
                scopesBar[q] = ScopeIn(stack[q], mspeclist, loclist, mproplist)
<1>1. scopesBar = [q \in 1 .. Len(stack) |-> ScopeOf(stack[q])]
  BY DEF scopesBar
<1>2. \A q \in 1 .. Len(stack) : scopesBar[q] = ScopeOf(stack[q])
  BY <1>1
<1> QED
  BY <1>1, <1>2 DEF IsList, ScopeOf, ScopeIn

LEMMA BarNext ==
    ASSUME fault' = "none"
    PROVE  /\ IsList(scopesBar', Len(stack'))
           /\ \A q \in 1 .. Len(stack') :
                scopesBar'[q] = ScopeIn(stack'[q], mspeclist', loclist', mproplist')
<1>1. scopesBar' = [q \in 1 .. Len(stack') |-> ScopeIn(stack'[q], mspeclist', loclist', mproplist')]
  BY DEF scopesBar, ScopeOf, ScopeIn, BoundNames, HasEntry, Slice, FirstOf, Occurs
<1>2. \A q \in 1 .. Len(stack') :
          scopesBar'[q] = ScopeIn(stack'[q], mspeclist', loclist', mproplist')
  BY <1>1
<1>3. IsList(scopesBar', Len(stack'))
  BY <1>1 DEF IsList
<1> QED
  BY <1>2, <1>3

\* What the evaluations below the one on top have pushed is still there.
LowerKept ==
    InCommon(Top.binds, mspeclist, mspeclist', Top.locs, loclist, loclist', mproplist, mproplist')

LEMMA LowerScopes ==
    ASSUME StacksInv, TypeOK', stack # <<>>, LowerKept, NEW q \in 1 .. Len(stack) - 1
    PROVE  ScopeIn(stack[q], mspeclist', loclist', mproplist') =
           ScopeIn(stack[q], mspeclist, loclist, mproplist)
<1>1. /\ Len(stack) \in 1 .. Len(stack) /\ Top = stack[Len(stack)]
      /\ q \in 1 .. Len(stack) /\ q < Len(stack)
  BY TopFacts
<1>2. stack[q] \in Frames
  BY <1>1 DEF StacksInv, TypeOK
<1>3. /\ Top.binds \in Nat /\ Top.locs \in Nat /\ Entry(Top) \in {0, 1}
      /\ Top.locs + Entry(Top) <= Len(loclist)
  BY TopFacts
<1>4. Top.locs <= Len(loclist)
  BY <1>3 DEF StacksInv, TypeOK
<1>5. stack[q].binds + Len(BoundNames(stack[q])) <= Top.binds
  BY <1>1 DEF StacksInv, BindsOrdered
<1>6. stack[q].locs + Entry(stack[q]) <= Top.locs
  BY <1>1 DEF StacksInv, LocsOrdered
<1>7. loclist \in Seq(Seq(Funs)) /\ loclist' \in Seq(Seq(Funs))
  BY DEF StacksInv, TypeOK
<1> QED
  <2>1. PICK f \in Frames : f = stack[q]
    BY <1>2
  <2>2. f.binds + Len(BoundNames(f)) <= Top.binds /\ f.locs + Entry(f) <= Top.locs
    BY <1>5, <1>6, <2>1
  <2>3. InCommon(Top.binds, mspeclist, mspeclist', Top.locs, loclist, loclist',
                 mproplist, mproplist')
    BY DEF LowerKept
  <2>4. ScopeIn(f, mspeclist', loclist', mproplist') = ScopeIn(f, mspeclist, loclist, mproplist)
    BY <1>3, <1>7, <2>1, <2>2, <2>3, ScopeStays
  <2> QED
    BY <2>1, <2>4

\* The evaluation on top is left: so is the innermost scope.
LEMMA CloseBar ==
    ASSUME StacksInv, TypeOK', stack # <<>>, fault = "none", fault' = "none",
           stack' = Rest, LowerKept
    PROVE  /\ scopesBar # <<>> /\ scopesBar' = Scoped!Rest
           /\ Scoped!Top = ScopeIn(Top, mspeclist, loclist, mproplist)
<1>0. PICK n \in Nat \ {0} : n = Len(stack)
  BY TopFacts
<1>1. Len(stack') = n - 1 /\ \A q \in 1 .. n - 1 : stack'[q] = stack[q]
  <2>1. stack \in Seq(Frames) /\ 1 \in 0 .. Len(stack)
    BY <1>0 DEF StacksInv, TypeOK
  <2> QED
    BY <1>0, <2>1, CutFacts DEF Rest
<1>2. IsList(scopesBar, n) /\ IsList(scopesBar', n - 1)
  BY <1>0, <1>1, BarIs, BarNext
<1>3. SameBelow(scopesBar, scopesBar', n - 1)
  <2>1. ASSUME NEW q \in 1 .. n - 1
        PROVE  scopesBar'[q] = scopesBar[q]
    <3>1. q \in 1 .. Len(stack) /\ q \in 1 .. Len(stack') /\ q \in 1 .. Len(stack) - 1
      BY <1>0, <1>1
    <3>2. scopesBar[q] = ScopeIn(stack[q], mspeclist, loclist, mproplist)
      BY <3>1, BarIs
    <3>3. scopesBar'[q] = ScopeIn(stack'[q], mspeclist', loclist', mproplist')
      BY <3>1, BarNext
    <3> QED
      BY <1>1, <3>1, <3>2, <3>3, LowerScopes
  <2> QED
    BY <2>1 DEF SameBelow
<1>4. scopesBar' = SubSeq(scopesBar, 1, Len(scopesBar) - 1) /\ Len(scopesBar) = n /\ scopesBar # <<>>
  BY <1>2, <1>3, ListRest
<1>5. scopesBar[n] = ScopeIn(Top, mspeclist, loclist, mproplist)
  BY <1>0, BarIs DEF Top
<1> QED
  BY <1>4, <1>5 DEF Scoped!Rest, Scoped!Top

\* The evaluation on top changes: so does the innermost scope.
LEMMA TopBar ==
    ASSUME StacksInv, TypeOK', stack # <<>>, fault = "none", fault' = "none",
           NEW f \in Frames, stack' = WithTop(f), LowerKept
    PROVE  /\ scopesBar # <<>>
           /\ scopesBar' = Append(Scoped!Rest, ScopeIn(f, mspeclist', loclist', mproplist'))
           /\ Scoped!Top = ScopeIn(Top, mspeclist, loclist, mproplist)
<1>0. PICK n \in Nat \ {0} : n = Len(stack)
  BY TopFacts
<1>1. Len(stack') = n /\ stack'[n] = f /\ \A q \in 1 .. n - 1 : stack'[q] = stack[q]
  <2>1. stack \in Seq(Frames) /\ 1 \in 0 .. Len(stack) /\ stack' = Append(Cut(stack, 1), f)
    BY <1>0 DEF StacksInv, TypeOK, WithTop, Rest
  <2>2. PICK rest \in Seq(Frames) : rest = Cut(stack, 1)
    BY <2>1, CutFacts
  <2>3. Len(rest) = n - 1 /\ \A q \in 1 .. n - 1 : rest[q] = stack[q]
    BY <1>0, <2>1, <2>2, CutFacts
  <2> QED
    BY <1>0, <2>1, <2>2, <2>3
<1>2. IsList(scopesBar, n) /\ IsList(scopesBar', n)
  BY <1>0, <1>1, BarIs, BarNext
<1>3. SameBelow(scopesBar, scopesBar', n - 1)
  <2>1. ASSUME NEW q \in 1 .. n - 1
        PROVE  scopesBar'[q] = scopesBar[q]
    <3>1. q \in 1 .. Len(stack) /\ q \in 1 .. Len(stack') /\ q \in 1 .. Len(stack) - 1
      BY <1>0, <1>1
    <3>2. scopesBar[q] = ScopeIn(stack[q], mspeclist, loclist, mproplist)
      BY <3>1, BarIs
    <3>3. scopesBar'[q] = ScopeIn(stack'[q], mspeclist', loclist', mproplist')
      BY <3>1, BarNext
    <3> QED
      BY <1>1, <3>1, <3>2, <3>3, LowerScopes
  <2> QED
    BY <2>1 DEF SameBelow
<1>4. /\ scopesBar' = Append(SubSeq(scopesBar, 1, Len(scopesBar) - 1), scopesBar'[n])
      /\ Len(scopesBar) = n /\ scopesBar # <<>>
  BY <1>2, <1>3, ListTop
<1>5. scopesBar[n] = ScopeIn(Top, mspeclist, loclist, mproplist)
  BY <1>0, BarIs DEF Top
<1>6. scopesBar'[n] = ScopeIn(f, mspeclist', loclist', mproplist')
  BY <1>0, <1>1, BarNext
<1> QED
  BY <1>4, <1>5, <1>6 DEF Scoped!Rest, Scoped!Top

\* Only a new evaluation is on the stack.
LEMMA OpenBar ==
    ASSUME StacksInv, fault = "none", fault' = "none", NEW f \in Frames,
           stack' = Append(stack, f), UNCHANGED <<mspeclist, loclist, mproplist>>
    PROVE  scopesBar' = Append(scopesBar, ScopeIn(f, mspeclist, loclist, mproplist))
<1>0. PICK n \in Nat : n = Len(stack)
  BY DEF StacksInv, TypeOK
<1>1. /\ Len(stack') = n + 1 /\ stack'[n + 1] = f
      /\ \A q \in 1 .. n : stack'[q] = stack[q] /\ q \in 1 .. n + 1
  BY <1>0 DEF StacksInv, TypeOK
<1>2. IsList(scopesBar, n) /\ IsList(scopesBar', n + 1)
  BY <1>0, <1>1, BarIs, BarNext
<1>3. SameBelow(scopesBar, scopesBar', n)
  BY <1>0, <1>1, BarIs, BarNext DEF SameBelow
<1>4. scopesBar' = Append(scopesBar, scopesBar'[n + 1])
  BY <1>2, <1>3, ListAppend
<1>5. scopesBar'[n + 1] = ScopeIn(f, mspeclist, loclist, mproplist)
  <2>1. n + 1 \in 1 .. Len(stack')
    BY <1>1
  <2>2. scopesBar'[n + 1] = ScopeIn(stack'[n + 1], mspeclist', loclist', mproplist')
    BY <2>1, BarNext
  <2> QED
    BY <1>1, <2>2
<1> QED
  BY <1>4, <1>5

\* The evaluations and the stacks are what they were.
LEMMA SameBar ==
    ASSUME UNCHANGED <<mspeclist, loclist, mproplist, stack, fault>>
    PROVE  scopesBar' = scopesBar
BY DEF scopesBar, ScopeOf, BoundNames, HasEntry, Slice, FirstOf, Occurs

-----------------------------------------------------------------------------
(* The cells, as the scopes see them.                                      *)

\* What is undone is what the scopes restore.
Restores(names, saved, start, cells) ==
    Undone(names, saved, cells) = Scoped!Restored(Slice(saved, start, names), cells)

LEMMA RestoredIs ==
    ASSUME NEW X, NEW Y, NEW names \in Seq(X), NEW saved \in Seq(Y),
           NEW cells \in [X -> Y], NEW start \in Nat, start + Len(names) = Len(saved)
    PROVE  Restores(names, saved, start, cells)
<1>1. Len(names) \in Nat /\ Len(names) <= Len(saved) /\ Len(saved) - Len(names) = start
  OBVIOUS
<1>2. /\ Undone(names, saved, cells) \in [X -> Y]
      /\ \A n \in X : Undone(names, saved, cells)[n] =
            IF Occurs(n, names)
              THEN saved[start + FirstOf(n, names)] ELSE cells[n]
  <2>1. /\ Undone(names, saved, cells) \in [X -> Y]
        /\ \A n \in X : Undone(names, saved, cells)[n] =
              IF Occurs(n, names)
                THEN saved[Len(saved) - Len(names) + FirstOf(n, names)] ELSE cells[n]
    BY <1>1, UndoneFacts
  <2> QED
    BY <1>1, <2>1
<1>3. \A n : n \in DOMAIN Slice(saved, start, names) <=> Occurs(n, names)
  BY ToSetIs DEF Slice
<1>4. \A n \in X : Occurs(n, names) =>
          Slice(saved, start, names)[n] = saved[start + FirstOf(n, names)]
  BY ToSetIs DEF Slice
<1>5. Scoped!Restored(Slice(saved, start, names), cells) =
        [n \in X |-> IF Occurs(n, names) THEN saved[start + FirstOf(n, names)] ELSE cells[n]]
  BY <1>3, <1>4 DEF Scoped!Restored
<1> QED
  BY <1>2, <1>5 DEF Restores

\* What a binding saves on a stack are the values that the names had.
SavesOn(ml, names, news, cells) ==
    Slice(ml \o Saved(names, news, cells), Len(ml), names) = [n \in ToSet(names) |-> cells[n]]

LEMMA SavedSlice ==
    ASSUME NEW X, NEW Y, NEW names \in Seq(X), NEW news \in [1 .. Len(names) -> Y],
           NEW cells \in [X -> Y], NEW stack0 \in Seq(Y)
    PROVE  SavesOn(stack0, names, news, cells)
<1>1. PICK saved \in Seq(Y) : saved = Saved(names, news, cells)
  BY SavedType
<1>2. Len(saved) = Len(names)
  BY <1>1, SavedLen
<1>3. ASSUME NEW n \in ToSet(names)
      PROVE  (stack0 \o saved)[Len(stack0) + FirstOf(n, names)] = cells[n]
  <2>1. Occurs(n, names) /\ n \in X
    BY ToSetIs, ToSetType
  <2>2. FirstOf(n, names) \in 1 .. Len(saved)
    BY <1>2, <2>1, FirstOfFacts
  <2>3. saved[FirstOf(n, names)] = cells[n]
    BY <1>1, <2>1, SavedFirst
  <2> QED
    BY <2>2, <2>3
<1> QED
  BY <1>1, <1>3 DEF Slice, SavesOn

LEMMA SetBut ==
    ASSUME NEW X, NEW Y, NEW names \in Seq(X), NEW news, NEW cells \in [X -> Y]
    PROVE  Scoped!SameBut(ToSet(names), cells, Set(names, news, cells))
BY ToSetIs DEF Scoped!SameBut, Set

LEMMA HideSet ==
    ASSUME NEW l \in Seq(Funs), NEW cells \in [Funs -> Defs]
    PROVE  Set(l, NoProps(l), cells) =
              [f \in Funs |-> IF f \in ToSet(l) THEN NoProp ELSE cells[f]]
<1>1. \A f \in Funs : Occurs(f, l) => NoProps(l)[LastOf(f, l)] = NoProp
  BY LastOfFacts DEF NoProps
<1> QED
  BY <1>1, ToSetIs DEF Set

-----------------------------------------------------------------------------
(* What the operations on the stacks leave in common.                      *)

LEMMA AgreeSelf == ASSUME NEW s, NEW k PROVE Agree(s, s, 0, k)
BY DEF Agree

LEMMA AgreeConcat ==
    ASSUME NEW X, NEW s \in Seq(X), NEW t \in Seq(X), NEW k \in Nat, k <= Len(s)
    PROVE  Agree(s, s \o t, 0, k)
BY DEF Agree

LEMMA AgreeCut ==
    ASSUME NEW X, NEW s \in Seq(X), NEW n \in 0 .. Len(s), NEW k \in Nat, k <= Len(s) - n
    PROVE  Agree(s, Cut(s, n), 0, k)
<1>1. \A i \in 1 .. Len(s) - n : Cut(s, n)[i] = s[i]
  BY CutFacts
<1>2. Len(s) - n \in Nat
  OBVIOUS
<1> QED
  BY <1>1, <1>2 DEF Agree

\* Two lists that have the first m entries in common.
LEMMA SamePrefix ==
    ASSUME NEW X, NEW s \in Seq(X), NEW t \in Seq(X), NEW m \in Nat,
           m <= Len(s), m <= Len(t), \A i \in 1 .. m : t[i] = s[i]
    PROVE  SubSeq(t, 1, m) = SubSeq(s, 1, m)
<1>1. PICK a \in Seq(X) : a = SubSeq(s, 1, m)
  BY Prefix
<1>2. PICK b \in Seq(X) : b = SubSeq(t, 1, m)
  BY Prefix
<1>3. Len(a) = m /\ \A i \in 1 .. m : a[i] = s[i]
  BY <1>1, Prefix
<1>4. Len(b) = m /\ \A i \in 1 .. m : b[i] = t[i]
  BY <1>2, Prefix
<1>5. b = a
  BY <1>3, <1>4, SeqEqual
<1> QED
  BY <1>1, <1>2, <1>5

LEMMA PrefixOfAppend ==
    ASSUME NEW X, NEW s \in Seq(X), NEW e \in X, NEW m \in Nat, m <= Len(s)
    PROVE  m <= Len(Append(s, e)) /\ SubSeq(Append(s, e), 1, m) = SubSeq(s, 1, m)
<1>1. PICK t \in Seq(X) : t = Append(s, e)
  BY AppendProperties
<1>2. m <= Len(t) /\ \A i \in 1 .. m : t[i] = s[i]
  BY <1>1
<1> QED
  BY <1>1, <1>2, SamePrefix

LEMMA PrefixOfCut ==
    ASSUME NEW X, NEW s \in Seq(X), NEW n \in 0 .. Len(s), NEW m \in Nat, m <= Len(s) - n
    PROVE  m <= Len(Cut(s, n)) /\ SubSeq(Cut(s, n), 1, m) = SubSeq(s, 1, m)
<1>1. PICK t \in Seq(X) : t = Cut(s, n)
  BY CutFacts
<1>2. Len(t) = Len(s) - n /\ \A i \in 1 .. Len(s) - n : t[i] = s[i]
  BY <1>1, CutFacts
<1>3. m <= Len(t) /\ m <= Len(s) /\ \A i \in 1 .. m : t[i] = s[i]
  BY <1>2
<1> QED
  BY <1>1, <1>3, SamePrefix

LEMMA PlainScope ==
    ASSUME NEW f, BoundNames(f) = <<>>, ~HasEntry(f), NEW ml, NEW ll, NEW pl
    PROVE  ScopeIn(f, ml, ll, pl) = Plain
<1>1. HasEntry(f) = FALSE
  BY Zenon DEF HasEntry
<1>2. Slice(ml, f.binds, BoundNames(f)) = <<>>
  BY SliceOfNone
<1> QED
  BY <1>1, <1>2 DEF ScopeIn, Plain

LEMMA SplitBar ==
    ASSUME StacksInv, stack # <<>>, fault = "none"
    PROVE  scopesBar = Append(Scoped!Rest, Scoped!Top)
<1>0. PICK n \in Nat \ {0} : n = Len(stack)
  BY TopFacts
<1>1. IsList(scopesBar, n)
  BY <1>0, BarIs
<1>2. SameBelow(scopesBar, scopesBar, n - 1)
  BY DEF SameBelow
<1>3. scopesBar = Append(SubSeq(scopesBar, 1, Len(scopesBar) - 1), scopesBar[n]) /\ Len(scopesBar) = n
  BY <1>1, <1>2, ListTop
<1> QED
  BY <1>3 DEF Scoped!Rest, Scoped!Top

\* At fault "none" the properties saved are those of the functions on loclist.
LEMMA SavedExactly ==
    ASSUME StacksInv, fault = "none"
    PROVE  /\ Len(FlattenSeq(loclist)) = Len(mproplist)
           /\ SubSeq(loclist, 1, Len(loclist)) = loclist
           /\ loclist \in Seq(Seq(Funs)) /\ mproplist \in Seq(Defs) /\ mspeclist \in Seq(Cells)
           /\ prop \in [Funs -> Defs] /\ value \in [Vars -> Cells]
BY SubSeqFull DEF StacksInv, DefsSaved, TypeOK, Defs, Cells

-----------------------------------------------------------------------------
(* Every step, before a fault, is a step of the scopes.                    *)

ScopedStep == Scoped!Next \/ UNCHANGED <<value, prop, scopesBar>>

LEMMA EnterOpens ==
    ASSUME StacksInv, fault' = "none", NEW kind \in Kinds, NEW stage \in {"args", "body"},
           NEW names \in Seq(Vars), NEW mlocp \in BOOLEAN,
           \/ stage = "args" /\ kind \notin {"errcatch", "catch"}
           \/ stage = "body" /\ kind \in {"errcatch", "catch"} /\ names = <<>>,
           Enter(kind, stage, names, mlocp),
           UNCHANGED <<valueVars, localVars, mode, fault>>
    PROVE  Scoped!Open
<1> DEFINE f == [kind |-> kind, stage |-> stage, names |-> names, mlocp |-> mlocp,
                 binds |-> Len(bindlist), locs |-> Len(loclist)]
<1>1. stack' = Append(stack, f)
  BY DEF Enter
<1>2. f \in Frames
  BY DEF StacksInv, TypeOK, Frames
<1>3. BoundNames(f) = <<>> /\ ~HasEntry(f)
  BY DEF BoundNames, HasEntry
<1> HIDE DEF f
<1>4. scopesBar' = Append(scopesBar, ScopeIn(f, mspeclist, loclist, mproplist))
  BY <1>1, <1>2, OpenBar DEF valueVars, localVars
<1>5. scopesBar' = Append(scopesBar, Plain)
  BY <1>3, <1>4, PlainScope
<1> QED
  BY <1>5 DEF Scoped!Open, Plain, valueVars, localVars

LEMMA EnterScoped ==
    ASSUME StacksInv, fault' = "none", EnterScope \/ EnterCatch
    PROVE  Scoped!Open
<1>1. UNCHANGED <<valueVars, localVars, mode, fault>>
  BY DEF EnterScope, EnterCatch
<1>2. CASE \E kind \in {"block", "lambda"}, names \in VarLists : Enter(kind, "args", names, TRUE)
  <2>1. PICK kind \in {"block", "lambda"}, names \in VarLists : Enter(kind, "args", names, TRUE)
    BY <1>2
  <2>2. kind \in Kinds /\ kind \notin {"errcatch", "catch"} /\ names \in Seq(Vars)
    BY <2>1, ListsAssumption DEF Kinds
  <2> QED
    BY <1>1, <2>1, <2>2, EnterOpens
<1>3. CASE \E names \in VarLists : Len(names) = 1 /\ Enter("loop", "args", names, FALSE)
  <2>1. PICK names \in VarLists : Enter("loop", "args", names, FALSE)
    BY <1>3
  <2>2. "loop" \in Kinds /\ names \in Seq(Vars)
    BY <2>1, ListsAssumption DEF Kinds
  <2> QED
    BY <1>1, <2>1, <2>2, EnterOpens
<1>4. CASE \E names \in EvLists : Enter("ev", "args", names, FALSE)
  <2>1. PICK names \in EvLists : Enter("ev", "args", names, FALSE)
    BY <1>4
  <2>2. "ev" \in Kinds /\ names \in Seq(Vars)
    BY <2>1, ListsAssumption DEF Kinds
  <2> QED
    BY <1>1, <2>1, <2>2, EnterOpens
<1>5. CASE EnterCatch
  <2>1. PICK kind \in {"errcatch", "catch"} : Enter(kind, "body", <<>>, FALSE)
    BY <1>5 DEF EnterCatch
  <2>2. kind \in Kinds /\ <<>> \in Seq(Vars)
    BY <2>1, EmptySeq DEF Kinds
  <2> QED
    BY <1>1, <2>1, <2>2, EnterOpens
<1> QED
  BY <1>2, <1>3, <1>4, <1>5 DEF EnterScope

\* The part of a binding that concerns the values.
LEMMA MbindScoped ==
    ASSUME StacksInv, stack # <<>>, Top.stage = "args", NEW names \in Seq(Vars),
           NEW news \in [1 .. Len(names) -> Cells],
           Mbind(names, news, value, bindlist, mspeclist)
    PROVE  /\ Slice(mspeclist', Top.binds, names) = [v \in ToSet(names) |-> value[v]]
           /\ Scoped!SameBut(ToSet(names), value, value')
           /\ value' \in [Vars -> Cells]
           /\ Agree(mspeclist, mspeclist', 0, Top.binds)
<1>1. /\ value \in [Vars -> Cells] /\ mspeclist \in Seq(Cells) /\ bindlist \in Seq(Vars)
  BY DEF StacksInv, TypeOK, Cells
<1>2. Top.binds = Len(mspeclist) /\ Top.binds \in Nat
  BY TopFacts, EmptySeq DEF BoundNames
<1>3. value' = Set(names, news, value) /\ mspeclist' = mspeclist \o Saved(names, news, value)
  BY DEF Mbind
<1>4. Slice(mspeclist', Top.binds, names) = [v \in ToSet(names) |-> value[v]]
  <2>1. SavesOn(mspeclist, names, news, value)
    BY <1>1, SavedSlice
  <2> QED
    BY <1>2, <1>3, <2>1 DEF SavesOn
<1>5. Scoped!SameBut(ToSet(names), value, value')
  BY <1>1, <1>3, SetBut
<1>6. value' \in [Vars -> Cells]
  BY <1>1, MbindFacts DEF Bound
<1>7. Agree(mspeclist, mspeclist', 0, Top.binds)
  <2>1. PICK saved \in Seq(Cells) : saved = Saved(names, news, value)
    BY <1>1, SavedType
  <2>2. Agree(mspeclist, mspeclist \o saved, 0, Top.binds)
    BY <1>1, <1>2, AgreeConcat
  <2> QED
    BY <1>3, <2>1, <2>2
<1> QED
  BY <1>4, <1>5, <1>6, <1>7

LEMMA BindScoped ==
    ASSUME StacksInv, StacksInv', fault' = "none", Bind
    PROVE  Scoped!Next
<1> DEFINE f == [Top EXCEPT !.stage = "body"]
<1> DEFINE S == ToSet(Top.names)
<1>1. /\ stack # <<>> /\ Top.stage = "args" /\ Top.kind # "ev" /\ stack' = WithTop(f)
      /\ UNCHANGED <<prop, mproplist, mode, fault>>
  BY DEF Bind, Running
<1>2. /\ Top \in Frames /\ f \in Frames /\ f.kind = Top.kind
      /\ f.binds = Top.binds /\ f.locs = Top.locs /\ f.stage = "body"
      /\ BoundNames(f) = Top.names /\ BoundNames(Top) = <<>> /\ Top.names \in Seq(Vars)
  BY <1>1, TopFacts DEF Frames, BoundNames
<1>3. ~HasEntry(Top) /\ Entry(Top) = 0 /\ (HasEntry(f) <=> Top.kind \in {"block", "lambda"})
  BY <1>1, <1>2 DEF Entry, HasEntry, Frames, Kinds
<1>4. Top.kind \in {"block", "lambda", "loop"}
  BY <1>1, <1>2, TopFacts DEF Frames, Kinds
<1> HIDE DEF f
<1>5. /\ Slice(mspeclist', Top.binds, Top.names) = [v \in S |-> value[v]]
      /\ Scoped!SameBut(S, value, value')
      /\ value' \in [Vars -> Cells]
      /\ Agree(mspeclist, mspeclist', 0, Top.binds)
  <2>1. PICK news \in Inits(Top.names) : Mbind(Top.names, news, value, bindlist, mspeclist)
    BY DEF Bind
  <2>2. news \in [1 .. Len(Top.names) -> Cells]
    BY <1>2, <2>1, InitsType
  <2> QED
    BY <1>1, <1>2, <2>1, <2>2, MbindScoped
<1>6. /\ Top.locs = Len(loclist) /\ Top.locs \in Nat
      /\ loclist \in Seq(Seq(Funs)) /\ <<>> \in Seq(Funs)
  BY <1>1, <1>3, TopFacts, EmptySeq DEF StacksInv, TypeOK
<1>7. /\ Top.locs <= Len(loclist') /\ SubSeq(loclist', 1, Top.locs) = SubSeq(loclist, 1, Top.locs)
      /\ HasEntry(f) => loclist'[Top.locs + 1] = <<>>
  <2>1. CASE Top.kind = "loop"
    <3>1. loclist' = loclist
      BY <2>1 DEF Bind
    <3> QED
      BY <1>3, <1>6, <2>1, <3>1
  <2>2. CASE Top.kind # "loop"
    <3>1. loclist' = Append(loclist, <<>>)
      BY <2>2 DEF Bind
    <3>2. Append(loclist, <<>>)[Len(loclist) + 1] = <<>>
      BY <1>6, AppendProperties
    <3>3. Top.locs <= Len(loclist)
      BY <1>6
    <3> QED
      BY <1>6, <3>1, <3>2, <3>3, PrefixOfAppend
  <2> QED
    BY <2>1, <2>2
<1>8. LowerKept
  <2>1. Agree(mproplist, mproplist', 0, Len(FlattenSeq(SubSeq(loclist, 1, Top.locs))))
    BY <1>1, AgreeSelf
  <2>2. Top.locs <= Len(loclist)
    BY <1>6
  <2> QED
    BY <1>5, <1>7, <2>1, <2>2 DEF LowerKept, InCommon
<1>9. /\ scopesBar # <<>>
      /\ scopesBar' = Append(Scoped!Rest, ScopeIn(f, mspeclist', loclist', mproplist'))
      /\ Scoped!Top = ScopeIn(Top, mspeclist, loclist, mproplist)
  BY <1>1, <1>2, <1>8, TopBar DEF StacksInv
<1>10. Scoped!Top = [vals |-> <<>>, defs |-> <<>>, hides |-> FALSE]
  BY <1>2, <1>3, <1>9, PlainScope DEF Plain
<1>11. PICK hides \in BOOLEAN : hides = HasEntry(f)
  BY DEF HasEntry
<1>12. ScopeIn(f, mspeclist', loclist', mproplist') =
         [vals |-> [v \in S |-> value[v]], defs |-> [g \in {} |-> prop[g]], hides |-> hides]
  <2>1. [g \in {} |-> prop[g]] = <<>>
    BY NoFunction
  <2>2. HasEntry(f) =>
          Slice(mproplist', Len(FlattenSeq(SubSeq(loclist', 1, f.locs))), loclist'[f.locs + 1]) = <<>>
    BY <1>2, <1>7, SliceOfNone
  <2> QED
    BY <1>2, <1>5, <1>11, <2>1, <2>2 DEF ScopeIn
<1>13. prop' = [g \in Funs |-> IF g \in {} THEN NoProp ELSE prop[g]]
  BY <1>1 DEF StacksInv, TypeOK
<1>14. Scoped!BindTop(S, {}, hides)
  BY <1>5, <1>9, <1>10, <1>12, <1>13 DEF Scoped!BindTop, Cells
<1>15. S \in SUBSET Vars
  BY <1>2, ToSetType
<1> QED
  BY <1>11, <1>14, <1>15 DEF Scoped!Next

\* Hiding the properties of the functions of a list, as the scopes see it.
LEMMA HideScoped ==
    ASSUME StacksInv, fault = "none", NEW l \in Seq(Funs), Hide(l)
    PROVE  /\ Slice(mproplist', Len(mproplist), l) = [g \in ToSet(l) |-> prop[g]]
           /\ prop' = [g \in Funs |-> IF g \in ToSet(l) THEN NoProp ELSE prop[g]]
           /\ Agree(mproplist, mproplist', 0, Len(mproplist))
<1>1. mproplist \in Seq(Defs) /\ prop \in [Funs -> Defs]
  BY SavedExactly
<1>2. prop' = Set(l, NoProps(l), prop) /\ mproplist' = mproplist \o Saved(l, NoProps(l), prop)
  BY DEF Hide
<1>3. NoProps(l) \in [1 .. Len(l) -> Defs]
  BY DEF NoProps, Defs
<1>4. SavesOn(mproplist, l, NoProps(l), prop)
  BY <1>1, <1>3, SavedSlice
<1>5. Agree(mproplist, mproplist', 0, Len(mproplist))
  <2>1. PICK saved \in Seq(Defs) : saved = Saved(l, NoProps(l), prop)
    BY <1>1, <1>3, SavedType
  <2>2. Len(mproplist) \in Nat /\ Len(mproplist) <= Len(mproplist)
    BY <1>1
  <2>3. Agree(mproplist, mproplist \o saved, 0, Len(mproplist))
    BY <1>1, <2>2, AgreeConcat
  <2> QED
    BY <1>2, <2>1, <2>3
<1> QED
  BY <1>1, <1>2, <1>4, <1>5, HideSet DEF SavesOn

LEMMA EvAtomsScoped ==
    ASSUME StacksInv, StacksInv', fault' = "none", EvAtoms
    PROVE  Scoped!Next
<1> DEFINE f == [Top EXCEPT !.stage = "atoms"]
<1> DEFINE S == ToSet(Top.names)
<1>1. stack # <<>> /\ Top.stage = "args" /\ Top.kind = "ev" /\ stack' = WithTop(f)
  BY DEF EvAtoms, Running
<1>2. /\ Top \in Frames /\ f \in Frames /\ f.kind = "ev"
      /\ f.binds = Top.binds /\ f.locs = Top.locs /\ f.stage = "atoms"
      /\ BoundNames(f) = Top.names /\ BoundNames(Top) = <<>> /\ Top.names \in Seq(Vars)
  BY <1>1, TopFacts DEF Frames, BoundNames
<1>3. ~HasEntry(Top) /\ Entry(Top) = 0 /\ HasEntry(f) = TRUE
  BY <1>1, <1>2 DEF Entry, HasEntry
<1> HIDE DEF f
<1>4. PICK l \in FunLists \cup {<<>>} :
          Hide(l) /\ loclist' = Append(loclist, l) /\ UNCHANGED <<mode, fault>>
  <2>1. \A kind \in Faults : ~FirstFault(kind)
    BY FirstFaultFacts
  <2> QED
    BY <2>1 DEF EvAtoms, Faults
<1>5. l \in Seq(Funs) /\ fault = "none"
  BY <1>4, ListsAssumption, EmptySeq
<1>6. /\ Slice(mspeclist', Top.binds, Top.names) = [v \in S |-> value[v]]
      /\ Scoped!SameBut(S, value, value')
      /\ value' \in [Vars -> Cells]
      /\ Agree(mspeclist, mspeclist', 0, Top.binds)
  <2>1. Mbind(Top.names, Top.names, value, bindlist, mspeclist)
    BY DEF EvAtoms
  <2>2. Top.names \in [1 .. Len(Top.names) -> Cells]
    BY <1>2, InitsType DEF Inits
  <2> QED
    BY <1>1, <1>2, <2>1, <2>2, MbindScoped
<1>7. /\ Slice(mproplist', Len(mproplist), l) = [g \in ToSet(l) |-> prop[g]]
      /\ prop' = [g \in Funs |-> IF g \in ToSet(l) THEN NoProp ELSE prop[g]]
      /\ Agree(mproplist, mproplist', 0, Len(mproplist))
  BY <1>4, <1>5, HideScoped
<1>8. /\ Top.locs = Len(loclist) /\ Top.locs \in Nat
      /\ Len(FlattenSeq(loclist)) = Len(mproplist)
      /\ SubSeq(loclist, 1, Len(loclist)) = loclist
      /\ loclist \in Seq(Seq(Funs))
  BY <1>1, <1>3, <1>5, TopFacts, SavedExactly
<1>9. /\ Top.locs <= Len(loclist') /\ SubSeq(loclist', 1, Top.locs) = loclist
      /\ loclist'[Top.locs + 1] = l
  <2>1. Append(loclist, l)[Len(loclist) + 1] = l
    BY <1>5, <1>8, AppendProperties
  <2>2. Top.locs <= Len(loclist)
    BY <1>8
  <2> QED
    BY <1>4, <1>5, <1>8, <2>1, <2>2, PrefixOfAppend
<1>10. LowerKept
  <2>1. Agree(mproplist, mproplist', 0, Len(FlattenSeq(SubSeq(loclist, 1, Top.locs))))
    BY <1>7, <1>8
  <2>2. Top.locs <= Len(loclist)
    BY <1>8
  <2> QED
    BY <1>6, <1>8, <1>9, <2>1, <2>2 DEF LowerKept, InCommon
<1>11. /\ scopesBar # <<>>
       /\ scopesBar' = Append(Scoped!Rest, ScopeIn(f, mspeclist', loclist', mproplist'))
       /\ Scoped!Top = ScopeIn(Top, mspeclist, loclist, mproplist)
  BY <1>1, <1>2, <1>5, <1>10, TopBar DEF StacksInv
<1>12. Scoped!Top = [vals |-> <<>>, defs |-> <<>>, hides |-> FALSE]
  BY <1>2, <1>3, <1>11, PlainScope DEF Plain
<1>13. ScopeIn(f, mspeclist', loclist', mproplist') =
         [vals |-> [v \in S |-> value[v]], defs |-> [g \in ToSet(l) |-> prop[g]], hides |-> TRUE]
  BY <1>2, <1>3, <1>6, <1>7, <1>8, <1>9 DEF ScopeIn
<1>14. Scoped!BindTop(S, ToSet(l), TRUE)
  BY <1>6, <1>7, <1>11, <1>12, <1>13 DEF Scoped!BindTop, Cells
<1>15. S \in SUBSET Vars /\ ToSet(l) \in SUBSET Funs
  BY <1>2, <1>5, ToSetType
<1> QED
  BY <1>14, <1>15 DEF Scoped!Next

LEMMA TopLocs ==
    ASSUME StacksInv, stack # <<>>
    PROVE  Top.locs \in Nat /\ Top.locs <= Len(loclist)
<1>1. /\ Top.locs \in Nat /\ Entry(Top) \in {0, 1}
      /\ Top.locs + Entry(Top) <= Len(loclist)
  BY TopFacts
<1>2. Len(loclist) \in Nat
  BY DEF StacksInv, TypeOK
<1> QED
  BY <1>1, <1>2

LEMMA EvBodyScoped ==
    ASSUME StacksInv, StacksInv', fault' = "none", EvBody
    PROVE  Scoped!Next
<1> DEFINE f == [Top EXCEPT !.stage = "body"]
<1> DEFINE undone == Undone(Top.names, mspeclist, value)
<1>1. /\ stack # <<>> /\ Top.stage = "atoms" /\ Top.kind = "ev" /\ stack' = WithTop(f)
      /\ UNCHANGED <<localVars, mode, fault>>
  BY DEF EvBody, Running
<1>2. /\ Top \in Frames /\ f \in Frames /\ f.kind = "ev"
      /\ f.binds = Top.binds /\ f.locs = Top.locs /\ f.stage = "body"
      /\ BoundNames(f) = Top.names /\ BoundNames(Top) = Top.names
  BY <1>1, TopFacts DEF Frames, BoundNames
<1>3. HasEntry(Top) = TRUE /\ HasEntry(f) = TRUE
  BY <1>1, <1>2 DEF HasEntry
<1> HIDE DEF f
<1>4. PICK names \in Seq(Vars) : names = Top.names
  BY <1>1, TopFacts
<1>5. PICK start \in Nat : start = Top.binds
  BY <1>1, TopFacts
<1>6. /\ value \in [Vars -> Cells] /\ mspeclist \in Seq(Cells) /\ fault = "none"
      /\ start + Len(names) = Len(mspeclist) /\ Len(names) \in Nat
      /\ Len(names) \in 0 .. Len(mspeclist) /\ Len(names) <= Len(mspeclist)
      /\ Len(mspeclist) - Len(names) = start
  <2>1. /\ value \in [Vars -> Cells] /\ mspeclist \in Seq(Cells) /\ fault = "none"
        /\ start + Len(names) = Len(mspeclist) /\ Len(names) \in Nat
    BY <1>1, <1>2, <1>4, <1>5, TopFacts, SavedExactly
  <2> QED
    BY <2>1
<1>7. /\ undone \in [Vars -> Cells]
      /\ \A n \in Vars : undone[n] =
            IF Occurs(n, names)
              THEN mspeclist[Len(mspeclist) - Len(names) + FirstOf(n, names)] ELSE value[n]
  BY <1>4, <1>6, UndoneFacts
<1> HIDE DEF undone
<1>8. PICK news \in Inits(Top.names) :
          /\ value' = Set(names, news, undone)
          /\ mspeclist' = Cut(mspeclist, Len(names)) \o Saved(names, news, undone)
  BY <1>4 DEF EvBody, Mbind, undone
<1>9. news \in [1 .. Len(names) -> Cells]
  BY <1>1, <1>4, <1>8, InitsType
<1>10. PICK low \in Seq(Cells) : low = Cut(mspeclist, Len(names)) /\ Len(low) = start
  BY <1>6, CutFacts
<1>11. PICK saved \in Seq(Cells) : saved = Saved(names, news, undone)
  BY <1>7, <1>9, SavedType
<1>12. mspeclist' = low \o saved
  BY <1>8, <1>10, <1>11
<1>13. SavesOn(low, names, news, undone)
  BY <1>7, <1>9, SavedSlice
<1>14. Slice(mspeclist', start, names) = [n \in ToSet(names) |-> undone[n]]
  BY <1>10, <1>11, <1>12, <1>13 DEF SavesOn
<1>15. \A n \in ToSet(names) : n \in Vars /\ Occurs(n, names)
  BY ToSetIs, ToSetType
<1>16. Slice(mspeclist', start, names) = Slice(mspeclist, start, names)
  BY <1>6, <1>7, <1>14, <1>15 DEF Slice
<1>17. Scoped!SameBut(ToSet(names), value, value')
  BY <1>6, <1>7, <1>8, ToSetIs DEF Scoped!SameBut, Set
<1>18. Agree(mspeclist, mspeclist', 0, start)
  <2>1. Agree(low, low \o saved, 0, start)
    BY <1>10, AgreeConcat
  <2>2. Agree(mspeclist, low, 0, start)
    BY <1>6, <1>10, AgreeCut
  <2> QED
    BY <1>12, <2>1, <2>2 DEF Agree
<1>19. /\ Top.locs \in Nat /\ Top.locs <= Len(loclist)
  BY <1>1, TopLocs
<1>20. LowerKept
  <2>1. Agree(mproplist, mproplist', 0, Len(FlattenSeq(SubSeq(loclist, 1, Top.locs))))
    BY <1>1, AgreeSelf DEF localVars
  <2> QED
    BY <1>1, <1>5, <1>18, <1>19, <2>1 DEF LowerKept, InCommon, localVars
<1>21. /\ scopesBar # <<>>
       /\ scopesBar' = Append(Scoped!Rest, ScopeIn(f, mspeclist', loclist', mproplist'))
       /\ Scoped!Top = ScopeIn(Top, mspeclist, loclist, mproplist)
  BY <1>1, <1>2, <1>6, <1>20, TopBar DEF StacksInv
<1>22. ScopeIn(f, mspeclist', loclist', mproplist') = ScopeIn(Top, mspeclist, loclist, mproplist)
  BY <1>1, <1>2, <1>3, <1>4, <1>5, <1>16 DEF ScopeIn, localVars
<1>23. scopesBar' = scopesBar
  BY <1>1, <1>6, <1>21, <1>22, SplitBar
<1>24. DOMAIN Scoped!Top.vals = ToSet(names)
  BY <1>2, <1>4, <1>21 DEF ScopeIn, Slice
<1> QED
  BY <1>1, <1>17, <1>21, <1>23, <1>24 DEF Scoped!Next, Scoped!Rebind, localVars

LEMMA EvBodyFailsScoped ==
    ASSUME StacksInv, StacksInv', fault' = "none", EvBodyFails
    PROVE  Scoped!Next
<1> DEFINE f == [Top EXCEPT !.stage = "body", !.names = <<>>]
<1>1. /\ stack # <<>> /\ Top.stage = "atoms" /\ Top.kind = "ev" /\ stack' = WithTop(f)
      /\ UNCHANGED <<localVars, fault>> /\ Munbind(Top.names)
  BY DEF EvBodyFails, Running
<1>2. /\ Top \in Frames /\ f \in Frames /\ f.kind = "ev"
      /\ f.binds = Top.binds /\ f.locs = Top.locs /\ f.stage = "body"
      /\ BoundNames(f) = <<>> /\ BoundNames(Top) = Top.names
  BY <1>1, TopFacts, EmptySeq DEF Frames, BoundNames
<1>3. HasEntry(Top) = TRUE /\ HasEntry(f) = TRUE
  BY <1>1, <1>2 DEF HasEntry
<1> HIDE DEF f
<1>4. PICK names \in Seq(Vars) : names = Top.names
  BY <1>1, TopFacts
<1>5. PICK start \in Nat : start = Top.binds
  BY <1>1, TopFacts
<1>6. /\ value \in [Vars -> Cells] /\ mspeclist \in Seq(Cells) /\ fault = "none"
      /\ start + Len(names) = Len(mspeclist) /\ Len(names) \in Nat
      /\ Len(names) \in 0 .. Len(mspeclist)
      /\ start <= Len(mspeclist) - Len(names)
  <2>1. /\ value \in [Vars -> Cells] /\ mspeclist \in Seq(Cells) /\ fault = "none"
        /\ start + Len(names) = Len(mspeclist) /\ Len(names) \in Nat
    BY <1>1, <1>2, <1>4, <1>5, TopFacts, SavedExactly
  <2> QED
    BY <2>1
<1>7. value' = Scoped!Restored(Slice(mspeclist, start, names), value)
  BY <1>1, <1>4, <1>6, RestoredIs DEF Munbind, Restores
<1>8. Agree(mspeclist, mspeclist', 0, start)
  BY <1>1, <1>4, <1>6, AgreeCut DEF Munbind
<1>9. Top.locs \in Nat /\ Top.locs <= Len(loclist)
  BY <1>1, TopLocs
<1>10. LowerKept
  <2>1. Agree(mproplist, mproplist', 0, Len(FlattenSeq(SubSeq(loclist, 1, Top.locs))))
    BY <1>1, AgreeSelf DEF localVars
  <2> QED
    BY <1>1, <1>5, <1>8, <1>9, <2>1 DEF LowerKept, InCommon, localVars
<1>11. /\ scopesBar # <<>>
       /\ scopesBar' = Append(Scoped!Rest, ScopeIn(f, mspeclist', loclist', mproplist'))
       /\ Scoped!Top = ScopeIn(Top, mspeclist, loclist, mproplist)
  BY <1>1, <1>2, <1>6, <1>10, TopBar DEF StacksInv
<1>12. Scoped!Top.vals = Slice(mspeclist, start, names)
  BY <1>2, <1>4, <1>5, <1>11 DEF ScopeIn
<1>13. ScopeIn(f, mspeclist', loclist', mproplist') = [Scoped!Top EXCEPT !.vals = <<>>]
  <2>1. Slice(mspeclist', f.binds, BoundNames(f)) = <<>>
    BY <1>2, SliceOfNone
  <2>2. PICK defs : defs = Slice(mproplist, Len(FlattenSeq(SubSeq(loclist, 1, Top.locs))),
                                 loclist[Top.locs + 1])
    OBVIOUS
  <2>3. loclist' = loclist /\ mproplist' = mproplist
    BY <1>1 DEF localVars
  <2>4. PICK hides : hides = HasEntry(f) /\ hides = HasEntry(Top)
    BY <1>3
  <2>5. ScopeIn(f, mspeclist', loclist', mproplist') =
          [vals |-> <<>>, defs |-> defs, hides |-> hides]
    BY <1>2, <1>3, <2>1, <2>2, <2>3, <2>4 DEF ScopeIn
  <2>6. PICK vals : vals = Slice(mspeclist, Top.binds, BoundNames(Top))
    OBVIOUS
  <2>7. Scoped!Top = [vals |-> vals, defs |-> defs, hides |-> hides]
    BY <1>3, <1>11, <2>2, <2>4, <2>6 DEF ScopeIn
  <2>8. [[vals |-> vals, defs |-> defs, hides |-> hides] EXCEPT !.vals = <<>>] =
           [vals |-> <<>>, defs |-> defs, hides |-> hides]
    OBVIOUS
  <2> QED
    BY <2>5, <2>7, <2>8, Zenon
<1> QED
  BY <1>1, <1>7, <1>11, <1>12, <1>13 DEF Scoped!Next, Scoped!Rebind, localVars

\* Taking back the bindings of the evaluation on top.
LEMMA UnbindScoped ==
    ASSUME StacksInv, stack # <<>>, fault = "none", Munbind(BoundNames(Top))
    PROVE  /\ value' = Scoped!Restored(Slice(mspeclist, Top.binds, BoundNames(Top)), value)
           /\ Agree(mspeclist, mspeclist', 0, Top.binds)
<1>1. PICK names \in Seq(Vars) : names = BoundNames(Top)
  BY TopFacts
<1>2. PICK start \in Nat : start = Top.binds
  BY TopFacts
<1>3. /\ value \in [Vars -> Cells] /\ mspeclist \in Seq(Cells)
      /\ start + Len(names) = Len(mspeclist) /\ Len(names) \in Nat
  BY <1>1, <1>2, TopFacts, SavedExactly
<1>4. /\ Len(names) \in 0 .. Len(mspeclist) /\ start <= Len(mspeclist) - Len(names)
  BY <1>3
<1>5. value' = Scoped!Restored(Slice(mspeclist, start, names), value)
  BY <1>1, <1>3, RestoredIs DEF Munbind, Restores
<1>6. Agree(mspeclist, mspeclist', 0, start)
  BY <1>1, <1>3, <1>4, AgreeCut DEF Munbind
<1> QED
  BY <1>1, <1>2, <1>5, <1>6

\* The evaluation on top is left, and its scope is closed.
LEMMA LeftCloses ==
    ASSUME StacksInv, StacksInv', stack # <<>>, fault = "none", fault' = "none",
           stack' = Rest, Munbind(BoundNames(Top)), NEW defs,
           ScopeIn(Top, mspeclist, loclist, mproplist).defs = defs,
           prop' = Scoped!Restored(defs, prop),
           Top.locs <= Len(loclist'), SubSeq(loclist', 1, Top.locs) = SubSeq(loclist, 1, Top.locs),
           Agree(mproplist, mproplist', 0, Len(FlattenSeq(SubSeq(loclist, 1, Top.locs))))
    PROVE  Scoped!Close
<1>1. /\ value' = Scoped!Restored(Slice(mspeclist, Top.binds, BoundNames(Top)), value)
      /\ Agree(mspeclist, mspeclist', 0, Top.binds)
  BY UnbindScoped
<1>2. LowerKept
  BY <1>1, TopLocs DEF LowerKept, InCommon
<1>3. /\ scopesBar # <<>> /\ scopesBar' = Scoped!Rest
      /\ Scoped!Top = ScopeIn(Top, mspeclist, loclist, mproplist)
  BY <1>2, CloseBar DEF StacksInv
<1>4. Scoped!Top.vals = Slice(mspeclist, Top.binds, BoundNames(Top))
  BY <1>3 DEF ScopeIn
<1> QED
  BY <1>1, <1>3, <1>4 DEF Scoped!Close

LEMMA RestoreNothing ==
    ASSUME NEW X, NEW Y, NEW cells \in [X -> Y]
    PROVE  Scoped!Restored(<<>>, cells) = cells
<1>1. DOMAIN <<>> = {}
  BY EmptySeq, LenProperties
<1> QED
  BY <1>1 DEF Scoped!Restored

LEMMA ErrlfunCloses ==
    ASSUME StacksInv, StacksInv', stack # <<>>, fault = "none", fault' = "none",
           stack' = Rest, Top.kind \in {"errcatch", "catch"}, Errlfun1(Top)
    PROVE  Scoped!Close
<1>1. /\ BoundNames(Top) = <<>> /\ ~HasEntry(Top) /\ Entry(Top) = 0
      /\ Top.binds = Len(bindlist) /\ Top.locs = Len(loclist)
      /\ Len(bindlist) \in Nat /\ Len(loclist) \in Nat
  <2>1. Top.stage = "body" /\ Top.names = <<>>
    BY TopFacts
  <2>2. BoundNames(Top) = <<>> /\ ~HasEntry(Top) /\ Entry(Top) = 0 /\ Len(BoundNames(Top)) = 0
    BY <2>1, EmptySeq DEF BoundNames, HasEntry, Entry
  <2>3. Top.binds = Len(bindlist) /\ Top.locs = Len(loclist)
    BY <2>2, TopFacts
  <2>4. Len(bindlist) \in Nat /\ Len(loclist) \in Nat
    BY DEF StacksInv, TypeOK
  <2> QED
    BY <2>2, <2>3, <2>4
<1>2. Len(bindlist) - Top.binds = 0 /\ Len(loclist) - Top.locs = 0
  BY <1>1
<1>3. Munbind(BoundNames(Top)) /\ Munlocal(0)
  <2>1. Newest(bindlist, 0) = <<>>
    BY <1>1, SubSeqEmpty DEF Newest
  <2> QED
    BY <1>1, <1>2, <2>1 DEF Errlfun1
<1>4. /\ loclist \in Seq(Seq(Funs)) /\ mproplist \in Seq(Defs) /\ prop \in [Funs -> Defs]
      /\ Len(FlattenSeq(loclist)) = Len(mproplist) /\ Len(mproplist) \in Nat
      /\ SubSeq(loclist, 1, Len(loclist)) = loclist
  BY SavedExactly
<1>5. FlattenSeq(Newest(loclist, 0)) = <<>>
  <2>1. Newest(loclist, 0) = <<>>
    BY <1>1, SubSeqEmpty DEF Newest
  <2> QED
    BY <2>1, FlattenEmpty
<1>6. prop' = Undone(<<>>, mproplist, prop) /\ mproplist' = Cut(mproplist, Len(<<>>))
      /\ loclist' = Cut(loclist, 0)
  BY <1>3, <1>5 DEF Munlocal
<1>7. Len(<<>>) = 0 /\ <<>> \in Seq(Funs) /\ Len(mproplist) + Len(<<>>) = Len(mproplist)
  BY <1>4, EmptySeq
<1>8. prop' = Scoped!Restored(<<>>, prop)
  <2>1. Undone(<<>>, mproplist, prop) =
          Scoped!Restored(Slice(mproplist, Len(mproplist), <<>>), prop)
    <3>1. PICK none \in Seq(Funs) : none = <<>>
      BY <1>7
    <3>2. Len(mproplist) + Len(none) = Len(mproplist)
      BY <1>7, <3>1
    <3>3. Restores(none, mproplist, Len(mproplist), prop)
      BY <1>4, <3>1, <3>2, RestoredIs
    <3> QED
      BY <3>1, <3>3 DEF Restores
  <2> QED
    BY <1>6, <2>1, SliceOfNone
<1>9. loclist' = loclist /\ mproplist' = mproplist
  <2>1. SubSeq(mproplist, 1, Len(mproplist)) = mproplist
    BY <1>4, SubSeqFull
  <2>2. Len(mproplist) - 0 = Len(mproplist) /\ Len(loclist) - 0 = Len(loclist)
    BY <1>1, <1>4
  <2> QED
    BY <1>4, <1>6, <1>7, <2>1, <2>2 DEF Cut
<1>10. ScopeIn(Top, mspeclist, loclist, mproplist).defs = <<>>
  BY <1>1, PlainScope DEF Plain
<1>11. Agree(mproplist, mproplist', 0, Len(FlattenSeq(SubSeq(loclist, 1, Top.locs))))
  BY <1>9, AgreeSelf
<1> QED
  BY <1>1, <1>3, <1>8, <1>9, <1>10, <1>11, LeftCloses

LEMMA CleanupCloses ==
    ASSUME StacksInv, StacksInv', stack # <<>>, fault = "none", fault' = "none",
           stack' = Rest, Cleanup(Top), HasEntry(Top) => TakesEntryBack(Top)
    PROVE  Scoped!Close
<1>1. CASE Top.kind = "catch"
  BY <1>1, ErrlfunCloses DEF Cleanup
<1>2. CASE Top.kind # "catch" /\ ~HasEntry(Top)
  <2>1. Munbind(BoundNames(Top)) /\ loclist' = loclist /\ mproplist' = mproplist /\ prop' = prop
    BY <1>2 DEF Cleanup, TakesEntryBack, localVars
  <2>2. ScopeIn(Top, mspeclist, loclist, mproplist).defs = <<>>
    BY <1>2 DEF ScopeIn
  <2>3. prop' = Scoped!Restored(<<>>, prop)
    BY <2>1, RestoreNothing, SavedExactly
  <2>4. Agree(mproplist, mproplist', 0, Len(FlattenSeq(SubSeq(loclist, 1, Top.locs))))
    BY <2>1, AgreeSelf
  <2> QED
    BY <2>1, <2>2, <2>3, <2>4, TopLocs, LeftCloses
<1>3. CASE Top.kind # "catch" /\ HasEntry(Top)
  <2>1. Munbind(BoundNames(Top)) /\ Munlocal(1)
    BY <1>3 DEF Cleanup
  <2>2. /\ Top.locs \in Nat /\ Top.locs + 1 = Len(loclist) /\ Len(loclist) \in Nat
        /\ Top.locs < Len(loclist) /\ Len(loclist) - 1 = Top.locs
        /\ 1 \in 0 .. Len(loclist) /\ Top.locs <= Len(loclist) - 1
    <3>1. Top.locs \in Nat /\ Top.locs + 1 = Len(loclist)
      BY <1>3, TopFacts DEF Entry
    <3> QED
      BY <3>1
  <2>3. /\ loclist \in Seq(Seq(Funs)) /\ mproplist \in Seq(Defs) /\ prop \in [Funs -> Defs]
        /\ Len(FlattenSeq(loclist)) = Len(mproplist)
        /\ SubSeq(loclist, 1, Len(loclist)) = loclist
    BY SavedExactly
  <2>4. PICK names \in Seq(Funs) : names = loclist[Top.locs + 1]
    BY <2>2, <2>3, FlattenPart
  <2>5. PICK low \in Seq(Seq(Funs)) : low = SubSeq(loclist, 1, Top.locs)
    BY <2>2, <2>3, FlattenPart
  <2>6. loclist = Append(low, names)
    BY <2>2, <2>3, <2>4, <2>5, PrefixAppend
  <2>7. FlattenSeq(loclist) = FlattenSeq(low) \o names
    BY <2>6, FlattenAppend
  <2>8. PICK start \in Nat : start = Len(FlattenSeq(low))
    BY FlattenType
  <2>9. start + Len(names) = Len(mproplist)
    <3>1. PICK flat \in Seq(Funs) : flat = FlattenSeq(low)
      BY FlattenType
    <3>2. Len(flat \o names) = Len(flat) + Len(names)
      OBVIOUS
    <3> QED
      BY <2>3, <2>7, <2>8, <3>1, <3>2
  <2>10. FlattenSeq(Newest(loclist, 1)) = names
    <3>1. PICK newest \in Seq(Seq(Funs)) : newest = Newest(loclist, 1)
      BY <2>2, <2>3, NewestFacts
    <3>2. Len(newest) = 1 /\ \A i \in 1 .. 1 : newest[i] = loclist[Len(loclist) - 1 + i]
      BY <2>2, <2>3, <3>1, NewestFacts
    <3>3. newest[1] = names
      <4>1. newest[1] = loclist[Len(loclist) - 1 + 1]
        BY <3>2
      <4> QED
        BY <2>2, <2>4, <4>1
    <3>4. <<>> \in Seq(Seq(Funs))
      BY EmptySeq
    <3>5. newest = Append(<<>>, names)
      <4>1. /\ Append(<<>>, names) \in Seq(Seq(Funs)) /\ Len(Append(<<>>, names)) = 1
            /\ Append(<<>>, names)[1] = names
        OBVIOUS
      <4>2. \A i \in 1 .. Len(newest) : newest[i] = Append(<<>>, names)[i]
        BY <3>2, <3>3, <4>1
      <4> QED
        BY <3>2, <4>1, <4>2, SeqEqual
    <3>6. FlattenSeq(newest) = FlattenSeq(<<>>) \o names
      BY <3>4, <3>5, FlattenAppend
    <3> QED
      BY <3>1, <3>6, FlattenEmpty, ConcatEmptySeq
  <2>11. /\ prop' = Undone(names, mproplist, prop) /\ mproplist' = Cut(mproplist, Len(names))
         /\ loclist' = Cut(loclist, 1)
    BY <2>1, <2>10 DEF Munlocal
  <2>12. prop' = Scoped!Restored(Slice(mproplist, start, names), prop)
    <3>1. Restores(names, mproplist, start, prop)
      BY <2>3, <2>4, <2>8, <2>9, RestoredIs
    <3> QED
      BY <2>11, <3>1 DEF Restores
  <2>13. ScopeIn(Top, mspeclist, loclist, mproplist).defs = Slice(mproplist, start, names)
    BY <1>3, <2>4, <2>5, <2>8 DEF ScopeIn
  <2>14. Top.locs <= Len(loclist') /\ SubSeq(loclist', 1, Top.locs) = SubSeq(loclist, 1, Top.locs)
    BY <2>2, <2>3, <2>11, PrefixOfCut
  <2>15. Agree(mproplist, mproplist', 0, Len(FlattenSeq(SubSeq(loclist, 1, Top.locs))))
    <3>1. Len(names) \in 0 .. Len(mproplist) /\ start <= Len(mproplist) - Len(names)
      BY <2>3, <2>9
    <3> QED
      BY <2>3, <2>5, <2>8, <2>11, <3>1, AgreeCut
  <2> QED
    BY <2>1, <2>12, <2>13, <2>14, <2>15, LeftCloses
<1> QED
  BY <1>1, <1>2, <1>3

LEMMA LeavingScoped ==
    ASSUME StacksInv, StacksInv', fault' = "none",
           Leave \/ Unwind \/ Caught \/ ThrowLands \/ ReturnLands
    PROVE  Scoped!Close
<1>0. \A kind \in Faults : ~FirstFault(kind)
  BY FirstFaultFacts
<1>1. stack # <<>> /\ stack' = Rest /\ UNCHANGED fault
  BY <1>0 DEF Leave, Running, Unwind, Unwinding, Caught, ThrowLands, ReturnLands, Faults
<1>2. CASE Caught
  <2>1. Top.kind = "errcatch" /\ Errlfun1(Top)
    BY <1>2 DEF Caught, Stops
  <2> QED
    BY <1>1, <2>1, ErrlfunCloses
<1>3. CASE ~Caught
  <2>1. Cleanup(Top)
    BY <1>3 DEF Leave, Unwind, ThrowLands, ReturnLands
  <2>2. HasEntry(Top) => TakesEntryBack(Top)
    BY <1>0, <1>3 DEF Leave, Unwind, ThrowLands, ReturnLands, Stops, IsTarget, TakesEntryBack,
       HasEntry, Faults
  <2> QED
    BY <1>1, <2>1, <2>2, CleanupCloses
<1> QED
  BY <1>2, <1>3

\* Assignments and definitions are work done in the innermost scope.
LEMMA WorkScoped ==
    ASSUME StacksInv, Assign \/ Define
    PROVE  Scoped!Work
<1>1. scopesBar' = scopesBar
  BY SameBar DEF Assign, Define, valueVars, localVars
<1> QED
  BY <1>1 DEF Assign, Define, Scoped!Work, valueVars, localVars

-----------------------------------------------------------------------------
(* local.                                                                  *)

\* Above the evaluation k nothing is pushed on loclist.
LEMMA NoneAbove ==
    ASSUME StacksInv, fault = "none", NEW k \in 1 .. Len(stack),
           \A q \in k + 1 .. Len(stack) : ~HasEntry(stack[q])
    PROVE  LocsEnd(k) = Len(loclist)
<1> DEFINE S == {j \in Nat : k + j <= Len(stack) => LocsEnd(k + j) = LocsEnd(k)}
<1>0. Len(stack) \in Nat /\ k + 0 = k
  BY DEF StacksInv, TypeOK
<1>1. 0 \in S
  BY <1>0
<1>2. ASSUME NEW j \in Nat, j \in S PROVE j + 1 \in S
  <2> SUFFICES ASSUME k + (j + 1) <= Len(stack) PROVE LocsEnd(k + (j + 1)) = LocsEnd(k)
    OBVIOUS
  <2>1. /\ k + j <= Len(stack) /\ k + j # Len(stack) /\ k + (j + 1) = k + j + 1
        /\ k + j + 1 \in k + 1 .. Len(stack) /\ k + j + 1 \in 1 .. Len(stack)
    BY <1>0
  <2>2. LocsEnd(k + j) = stack[k + j + 1].locs /\ LocsEnd(k + j) = LocsEnd(k)
    BY <1>2, <2>1 DEF LocsEnd
  <2>3. Entry(stack[k + j + 1]) = 0 /\ stack[k + j + 1].locs \in Nat
    <3>1. stack \in Seq(Frames)
      BY DEF StacksInv, TypeOK
    <3>2. PICK f \in Frames : f = stack[k + j + 1]
      BY <2>1, <3>1, ElementOfSeq
    <3>3. ~HasEntry(stack[k + j + 1])
      BY <2>1
    <3> QED
      BY <3>2, <3>3, FrameFacts DEF Entry
  <2>4. stack[k + j + 1].locs + Entry(stack[k + j + 1]) = LocsEnd(k + j + 1)
    BY <2>1 DEF StacksInv, LocsChained
  <2> QED
    BY <2>1, <2>2, <2>3, <2>4
<1> HIDE DEF S
<1>3. \A j \in Nat : j \in S
  BY <1>1, <1>2, EveryNatural
<1>4. Len(stack) - k \in Nat /\ k + (Len(stack) - k) = Len(stack)
  BY <1>0
<1>5. LocsEnd(Len(stack)) = LocsEnd(k)
  <2>1. Len(stack) - k \in S
    BY <1>3, <1>4
  <2>2. k + (Len(stack) - k) <= Len(stack)
    BY <1>0, <1>4
  <2> QED
    BY <1>4, <2>1, <2>2 DEF S
<1> QED
  BY <1>5 DEF LocsEnd

\* The last entry of loclist is that of the innermost evaluation that has one.
LEMMA LastEntry ==
    ASSUME StacksInv, fault = "none", loclist # <<>>
    PROVE  \E i \in 1 .. Len(stack) :
              /\ HasEntry(stack[i]) /\ stack[i].locs + 1 = Len(loclist)
              /\ \A r \in 1 .. Len(stack) : HasEntry(stack[r]) => r <= i
<1> DEFINE S == {q \in 1 .. Len(stack) : HasEntry(stack[q])}
<1>0. Len(stack) \in Nat /\ S \in SUBSET (0 .. Len(stack)) /\ Len(loclist) \in Nat \ {0}
  BY EmptySeq DEF StacksInv, TypeOK
<1>1. S # {}
  <2> SUFFICES ASSUME S = {} PROVE FALSE
    OBVIOUS
  <2>1. stack # <<>>
    BY DEF StacksInv, LocsChained
  <2>2. 1 \in 1 .. Len(stack)
    BY <1>0, <2>1, TopFacts
  <2>3. Entry(stack[1]) = 0 /\ stack[1].locs = 0
    BY <2>1, <2>2 DEF Entry, StacksInv, LocsChained
  <2>4. stack[1].locs + Entry(stack[1]) = LocsEnd(1)
    BY <2>2 DEF StacksInv, LocsChained
  <2>5. \A q \in 1 + 1 .. Len(stack) : ~HasEntry(stack[q])
    OBVIOUS
  <2>6. LocsEnd(1) = Len(loclist)
    BY <2>2, <2>5, NoneAbove
  <2> QED
    BY <1>0, <2>3, <2>4, <2>6
<1>2. PICK i \in S : \A r \in S : r <= i
  BY <1>0, <1>1, GreatestNatural
<1>3. \A q \in i + 1 .. Len(stack) : ~HasEntry(stack[q])
  <2> SUFFICES ASSUME NEW q \in i + 1 .. Len(stack), HasEntry(stack[q]) PROVE FALSE
    OBVIOUS
  <2>1. q \in 1 .. Len(stack) /\ i < q /\ i \in Int /\ q \in Int
    BY <1>0
  <2>2. q \in S
    BY <2>1
  <2> QED
    BY <1>2, <2>1, <2>2
<1>4. i \in 1 .. Len(stack)
  OBVIOUS
<1>5. LocsEnd(i) = Len(loclist)
  BY <1>3, <1>4, NoneAbove
<1>6. Entry(stack[i]) = 1 /\ stack[i].locs + Entry(stack[i]) = LocsEnd(i)
  BY <1>4 DEF Entry, StacksInv, LocsChained
<1> QED
  BY <1>2, <1>4, <1>5, <1>6

\* A scope is made of what an evaluation has in common before and after local.
LEMMA SameScope ==
    ASSUME Keeps, NEW q \in 1 .. Len(stack), NEW ml, NEW ll, NEW pl
    PROVE  ScopeIn(stack'[q], ml, ll, pl) = ScopeIn(stack[q], ml, ll, pl)
BY DEF Keeps, ScopeIn, BoundNames, HasEntry

LEMMA ScopeHides == \A f, ml, ll, pl : ScopeIn(f, ml, ll, pl).hides = HasEntry(f)
BY Zenon DEF ScopeIn

\* What local does to the last entry of loclist, and to the properties.
LocalDoes(l) ==
    /\ Slice(mproplist, Len(FlattenSeq(SubSeq(loclist, 1, Len(loclist) - 1))), loclist[Len(loclist)]) = <<>>
    /\ Slice(mproplist', Len(FlattenSeq(SubSeq(loclist', 1, Len(loclist) - 1))), loclist'[Len(loclist)]) =
         [g \in ToSet(l) |-> prop[g]]
    /\ \A k \in Nat : InCommon(k, mspeclist, mspeclist', Len(loclist) - 1, loclist, loclist',
                               mproplist, mproplist')

LEMMA LocalDone ==
    ASSUME StacksInv, fault = "none", loclist # <<>>, Last(loclist) = <<>>,
           NEW l \in Seq(Funs), Hide(l), loclist' = Append(Cut(loclist, 1), l),
           mspeclist' = mspeclist
    PROVE  LocalDoes(l)
<1>0. /\ loclist \in Seq(Seq(Funs)) /\ Len(loclist) \in Nat \ {0} /\ 1 \in 0 .. Len(loclist)
      /\ Len(FlattenSeq(loclist)) = Len(mproplist) /\ mproplist \in Seq(Defs)
  BY SavedExactly, EmptySeq DEF StacksInv, TypeOK
<1>1. PICK m \in Nat : m = Len(loclist) - 1
  <2>1. Len(loclist) - 1 \in Nat
    BY <1>0
  <2> QED
    BY <2>1
<1>2. PICK low \in Seq(Seq(Funs)) : low = Cut(loclist, 1)
  BY <1>0, CutFacts
<1>3. low = SubSeq(loclist, 1, m) /\ Len(low) = m /\ loclist' = Append(low, l) /\ m + 1 = Len(loclist)
  BY <1>0, <1>1, <1>2, CutFacts DEF Cut
<1>4. loclist = Append(low, <<>>) /\ loclist[Len(loclist)] = <<>> /\ <<>> \in Seq(Funs)
  BY <1>0, <1>2, LocalFacts, EmptySeq DEF Last
<1>5. FlattenSeq(low) = FlattenSeq(loclist)
  <2>1. FlattenSeq(Append(low, <<>>)) = FlattenSeq(low) \o <<>>
    BY <1>4, FlattenAppend
  <2>2. FlattenSeq(low) \in Seq(Funs)
    BY FlattenType
  <2> QED
    BY <1>4, <2>1, <2>2, ConcatEmptySeq
<1>6. /\ loclist' \in Seq(Seq(Funs)) /\ m <= Len(loclist') /\ SubSeq(loclist', 1, m) = low
      /\ loclist'[Len(loclist)] = l
  <2>1. m <= Len(Append(low, l)) /\ SubSeq(Append(low, l), 1, m) = SubSeq(low, 1, m)
    BY <1>3, PrefixOfAppend
  <2>2. SubSeq(low, 1, m) = low
    BY <1>3, SubSeqFull
  <2>3. Append(low, l)[m + 1] = l /\ Append(low, l) \in Seq(Seq(Funs))
    BY <1>3, AppendProperties
  <2> QED
    BY <1>3, <2>1, <2>2, <2>3
<1>7. /\ Slice(mproplist', Len(mproplist), l) = [g \in ToSet(l) |-> prop[g]]
      /\ Agree(mproplist, mproplist', 0, Len(mproplist))
  BY HideScoped
<1>8. Slice(mproplist', Len(FlattenSeq(SubSeq(loclist', 1, m))), loclist'[Len(loclist)]) =
        [g \in ToSet(l) |-> prop[g]]
  BY <1>0, <1>5, <1>6, <1>7
<1>9. ASSUME NEW k \in Nat
      PROVE  InCommon(k, mspeclist, mspeclist', m, loclist, loclist', mproplist, mproplist')
  <2>1. Agree(mspeclist, mspeclist', 0, k)
    BY AgreeSelf
  <2>2. m <= Len(loclist)
    BY <1>0, <1>1
  <2>3. Agree(mproplist, mproplist', 0, Len(FlattenSeq(SubSeq(loclist, 1, m))))
    BY <1>0, <1>3, <1>5, <1>7
  <2> QED
    BY <1>3, <1>6, <2>1, <2>2, <2>3 DEF InCommon
<1>10. Slice(mproplist, Len(FlattenSeq(SubSeq(loclist, 1, m))), loclist[Len(loclist)]) = <<>>
  BY <1>4, SliceOfNone
<1>11. \A k \in Nat :
          InCommon(k, mspeclist, mspeclist', m, loclist, loclist', mproplist, mproplist')
  BY <1>9
<1> QED
  BY <1>1, <1>8, <1>10, <1>11, Zenon DEF LocalDoes

LEMMA LocalScoped ==
    ASSUME StacksInv, StacksInv', fault' = "none", Local
    PROVE  Scoped!Next
<1>0. fault = "none" /\ Last(loclist) = <<>> /\ loclist # <<>> /\ UNCHANGED <<valueVars, mode>>
  <2>1. ~FirstFault("entry")
    BY FirstFaultFacts DEF Faults
  <2> QED
    BY <2>1 DEF Local
<1>1. PICK l \in FunLists : Hide(l) /\ loclist' = Append(Cut(loclist, 1), l)
  BY DEF Local
<1>2. l \in Seq(Funs)
  BY <1>1, ListsAssumption
<1>3. LocalDoes(l)
  BY <1>0, <1>1, <1>2, LocalDone DEF valueVars
<1>4. PICK i \in 1 .. Len(stack) :
          /\ HasEntry(stack[i]) /\ stack[i].locs + 1 = Len(loclist)
          /\ \A r \in 1 .. Len(stack) : HasEntry(stack[r]) => r <= i
  BY <1>0, LastEntry
<1>5. PICK n \in Nat : n = Len(stack)
  BY DEF StacksInv, TypeOK
<1>6. Keeps
  <2>1. Len(loclist') = Len(loclist)
    BY <1>0, <1>1, <1>2, LocalFacts
  <2> QED
    BY <2>1, LocalFrames
<1>7. Len(stack') = n
  BY <1>5, <1>6 DEF Keeps
<1>8. \A q \in 1 .. n : scopesBar[q] = ScopeIn(stack[q], mspeclist, loclist, mproplist)
  BY <1>0, <1>5, BarIs
<1>9. \A q \in 1 .. n : scopesBar'[q] = ScopeIn(stack[q], mspeclist', loclist', mproplist')
  <2> SUFFICES ASSUME NEW q \in 1 .. n
               PROVE  scopesBar'[q] = ScopeIn(stack[q], mspeclist', loclist', mproplist')
    OBVIOUS
  <2>1. q \in 1 .. Len(stack) /\ q \in 1 .. Len(stack')
    BY <1>5, <1>7
  <2>2. scopesBar'[q] = ScopeIn(stack'[q], mspeclist', loclist', mproplist')
    BY <2>1, BarNext
  <2> QED
    BY <1>6, <2>1, <2>2, SameScope
<1>10. ASSUME NEW q \in 1 .. n, q # i
       PROVE  scopesBar'[q] = scopesBar[q]
  <2>0. PICK f \in Frames : f = stack[q]
    BY <1>5 DEF StacksInv, TypeOK
  <2>1. CASE q < i
    <3>1. PICK k \in Nat : k = f.binds + Len(BoundNames(f))
      BY FrameFacts
    <3>2. PICK m \in Nat : m = Len(loclist) - 1 /\ m = stack[i].locs
      <4>1. stack[i] \in Frames
        BY <1>4 DEF StacksInv, TypeOK
      <4>2. stack[i].locs \in Nat /\ stack[i].locs + 1 = Len(loclist)
        BY <1>4, <4>1, FrameFacts
      <4> QED
        BY <4>2
    <3>3. InCommon(k, mspeclist, mspeclist', m, loclist, loclist', mproplist, mproplist')
      BY <1>3, <3>1, <3>2 DEF LocalDoes
    <3>4. f.locs + Entry(f) <= m /\ f.binds + Len(BoundNames(f)) <= k
      <4>1. q \in 1 .. Len(stack)
        BY <1>5
      <4>2. stack[q].locs + Entry(stack[q]) <= stack[i].locs
        BY <1>4, <2>1, <4>1 DEF StacksInv, LocsOrdered
      <4> QED
        BY <2>0, <3>1, <3>2, <4>2
    <3>5. loclist \in Seq(Seq(Funs)) /\ loclist' \in Seq(Seq(Funs))
      BY DEF StacksInv, TypeOK
    <3>6. ScopeIn(f, mspeclist', loclist', mproplist') = ScopeIn(f, mspeclist, loclist, mproplist)
      BY <3>3, <3>4, <3>5, ScopeStays
    <3> QED
      BY <1>8, <1>9, <2>0, <3>6
  <2>2. CASE ~(q < i)
    <3>1. ~HasEntry(f)
      <4>1. q \in 1 .. Len(stack) /\ i \in 1 .. Len(stack) /\ ~(q <= i)
        BY <1>4, <1>5, <1>10, <2>2
      <4> QED
        BY <1>4, <2>0, <4>1
    <3>2. HasEntry(f) = FALSE
      BY <3>1, Zenon DEF HasEntry
    <3>3. mspeclist' = mspeclist
      BY <1>0 DEF valueVars
    <3>4. ScopeIn(f, mspeclist', loclist', mproplist') = ScopeIn(f, mspeclist, loclist, mproplist)
      BY <3>2, <3>3 DEF ScopeIn
    <3> QED
      BY <1>8, <1>9, <2>0, <3>4
  <2> QED
    BY <2>1, <2>2
<1>11. PICK vals : vals = Slice(mspeclist, stack[i].binds, BoundNames(stack[i]))
  OBVIOUS
<1>12. HasEntry(stack[i]) = TRUE
  BY <1>4 DEF HasEntry
<1>13. stack[i].locs = Len(loclist) - 1 /\ stack[i].locs + 1 = Len(loclist)
  <2>1. stack[i] \in Frames
    BY <1>4 DEF StacksInv, TypeOK
  <2>2. stack[i].locs \in Nat
    BY <2>1, FrameFacts
  <2> QED
    BY <1>4, <2>2
<1>14. scopesBar[i] = [vals |-> vals, defs |-> <<>>, hides |-> TRUE]
  BY <1>3, <1>4, <1>5, <1>8, <1>11, <1>12, <1>13 DEF ScopeIn, LocalDoes
<1>15. scopesBar'[i] = [vals |-> vals, defs |-> [g \in ToSet(l) |-> prop[g]], hides |-> TRUE]
  BY <1>0, <1>3, <1>4, <1>5, <1>9, <1>11, <1>12, <1>13 DEF ScopeIn, LocalDoes, valueVars
<1> DEFINE H == {q \in 1 .. Len(scopesBar) : scopesBar[q].hides}
<1>16. IsList(scopesBar, n) /\ IsList(scopesBar', n)
  BY <1>0, <1>5, <1>7, BarIs, BarNext
<1>17. Len(scopesBar) = n
  <2>1. \A q \in 1 .. n : scopesBar[q] \in {scopesBar[r] : r \in 1 .. n}
    OBVIOUS
  <2> QED
    BY <1>16, <2>1, ListIsSeq
<1>18. \A q \in 1 .. n : q \in H <=> HasEntry(stack[q])
  <2>1. \A q \in 1 .. n : scopesBar[q].hides = HasEntry(stack[q])
    BY <1>8, ScopeHides
  <2> QED
    BY <1>17, <2>1
<1>19. i \in H /\ \A r \in H : r <= i
  BY <1>4, <1>5, <1>17, <1>18
<1>20. i = CHOOSE q \in H : \A r \in H : r <= q
  <2>1. \A q \in H : q \in Int
    BY <1>5, <1>17
  <2>2. \A q \in H : (\A r \in H : r <= q) => q = i
    BY <1>19, <2>1
  <2> QED
    BY <1>19, <2>2
<1> HIDE DEF H
<1> DEFINE new == [g \in DOMAIN scopesBar[i].defs \cup ToSet(l) |->
                      IF g \in DOMAIN scopesBar[i].defs THEN scopesBar[i].defs[g] ELSE prop[g]]
<1>21. new = [g \in ToSet(l) |-> prop[g]]
  <2>1. DOMAIN scopesBar[i].defs = {}
    BY <1>14, EmptySeq, LenProperties
  <2> QED
    BY <2>1
<1>22. scopesBar' = [scopesBar EXCEPT ![i].defs = new]
  <2>1. PICK e : e = [scopesBar[i] EXCEPT !.defs = new]
    OBVIOUS
  <2>2. e = scopesBar'[i]
    <3>1. PICK defs : defs = [g \in ToSet(l) |-> prop[g]]
      OBVIOUS
    <3>2. PICK none, hides : none = <<>> /\ hides = TRUE
      OBVIOUS
    <3>3. [[vals |-> vals, defs |-> none, hides |-> hides] EXCEPT !.defs = defs] =
            [vals |-> vals, defs |-> defs, hides |-> hides]
      OBVIOUS
    <3> QED
      BY <1>14, <1>15, <1>21, <2>1, <3>1, <3>2, <3>3, Zenon
  <2>3. DOMAIN scopesBar = 1 .. n
    BY <1>16 DEF IsList
  <2>4. scopesBar' = [q \in 1 .. n |-> IF q = i THEN e ELSE scopesBar[q]]
    BY <1>10, <1>16, <2>2 DEF IsList
  <2>5. [scopesBar EXCEPT ![i] = e] = [q \in 1 .. n |-> IF q = i THEN e ELSE scopesBar[q]]
    BY <2>3, Zenon
  <2> QED
    BY <2>1, <2>4, <2>5
<1>23. prop' = [g \in Funs |-> IF g \in ToSet(l) THEN NoProp ELSE prop[g]]
  BY <1>0, <1>1, <1>2, HideScoped
<1>24. Scoped!Hide(ToSet(l))
  BY <1>0, <1>19, <1>20, <1>22, <1>23 DEF Scoped!Hide, H, valueVars
<1> QED
  BY <1>2, <1>24, ToSetType DEF Scoped!Next

-----------------------------------------------------------------------------
(* The refinement.                                                         *)

\* Raising, and deciding where to land, changes no scope.
LEMMA ModeScoped ==
    ASSUME Raise \/ Return \/ Go \/ Throw \/ GoLands \/ LandingFails \/ TopLevel \/ UNCHANGED vars
    PROVE  UNCHANGED <<Scoped!vars, fault>>
<1>1. UNCHANGED <<valueVars, localVars, stack, fault>>
  BY DEF Raise, Return, Go, Throw, GoLands, LandingFails, TopLevel, vars, valueVars, localVars
<1> QED
  BY <1>1, SameBar DEF Scoped!vars, valueVars, localVars

LEMMA ScopesNext ==
    ASSUME StacksInv, StacksInv', [Next]_vars, fault' = "none"
    PROVE  Scoped!Next \/ UNCHANGED <<Scoped!vars, fault>>
<1>1. CASE EnterScope \/ EnterCatch
  BY <1>1, EnterScoped DEF Scoped!Next
<1>2. CASE Bind
  BY <1>2, BindScoped
<1>3. CASE BindPartly \/ LocalFails \/ LocalHasNoEntry
  <2>1. \E kind \in Faults : FirstFault(kind)
    BY <1>3 DEF BindPartly, LocalFails, LocalHasNoEntry, Faults
  <2> QED
    BY <2>1, FirstFaultFacts
<1>4. CASE Local
  BY <1>4, LocalScoped
<1>5. CASE EvAtoms
  BY <1>5, EvAtomsScoped
<1>6. CASE EvBody
  BY <1>6, EvBodyScoped
<1>7. CASE EvBodyFails
  BY <1>7, EvBodyFailsScoped
<1>8. CASE Assign \/ Define
  BY <1>8, WorkScoped DEF Scoped!Next
<1>9. CASE Leave \/ Unwind \/ Caught \/ ThrowLands \/ ReturnLands
  BY <1>9, LeavingScoped DEF Scoped!Next
<1>10. CASE Raise \/ Return \/ Go \/ Throw \/ GoLands \/ LandingFails \/ TopLevel \/ UNCHANGED vars
  BY <1>10, ModeScoped
<1> QED
  BY <1>1, <1>2, <1>3, <1>4, <1>5, <1>6, <1>7, <1>8, <1>9, <1>10 DEF Next

LEMMA ScopesInit ==
    ASSUME Init
    PROVE  Scoped!Init
<1>1. Len(stack) = 0
  BY EmptySeq DEF Init
<1>2. scopesBar = [q \in {} |-> scopesBar[q]]
  <2>1. IsList(scopesBar, 0) /\ 1 .. 0 = {}
    BY <1>1, BarIs DEF Init
  <2> QED
    BY <2>1 DEF IsList
<1>3. scopesBar = <<>>
  BY <1>2, NoFunction
<1> QED
  BY <1>3 DEF Init, Scoped!Init

\* However blocks, calls, loops and ev's are nested, and in whichever way each is
\* left, it restores the values and the properties that it has found, until one of
\* the four faulty steps is taken: the stacks that the whole evaluator shares do
\* what scopes with records of their own would do.
THEOREM StacksImplementScopes == Spec => KeepsScopes
<1> DEFINE Step == fault' # "none" \/ Scoped!Next
<1>1. Init => Scoped!Init
  BY ScopesInit
<1>2. StacksInv /\ StacksInv' /\ [Next]_vars => [Step]_<<Scoped!vars, fault>>
  BY ScopesNext
<1>3. [][Step]_<<Scoped!vars, fault>> /\ Scoped!Init => KeepsScopes
  BY DEF KeepsScopes
<1> HIDE DEF Step
<1> QED
  BY <1>1, <1>2, <1>3, StacksAlways, PTL DEF Spec

=============================================================================

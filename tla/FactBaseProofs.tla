--------------------------- MODULE FactBaseProofs ---------------------------
(***************************************************************************)
(* The marks of the contexts are exact in every session that has not       *)
(* orphaned a context, for any set of context names; the fact base runs on *)
(* the contexts of module Contexts, so all that is proved of them holds of *)
(* it; and its two indexes agree.                                          *)
(***************************************************************************)
EXTENDS FactBase, FiniteSetTheorems, TLAPS

-----------------------------------------------------------------------------
(* The contexts.                                                           *)

Bit(b) == IF b THEN 1 ELSE 0

MarkType == [Names -> Int \cup {NoMark}]
SubcType == [Names -> Names \cup {NoContext}]

-----------------------------------------------------------------------------
(* Chains.                                                                 *)

\* A chain starts at its context, is closed under taking the subcontext, and
\* is the least such set (db.lisp, the recursion of cmark and cunmrk).
LEMMA ChainFacts ==
    ASSUME NEW c \in Names, subc \in SubcType
    PROVE  /\ Chain(c) \subseteq Names
           /\ c \in Chain(c)
           /\ \A d \in Chain(c) : subc[d] # NoContext => subc[d] \in Chain(c)
           /\ \A S \in SUBSET Names : ClosedFrom(c, S) => Chain(c) \subseteq S
<1>1. Chain(c) \subseteq Names
  BY DEF Chain
<1>2. c \in Chain(c)
  BY DEF Chain, ClosedFrom
<1>3. ASSUME NEW d \in Chain(c), subc[d] # NoContext
      PROVE  subc[d] \in Chain(c)
  <2>1. subc[d] \in Names
    BY <1>1, <1>3 DEF SubcType
  <2>2. ASSUME NEW S \in SUBSET Names, ClosedFrom(c, S)
        PROVE  subc[d] \in S
    <3>1. d \in S
      BY <2>2 DEF Chain
    <3> QED
      BY <3>1, <2>2, <1>3 DEF ClosedFrom
  <2> QED
    BY <2>1, <2>2 DEF Chain
<1>4. ASSUME NEW S \in SUBSET Names, ClosedFrom(c, S)
      PROVE  Chain(c) \subseteq S
  BY <1>4 DEF Chain
<1> QED
  BY <1>1, <1>2, <1>3, <1>4

\* A step that leaves the subcontexts on a chain alone leaves the chain alone
\* (compar.lisp, newcontext, supcontext and killcontext change one subcontext).
LEMMA ChainFrame ==
    ASSUME NEW c \in Names, subc \in SubcType, subc' \in SubcType,
           \A d \in Chain(c) : subc'[d] = subc[d]
    PROVE  Chain(c)' = Chain(c)
<1>1. /\ Chain(c) \subseteq Names
      /\ c \in Chain(c)
      /\ \A d \in Chain(c) : subc[d] # NoContext => subc[d] \in Chain(c)
      /\ \A S \in SUBSET Names : ClosedFrom(c, S) => Chain(c) \subseteq S
  BY ChainFacts
<1>2. Chain(c)' \subseteq Chain(c)
  <2>1. ClosedFrom(c, Chain(c))
    BY <1>1 DEF ClosedFrom
  <2>2. /\ c \in Chain(c)
        /\ \A d \in Chain(c) : subc'[d] # NoContext => subc'[d] \in Chain(c)
    BY <1>1
  <2> QED
    BY <2>2, <1>1 DEF Chain, ClosedFrom
<1>3. Chain(c) \subseteq Chain(c)'
  <2>1. /\ Chain(c)' \subseteq Names
        /\ c \in Chain(c)'
        /\ \A d \in Chain(c)' : subc'[d] # NoContext => subc'[d] \in Chain(c)'
    <3>1. /\ Chain(c)' \subseteq Names /\ c \in Chain(c)'
      BY DEF Chain, ClosedFrom
    <3>2. ASSUME NEW d \in Chain(c)', subc'[d] # NoContext
          PROVE  subc'[d] \in Chain(c)'
      <4>1. subc'[d] \in Names
        BY <3>1, <3>2 DEF SubcType
      <4> QED
        BY <4>1, <3>2 DEF Chain, ClosedFrom
    <3> QED
      BY <3>1, <3>2
  <2>2. ClosedFrom(c, Chain(c)')
    BY <2>1, <1>2 DEF ClosedFrom
  <2> QED
    BY <2>1, <2>2, <1>1
<1> QED
  BY <1>2, <1>3

-----------------------------------------------------------------------------
(* Marking.                                                                *)

\* Marking adds one to every context on the chain, and to no other (cmark).
LEMMA MarkCount ==
    ASSUME NEW m \in MarkType, NEW c \in Names
    PROVE  /\ Mark(m, c) \in MarkType
           /\ \A d \in Names :
                 /\ Count(Mark(m, c)[d]) = Count(m[d]) + Bit(d \in Chain(c))
                 /\ d \notin Chain(c) => Mark(m, c)[d] = m[d]
BY MarkAssumption DEF MarkType, Mark, Count, Bit

\* Unmarking keeps the counters integers or absent (cunmrk).
LEMMA UnmarkType ==
    ASSUME NEW m \in MarkType, NEW c \in Names
    PROVE  Unmark(m, c) \in MarkType
BY MarkAssumption DEF MarkType, Unmark

\* Unmarking takes one from every context on the chain, when all are marked.
LEMMA UnmarkCount ==
    ASSUME NEW m \in MarkType, NEW c \in Names,
           \A d \in Chain(c) : Count(m[d]) > 0
    PROVE  \A d \in Names :
              /\ Count(Unmark(m, c)[d]) = Count(m[d]) - Bit(d \in Chain(c))
              /\ d \notin Chain(c) => Unmark(m, c)[d] = m[d]
BY MarkAssumption DEF MarkType, Unmark, Count, Bit

\* So does contextmark, which unmarks one chain and marks another.
LEMMA RemarkType ==
    ASSUME NEW m \in MarkType, NEW con \in Names, current \in Names
    PROVE  Remark(m, con) \in MarkType
BY MarkCount, UnmarkType DEF Remark

\* contextmark moves one mark from the chain of current to that of con.
LEMMA RemarkCount ==
    ASSUME NEW m \in MarkType, NEW con \in Names, current \in Names,
           \A d \in Chain(current) : Count(m[d]) > 0
    PROVE  \A d \in Names :
              /\ Count(Remark(m, con)[d]) =
                    Count(m[d]) - Bit(d \in Chain(current)) + Bit(d \in Chain(con))
              /\ d \notin Chain(con) \cup Chain(current) => Remark(m, con)[d] = m[d]
<1>0. \A k \in Int \cup {NoMark} : Count(k) \in Int
  BY MarkAssumption DEF Count
<1>1. CASE current = con
  <2>1. \A d \in Names : Count(m[d]) \in Int
    BY <1>0 DEF MarkType
  <2>2. Remark(m, con) = m
    BY <1>1 DEF Remark
  <2> QED
    BY <2>1, <2>2, <1>1 DEF Bit
<1>2. CASE current # con
  <2> DEFINE u == Unmark(m, current)
  <2>1. u \in MarkType
    BY UnmarkType
  <2>2. \A d \in Names :
            /\ Count(u[d]) = Count(m[d]) - Bit(d \in Chain(current))
            /\ d \notin Chain(current) => u[d] = m[d]
    BY UnmarkCount
  <2>3. \A d \in Names :
            /\ Count(Mark(u, con)[d]) = Count(u[d]) + Bit(d \in Chain(con))
            /\ d \notin Chain(con) => Mark(u, con)[d] = u[d]
    BY <2>1, MarkCount
  <2>4. Remark(m, con) = Mark(u, con)
    BY <1>2 DEF Remark
  <2> HIDE DEF u
  <2> QED
    BY <2>2, <2>3, <2>4
<1> QED
  BY <1>1, <1>2

-----------------------------------------------------------------------------
(* Type correctness and the invariants that hold whatever was killed.      *)

\* The marks that a kill leaves are counters.
LEMMA KillMarksType ==
    ASSUME TypeOK, NEW x \in Names, Successor(x) \in Names
    PROVE  KillMarks(x) \in MarkType
<1>1. cmark \in MarkType /\ current \in Names /\ context \in Names
  BY DEF TypeOK, MarkType
<1>2. /\ Remark(cmark, context) \in MarkType
      /\ Unmark(cmark, x) \in MarkType
      /\ Unmark(Remark(cmark, context), x) \in MarkType
  BY <1>1, RemarkType, UnmarkType
<1>3. \A m \in MarkType : Remark(m, Successor(x)) \in MarkType
  BY <1>1, RemarkType
<1> QED
  BY <1>1, <1>2, <1>3 DEF KillMarks

\* A killed context hands over to an existing name.
LEMMA SuccessorType ==
    ASSUME TypeOK, Rooted, NEW x \in contexts, x \in UserContexts
    PROVE  Successor(x) \in Names
BY NamesAssumption DEF TypeOK, Rooted, Successor, Names

\* newcontext and supcontext keep the types.
LEMMA EnterType ==
    ASSUME TypeOK, Rooted, NEW x \in UserContexts, NEW y \in Names, Enter(x, y)
    PROVE  TypeOK' /\ Rooted'
<1>1. x \in Names /\ x # Global /\ x # Initial /\ y # NoContext
  BY NamesAssumption DEF Names
<1>2. TypeOK'
  BY <1>1 DEF Enter, TypeOK, listVars, markVars, activeVars, loopVars
<1>3. Rooted'
  BY <1>1 DEF Enter, TypeOK, Rooted, markVars, activeVars, loopVars
<1> QED
  BY <1>2, <1>3

\* A kill, refused or not, keeps the types and the two fixed contexts.
LEMMA KillOneType ==
    ASSUME TypeOK, Rooted, NEW x \in Names, KillOne(x),
           phase' \in {"idle", "killing", "exhausted"}, killing' \in SUBSET Names
    PROVE  TypeOK' /\ Rooted'
<1>0. cmark \in MarkType /\ current \in Names /\ context \in Names
  BY DEF TypeOK, MarkType
<1>1. CASE RefuseKill(x)
  <2>1. Remark(cmark, context) \in MarkType
    BY <1>0, RemarkType
  <2> QED
    BY <1>1, <2>1 DEF RefuseKill, TypeOK, Rooted, MarkType, listVars, activeVars
<1>2. CASE KillInitial(x)
  BY <1>2 DEF KillInitial, TypeOK, Rooted, listVars, markVars, activeVars
<1>3. CASE KillUser(x)
  <2>0. x \in contexts /\ x \in UserContexts
    BY <1>3 DEF KillOne, KillUser
  <2>1. Successor(x) \in Names
    BY <2>0, SuccessorType
  <2>2. KillMarks(x) \in MarkType
    BY <2>1, KillMarksType
  <2>3. [KillMarks(x) EXCEPT ![x] = NoMark] \in MarkType
    BY <2>2 DEF MarkType
  <2>4. x # Global /\ x # Initial
    BY <2>0, NamesAssumption
  <2>5. Rooted'
    BY <1>3, <2>0, <2>4 DEF KillUser, Rooted, TypeOK
  <2> HIDE DEF Successor, KillMarks
  <2> QED
    BY <1>3, <2>1, <2>3, <2>5 DEF KillUser, TypeOK, MarkType
<1> QED
  BY <1>1, <1>2, <1>3 DEF KillOne

\* So do the steps of kill(all).
LEMMA KillAllType ==
    ASSUME TypeOK, Rooted,
           KillAllStart \/ (\E x \in Names : KillAllStep(x)) \/ KillAllEnd
    PROVE  TypeOK' /\ Rooted'
<1>1. CASE KillAllStart
  <2>1. Remark(cmark, context) \in MarkType
    BY RemarkType DEF TypeOK, MarkType
  <2> QED
    BY <1>1, <2>1 DEF KillAllStart, TypeOK, Rooted, MarkType, listVars, activeVars
<1>2. ASSUME NEW x \in Names, KillAllStep(x)
      PROVE  TypeOK' /\ Rooted'
  <2>1. /\ phase' \in {"idle", "killing", "exhausted"}
        /\ killing' \in SUBSET Names
    BY <1>2 DEF KillAllStep, TypeOK
  <2>2. CASE KillOne(x)
    BY <2>1, <2>2, KillOneType
  <2>3. CASE ~KillOne(x)
    BY <1>2, <2>1, <2>3
       DEF KillAllStep, TypeOK, Rooted, listVars, markVars, activeVars
  <2> QED
    BY <2>2, <2>3
<1>3. CASE KillAllEnd
  <2>1. Global \in Names /\ Initial \in Names /\ Global # Initial
    BY NamesAssumption DEF Names
  <2>2. TypeOK'
    <3>1. [cmark EXCEPT ![Global] = 1, ![Initial] = 1] \in [Names -> Int \cup {NoMark}]
      <4>1. \A m \in MarkType, c \in Names : [m EXCEPT ![c] = 1] \in MarkType
        BY DEF MarkType
      <4>2. [[cmark EXCEPT ![Global] = 1] EXCEPT ![Initial] = 1] \in MarkType
        BY <2>1, <4>1 DEF TypeOK, MarkType
      <4> QED
        BY <4>2 DEF MarkType
    <3>2. [subc EXCEPT ![Initial] = Global] \in [Names -> Names \cup {NoContext}]
      BY <2>1 DEF TypeOK
    <3>3. disturbances' \in Nat
      BY <1>3 DEF KillAllEnd, TypeOK
    <3>4. behind' \in [Names -> SUBSET Names]
      BY <1>3, <2>1 DEF KillAllEnd
    <3> QED
      BY <1>3, <2>1, <3>1, <3>2, <3>3, <3>4 DEF KillAllEnd, TypeOK, activeVars
  <2>3. Rooted'
    BY <1>3, <2>1, NamesAssumption DEF KillAllEnd, TypeOK, Rooted
  <2> QED
    BY <2>2, <2>3
<1> QED
  BY <1>1, <1>2, <1>3

\* Every step of a session keeps the types, $global and $initial stay, and
\* every context but $global has a subcontext.
LEMMA TypeStep ==
    ASSUME TypeOK, Rooted, [Next]_vars
    PROVE  TypeOK' /\ Rooted'
<1>0. /\ cmark \in MarkType /\ current \in Names /\ context \in Names
      /\ Global \in Names /\ Initial \in Names
  BY DEF TypeOK, MarkType, Names
<1>1. CASE Clear
  <2>1. Remark(cmark, context) \in MarkType
    BY <1>0, RemarkType
  <2> QED
    BY <1>0, <1>1, <2>1
       DEF Clear, TypeOK, Rooted, MarkType, listVars, activeVars, loopVars
<1>2. ASSUME NEW con \in {Global, Initial}, ClearUnder(con)
      PROVE  TypeOK' /\ Rooted'
  <2>1. Remark(cmark, con) \in MarkType /\ con \in Names
    BY <1>0, RemarkType
  <2> QED
    BY <1>2, <2>1
       DEF ClearUnder, TypeOK, Rooted, MarkType, listVars, activeVars, loopVars
<1>3. ASSUME NEW x \in UserContexts, Newcontext(x)
      PROVE  TypeOK' /\ Rooted'
  BY <1>0, <1>3, EnterType DEF Newcontext
<1>4. ASSUME NEW x \in UserContexts, NEW y \in Names, Supcontext(x, y)
      PROVE  TypeOK' /\ Rooted'
  BY <1>4, EnterType DEF Supcontext
<1>5. ASSUME NEW y \in Names, Asscontext(y)
      PROVE  TypeOK' /\ Rooted'
  BY <1>5 DEF Asscontext, TypeOK, Rooted, listVars, markVars, activeVars, loopVars
<1>6. ASSUME NEW c \in Names, Activate(c) \/ Deactivate(c)
      PROVE  TypeOK' /\ Rooted'
  <2>1. Mark(cmark, c) \in MarkType /\ Unmark(cmark, c) \in MarkType
    BY <1>0, MarkCount, UnmarkType
  <2> QED
    BY <1>6, <2>1
       DEF Activate, Deactivate, TypeOK, Rooted, MarkType, listVars, loopVars
<1>7. ASSUME NEW x \in Names, Killcontext(x)
      PROVE  TypeOK' /\ Rooted'
  BY <1>7, KillOneType DEF Killcontext, TypeOK, loopVars
<1>8. ASSUME KillAllStart \/ (\E x \in Names : KillAllStep(x)) \/ KillAllEnd
      PROVE  TypeOK' /\ Rooted'
  BY <1>8, KillAllType
<1>9. ASSUME NEW f \in Facts, NEW con \in Names, AddFact(f, con)
      PROVE  TypeOK' /\ Rooted'
  <2>1. Remark(cmark, context) \in MarkType
    BY <1>0, RemarkType
  <2> QED
    BY <1>0, <1>9, <2>1
       DEF AddFact, TypeOK, Rooted, MarkType, listVars, activeVars, loopVars
<1>10. ASSUME NEW con \in Names, NEW F \in SUBSET data[con], DropFacts(F, con)
       PROVE  TypeOK' /\ Rooted'
  BY <1>10 DEF DropFacts, TypeOK, Rooted, listVars, markVars, activeVars, loopVars
<1>11. CASE Exhaust
  BY <1>11 DEF Exhaust, TypeOK, Rooted, listVars, markVars, activeVars
<1>12. CASE UNCHANGED vars
  BY <1>12 DEF vars, TypeOK, Rooted
<1> QED
  BY <1>1, <1>2, <1>3, <1>4, <1>5, <1>6, <1>7, <1>8, <1>9, <1>10, <1>11, <1>12
     DEF Next, Manage

\* No kill is refused inside kill(all): the lazy mark is where it should be.
LEMMA LoopNeverRefuses ==
    ASSUME LoopSynced, phase = "killing", NEW x
    PROVE  ~RefuseKill(x)
BY DEF LoopSynced, RefuseKill, Refuses, LooksAtMark

\* Every step keeps the two lists of activated contexts equal, and the loop of
\* kill(all) kills every user context it visits.
LEMMA ListsStep ==
    ASSUME TypeOK, Rooted, ActivationsAgree, LoopSynced, [Next]_vars
    PROVE  ActivationsAgree' /\ LoopSynced'
<1> USE DEF ActivationsAgree, LoopSynced
<1>1. CASE Clear \/ (\E con \in {Global, Initial} : ClearUnder(con))
  BY <1>1 DEF Clear, ClearUnder, listVars, activeVars, loopVars
<1>2. ASSUME NEW x \in UserContexts, NEW y, Enter(x, y)
      PROVE  ActivationsAgree' /\ LoopSynced'
  BY <1>2 DEF Enter, markVars, activeVars, loopVars
<1>3. CASE \E y \in Names : Asscontext(y)
  BY <1>3 DEF Asscontext, listVars, markVars, activeVars, loopVars
<1>4. CASE \E c \in Names : Activate(c) \/ Deactivate(c)
  BY <1>4 DEF Activate, Deactivate, listVars, loopVars
<1>5. ASSUME NEW x \in Names, KillOne(x)
      PROVE  ActivationsAgree'
  <2>1. CASE RefuseKill(x) \/ KillInitial(x)
    BY <2>1 DEF RefuseKill, KillInitial, listVars, activeVars
  <2>2. CASE KillUser(x)
    BY <2>2 DEF KillUser
  <2> QED
    BY <1>5, <2>1, <2>2 DEF KillOne
<1>6. CASE \E x \in Names : Killcontext(x)
  BY <1>5, <1>6 DEF Killcontext, loopVars
<1>7. CASE KillAllStart
  BY <1>7 DEF KillAllStart, listVars, activeVars
<1>8. ASSUME NEW x \in Names, KillAllStep(x)
      PROVE  ActivationsAgree' /\ LoopSynced'
  <2>1. CASE KillUser(x)
    BY <1>8, <2>1, <1>5 DEF KillAllStep, KillUser, KillOne
  <2>2. CASE KillInitial(x)
    BY <1>8, <2>2, NamesAssumption
       DEF KillAllStep, KillInitial, listVars, markVars, activeVars
  <2>3. CASE x = Global /\ ~KillOne(x)
    BY <1>8, <2>3, NamesAssumption
       DEF KillAllStep, listVars, markVars, activeVars
  <2> QED
    BY <1>8, <2>1, <2>2, <2>3, LoopNeverRefuses DEF KillAllStep, KillOne
<1>9. CASE KillAllEnd
  <2>1. contexts \subseteq {Global, Initial}
    BY <1>9 DEF KillAllEnd, TypeOK, Names
  <2> QED
    BY <1>9, <2>1 DEF KillAllEnd, activeVars
<1>10. CASE (\E f \in Facts, con \in Names : AddFact(f, con))
            \/ (\E con \in Names : \E F \in SUBSET data[con] : DropFacts(F, con))
  BY <1>10 DEF AddFact, DropFacts, listVars, markVars, activeVars, loopVars
<1>11. CASE Exhaust \/ UNCHANGED vars
  BY <1>11 DEF Exhaust, vars, listVars, markVars, activeVars
<1> QED
  BY <1>1, <1>2, <1>3, <1>4, <1>6, <1>7, <1>8, <1>9, <1>10, <1>11
     DEF Next, Manage, Newcontext, Supcontext

-----------------------------------------------------------------------------
(* The invariants of an undisturbed session.                               *)

Blank ==
    /\ context \in contexts
    /\ \A x \in Names \ contexts :
          data[x] = {} /\ cmark[x] = NoMark /\ subc[x] = NoContext

Exact ==
    \A d \in Names :
        Count(cmark[d]) = Cardinality(Roots(d)) + Bit(d \in Chain(current))

Sound == ListOrdered /\ current \in contexts /\ Blank /\ Exact

Base == TypeOK /\ Rooted /\ ActivationsAgree /\ LoopSynced

\* The invariant, split into what always holds and what an undisturbed session adds.
LEMMA InvParts == ContextsInv <=> Base /\ (Undisturbed => Sound)
BY DEF ContextsInv, Base, Sound, Ordered, DeadAreBlank, MarksExact, Blank, Exact, Bit

\* There are finitely many names of contexts.
LEMMA FiniteNames == IsFiniteSet(Names)
<1>1. IsFiniteSet(UserContexts \cup {Global})
  BY NamesAssumption, FS_AddElement
<1>2. IsFiniteSet((UserContexts \cup {Global}) \cup {Initial})
  BY <1>1, FS_AddElement
<1>3. Names = (UserContexts \cup {Global}) \cup {Initial}
  BY DEF Names
<1> QED
  BY <1>2, <1>3

\* The roots of a context can be counted.
LEMMA FiniteRoots ==
    ASSUME TypeOK, NEW d
    PROVE  /\ IsFiniteSet(Roots(d))
           /\ Cardinality(Roots(d)) \in Nat
           /\ Roots(d) # {} => Cardinality(Roots(d)) > 0
<1>1. Roots(d) \subseteq Names
  BY DEF Roots, TypeOK
<1>2. IsFiniteSet(Roots(d))
  BY <1>1, FiniteNames, FS_Subset
<1> QED
  BY <1>2, FS_CardinalityType, FS_EmptySet

\* The chain of an existing context stays among the existing contexts, behind
\* its start in the list, and does not loop.
LEMMA LiveChains ==
    ASSUME TypeOK, Rooted, ListOrdered, NEW c \in contexts
    PROVE  /\ Chain(c) \subseteq contexts
           /\ Chain(c) \subseteq {c} \cup behind[c]
           /\ ~Looping(c)
<1>1. subc \in SubcType /\ contexts \subseteq Names
  BY DEF TypeOK, SubcType
<1>2. ASSUME NEW e \in contexts
      PROVE  Chain(e) \subseteq {e} \cup behind[e]
  <2>1. {e} \cup behind[e] \in SUBSET Names
    BY <1>1 DEF TypeOK
  <2>2. ASSUME NEW d \in {e} \cup behind[e], subc[d] # NoContext
        PROVE  subc[d] \in {e} \cup behind[e]
    <3>1. d \in contexts /\ d # Global
      BY <2>2 DEF ListOrdered, Rooted
    <3> QED
      BY <2>2, <3>1 DEF ListOrdered
  <2>3. ClosedFrom(e, {e} \cup behind[e])
    BY <2>2 DEF ClosedFrom
  <2> QED
    BY <1>1, <2>1, <2>3, ChainFacts
<1>3. Chain(c) \subseteq contexts
  BY <1>2 DEF ListOrdered
<1>4. ASSUME NEW d \in Chain(c), subc[d] # NoContext
      PROVE  d \notin Chain(subc[d])
  <2>1. d \in contexts /\ d # Global
    BY <1>3, <1>4 DEF Rooted
  <2>2. subc[d] \in behind[d] /\ subc[d] \in contexts
    BY <2>1 DEF ListOrdered
  <2>3. Chain(subc[d]) \subseteq behind[d]
    BY <1>2, <2>1, <2>2 DEF ListOrdered
  <2> QED
    BY <2>1, <2>3 DEF ListOrdered
<1> QED
  BY <1>2, <1>3, <1>4 DEF Looping

\* A context that is the subcontext of no other is on the chain of no other.
LEMMA NotOnChains ==
    ASSUME TypeOK, Rooted, ListOrdered, NEW x \in UserContexts, ~Orphans(x),
           NEW c \in contexts, c # x
    PROVE  x \notin Chain(c)
<1>1. subc \in SubcType /\ contexts \ {x} \in SUBSET Names
  BY DEF TypeOK, SubcType
<1>2. ASSUME NEW d \in contexts \ {x}, subc[d] # NoContext
      PROVE  subc[d] \in contexts \ {x}
  BY <1>2 DEF ListOrdered, Rooted, Orphans
<1>3. ClosedFrom(c, contexts \ {x})
  BY <1>2 DEF ClosedFrom
<1>4. Chain(c) \subseteq contexts \ {x}
  BY <1>1, <1>3, ChainFacts
<1> QED
  BY <1>4

\* What a root reaches is marked.
LEMMA ReachedAreMarked ==
    ASSUME TypeOK, Exact, NEW c \in Names, c = current \/ c \in dbcontexts,
           NEW d \in Chain(c)
    PROVE  Count(cmark[d]) > 0
<1>1. d \in Names
  BY DEF Chain
<1>2. Count(cmark[d]) = Cardinality(Roots(d)) + Bit(d \in Chain(current))
  BY <1>1 DEF Exact
<1>3. Cardinality(Roots(d)) \in Nat /\ (Roots(d) # {} => Cardinality(Roots(d)) > 0)
  BY FiniteRoots
<1>4. CASE c = current
  BY <1>2, <1>3, <1>4 DEF Bit
<1>5. CASE c \in dbcontexts
  <2>1. Roots(d) # {}
    BY <1>5 DEF Roots
  <2> QED
    BY <1>2, <1>3, <2>1 DEF Bit
<1> QED
  BY <1>4, <1>5

\* Chains depend on the subcontexts alone.
LEMMA SameChains ==
    ASSUME subc' = subc, NEW c
    PROVE  Chain(c)' = Chain(c)
BY DEF Chain, ClosedFrom

\* The roots of a context depend on the subcontexts and the activations alone.
LEMMA SameRoots ==
    ASSUME subc' = subc, dbcontexts' = dbcontexts, NEW d
    PROVE  Roots(d)' = Roots(d)
BY SameChains DEF Roots

\* The marks stay exact when contextmark moves the lazy mark.
LEMMA ContextmarkStep ==
    ASSUME TypeOK, Rooted, Sound, NEW con \in contexts,
           cmark' = Remark(cmark, con), current' = con,
           UNCHANGED <<contexts, behind, context, dbcontexts, subc>>,
           \A x \in Names \ contexts : data'[x] = data[x]
    PROVE  Sound'
<1>1. cmark \in MarkType /\ con \in Names /\ current \in contexts /\ current \in Names
  BY DEF TypeOK, MarkType, Sound
<1>2. \A d \in Chain(current) : Count(cmark[d]) > 0
  BY <1>1, ReachedAreMarked DEF Sound
<1>3. \A d \in Names :
          /\ Count(cmark'[d]) =
                Count(cmark[d]) - Bit(d \in Chain(current)) + Bit(d \in Chain(con))
          /\ d \notin Chain(con) \cup Chain(current) => cmark'[d] = cmark[d]
  BY <1>1, <1>2, RemarkCount
<1>4. Chain(con) \cup Chain(current) \subseteq contexts
  BY <1>1, LiveChains DEF Sound
<1>5. Exact'
  <2>1. ASSUME NEW d \in Names
        PROVE  Count(cmark'[d]) = Cardinality(Roots(d)') + Bit(d \in Chain(con)')
    <3>1. Roots(d)' = Roots(d) /\ Chain(con)' = Chain(con)
      BY SameRoots, SameChains
    <3>2. Count(cmark[d]) = Cardinality(Roots(d)) + Bit(d \in Chain(current))
      BY DEF Sound, Exact
    <3>3. Cardinality(Roots(d)) \in Nat
      BY FiniteRoots
    <3> QED
      BY <1>3, <3>1, <3>2, <3>3 DEF Bit
  <2> QED
    BY <2>1 DEF Exact
<1>6. Blank'
  BY <1>3, <1>4 DEF Sound, Blank
<1>7. ListOrdered'
  BY DEF Sound, ListOrdered
<1> QED
  BY <1>5, <1>6, <1>7 DEF Sound

\* A new name at the head of the list disturbs no chain and no mark.
LEMMA EnterStep ==
    ASSUME TypeOK, Rooted, ActivationsAgree, Sound,
           NEW x \in UserContexts, NEW y \in contexts, Enter(x, y)
    PROVE  Sound'
<1>0. /\ x \in Names /\ x \notin contexts /\ x # Global
      /\ contexts' = contexts \cup {x}
      /\ behind' = [behind EXCEPT ![x] = contexts]
      /\ subc' = [subc EXCEPT ![x] = y]
      /\ context' = x /\ current' = current /\ cmark' = cmark
      /\ dbcontexts' = dbcontexts /\ data' = data
  BY NamesAssumption DEF Enter, Names, markVars, activeVars
<1>1. subc \in SubcType /\ subc' \in SubcType /\ contexts \subseteq Names /\ y \in Names
  BY <1>0 DEF TypeOK, SubcType
<1>2. \A c \in contexts : Chain(c)' = Chain(c)
  <2> TAKE c \in contexts
  <2>1. Chain(c) \subseteq contexts
    BY LiveChains DEF Sound
  <2>2. \A d \in Chain(c) : subc'[d] = subc[d]
    BY <2>1, <1>0, <1>1 DEF SubcType
  <2> QED
    BY <2>2, <1>1, ChainFrame
<1>3. ListOrdered'
  <2>1. ASSUME NEW c \in contexts'
        PROVE  /\ behind'[c] \subseteq contexts'
               /\ c \notin behind'[c]
               /\ c # Global => subc'[c] \in behind'[c]
               /\ \A d \in behind'[c] : behind'[d] \subseteq behind'[c]
    <3>1. CASE c = x
      <4>1. behind'[c] = contexts /\ subc'[c] = y
        BY <1>0, <1>1, <3>1 DEF TypeOK, SubcType
      <4>2. \A d \in contexts : behind'[d] = behind[d]
        BY <1>0, <1>1 DEF TypeOK
      <4> QED
        BY <4>1, <4>2, <1>0, <3>1 DEF Sound, ListOrdered
    <3>2. CASE c # x
      <4>1. c \in contexts
        BY <1>0, <3>2
      <4>2. behind'[c] = behind[c] /\ subc'[c] = subc[c] /\ behind[c] \subseteq contexts
        BY <1>0, <1>1, <4>1, <3>2 DEF TypeOK, SubcType, Sound, ListOrdered
      <4>3. \A d \in behind[c] : behind'[d] = behind[d]
        BY <4>2, <1>0, <1>1 DEF TypeOK
      <4> QED
        BY <4>1, <4>2, <4>3, <1>0 DEF Sound, ListOrdered
    <3> QED
      BY <3>1, <3>2
  <2> QED
    BY <2>1 DEF ListOrdered
<1>4. Blank'
  BY <1>0, <1>1 DEF Sound, Blank, SubcType
<1>5. Exact'
  <2>1. \A d \in Names : Roots(d)' = Roots(d)
    BY <1>0, <1>2 DEF Roots, ActivationsAgree
  <2>2. Chain(current)' = Chain(current)
    BY <1>0, <1>2 DEF Sound
  <2> QED
    BY <2>1, <2>2, <1>0 DEF Sound, Exact
<1> QED
  BY <1>0, <1>3, <1>4, <1>5 DEF Sound

\* activate and deactivate count one root more or less on one chain.
LEMMA ActivateStep ==
    ASSUME TypeOK, Rooted, ActivationsAgree, Sound, NEW c \in Names,
           Activate(c) \/ Deactivate(c)
    PROVE  Sound'
<1>0. /\ c \in contexts
      /\ UNCHANGED <<contexts, behind, context, current, subc, data>>
  BY DEF Activate, Deactivate, listVars
<1>1. cmark \in MarkType /\ contexts \subseteq Names
  BY DEF TypeOK, MarkType
<1>2. Chain(c) \subseteq contexts
  BY <1>0, LiveChains DEF Sound
<1>3. \A d : Chain(d)' = Chain(d)
  BY <1>0, SameChains
<1>4. ListOrdered' /\ current' \in contexts'
  BY <1>0 DEF Sound, ListOrdered
<1>5. CASE Activate(c) /\ c \notin dbcontexts
  <2>1. dbcontexts' = dbcontexts \cup {c} /\ cmark' = Mark(cmark, c)
    BY <1>5 DEF Activate
  <2>2. \A d \in Names :
            /\ Count(cmark'[d]) = Count(cmark[d]) + Bit(d \in Chain(c))
            /\ d \notin Chain(c) => cmark'[d] = cmark[d]
    BY <2>1, <1>1, MarkCount
  <2>3. Blank'
    BY <2>2, <1>0, <1>2 DEF Sound, Blank
  <2>4. ASSUME NEW d \in Names
        PROVE  Count(cmark'[d]) = Cardinality(Roots(d)') + Bit(d \in Chain(current)')
    <3>1. Roots(d)' = IF d \in Chain(c) THEN Roots(d) \cup {c} ELSE Roots(d)
      BY <2>1, <1>3 DEF Roots
    <3>2. c \notin Roots(d)
      BY <1>5 DEF Roots
    <3>3. Cardinality(Roots(d)') = Cardinality(Roots(d)) + Bit(d \in Chain(c))
      BY <3>1, <3>2, FiniteRoots, FS_AddElement DEF Bit
    <3>4. Count(cmark[d]) = Cardinality(Roots(d)) + Bit(d \in Chain(current))
      BY DEF Sound, Exact
    <3>5. Chain(current)' = Chain(current)
      BY <1>0, <1>3
    <3> QED
      BY <2>2, <3>3, <3>4, <3>5, FiniteRoots DEF Bit
  <2>5. Exact'
    BY <2>4 DEF Exact
  <2> QED
    BY <2>3, <2>5, <1>4 DEF Sound
<1>6. CASE Deactivate(c) /\ c \in dbcontexts
  <2>1. dbcontexts' = dbcontexts \ {c} /\ cmark' = Unmark(cmark, c)
    BY <1>6 DEF Deactivate
  <2>2. \A d \in Names :
            /\ Count(cmark'[d]) = Count(cmark[d]) - Bit(d \in Chain(c))
            /\ d \notin Chain(c) => cmark'[d] = cmark[d]
    <3>1. \A d \in Chain(c) : Count(cmark[d]) > 0
      BY <1>6, ReachedAreMarked DEF Sound
    <3> QED
      BY <2>1, <3>1, <1>1, UnmarkCount
  <2>3. Blank'
    BY <2>2, <1>0, <1>2 DEF Sound, Blank
  <2>4. ASSUME NEW d \in Names
        PROVE  Count(cmark'[d]) = Cardinality(Roots(d)') + Bit(d \in Chain(current)')
    <3>1. Roots(d)' = Roots(d) \ {c}
      BY <2>1, <1>3 DEF Roots
    <3>2. c \in Roots(d) <=> d \in Chain(c)
      BY <1>6 DEF Roots
    <3>3. Cardinality(Roots(d)') = Cardinality(Roots(d)) - Bit(d \in Chain(c))
      <4>1. Cardinality(Roots(d) \ {c}) =
              IF c \in Roots(d) THEN Cardinality(Roots(d)) - 1 ELSE Cardinality(Roots(d))
        BY FiniteRoots, FS_RemoveElement
      <4>2. Cardinality(Roots(d)) \in Nat
        BY FiniteRoots
      <4> QED
        BY <3>1, <3>2, <4>1, <4>2 DEF Bit
    <3>4. Count(cmark[d]) = Cardinality(Roots(d)) + Bit(d \in Chain(current))
      BY DEF Sound, Exact
    <3>5. Chain(current)' = Chain(current)
      BY <1>0, <1>3
    <3> QED
      BY <2>2, <3>3, <3>4, <3>5, FiniteRoots DEF Bit
  <2>5. Exact'
    BY <2>4 DEF Exact
  <2> QED
    BY <2>3, <2>5, <1>4 DEF Sound
<1>7. CASE \/ Deactivate(c) /\ c \notin dbcontexts
           \/ Activate(c) /\ c \in dbcontexts
  <2>1. dbcontexts' = dbcontexts /\ cmark' = cmark
    BY <1>7 DEF Activate, Deactivate
  <2>2. Blank'
    BY <2>1, <1>0 DEF Sound, Blank
  <2>3. Exact'
    BY <2>1, <1>0, SameRoots, SameChains DEF Sound, Exact
  <2> QED
    BY <2>2, <2>3, <1>4 DEF Sound
<1> QED
  BY <1>5, <1>6, <1>7

\* The successor of a killed context is another existing context.
LEMMA SuccessorExists ==
    ASSUME TypeOK, Rooted, Sound, NEW x \in contexts, x \in UserContexts
    PROVE  Successor(x) \in contexts /\ Successor(x) # x
<1>1. x # Global /\ x # Initial
  BY NamesAssumption
<1>2. context \in contexts
  BY DEF Sound, Blank
<1>3. subc[x] \in contexts /\ subc[x] # x
  BY <1>1 DEF Sound, ListOrdered
<1> QED
  BY <1>1, <1>2, <1>3 DEF Successor, Rooted

\* What killcontext does to the marks before it drops that of x: it leaves the
\* marks exact for the roots without x and the successor as current context.
LEMMA KillMarksCount ==
    ASSUME TypeOK, Rooted, ActivationsAgree, Sound,
           NEW x \in contexts, x \in UserContexts
    PROVE  \A d \in Names :
              /\ Count(KillMarks(x)[d]) =
                    Cardinality(Roots(d) \ {x}) + Bit(d \in Chain(Successor(x)))
              /\ d \notin contexts => KillMarks(x)[d] = cmark[d]
<1> DEFINE S == Successor(x)
           drop(m) == IF x \in activecontexts /\ x \in dbcontexts
                        THEN Unmark(m, x) ELSE m
<1>1. /\ cmark \in MarkType /\ current \in Names /\ context \in Names
      /\ x \in Names /\ S \in Names
      /\ current \in contexts /\ context \in contexts /\ S \in contexts
  BY SuccessorExists DEF TypeOK, MarkType, Sound, Blank
<1>2. /\ Chain(current) \subseteq contexts /\ Chain(context) \subseteq contexts
      /\ Chain(x) \subseteq contexts /\ Chain(S) \subseteq contexts
  BY <1>1, LiveChains DEF Sound
<1>3. \A d \in Names : Count(cmark[d]) = Cardinality(Roots(d)) + Bit(d \in Chain(current))
  BY DEF Sound, Exact
<1>4. \A d \in Names :
          /\ Cardinality(Roots(d)) \in Nat
          /\ Cardinality(Roots(d) \ {x}) \in Nat
          /\ Cardinality(Roots(d)) =
                Cardinality(Roots(d) \ {x}) + Bit(x \in dbcontexts /\ d \in Chain(x))
  <2> TAKE d \in Names
  <2>1. IsFiniteSet(Roots(d)) /\ Cardinality(Roots(d)) \in Nat
    BY FiniteRoots
  <2>2. /\ IsFiniteSet(Roots(d) \ {x})
        /\ Cardinality(Roots(d) \ {x}) =
              IF x \in Roots(d) THEN Cardinality(Roots(d)) - 1 ELSE Cardinality(Roots(d))
    BY <2>1, FS_RemoveElement
  <2>3. Cardinality(Roots(d) \ {x}) \in Nat
    BY <2>2, FS_CardinalityType
  <2>4. x \in Roots(d) <=> x \in dbcontexts /\ d \in Chain(x)
    BY DEF Roots
  <2> QED
    BY <2>1, <2>2, <2>3, <2>4 DEF Bit
\* Dropping x from marks that are exact for some current chain T.
<1>5. ASSUME NEW m \in MarkType, NEW T \in SUBSET Names,
             \A d \in Names : Count(m[d]) = Cardinality(Roots(d)) + Bit(d \in T)
      PROVE  /\ drop(m) \in MarkType
             /\ \A d \in Names :
                   /\ Count(drop(m)[d]) = Cardinality(Roots(d) \ {x}) + Bit(d \in T)
                   /\ d \notin contexts => drop(m)[d] = m[d]
  <2>1. CASE x \in dbcontexts
    <3>1. drop(m) = Unmark(m, x)
      BY <2>1 DEF ActivationsAgree
    <3>2. \A d \in Chain(x) : Count(m[d]) > 0
      <4> TAKE d \in Chain(x)
      <4>1. d \in Names
        BY DEF Chain
      <4>2. Count(m[d]) = Cardinality(Roots(d)) + Bit(d \in T)
        BY <1>5, <4>1
      <4>3. /\ Cardinality(Roots(d) \ {x}) \in Nat
            /\ Cardinality(Roots(d)) = Cardinality(Roots(d) \ {x}) + 1
        BY <1>4, <2>1, <4>1 DEF Bit
      <4> QED
        BY <4>2, <4>3 DEF Bit
    <3>3. \A d \in Names :
              /\ Count(Unmark(m, x)[d]) = Count(m[d]) - Bit(d \in Chain(x))
              /\ d \notin Chain(x) => Unmark(m, x)[d] = m[d]
      BY <1>1, <3>2, UnmarkCount
    <3>4. Unmark(m, x) \in MarkType
      BY <1>1, UnmarkType
    <3> HIDE DEF drop
    <3> QED
      BY <1>2, <1>4, <1>5, <2>1, <3>1, <3>3, <3>4 DEF Bit
  <2>2. CASE x \notin dbcontexts
    <3>1. drop(m) = m
      BY <2>2
    <3> HIDE DEF drop
    <3> QED
      BY <1>4, <1>5, <2>2, <3>1 DEF Bit
  <2> QED
    BY <2>1, <2>2
<1>6. CASE x # context
  <2> DEFINE tested == Remark(cmark, context)
  <2>1. \A d \in Chain(current) : Count(cmark[d]) > 0
    BY <1>1, ReachedAreMarked DEF Sound
  <2>2. \A d \in Names :
            /\ Count(tested[d]) =
                  Count(cmark[d]) - Bit(d \in Chain(current)) + Bit(d \in Chain(context))
            /\ d \notin Chain(context) \cup Chain(current) => tested[d] = cmark[d]
    BY <1>1, <2>1, RemarkCount
  <2>3. tested \in MarkType
    BY <1>1, RemarkType
  <2>4. KillMarks(x) = drop(tested) /\ S = context
    BY <1>6 DEF KillMarks, Successor
  <2> HIDE DEF tested, drop
  <2>5. \A d \in Names :
            Count(tested[d]) = Cardinality(Roots(d)) + Bit(d \in Chain(context))
    <3> TAKE d \in Names
    <3>1. /\ Count(cmark[d]) = Cardinality(Roots(d)) + Bit(d \in Chain(current))
          /\ Count(tested[d]) =
                Count(cmark[d]) - Bit(d \in Chain(current)) + Bit(d \in Chain(context))
      BY <1>3, <2>2
    <3>2. Cardinality(Roots(d)) \in Nat
      BY <1>4
    <3> QED
      BY <3>1, <3>2 DEF Bit
  <2>6. Chain(context) \in SUBSET Names
    BY DEF Chain
  <2>7. \A d \in Names :
            /\ Count(drop(tested)[d]) =
                  Cardinality(Roots(d) \ {x}) + Bit(d \in Chain(context))
            /\ d \notin contexts => drop(tested)[d] = tested[d]
    BY <1>5, <2>3, <2>5, <2>6
  <2> QED
    BY <1>2, <2>2, <2>4, <2>7
<1>7. CASE x = context
  <2> DEFINE dropped == drop(cmark)
  <2>1. Chain(current) \in SUBSET Names
    BY DEF Chain
  <2>2. /\ dropped \in MarkType
        /\ \A d \in Names :
              /\ Count(dropped[d]) =
                    Cardinality(Roots(d) \ {x}) + Bit(d \in Chain(current))
              /\ d \notin contexts => dropped[d] = cmark[d]
    BY <1>1, <1>3, <1>5, <2>1
  <2>3. KillMarks(x) = Remark(dropped, S)
    BY <1>7 DEF KillMarks
  <2> HIDE DEF dropped, S
  <2>4. \A d \in Chain(current) : Count(dropped[d]) > 0
    <3> TAKE d \in Chain(current)
    <3>1. d \in Names
      BY DEF Chain
    <3>2. Count(dropped[d]) = Cardinality(Roots(d) \ {x}) + Bit(d \in Chain(current))
      BY <2>2, <3>1
    <3>3. Cardinality(Roots(d) \ {x}) \in Nat
      BY <1>4, <3>1
    <3> QED
      BY <3>2, <3>3 DEF Bit
  <2>5. \A d \in Names :
            /\ Count(Remark(dropped, S)[d]) =
                  Count(dropped[d]) - Bit(d \in Chain(current)) + Bit(d \in Chain(S))
            /\ d \notin Chain(S) \cup Chain(current) => Remark(dropped, S)[d] = dropped[d]
    BY <1>1, <2>2, <2>4, RemarkCount
  <2>6. \A d \in Names :
            /\ Count(KillMarks(x)[d]) = Cardinality(Roots(d) \ {x}) + Bit(d \in Chain(S))
            /\ d \notin contexts => KillMarks(x)[d] = cmark[d]
    <3> TAKE d \in Names
    <3>1. /\ Count(dropped[d]) = Cardinality(Roots(d) \ {x}) + Bit(d \in Chain(current))
          /\ Count(KillMarks(x)[d]) =
                Count(dropped[d]) - Bit(d \in Chain(current)) + Bit(d \in Chain(S))
      BY <2>2, <2>3, <2>5
    <3>2. Cardinality(Roots(d) \ {x}) \in Nat
      BY <1>4
    <3>3. d \notin contexts => KillMarks(x)[d] = cmark[d]
      BY <1>2, <2>2, <2>3, <2>5
    <3> QED
      BY <3>1, <3>2, <3>3 DEF Bit
  <2> QED
    BY <2>6 DEF S
<1> QED
  BY <1>6, <1>7

\* Killing a context that orphans no other keeps the session sound.
LEMMA KillUserStep ==
    ASSUME TypeOK, Rooted, ActivationsAgree, Sound,
           NEW x \in contexts, KillUser(x), ~Orphans(x)
    PROVE  Sound'
<1> PICK S \in contexts : S = Successor(x) /\ S # x
  BY SuccessorExists DEF KillUser
<1>0. /\ x \in UserContexts /\ x \in Names /\ x # Global /\ x # Initial
      /\ contexts' = contexts \ {x}
      /\ behind' = [c \in Names |-> IF c = x THEN {} ELSE behind[c] \ {x}]
      /\ context' = S /\ current' = S
      /\ dbcontexts' = dbcontexts \ {x}
      /\ cmark' = [KillMarks(x) EXCEPT ![x] = NoMark]
      /\ subc' = [subc EXCEPT ![x] = NoContext]
      /\ data' = [data EXCEPT ![x] = {}]
  BY NamesAssumption DEF KillUser, Names, ActivationsAgree
<1>1. S \in contexts /\ S # x /\ S \in Names
  BY DEF TypeOK
<1>2. subc \in SubcType /\ subc' \in SubcType /\ contexts \subseteq Names
  BY <1>0 DEF TypeOK, SubcType
<1>3. KillMarks(x) \in MarkType
  BY <1>1, <1>0, KillMarksType
<1>4. \A c \in contexts \ {x} : x \notin Chain(c) /\ Chain(c)' = Chain(c)
  <2> TAKE c \in contexts \ {x}
  <2>1. x \notin Chain(c)
    BY <1>0, NotOnChains DEF Sound
  <2>2. c \in Names /\ Chain(c) \subseteq Names
    BY <1>2 DEF Chain
  <2>3. \A d \in Chain(c) : subc'[d] = subc[d]
    BY <2>1, <2>2, <1>0, <1>2 DEF SubcType
  <2> QED
    BY <2>1, <2>2, <2>3, <1>2, ChainFrame
<1>5. ListOrdered'
  <2>1. ASSUME NEW c \in contexts'
        PROVE  /\ behind'[c] \subseteq contexts'
               /\ c \notin behind'[c]
               /\ c # Global => subc'[c] \in behind'[c]
               /\ \A d \in behind'[c] : behind'[d] \subseteq behind'[c]
    <3>1. c \in contexts /\ c # x /\ c \in Names
      BY <2>1, <1>0, <1>2
    <3>2. behind'[c] = behind[c] \ {x} /\ subc'[c] = subc[c]
      BY <3>1, <1>0, <1>2 DEF SubcType
    <3>3. \A d \in behind[c] \ {x} : behind'[d] = behind[d] \ {x}
      BY <3>1, <1>0, <1>2 DEF Sound, ListOrdered
    <3>4. subc[c] # x
      BY <3>1 DEF Orphans
    <3>5. /\ behind[c] \subseteq contexts /\ c \notin behind[c]
          /\ c # Global => subc[c] \in behind[c]
          /\ \A d \in behind[c] : behind[d] \subseteq behind[c]
      BY <3>1 DEF Sound, ListOrdered
    <3> QED
      BY <3>1, <3>2, <3>3, <3>4, <3>5, <1>0
  <2> QED
    BY <2>1 DEF ListOrdered
<1>6. \A d \in Names :
          /\ Count(KillMarks(x)[d]) = Cardinality(Roots(d) \ {x}) + Bit(d \in Chain(S))
          /\ d \notin contexts => KillMarks(x)[d] = cmark[d]
  BY <1>0, KillMarksCount
<1>7. Blank'
  <2>1. ASSUME NEW d \in Names \ contexts'
        PROVE  data'[d] = {} /\ cmark'[d] = NoMark /\ subc'[d] = NoContext
    <3>1. CASE d = x
      BY <3>1, <1>0, <1>2, <1>3 DEF TypeOK, SubcType, MarkType
    <3>2. CASE d # x
      <4>1. d \notin contexts
        BY <2>1, <3>2, <1>0
      <4>2. data[d] = {} /\ cmark[d] = NoMark /\ subc[d] = NoContext
        BY <4>1, <2>1 DEF Sound, Blank
      <4>3. data'[d] = data[d] /\ subc'[d] = subc[d] /\ cmark'[d] = KillMarks(x)[d]
        BY <3>2, <2>1, <1>0, <1>2, <1>3 DEF TypeOK, SubcType, MarkType
      <4> QED
        BY <4>1, <4>2, <4>3, <1>6, <2>1
    <3> QED
      BY <3>1, <3>2
  <2> QED
    BY <2>1, <1>0, <1>1 DEF Blank
<1>8. Exact'
  <2>1. ASSUME NEW d \in Names
        PROVE  Count(cmark'[d]) = Cardinality(Roots(d)') + Bit(d \in Chain(S)')
    <3>1. Roots(d)' = Roots(d) \ {x}
      BY <1>0, <1>4 DEF Roots, ActivationsAgree
    <3>2. Chain(S)' = Chain(S)
      BY <1>1, <1>4
    <3>3. CASE d = x
      <4>1. cmark'[d] = NoMark
        BY <3>3, <1>0, <1>3 DEF MarkType
      <4>2. Roots(d) \ {x} = {}
        BY <3>3, <1>4 DEF Roots, ActivationsAgree
      <4>3. d \notin Chain(S)
        BY <3>3, <1>1, <1>4
      <4>4. Cardinality({}) = 0
        BY FS_EmptySet
      <4> QED
        BY <4>1, <4>2, <4>3, <4>4, <3>1, <3>2 DEF Count, Bit
    <3>4. CASE d # x
      <4>1. cmark'[d] = KillMarks(x)[d]
        BY <3>4, <1>0, <1>3 DEF MarkType
      <4> QED
        BY <4>1, <3>1, <3>2, <1>6
    <3> QED
      BY <3>3, <3>4
  <2>2. Chain(current)' = Chain(S)'
    BY <1>0 DEF Chain, ClosedFrom
  <2> QED
    BY <2>1, <1>0 DEF Exact
<1> QED
  BY <1>0, <1>1, <1>5, <1>7, <1>8 DEF Sound

\* Refused kills, and those of $initial, move the lazy mark or drop facts.
LEMMA OtherKillStep ==
    ASSUME TypeOK, Rooted, Sound, NEW x \in Names,
           RefuseKill(x) \/ KillInitial(x)
    PROVE  Sound'
<1>1. CASE RefuseKill(x)
  BY <1>1, ContextmarkStep DEF RefuseKill, listVars, activeVars, Sound, Blank
<1>2. CASE KillInitial(x)
  <2>1. UNCHANGED <<contexts, behind, context, current, dbcontexts, subc, cmark>>
    BY <1>2 DEF KillInitial, listVars, markVars, activeVars
  <2>2. \A c \in Names \ contexts : data'[c] = data[c]
    BY <1>2 DEF KillInitial, Rooted, TypeOK
  <2>3. Blank' /\ ListOrdered' /\ current' \in contexts'
    BY <2>1, <2>2 DEF Sound, Blank, ListOrdered
  <2>4. Exact'
    BY <2>1, SameRoots, SameChains DEF Sound, Exact
  <2> QED
    BY <2>3, <2>4 DEF Sound
<1> QED
  BY <1>1, <1>2

\* The loop of kill(all) visits the newest context first, so it orphans none.
LEMMA KillAllNeverOrphans ==
    ASSUME TypeOK, Rooted, LoopSynced, Sound, NEW x \in Names,
           KillAllStep(x), KillUser(x)
    PROVE  ~Orphans(x)
<1>1. SUFFICES ASSUME NEW c \in contexts \ {x}, subc[c] = x
               PROVE  FALSE
  BY DEF Orphans
<1>2. x \in UserContexts /\ x # Global /\ x # Initial
  BY NamesAssumption DEF KillUser
<1>3. c \in UserContexts
  BY <1>1, <1>2, NamesAssumption DEF Rooted, TypeOK, Names
<1>4. c \in killing
  BY <1>3 DEF LoopSynced, KillAllStep
<1>5. x \in behind[c]
  BY <1>1, <1>3, NamesAssumption DEF Sound, ListOrdered
<1> QED
  BY <1>4, <1>5 DEF KillAllStep

\* The end of kill(all) resets the session, provided that nothing of the
\* fixed contexts was activated.
LEMMA KillAllEndStep ==
    ASSUME Base, Sound, KillAllEnd, activecontexts = {}
    PROVE  Sound'
<1>0. /\ Global \in Names /\ Initial \in Names /\ Global # Initial
      /\ contexts = {Global, Initial} /\ contexts' = {Global, Initial}
      /\ behind' = [c \in Names |-> IF c = Initial THEN {Global} ELSE {}]
      /\ context' = Initial /\ current' = Initial
      /\ cmark' = [cmark EXCEPT ![Global] = 1, ![Initial] = 1]
      /\ subc' = subc /\ dbcontexts' = {} /\ data' = data
  <2>1. contexts = {Global, Initial}
    BY DEF KillAllEnd, Base, TypeOK, Rooted, LoopSynced, Names
  <2>2. [subc EXCEPT ![Initial] = Global] = subc
    BY DEF Base, TypeOK, Rooted
  <2> QED
    BY <2>1, <2>2, NamesAssumption
       DEF KillAllEnd, Base, ActivationsAgree, activeVars, Names
<1>1. ListOrdered'
  BY <1>0 DEF Base, Rooted, ListOrdered
<1>2. Blank'
  BY <1>0 DEF Sound, Blank, Base, TypeOK
<1>3. Chain(Initial) = {Global, Initial}
  <2>1. subc \in SubcType /\ subc[Initial] = Global /\ subc[Global] = NoContext
    BY DEF Base, TypeOK, Rooted, SubcType
  <2>2. ClosedFrom(Initial, {Global, Initial})
    BY <2>1 DEF ClosedFrom
  <2>3. Chain(Initial) \subseteq {Global, Initial}
    BY <1>0, <2>1, <2>2, ChainFacts
  <2>4. Initial \in Chain(Initial) /\ (Global # NoContext => Global \in Chain(Initial))
    BY <1>0, <2>1, ChainFacts
  <2> QED
    BY <2>3, <2>4, <1>0, NamesAssumption
<1>4. ASSUME NEW d \in Names
      PROVE  Count(cmark'[d]) = Cardinality(Roots(d)') + Bit(d \in Chain(Initial)')
  <2>1. Roots(d)' = {} /\ Cardinality({}) = 0
    BY <1>0, FS_EmptySet DEF Roots
  <2>2. Chain(Initial)' = {Global, Initial}
    BY <1>0, <1>3, SameChains
  <2>3. CASE d \in {Global, Initial}
    <3>1. cmark'[d] = 1
      BY <2>3, <1>0 DEF Base, TypeOK
    <3> QED
      BY <2>1, <2>2, <2>3, <3>1, MarkAssumption DEF Count, Bit
  <2>4. CASE d \notin {Global, Initial}
    <3>1. cmark'[d] = NoMark
      BY <2>4, <1>0 DEF Base, TypeOK, Sound, Blank
    <3> QED
      BY <2>1, <2>2, <2>4, <3>1 DEF Count, Bit
  <2> QED
    BY <2>3, <2>4
<1>5. Exact'
  <2>1. Chain(current)' = Chain(Initial)'
    BY <1>0 DEF Chain, ClosedFrom
  <2> QED
    BY <1>4, <2>1 DEF Exact
<1> QED
  BY <1>0, <1>1, <1>2, <1>5 DEF Sound

\* Nothing repairs a disturbed session, so an undisturbed one never was.
LEMMA UndisturbedBefore ==
    ASSUME TypeOK, [Next]_vars, Undisturbed'
    PROVE  Undisturbed
BY DEF TypeOK, Undisturbed, Next, Manage, vars, Clear, ClearUnder, Newcontext, Supcontext,
       Enter, Asscontext, Activate, Deactivate, Killcontext, KillOne, RefuseKill,
       KillInitial, KillUser, KillAllStart, KillAllStep, KillAllEnd, AddFact,
       DropFacts, Exhaust

\* A session that is undisturbed after a step was so before it, and the step
\* kept it sound.
LEMMA SoundStep ==
    ASSUME Base, Undisturbed => Sound, [Next]_vars, disturbances' = 0
    PROVE  Sound'
<1> USE DEF Base
<1>0. disturbances \in Nat
  BY DEF TypeOK
<1>1. Undisturbed
  BY UndisturbedBefore DEF Undisturbed
<1>2. Sound /\ context \in contexts /\ disturbances = 0
  BY <1>1 DEF Sound, Blank, Undisturbed
<1>3. CASE Clear
  BY <1>2, <1>3, ContextmarkStep DEF Clear, listVars, activeVars
<1>4. ASSUME NEW con \in {Global, Initial}, ClearUnder(con)
      PROVE  Sound'
  BY <1>2, <1>4, ContextmarkStep DEF ClearUnder, listVars, activeVars, Rooted
<1>5. ASSUME NEW x \in UserContexts, NEW y \in contexts, Enter(x, y)
      PROVE  Sound'
  BY <1>2, <1>5, EnterStep
<1>6. ASSUME NEW y \in Names, Asscontext(y)
      PROVE  Sound'
  <2>1. /\ UNCHANGED <<contexts, behind, current, dbcontexts, subc, cmark, data>>
        /\ context' \in contexts
    BY <1>6 DEF Asscontext, listVars, markVars, activeVars
  <2>2. Blank' /\ ListOrdered' /\ current' \in contexts'
    BY <1>2, <2>1 DEF Sound, Blank, ListOrdered
  <2>3. Exact'
    BY <1>2, <2>1, SameRoots, SameChains DEF Sound, Exact
  <2> QED
    BY <2>2, <2>3 DEF Sound
<1>7. ASSUME NEW c \in Names, Activate(c) \/ Deactivate(c)
      PROVE  Sound'
  BY <1>2, <1>7, ActivateStep
<1>8. ASSUME NEW x \in Names, Killcontext(x)
      PROVE  Sound'
  <2>1. CASE KillUser(x)
    <3>1. ~Orphans(x)
      BY <1>2, <1>8, <2>1 DEF KillUser, Killcontext
    <3> QED
      BY <1>2, <1>8, <2>1, <3>1, KillUserStep DEF Killcontext, KillOne
  <2> QED
    BY <1>2, <1>8, <2>1, OtherKillStep DEF Killcontext, KillOne
<1>9. CASE KillAllStart
  BY <1>2, <1>9, ContextmarkStep DEF KillAllStart, listVars, activeVars
<1>10. ASSUME NEW x \in Names, KillAllStep(x)
       PROVE  Sound'
  <2>1. CASE KillUser(x) /\ KillOne(x)
    BY <1>2, <1>10, <2>1, KillAllNeverOrphans, KillUserStep DEF KillOne
  <2>2. CASE ~KillOne(x)
    <3>1. UNCHANGED <<contexts, behind, context, current, dbcontexts, subc, cmark, data>>
      BY <1>10, <2>2 DEF KillAllStep, listVars, markVars, activeVars
    <3>2. Blank' /\ ListOrdered' /\ current' \in contexts'
      BY <1>2, <3>1 DEF Sound, Blank, ListOrdered
    <3>3. Exact'
      BY <1>2, <3>1, SameRoots, SameChains DEF Sound, Exact
    <3> QED
      BY <3>2, <3>3 DEF Sound
  <2> QED
    BY <1>2, <1>10, <2>1, <2>2, OtherKillStep DEF KillOne
<1>11. CASE KillAllEnd
  BY <1>0, <1>2, <1>11, KillAllEndStep DEF KillAllEnd
<1>12. ASSUME NEW f \in Facts, NEW con \in Names, AddFact(f, con)
       PROVE  Sound'
  <2>1. \A c \in Names \ contexts : data'[c] = data[c]
    BY <1>2, <1>12 DEF AddFact, TypeOK, Rooted
  <2> QED
    BY <1>2, <1>12, <2>1, ContextmarkStep DEF AddFact, listVars, activeVars
<1>13. ASSUME NEW con \in Names, NEW F \in SUBSET data[con], DropFacts(F, con)
       PROVE  Sound'
  <2>1. UNCHANGED <<contexts, behind, context, current, dbcontexts, subc, cmark>>
    BY <1>13 DEF DropFacts, listVars, markVars, activeVars
  <2>2. \A c \in Names \ contexts : data'[c] = data[c]
    BY <1>2, <1>13 DEF DropFacts, TypeOK, Rooted
  <2>3. Blank' /\ ListOrdered' /\ current' \in contexts'
    BY <1>2, <2>1, <2>2 DEF Sound, Blank, ListOrdered
  <2>4. Exact'
    BY <1>2, <2>1, SameRoots, SameChains DEF Sound, Exact
  <2> QED
    BY <2>3, <2>4 DEF Sound
<1>14. CASE Exhaust \/ UNCHANGED vars
  <2>1. UNCHANGED <<contexts, behind, context, current, dbcontexts, subc, cmark, data>>
    BY <1>14 DEF Exhaust, vars, listVars, markVars, activeVars
  <2>2. Blank' /\ ListOrdered' /\ current' \in contexts'
    BY <1>2, <2>1 DEF Sound, Blank, ListOrdered
  <2>3. Exact'
    BY <1>2, <2>1, SameRoots, SameChains DEF Sound, Exact
  <2> QED
    BY <2>2, <2>3 DEF Sound
<1> QED
  BY <1>2, <1>3, <1>4, <1>5, <1>6, <1>7, <1>8, <1>9, <1>10, <1>11, <1>12, <1>13,
     <1>14 DEF Next, Manage, Newcontext, Supcontext, Rooted

-----------------------------------------------------------------------------
(* The theorems.                                                           *)

\* The inductive invariant holds at the start.
LEMMA InitInv == Init => ContextsInv
<1> SUFFICES ASSUME Init PROVE ContextsInv
  OBVIOUS
<1>0. Global \in Names /\ Initial \in Names /\ Global # Initial
  BY NamesAssumption DEF Names
<1>1. TypeOK
  BY <1>0 DEF Init, TypeOK
<1>2. Rooted /\ ActivationsAgree /\ LoopSynced
  BY <1>0, NamesAssumption DEF Init, Rooted, ActivationsAgree, LoopSynced
<1>3. ListOrdered /\ current \in contexts /\ Blank
  BY <1>0 DEF Init, ListOrdered, Blank
<1>4. Chain(Initial) = {Global, Initial}
  <2>1. subc \in SubcType /\ subc[Initial] = Global /\ subc[Global] = NoContext
    BY <1>1, <1>2 DEF TypeOK, Rooted, SubcType
  <2>2. ClosedFrom(Initial, {Global, Initial})
    BY <2>1 DEF ClosedFrom
  <2>3. Chain(Initial) \subseteq {Global, Initial}
    BY <1>0, <2>1, <2>2, ChainFacts
  <2>4. Initial \in Chain(Initial) /\ (Global # NoContext => Global \in Chain(Initial))
    BY <1>0, <2>1, ChainFacts
  <2> QED
    BY <2>3, <2>4, <1>0, NamesAssumption
<1>5. Exact
  <2>1. \A d : Roots(d) = {}
    BY DEF Roots, Init
  <2>2. Cardinality({}) = 0
    BY FS_EmptySet
  <2>3. \A d \in Names : Count(cmark[d]) = Bit(d \in {Global, Initial})
    <3> TAKE d \in Names
    <3>1. cmark[d] = IF d \in {Global, Initial} THEN 1 ELSE NoMark
      BY DEF Init
    <3>2. Count(1) = 1 /\ Count(NoMark) = 0
      BY MarkAssumption DEF Count
    <3> QED
      BY <3>1, <3>2 DEF Bit
  <2>4. current = Initial
    BY DEF Init
  <2> QED
    BY <2>1, <2>2, <2>3, <2>4, <1>4 DEF Exact, Bit
<1> QED
  BY <1>1, <1>2, <1>3, <1>5, InvParts DEF Base, Sound

\* Every step keeps the inductive invariant.
LEMMA NextInv ==
    ASSUME ContextsInv, [Next]_vars
    PROVE  ContextsInv'
<1>1. Base /\ (Undisturbed => Sound)
  BY InvParts
<1>2. Base'
  BY <1>1, TypeStep, ListsStep DEF Base
<1>3. Undisturbed' => Sound'
  BY <1>1, SoundStep DEF Undisturbed
<1>4. Base' /\ (Undisturbed' => Sound') => ContextsInv'
  BY DEF ContextsInv, Base, Sound, Ordered, DeadAreBlank, MarksExact, Blank, Exact, Bit
<1> QED
  BY <1>2, <1>3, <1>4

\* Every session satisfies the inductive invariant (compar.lisp, the context
\* functions, over db.lisp, contextmark, cmark, cunmrk and killc).
THEOREM Invariance == Spec => []ContextsInv
<1>1. ContextsInv /\ [Next]_vars => ContextsInv'
  BY NextInv
<1> QED
  BY InitInv, <1>1, PTL DEF Spec

\* Type correctness of the context machinery.
THEOREM TypeCorrect == Spec => []TypeOK
<1>1. ContextsInv => TypeOK
  BY DEF ContextsInv
<1> QED
  BY Invariance, <1>1, PTL

\* In an undisturbed session the mark of every context counts exactly the
\* current and the activated contexts that reach it.
THEOREM MarksAreExact == Spec => []MarksExact
<1>1. ContextsInv => MarksExact
  BY DEF ContextsInv
<1> QED
  BY Invariance, <1>1, PTL

\* The two lists of activated contexts never part, whatever is killed.
THEOREM ActivationsNeverPart == Spec => []ActivationsAgree
<1>1. ContextsInv => ActivationsAgree
  BY DEF ContextsInv
<1> QED
  BY Invariance, <1>1, PTL

\* In an undisturbed session a name that is no context keeps nothing.
THEOREM DeadContextsAreBlank == Spec => []DeadAreBlank
<1>1. ContextsInv => DeadAreBlank
  BY DEF ContextsInv
<1> QED
  BY Invariance, <1>1, PTL

\* In an undisturbed session subcontexts exist and chains end.
THEOREM HierarchyIsSound == Spec => []HierarchySound
<1>1. ContextsInv => HierarchySound
  BY LiveChains, InvParts DEF HierarchySound, Base, Sound, ListOrdered
<1> QED
  BY Invariance, <1>1, PTL

-----------------------------------------------------------------------------
(* kill(all).                                                              *)

\* The loop of kill(all) empties $initial when it comes to it, and nothing writes
\* there before the loop ends.
InitialEmptied == phase = "killing" /\ Initial \notin killing => data[Initial] = {}

LEMMA InitialEmptiedStep ==
    ASSUME TypeOK, Rooted, InitialEmptied, [Next]_vars
    PROVE  InitialEmptied'
<1> USE DEF InitialEmptied
<1>1. CASE Clear \/ (\E con \in {Global, Initial} : ClearUnder(con))
  BY <1>1 DEF Clear, ClearUnder, loopVars
<1>2. CASE \E x \in UserContexts : \E y : Enter(x, y)
  BY <1>2 DEF Enter, loopVars
<1>3. CASE \E y \in Names : Asscontext(y) \/ Activate(y) \/ Deactivate(y) \/ Killcontext(y)
  BY <1>3 DEF Asscontext, Activate, Deactivate, Killcontext, loopVars
<1>4. CASE KillAllStart
  BY <1>4 DEF KillAllStart, Rooted
<1>5. ASSUME NEW x \in Names, KillAllStep(x)
      PROVE  InitialEmptied'
  <2>1. phase = "killing" /\ killing' = killing \ {x}
    BY <1>5 DEF KillAllStep
  <2>2. CASE x = Initial
    BY <1>5, <2>2, NamesAssumption
       DEF KillAllStep, KillOne, RefuseKill, KillUser, KillInitial, TypeOK
  <2>3. CASE x # Initial
    <3>1. data'[Initial] = data[Initial]
      BY <1>5, <2>3, NamesAssumption
         DEF KillAllStep, KillOne, RefuseKill, KillUser, KillInitial, TypeOK, Names
    <3> QED
      BY <2>1, <2>3, <3>1
  <2> QED
    BY <2>2, <2>3
<1>6. CASE KillAllEnd
  BY <1>6 DEF KillAllEnd
<1>7. CASE (\E f \in Facts, con \in Names : AddFact(f, con))
           \/ (\E con \in Names : \E F \in SUBSET data[con] : DropFacts(F, con))
  BY <1>7 DEF AddFact, DropFacts, loopVars
<1>8. CASE Exhaust \/ UNCHANGED vars
  BY <1>8 DEF Exhaust, vars
<1> QED
  BY <1>1, <1>2, <1>3, <1>4, <1>5, <1>6, <1>7, <1>8 DEF Next, Manage, Newcontext, Supcontext

\* After kill(all) of an undisturbed session no fact of the user's contexts or of
\* $initial is left, and no mark of a user's context: the loop finds no context that
\* it may not kill, leaves none out, and has passed $initial (killallcontexts).
THEOREM KillAllLeavesNothing == Spec => KillAllBlank
<1>1. Init => InitialEmptied
  BY DEF Init, InitialEmptied
<1>2. ContextsInv /\ InitialEmptied /\ [Next]_vars => InitialEmptied'
  BY InitialEmptiedStep DEF ContextsInv
<1>3. ASSUME ContextsInv, InitialEmptied, KillAllEnd, disturbances' = 0
      PROVE  /\ data'[Initial] = {}
             /\ \A x \in UserContexts : data'[x] = {} /\ cmark'[x] = NoMark
  <2>1. /\ phase = "killing" /\ killing = {} /\ data' = data
        /\ cmark' = [cmark EXCEPT ![Global] = 1, ![Initial] = 1]
    BY <1>3 DEF KillAllEnd
  <2>2. disturbances = 0
    BY <1>3 DEF KillAllEnd, ContextsInv, TypeOK
  <2>3. \A x \in UserContexts : x \in Names \ contexts /\ x # Global /\ x # Initial
    BY <1>3, <2>1, NamesAssumption DEF ContextsInv, LoopSynced, Names
  <2>4. \A x \in UserContexts : data[x] = {} /\ cmark[x] = NoMark
    BY <1>3, <2>2, <2>3 DEF ContextsInv, DeadAreBlank, Undisturbed
  <2>5. \A x \in UserContexts : cmark'[x] = cmark[x]
    BY <1>3, <2>1, <2>3 DEF ContextsInv, TypeOK
  <2> QED
    BY <1>3, <2>1, <2>4, <2>5 DEF InitialEmptied
<1>4. ContextsInv /\ InitialEmptied /\ [Next]_vars =>
         [KillAllEnd /\ disturbances' = 0 =>
             /\ data'[Initial] = {}
             /\ \A x \in UserContexts : data'[x] = {} /\ cmark'[x] = NoMark]_vars
  BY <1>3
<1> QED
  BY Invariance, <1>1, <1>2, <1>4, PTL DEF Spec, KillAllBlank

-----------------------------------------------------------------------------
(* The fact base.                                                          *)

Homed == \A c \in Names : \A d \in data[c] : d.con = c

FactInv == ContextsInv /\ FactTypeOK /\ IndexesAgree

-----------------------------------------------------------------------------
(* The steps of the fact base are steps of the contexts.                   *)

\* A datum that mfact makes is one of the facts of module Contexts.
LEMMA NewDatum ==
    ASSUME NEW p \in Patterns, NEW con \in Names, NEW b \in BOOLEAN,
           FactTypeOK, nextId <= MaxDatums
    PROVE  [id |-> nextId, pattern |-> p, con |-> con, answer |-> b] \in Datums
BY PatternsAssumption DEF FactTypeOK, Datums

\* Unlearning patterns drops facts of one context.
LEMMA UnlearnStep ==
    ASSUME TypeOK, FactTypeOK, NEW con \in Names, NEW n, Unlearn(con, n)
    PROVE  Next
<1> DEFINE listed == UNION {Fronts(data[con], p, n[p]) : p \in Patterns}
<1>1. DropFacts(listed, con)
  BY DEF Unlearn
<1>2. listed \in SUBSET data[con]
  BY DEF Fronts
<1> HIDE DEF listed
<1> QED
  BY <1>1, <1>2 DEF Next

\* Every step of the fact base is a step of the contexts, or leaves them alone.
LEMMA Simulation ==
    ASSUME TypeOK, FactTypeOK, [FactNext]_allVars
    PROVE  [Next]_vars
<1>0. context \in Names /\ Initial \in Names
  BY DEF TypeOK, Names
<1>1. CASE ManageContexts
  BY <1>1 DEF ManageContexts, Next
<1>2. ASSUME NEW p \in Patterns, Assume(p) \/ Answer(p) PROVE Next
  <2>1. PICK con \in Names, b \in BOOLEAN : Learn(p, con, b)
    BY <1>0, <1>2 DEF Assume, Answer
  <2>2. PICK d \in Datums : AddFact(d, con)
    BY <2>1, NewDatum DEF Learn
  <2> QED
    BY <2>2, FactsAssumption DEF Next
<1>3. ASSUME NEW p \in Patterns, Forget(p) PROVE Next
  BY <1>0, <1>3, UnlearnStep DEF Forget
<1>4. CASE Clearsign
  BY <1>0, <1>4, UnlearnStep DEF Clearsign
<1>5. CASE KillSymbol \/ UNCHANGED allVars
  BY <1>5 DEF KillSymbol, allVars
<1> QED
  BY <1>1, <1>2, <1>3, <1>4, <1>5 DEF FactNext

\* The variables of the fact base keep their types.
LEMMA FactTypeStep ==
    ASSUME TypeOK, FactTypeOK, [FactNext]_allVars
    PROVE  FactTypeOK'
<1>0. context \in Names /\ Initial \in Names
  BY DEF TypeOK, Names
<1>1. CASE ManageContexts
  BY <1>1 DEF ManageContexts, FactTypeOK
<1>2. ASSUME NEW p \in Patterns, Assume(p) \/ Answer(p) PROVE FactTypeOK'
  <2>1. PICK con \in Names, b \in BOOLEAN : Learn(p, con, b)
    BY <1>0, <1>2 DEF Assume, Answer
  <2>2. PICK d \in Datums : node' = node \cup {d}
    BY <2>1, NewDatum DEF Learn
  <2>3. nextId' \in 1 .. MaxDatums + 1 /\ crossed' = crossed
    BY <2>1, PatternsAssumption DEF Learn, FactTypeOK
  <2>4. localsigns' \in [Patterns -> Nat]
    <3>1. localsigns \in [Patterns -> Nat]
      BY DEF FactTypeOK
    <3>2. \/ localsigns' = localsigns
          \/ localsigns' = [localsigns EXCEPT ![p] = @ + 1]
      BY <1>2 DEF Assume, Answer
    <3> QED
      BY <3>1, <3>2
  <2> QED
    BY <2>2, <2>3, <2>4 DEF FactTypeOK
<1>3. ASSUME NEW con, NEW n, Unlearn(con, n)
      PROVE  node' \in SUBSET Datums /\ nextId' = nextId /\ crossed' \in BOOLEAN
  BY <1>3 DEF Unlearn, FactTypeOK
<1>4. ASSUME NEW p \in Patterns, Forget(p) PROVE FactTypeOK'
  BY <1>3, <1>4 DEF Forget, FactTypeOK
<1>5. CASE Clearsign
  BY <1>3, <1>5 DEF Clearsign, FactTypeOK
<1>6. CASE KillSymbol \/ UNCHANGED allVars
  BY <1>6 DEF KillSymbol, allVars, factVars, FactTypeOK
<1> QED
  BY <1>1, <1>2, <1>4, <1>5, <1>6 DEF FactNext

-----------------------------------------------------------------------------
(* The indexes.                                                            *)

\* What a session does to its contexts adds no fact to any list.
LEMMA ManageShrinks ==
    ASSUME TypeOK, Manage, NEW c \in Names
    PROVE  data'[c] \subseteq data[c]
<1>1. ASSUME NEW x \in Names, KillOne(x) PROVE data'[c] \subseteq data[c]
  BY <1>1 DEF KillOne, RefuseKill, KillInitial, KillUser, TypeOK
<1>2. CASE \E x \in Names : Killcontext(x)
  BY <1>1, <1>2 DEF Killcontext
<1>3. CASE \E x \in Names : KillAllStep(x)
  BY <1>1, <1>3 DEF KillAllStep
<1> QED
  BY <1>2, <1>3 DEF Manage, Clear, ClearUnder, Newcontext, Supcontext, Enter, Asscontext,
       Activate, Deactivate, KillAllStart, KillAllEnd, Exhaust

\* Every step keeps the indexes in agreement, or notes that it does not.
LEMMA IndexStep ==
    ASSUME TypeOK, FactTypeOK, IndexesAgree, [FactNext]_allVars
    PROVE  IndexesAgree'
<1>0. context \in Names /\ Initial \in Names /\ Homed /\ (~crossed => node = Listed)
  BY DEF TypeOK, Names, IndexesAgree, Homed
<1>1. CASE ManageContexts
  <2>1. \A c \in Names : data'[c] \subseteq data[c]
    BY <1>1, ManageShrinks DEF ManageContexts
  <2>2. Homed'
    BY <1>0, <2>1 DEF Homed
  <2>3. Listed' = Listed \ Unlisted
    BY <2>1 DEF Listed, Unlisted
  <2> QED
    BY <1>0, <1>1, <2>2, <2>3 DEF ManageContexts, IndexesAgree, Homed
<1>2. ASSUME NEW p \in Patterns, NEW con \in Names, NEW b \in BOOLEAN, Learn(p, con, b)
      PROVE  IndexesAgree'
  <2> DEFINE d == [id |-> nextId, pattern |-> p, con |-> con, answer |-> b]
  <2>1. /\ data' = [data EXCEPT ![con] = @ \cup {d}]
        /\ node' = node \cup {d} /\ crossed' = crossed
    BY <1>2 DEF Learn, AddFact
  <2>2. d.con = con
    OBVIOUS
  <2> HIDE DEF d
  <2>3. Homed'
    BY <1>0, <2>1, <2>2 DEF Homed, TypeOK
  <2>4. Listed' = Listed \cup {d}
    BY <2>1 DEF Listed, TypeOK
  <2> QED
    BY <1>0, <2>1, <2>3, <2>4 DEF IndexesAgree, Homed
<1>3. ASSUME NEW con \in Names, NEW n, Unlearn(con, n)
      PROVE  IndexesAgree'
  <2> DEFINE listed == UNION {Fronts(data[con], p, n[p]) : p \in Patterns}
             indexed == UNION {Fronts(node, p, n[p]) : p \in Patterns}
  <2>1. /\ data' = [data EXCEPT ![con] = @ \ listed]
        /\ node' = node \ indexed
        /\ crossed' = (crossed \/ listed # indexed)
        /\ listed \subseteq data[con]
    BY <1>3 DEF Unlearn, DropFacts
  <2> HIDE DEF listed, indexed
  <2>2. Homed'
    BY <1>0, <2>1 DEF Homed, TypeOK
  <2>3. Listed' = Listed \ listed
    BY <1>0, <2>1 DEF Listed, TypeOK, Homed
  <2> QED
    BY <1>0, <2>1, <2>2, <2>3 DEF IndexesAgree, Homed
<1>4. CASE KillSymbol
  BY <1>0, <1>4 DEF KillSymbol, IndexesAgree, vars
<1>5. CASE UNCHANGED allVars
  BY <1>0, <1>5 DEF allVars, vars, factVars, IndexesAgree, Listed
<1> QED
  BY <1>0, <1>1, <1>2, <1>3, <1>4, <1>5
     DEF FactNext, Assume, Answer, Forget, Clearsign

\* In an undisturbed session the context that a query runs in is marked.
LEMMA QueryMarksContext ==
    ASSUME ContextsInv', Undisturbed'
    PROVE  Count(cmark'[current']) > 0
<1>1. current' \in Names /\ dbcontexts' \subseteq Names
  BY DEF ContextsInv, TypeOK
<1>2. current' \in Chain(current)'
  BY <1>1 DEF Chain, ClosedFrom
<1>3. Cardinality(Roots(current)') \in Nat
  <2>1. Roots(current)' \subseteq Names
    BY <1>1 DEF Roots
  <2> QED
    BY <2>1, FiniteNames, FS_Subset, FS_CardinalityType
<1>4. Count(cmark'[current']) = Cardinality(Roots(current)') + 1
  BY <1>1, <1>2 DEF ContextsInv, MarksExact
<1> QED
  BY <1>3, <1>4

\* assume never adds a pattern that the context lists already.
LEMMA AssumedOnceStep ==
    ASSUME FactInv, AssumedOnce, [FactNext]_allVars, [Next]_vars, ContextsInv'
    PROVE  AssumedOnce'
<1> SUFFICES ASSUME Undisturbed', ~crossed', NEW c \in Names,
                    NEW d \in data'[c], NEW e \in data'[c],
                    d.pattern = e.pattern, ~d.answer, ~e.answer
             PROVE  d = e
  BY DEF AssumedOnce
<1>0. TypeOK /\ FactTypeOK /\ Homed /\ (~crossed => node = Listed)
  BY DEF FactInv, ContextsInv, IndexesAgree, Homed
<1>1. Undisturbed
  BY <1>0, UndisturbedBefore
<1>2. ASSUME \A x \in Names : data'[x] \subseteq data[x], crossed => crossed'
      PROVE  d = e
  BY <1>1, <1>2 DEF AssumedOnce
<1>3. CASE ManageContexts
  BY <1>0, <1>2, <1>3, ManageShrinks DEF ManageContexts
<1>4. ASSUME NEW p \in Patterns, Answer(p) PROVE d = e
  <2> DEFINE n == [id |-> nextId, pattern |-> p, con |-> Initial, answer |-> TRUE]
  <2>1. data' = [data EXCEPT ![Initial] = @ \cup {n}] /\ crossed' = crossed
    BY <1>4 DEF Answer, Learn, AddFact
  <2>2. n.answer
    OBVIOUS
  <2> HIDE DEF n
  <2>3. d \in data[c] /\ e \in data[c]
    BY <1>0, <2>1, <2>2 DEF TypeOK
  <2> QED
    BY <1>1, <2>1, <2>3 DEF AssumedOnce
<1>5. ASSUME NEW p \in Patterns, Assume(p) PROVE d = e
  <2> DEFINE n == [id |-> nextId, pattern |-> p, con |-> context, answer |-> FALSE]
  <2>1. /\ data' = [data EXCEPT ![context] = @ \cup {n}] /\ crossed' = crossed
        /\ cmark' = Remark(cmark, context) /\ current' = context
        /\ ~KnownUnder(p, Remark(cmark, context))
    BY <1>5 DEF Assume, Learn, AddFact
  <2>2. n.pattern = p
    OBVIOUS
  <2> HIDE DEF n
  <2>3. Count(Remark(cmark, context)[context]) > 0
    BY <2>1, QueryMarksContext
  <2>4. \A f \in data[context] : f.pattern # p
    <3> SUFFICES ASSUME NEW f \in data[context], f.pattern = p PROVE FALSE
      OBVIOUS
    <3>1. f \in node /\ f.con = context
      BY <1>0, <2>1 DEF Listed, Homed, TypeOK
    <3> QED
      BY <2>1, <2>3, <3>1 DEF KnownUnder
  <2>5. CASE d \in data[c] /\ e \in data[c]
    BY <1>1, <2>1, <2>5 DEF AssumedOnce
  <2>6. CASE ~(d \in data[c] /\ e \in data[c])
    BY <1>0, <2>1, <2>2, <2>4, <2>6 DEF TypeOK
  <2> QED
    BY <2>5, <2>6
<1>6. ASSUME NEW con \in Names, NEW k, Unlearn(con, k) PROVE d = e
  BY <1>0, <1>2, <1>6 DEF Unlearn, DropFacts, TypeOK
<1>7. CASE KillSymbol \/ UNCHANGED allVars
  BY <1>2, <1>7 DEF KillSymbol, allVars, vars, factVars
<1> QED
  BY <1>0, <1>3, <1>4, <1>5, <1>6, <1>7 DEF FactNext, Forget, Clearsign, TypeOK, Names

-----------------------------------------------------------------------------
(* The answers to asksign.                                                 *)

\* In $initial nothing assumed lies in front of an answer.
AnswersInFront ==
    /\ \A d \in node : d.id < nextId /\ (d.answer => d.con = Initial)
    /\ \A d, e \in node :
          d.answer /\ ~e.answer /\ e.con = Initial /\ e.pattern = d.pattern => e.id < d.id

\* No more answers are left than clearsign will take away.
AnswersCounted == \A p \in Patterns : Cardinality(Answers(p)) <= localsigns[p]

AnswersInv == Undisturbed /\ ~crossed => AnswersInFront /\ AnswersCounted

LEMMA FiniteDatums == IsFiniteSet(Datums)
<1>1. IsFiniteSet(1 .. MaxDatums) /\ IsFiniteSet(BOOLEAN) /\ IsFiniteSet(Patterns) /\ IsFiniteSet(Names)
  <2>1. IsFiniteSet(1 .. MaxDatums)
    BY PatternsAssumption, FS_Interval
  <2>2. IsFiniteSet(BOOLEAN)
    <3>1. IsFiniteSet({}) /\ IsFiniteSet({TRUE})
      BY FS_EmptySet, FS_Singleton
    <3>2. IsFiniteSet({TRUE} \cup {FALSE})
      BY <3>1, FS_AddElement
    <3>3. BOOLEAN = {TRUE} \cup {FALSE}
      OBVIOUS
    <3> QED
      BY <3>2, <3>3
  <2> QED
    BY <2>1, <2>2, PatternsAssumption, FiniteNames
<1>2. IsFiniteSet(((1 .. MaxDatums) \X Patterns) \X (Names \X BOOLEAN))
  BY <1>1, FS_Product
<1> DEFINE R == ((1 .. MaxDatums) \X Patterns) \X (Names \X BOOLEAN)
           f == [d \in Datums |-> <<<<d.id, d.pattern>>, <<d.con, d.answer>>>>]
<1>3. f \in [Datums -> R]
  BY DEF Datums
<1>4. \A d, e \in Datums : f[d] = f[e] => d = e
  BY DEF Datums
<1>5. f \in Injection(Datums, R)
  BY <1>3, <1>4 DEF Injection, IsInjective
<1> HIDE DEF f
<1> QED
  BY <1>2, <1>5, FS_Injection

LEMMA FiniteAnswers ==
    ASSUME FactTypeOK, NEW p
    PROVE  IsFiniteSet(Answers(p)) /\ Cardinality(Answers(p)) \in Nat
<1>1. Answers(p) \subseteq Datums
  BY DEF Answers, FactTypeOK
<1> QED
  BY <1>1, FiniteDatums, FS_Subset, FS_CardinalityType

\* A step that removes facts only, and counts no answer down, keeps the answers
\* where they were.
LEMMA AnswersKept ==
    ASSUME FactTypeOK, AnswersInFront, AnswersCounted,
           node' \subseteq node, nextId' = nextId, localsigns' = localsigns
    PROVE  (AnswersInFront /\ AnswersCounted)'
<1>1. AnswersInFront'
  BY DEF AnswersInFront
<1>2. ASSUME NEW p \in Patterns
      PROVE  Cardinality(Answers(p)') <= localsigns'[p]
  <2>1. Answers(p)' \subseteq Answers(p)
    BY DEF Answers
  <2>2. Cardinality(Answers(p)') <= Cardinality(Answers(p)) /\ Cardinality(Answers(p)') \in Nat
    BY <2>1, FiniteAnswers, FS_Subset, FS_CardinalityType
  <2>3. Cardinality(Answers(p)) <= localsigns[p] /\ localsigns[p] \in Nat
    BY DEF AnswersCounted, FactTypeOK
  <2> QED
    BY <2>2, <2>3, FiniteAnswers
<1> QED
  BY <1>1, <1>2 DEF AnswersCounted

\* An answer is among as many facts of its pattern, newest first, as there are
\* answers.
LEMMA AnswerIsFront ==
    ASSUME FactTypeOK, AnswersInFront, AnswersCounted, NEW S \in SUBSET node,
           \A e \in S : e.con = Initial, NEW d \in S, d.answer
    PROVE  d \in Fronts(S, d.pattern, localsigns[d.pattern])
<1> DEFINE p == d.pattern
           newer == {e \in S : e.pattern = p /\ e.id > d.id}
<1>0. d \in Datums /\ p \in Patterns /\ d.id \in Nat /\ \A e \in S : e \in Datums /\ e.id \in Nat
  BY DEF FactTypeOK, Datums
<1>1. d \in Answers(p)
  BY DEF Answers
<1>2. newer \subseteq Answers(p) \ {d}
  <2> SUFFICES ASSUME NEW e \in newer PROVE e \in Answers(p) \ {d}
    OBVIOUS
  <2>1. e \in S /\ e.pattern = p /\ e.id > d.id /\ e # d
    BY <1>0
  <2>2. e.answer
    BY <1>0, <2>1 DEF AnswersInFront
  <2> QED
    BY <2>1, <2>2 DEF Answers
<1> HIDE DEF newer
<1>3. /\ Cardinality(Answers(p) \ {d}) = Cardinality(Answers(p)) - 1
      /\ IsFiniteSet(Answers(p) \ {d})
  BY <1>1, FiniteAnswers, FS_RemoveElement
<1>4. Cardinality(newer) \in Nat /\ Cardinality(newer) <= Cardinality(Answers(p)) - 1
  BY <1>2, <1>3, FS_Subset, FS_CardinalityType
<1>5. /\ Cardinality(Answers(p)) <= localsigns[p] /\ localsigns[p] \in Nat
      /\ Cardinality(Answers(p)) \in Nat
  BY <1>0, FiniteAnswers DEF AnswersCounted, FactTypeOK
<1>6. Cardinality(newer) < localsigns[p]
  BY <1>4, <1>5
<1> QED
  BY <1>6 DEF Fronts, newer

\* clearsign takes every answer away, if it takes the same facts from both lists.
LEMMA ClearsignEnds ==
    ASSUME FactInv, AnswersInFront, AnswersCounted, Clearsign, ~crossed, ~crossed'
    PROVE  \A d \in node' : ~d.answer
<1> SUFFICES ASSUME NEW d \in node', d.answer PROVE FALSE
  OBVIOUS
<1> DEFINE listed == UNION {Fronts(data[Initial], p, localsigns[p]) : p \in Patterns}
           indexed == UNION {Fronts(node, p, localsigns[p]) : p \in Patterns}
<1>0. FactTypeOK /\ Homed /\ node = Listed /\ Initial \in Names
  BY DEF FactInv, IndexesAgree, Homed, Names
<1>1. node' = node \ indexed /\ crossed' = (crossed \/ listed # indexed)
  BY DEF Clearsign, Unlearn
<1>2. listed = indexed /\ d \in node /\ d \notin listed
  BY <1>1
<1>3. d.con = Initial /\ d.pattern \in Patterns
  BY <1>0, <1>2 DEF AnswersInFront, FactTypeOK, Datums
<1>4. d \in data[Initial] /\ data[Initial] \subseteq node /\ \A e \in data[Initial] : e.con = Initial
  BY <1>0, <1>2, <1>3 DEF Listed, Homed
<1>5. d \in Fronts(data[Initial], d.pattern, localsigns[d.pattern])
  BY <1>0, <1>4, AnswerIsFront
<1> QED
  BY <1>2, <1>3, <1>5

\* What clearsign takes from a list has fewer facts of its pattern in front than
\* clearsign has counted, and all answers are among these.
LEMMA ClearsignSpares ==
    ASSUME FactInv, AnswersInFront, Clearsign, ~crossed,
           NEW d \in Unlisted \cup (IF crossed' THEN {} ELSE node \ node'), ~d.answer
    PROVE  Cardinality(Answers(d.pattern)) < localsigns[d.pattern]
<1> DEFINE listed == UNION {Fronts(data[Initial], p, localsigns[p]) : p \in Patterns}
           indexed == UNION {Fronts(node, p, localsigns[p]) : p \in Patterns}
<1>0. /\ FactTypeOK /\ Homed /\ node = Listed /\ Initial \in Names
      /\ data \in [Names -> SUBSET Facts]
  BY DEF FactInv, IndexesAgree, Homed, Names, ContextsInv, TypeOK
<1>1. /\ data' = [data EXCEPT ![Initial] = @ \ listed] /\ node' = node \ indexed
      /\ crossed' = (crossed \/ listed # indexed)
  BY DEF Clearsign, Unlearn, DropFacts
<1>2. d \in listed
  <2>1. CASE d \in Unlisted
    <3>1. PICK c \in Names : d \in data[c] /\ d \notin data'[c]
      BY <2>1 DEF Unlisted
    <3> QED
      BY <1>0, <1>1, <3>1
  <2>2. CASE ~crossed' /\ d \in node \ node'
    BY <1>1, <2>2
  <2> QED
    BY <2>1, <2>2
<1>3. PICK p \in Patterns : d \in Fronts(data[Initial], p, localsigns[p])
  BY <1>2
<1> DEFINE newer == {e \in data[Initial] : e.pattern = p /\ e.id > d.id}
<1>4. d \in data[Initial] /\ d.pattern = p /\ Cardinality(newer) < localsigns[p]
  BY <1>3 DEF Fronts
<1>5. data[Initial] \subseteq node /\ \A e \in data[Initial] : e.con = Initial
  BY <1>0 DEF Listed, Homed
<1>6. \A e \in node : e.id \in Nat
  BY <1>0 DEF FactTypeOK, Datums
<1>7. Answers(p) \subseteq newer
  <2> SUFFICES ASSUME NEW e \in Answers(p) PROVE e \in newer
    OBVIOUS
  <2>1. e \in node /\ e.answer /\ e.pattern = p
    BY DEF Answers
  <2>2. e.con = Initial
    BY <2>1 DEF AnswersInFront
  <2>3. e \in data[Initial]
    BY <1>0, <2>1, <2>2 DEF Listed, Homed
  <2>4. d.id < e.id
    BY <1>4, <1>5, <2>1 DEF AnswersInFront
  <2> QED
    BY <1>4, <1>5, <1>6, <2>1, <2>3, <2>4
<1>8. IsFiniteSet(newer)
  <2>1. newer \subseteq Datums
    BY <1>0, <1>5 DEF FactTypeOK
  <2> QED
    BY <2>1, FiniteDatums, FS_Subset
<1> HIDE DEF newer
<1>9. /\ Cardinality(Answers(p)) \in Nat /\ Cardinality(newer) \in Nat
      /\ Cardinality(Answers(p)) <= Cardinality(newer) /\ localsigns[p] \in Nat
  BY <1>0, <1>7, <1>8, FS_Subset, FS_CardinalityType DEF FactTypeOK
<1> QED
  BY <1>4, <1>9

\* assume in $initial of a pattern that has been answered is redundant.
LEMMA AssumeInFront ==
    ASSUME FactInv, AnswersInFront, ~crossed, NEW p \in Patterns, Assume(p),
           [Next]_vars, ContextsInv', Undisturbed'
    PROVE  AnswersInFront'
<1> DEFINE n == [id |-> nextId, pattern |-> p, con |-> context, answer |-> FALSE]
<1>0. FactTypeOK /\ Homed /\ node = Listed /\ context \in Names /\ nextId \in Nat
  BY DEF FactInv, IndexesAgree, Homed, ContextsInv, TypeOK, FactTypeOK
<1>1. /\ node' = node \cup {n} /\ nextId' = nextId + 1
      /\ cmark' = Remark(cmark, context) /\ current' = context
      /\ ~KnownUnder(p, Remark(cmark, context))
  BY DEF Assume, Learn, AddFact
<1>2. n.id = nextId /\ n.pattern = p /\ n.con = context /\ ~n.answer
  OBVIOUS
<1> HIDE DEF n
<1>3. Count(Remark(cmark, context)[context]) > 0
  BY <1>1, QueryMarksContext
<1>4. \A d \in node : d.pattern = p => d.con # context
  BY <1>1, <1>3 DEF KnownUnder
<1>5. \A d \in node : d.id \in Nat
  BY <1>0 DEF FactTypeOK, Datums
<1>6. \A d \in node' : d.id < nextId' /\ (d.answer => d.con = Initial)
  BY <1>0, <1>1, <1>2, <1>5 DEF AnswersInFront
<1>7. ASSUME NEW d \in node', NEW e \in node',
             d.answer, ~e.answer, e.con = Initial, e.pattern = d.pattern
      PROVE  e.id < d.id
  <2>1. d \in node
    BY <1>1, <1>2, <1>7
  <2>2. e \in node
    BY <1>1, <1>2, <1>4, <1>7, <2>1 DEF AnswersInFront
  <2> QED
    BY <1>7, <2>1, <2>2 DEF AnswersInFront
<1> QED
  BY <1>6, <1>7 DEF AnswersInFront

LEMMA AnswerInFront ==
    ASSUME FactTypeOK, AnswersInFront, NEW p \in Patterns, Answer(p)
    PROVE  AnswersInFront'
<1> DEFINE n == [id |-> nextId, pattern |-> p, con |-> Initial, answer |-> TRUE]
<1>1. node' = node \cup {n} /\ nextId' = nextId + 1 /\ nextId \in Nat
  BY DEF Answer, Learn, FactTypeOK
<1>2. n.id = nextId /\ n.con = Initial /\ n.answer
  OBVIOUS
<1> HIDE DEF n
<1>3. \A d \in node : d.id \in Nat
  BY DEF FactTypeOK, Datums
<1>4. \A d \in node' : d.id < nextId' /\ (d.answer => d.con = Initial)
  BY <1>1, <1>2, <1>3 DEF AnswersInFront
<1>5. \A d, e \in node' :
          d.answer /\ ~e.answer /\ e.con = Initial /\ e.pattern = d.pattern => e.id < d.id
  BY <1>1, <1>2 DEF AnswersInFront
<1> QED
  BY <1>4, <1>5 DEF AnswersInFront

\* An answer is counted.
LEMMA LearnCounted ==
    ASSUME FactTypeOK, AnswersCounted, NEW p \in Patterns, Assume(p) \/ Answer(p)
    PROVE  AnswersCounted'
<1>1. PICK con, b : Learn(p, con, b) /\ localsigns' = [localsigns EXCEPT ![p] = @ + (IF b THEN 1 ELSE 0)]
  <2>1. localsigns \in [Patterns -> Nat]
    BY DEF FactTypeOK
  <2>2. localsigns = [localsigns EXCEPT ![p] = @ + 0]
    BY <2>1
  <2> QED
    BY <2>2 DEF Assume, Answer
<1> DEFINE n == [id |-> nextId, pattern |-> p, con |-> con, answer |-> b]
<1>2. node' = node \cup {n}
  BY <1>1 DEF Learn
<1>3. n.pattern = p /\ n.answer = b
  OBVIOUS
<1> HIDE DEF n
<1>4. ASSUME NEW q \in Patterns
      PROVE  Cardinality(Answers(q)') <= localsigns'[q]
  <2>0. /\ Cardinality(Answers(q)) \in Nat /\ IsFiniteSet(Answers(q))
        /\ Cardinality(Answers(q)) <= localsigns[q] /\ localsigns \in [Patterns -> Nat]
    BY FiniteAnswers DEF AnswersCounted, FactTypeOK
  <2>1. CASE q = p /\ b
    <3>1. Answers(q)' = Answers(q) \cup {n}
      BY <1>2, <1>3, <2>1 DEF Answers
    <3>2. Cardinality(Answers(q)') <= Cardinality(Answers(q)) + 1
      BY <2>0, <3>1, FS_AddElement
    <3>3. localsigns'[q] = localsigns[q] + 1 /\ localsigns[q] \in Nat
      BY <1>1, <2>0, <2>1
    <3>4. Cardinality(Answers(q)') \in Nat
      <4>1. IsFiniteSet(Answers(q) \cup {n})
        BY <2>0, FS_AddElement
      <4> QED
        BY <3>1, <4>1, FS_CardinalityType
    <3> QED
      BY <2>0, <3>2, <3>3, <3>4
  <2>2. CASE ~(q = p /\ b)
    <3>1. Answers(q)' = Answers(q)
      BY <1>2, <1>3, <2>2 DEF Answers
    <3>2. localsigns'[q] = localsigns[q]
      BY <1>1, <2>0, <2>2
    <3> QED
      BY <2>0, <3>1, <3>2
  <2> QED
    BY <2>1, <2>2
<1> QED
  BY <1>4 DEF AnswersCounted

LEMMA AnswersStep ==
    ASSUME FactInv, AnswersInv, [FactNext]_allVars, [Next]_vars, ContextsInv'
    PROVE  AnswersInv'
<1> SUFFICES ASSUME Undisturbed', ~crossed' PROVE (AnswersInFront /\ AnswersCounted)'
  BY DEF AnswersInv
<1>0. TypeOK /\ FactTypeOK
  BY DEF FactInv, ContextsInv
<1>1. ~crossed
  BY DEF FactNext, ManageContexts, Assume, Answer, Learn, Forget, Clearsign, Unlearn, KillSymbol,
     allVars, factVars
<1>2. AnswersInFront /\ AnswersCounted
  BY <1>0, <1>1, UndisturbedBefore DEF AnswersInv
<1>3. CASE ManageContexts \/ UNCHANGED allVars
  BY <1>0, <1>2, <1>3, AnswersKept DEF ManageContexts, allVars, factVars
<1>4. ASSUME NEW p \in Patterns, Assume(p)
      PROVE  (AnswersInFront /\ AnswersCounted)'
  BY <1>0, <1>1, <1>2, <1>4, AssumeInFront, LearnCounted
<1>5. ASSUME NEW p \in Patterns, Answer(p)
      PROVE  (AnswersInFront /\ AnswersCounted)'
  BY <1>0, <1>2, <1>5, AnswerInFront, LearnCounted
<1>6. ASSUME NEW p \in Patterns, Forget(p)
      PROVE  (AnswersInFront /\ AnswersCounted)'
  BY <1>0, <1>2, <1>6, AnswersKept DEF Forget, Unlearn
<1>7. CASE Clearsign
  <2>1. \A d \in node' : ~d.answer
    BY <1>1, <1>2, <1>7, ClearsignEnds
  <2>2. node' \subseteq node /\ nextId' = nextId /\ localsigns' = [p \in Patterns |-> 0]
    BY <1>7 DEF Clearsign, Unlearn
  <2>3. AnswersInFront'
    BY <1>2, <2>2 DEF AnswersInFront
  <2>4. ASSUME NEW p \in Patterns PROVE Cardinality(Answers(p)') <= localsigns'[p]
    <3>1. Answers(p)' = {}
      BY <2>1 DEF Answers
    <3> QED
      BY <2>2, <3>1, FS_EmptySet
  <2> QED
    BY <2>3, <2>4 DEF AnswersCounted
<1>8. CASE KillSymbol
  BY <1>8 DEF KillSymbol
<1> QED
  BY <1>3, <1>4, <1>5, <1>6, <1>7, <1>8 DEF FactNext

-----------------------------------------------------------------------------
(* The theorems.                                                           *)

\* The fact base starts with its invariant.
LEMMA FactInitInv == FactInit => FactInv
<1> SUFFICES ASSUME FactInit PROVE FactInv
  OBVIOUS
<1>1. ContextsInv
  BY InitInv DEF FactInit
<1>2. FactTypeOK
  <2>1. node \in SUBSET Datums /\ localsigns \in [Patterns -> Nat]
    BY DEF FactInit
  <2>2. nextId \in 1 .. MaxDatums + 1
    BY PatternsAssumption DEF FactInit
  <2>3. crossed \in BOOLEAN
    BY DEF FactInit
  <2> QED
    BY <2>1, <2>2, <2>3 DEF FactTypeOK
<1>3. \A c \in Names : data[c] = {}
  BY DEF FactInit, Init
<1>4. IndexesAgree
  BY <1>3 DEF FactInit, IndexesAgree, Listed
<1> QED
  BY <1>1, <1>2, <1>4 DEF FactInv

\* Every step of the fact base keeps its invariant.
LEMMA FactNextInv ==
    ASSUME FactInv, [FactNext]_allVars
    PROVE  FactInv' /\ [Next]_vars
<1>1. TypeOK
  BY DEF FactInv, ContextsInv
<1>2. [Next]_vars
  BY <1>1, Simulation DEF FactInv
<1>3. ContextsInv'
  BY <1>2, NextInv DEF FactInv
<1>4. FactTypeOK' /\ IndexesAgree'
  BY <1>1, FactTypeStep, IndexStep DEF FactInv
<1> QED
  BY <1>2, <1>3, <1>4 DEF FactInv

\* The fact base satisfies its inductive invariant.
THEOREM FactInvariance == FactSpec => []FactInv
<1>1. FactInv /\ [FactNext]_allVars => FactInv'
  BY FactNextInv
<1> QED
  BY FactInitInv, <1>1, PTL DEF FactSpec

\* The two indexes hold the same facts until a step removes one from one index
\* only, whatever contexts are killed and whatever names are used again.
THEOREM IndexesNeverPart == FactSpec => []IndexesAgree
<1>1. FactInv => IndexesAgree
  BY DEF FactInv
<1> QED
  BY FactInvariance, <1>1, PTL

\* Type correctness of the fact base.
THEOREM FactsTyped == FactSpec => []FactTypeOK
<1>1. FactInv => FactTypeOK
  BY DEF FactInv
<1> QED
  BY FactInvariance, <1>1, PTL
\* No context of an undisturbed session lists an assumption twice.
THEOREM NothingAssumedTwice == FactSpec => []AssumedOnce
<1>1. FactInit => AssumedOnce
  BY DEF FactInit, Init, AssumedOnce
<1>2. FactInv /\ AssumedOnce /\ [FactNext]_allVars => AssumedOnce'
  BY FactNextInv, AssumedOnceStep DEF FactInv
<1> QED
  BY FactInvariance, <1>1, <1>2, PTL DEF FactSpec

\* In an undisturbed session no assumption comes to lie in front of an answer in
\* the list that clearsign works on, and no more answers are left than it counts.
LEMMA AnswersInvariance == FactSpec => []AnswersInv
<1>1. FactInit => AnswersInv
  <2> SUFFICES ASSUME FactInit PROVE AnswersInFront /\ AnswersCounted
    BY DEF AnswersInv
  <2>1. \A p \in Patterns : Cardinality(Answers(p)) <= localsigns[p]
    <3>1. \A p \in Patterns : Answers(p) = {} /\ localsigns[p] = 0
      BY DEF FactInit, Answers
    <3> QED
      BY <3>1, FS_EmptySet
  <2> QED
    BY <2>1 DEF FactInit, AnswersInFront, AnswersCounted
<1>2. FactInv /\ AnswersInv /\ [FactNext]_allVars => AnswersInv'
  BY FactNextInv, AnswersStep DEF FactInv
<1> QED
  BY FactInvariance, <1>1, <1>2, PTL DEF FactSpec

\* In an undisturbed session clearsign leaves nothing of the answers to asksign.
THEOREM AnswersAlwaysEnd == FactSpec => []AnswersEnd
<1>1. FactInv /\ AnswersInv => AnswersEnd
  <2> SUFFICES ASSUME FactTypeOK, AnswersCounted, NEW d \in node, d.answer, localsigns[d.pattern] = 0
               PROVE  FALSE
    BY DEF FactInv, AnswersInv, AnswersEnd, FactTypeOK, Datums
  <2>1. d.pattern \in Patterns /\ d \in Answers(d.pattern)
    BY DEF FactTypeOK, Datums, Answers
  <2>2. IsFiniteSet(Answers(d.pattern)) /\ Cardinality(Answers(d.pattern)) \in Nat
    BY FiniteAnswers
  <2>3. Cardinality(Answers(d.pattern)) = 0
    BY <2>1, <2>2 DEF AnswersCounted
  <2> QED
    BY <2>1, <2>2, <2>3, FS_EmptySet
<1> QED
  BY FactInvariance, AnswersInvariance, <1>1, PTL

\* And in such a session it takes nothing that the user has assumed, unless an
\* answer of the same evaluation was removed before.
THEOREM AssumptionsAlwaysSurvive == FactSpec => AssumptionsSurvive
<1>1. ASSUME FactInv, AnswersInv, Clearsign, Undisturbed, ~crossed,
             NEW d \in Unlisted \cup (IF crossed' THEN {} ELSE node \ node')
      PROVE  d.answer \/ Cardinality(Answers(d.pattern)) < localsigns[d.pattern]
  BY <1>1, ClearsignSpares DEF AnswersInv
<1>2. FactInv /\ AnswersInv =>
        (Clearsign /\ Undisturbed /\ ~crossed =>
           \A d \in Unlisted \cup (IF crossed' THEN {} ELSE node \ node') :
               d.answer \/ Cardinality(Answers(d.pattern)) < localsigns[d.pattern])
  BY <1>1
<1> QED
  BY FactInvariance, AnswersInvariance, <1>2, PTL DEF AssumptionsSurvive

=============================================================================

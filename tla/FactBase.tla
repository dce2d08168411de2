------------------------------ MODULE FactBase ------------------------------
(***************************************************************************)
(* The two indexes of the assume database: src/compar.lisp (assume,        *)
(* forget, mfact, mkill, the answers of asksign and clearsign) and         *)
(* src/db.lisp (cntxt, kcntxt, addf, maxima-remf, fdel, remov, killframe), *)
(* on top of the contexts of module Contexts.                              *)
(*                                                                         *)
(* A fact is a datum, a Lisp cell with an identity: two assumptions of the *)
(* same pattern make two datums.  A datum is listed in its context (data), *)
(* where facts, killcontext and save find it, and at the symbols it speaks *)
(* about (node), where every deduction finds it.  It is visible when the   *)
(* mark of its context is positive.                                        *)
(*                                                                         *)
(* The patterns speak about one symbol, and none follows from another.     *)
(***************************************************************************)
EXTENDS Contexts

CONSTANTS
    Patterns,    \* such as x > 0 and equal(x, 1)
    MaxDatums    \* bound on the datums made in a session

ASSUME PatternsAssumption == IsFiniteSet(Patterns) /\ MaxDatums \in Nat

VARIABLES
    node,        \* the property data of the symbol: the datums deductions find
    nextId,      \* the next datum; in every list the newest datum is in front
    localsigns,  \* *local-signs*: how often each pattern has been answered
    crossed      \* some step has removed a datum from one index only

factVars == <<node, nextId, localsigns, crossed>>
allVars == <<vars, factVars>>

\* A datum with the context of its property con.  The last field is not in the
\* code: it tells the answers of asksign from what the user has assumed.
Datums ==
    [id : 1 .. MaxDatums, pattern : Patterns, con : Names, answer : BOOLEAN]

ASSUME FactsAssumption == Facts = Datums

\* Mutant of Fronts: the list is searched from its end.
Backs(S, p, n) ==
    {d \in S : /\ d.pattern = p
               /\ Cardinality({e \in S : e.pattern = p /\ e.id < d.id}) < n}

\* What fdel looks at: pattern p's datums in S, but for the first n of the list.
Fronts(S, p, n) ==
    {d \in S : /\ d.pattern = p
               /\ Cardinality({e \in S : e.pattern = p /\ e.id > d.id}) < n}

\* Pattern p is known: a deduction finds a visible datum of it.
KnownUnder(p, m) == \E d \in node : d.pattern = p /\ Count(m[d.con]) > 0

\* The datums that the step takes from the lists of their contexts.
Unlisted == {d \in UNION {data[c] : c \in Names} : \A c \in Names : d \notin data'[c]}

FactInit ==
    /\ Init
    /\ node = {}
    /\ nextId = 1
    /\ localsigns = [p \in Patterns |-> 0]
    /\ crossed = FALSE

\* Mutant of ManageContexts: killed facts stay with their symbol.
ManageContextsOnly ==
    /\ Manage
    /\ UNCHANGED factVars

\* What a session does to its contexts: killc and the kill of $initial remove
\* the datums that they unlist from the symbols too (remov).
ManageContexts ==
    /\ Manage
    /\ node' = node \ Unlisted
    /\ UNCHANGED <<nextId, localsigns, crossed>>

\* mfact: the datum goes to the front of both lists.
Learn(p, con, answer) ==
    /\ nextId <= MaxDatums
    /\ ~KnownUnder(p, Remark(cmark, context))
    /\ LET d == [id |-> nextId, pattern |-> p, con |-> con, answer |-> answer]
       IN AddFact(d, con) /\ node' = node \cup {d}
    /\ nextId' = nextId + 1
    /\ UNCHANGED crossed

\* assume of a pattern that is not known yet; one that is known is redundant.
Assume(p) ==
    /\ Learn(p, context, FALSE)
    /\ UNCHANGED localsigns

\* asksign has found no sign and the user answers; the answer lasts until the
\* evaluation ends.
Answer(p) ==
    /\ Learn(p, Initial, TRUE)
    /\ localsigns' = [localsigns EXCEPT ![p] = @ + 1]

\* mkill, n times for the patterns that n(p) counts: the first datum of the
\* pattern in the list of the context, and the first one at the symbol.
Unlearn(con, n) ==
    LET listed == UNION {Fronts(data[con], p, n[p]) : p \in Patterns}
        indexed == UNION {Fronts(node, p, n[p]) : p \in Patterns}
    IN /\ DropFacts(listed, con)
       /\ node' = node \ indexed
       /\ crossed' = (crossed \/ listed # indexed)
       /\ UNCHANGED nextId

\* Mutant of Forget: the answers of the evaluation are counted down.
ForgetAnswered(p) ==
    /\ Unlearn(context, [q \in Patterns |-> IF q = p THEN 1 ELSE 0])
    /\ localsigns' = [localsigns EXCEPT ![p] = @ - 1]

Forget(p) ==
    /\ Unlearn(context, [q \in Patterns |-> IF q = p THEN 1 ELSE 0])
    /\ UNCHANGED localsigns

\* Mutant of Clearsign: the answers are forgotten, the facts are not.
ClearsignOnly ==
    /\ phase = "idle"
    /\ localsigns' = [p \in Patterns |-> 0]
    /\ UNCHANGED <<vars, node, nextId, crossed>>

\* The end of a top-level evaluation, normal or not.
Clearsign ==
    /\ Unlearn(Initial, localsigns)
    /\ localsigns' = [p \in Patterns |-> 0]

\* kill of the symbol, when it has declared properties: killframe clears what
\* deductions find, and leaves the lists of the contexts alone.
KillSymbol ==
    /\ phase = "idle"
    /\ node # {}
    /\ node' = {}
    /\ crossed' = TRUE
    /\ UNCHANGED <<vars, nextId, localsigns>>

FactNext ==
    \/ ManageContexts
    \/ \E p \in Patterns : Assume(p)
    \/ \E p \in Patterns : Answer(p)
    \/ \E p \in Patterns : Forget(p)
    \/ Clearsign
    \/ KillSymbol

FactSpec == FactInit /\ [][FactNext]_allVars
-----------------------------------------------------------------------------
(* Properties.                                                             *)

Listed == UNION {data[c] : c \in Names}

FactTypeOK ==
    /\ node \in SUBSET Datums
    /\ nextId \in 1 .. MaxDatums + 1
    /\ localsigns \in [Patterns -> Nat]
    /\ crossed \in BOOLEAN

\* The two indexes hold the same facts, each in the list of its own context, as
\* long as no step has removed a fact from one of them only: through
\* kills of contexts, kill(all), and names that are used again (compar.lisp,
\* mfact, mkill; db.lisp, killc).
IndexesAgree ==
    /\ \A c \in Names : \A d \in data[c] : d.con = c
    /\ ~crossed => node = Listed

\* No context lists a pattern twice among the user's assumptions: the test for
\* redundant assumptions sees what the marks make visible, and that includes
\* the current context (compar.lisp, assume; db.lisp, contextmark).
AssumedOnce ==
    Undisturbed /\ ~crossed =>
        \A c \in Names : \A d, e \in data[c] :
            d.pattern = e.pattern /\ ~d.answer /\ ~e.answer => d = e

\* Between evaluations nothing is left of the answers to asksign (the comment
\* above clearsign: "These facts are removed by clearsign after finishing the
\* evaluation phase").  In a session that has disturbed the marks, an assumption
\* can come to lie in front of an answer, and clearsign removes that one.
AnswersEnd ==
    Undisturbed /\ ~crossed /\ (\A p \in Patterns : localsigns[p] = 0) =>
        \A d \in node : ~d.answer

\* The answers of pattern p that are still there.
Answers(p) == {d \in node : d.answer /\ d.pattern = p}

\* clearsign finds what it removes by its pattern only.  It takes an assumption of
\* the user from the list of $initial only when one of the answers that it counts
\* has gone before, because it was forgotten or its context was killed: an assumption and
\* an answer of one pattern never lie in the wrong order (compar.lisp, clearsign,
\* mkill).  With the indexes in step deductions lose no other assumption either.
AssumptionsSurvive ==
    [][Clearsign /\ Undisturbed /\ ~crossed =>
          \A d \in Unlisted \cup (IF crossed' THEN {} ELSE node \ node') :
              d.answer \/ Cardinality(Answers(d.pattern)) < localsigns[d.pattern]]_allVars

-----------------------------------------------------------------------------
(* What the documentation says, and the code does not do.                  *)

\* doc/info/Database.texi, forget: it "Removes predicates established by
\* assume": a pattern that is known only because it was assumed in the current
\* context is not known any more.
ForgottenIsUnknown ==
    [][\A p \in Patterns :
          /\ Forget(p) /\ current = context
          /\ \E d \in data[context] :
                /\ ~d.answer
                /\ \A e \in node : e.pattern = p /\ Visible(e.con) => e = d
          => ~KnownUnder(p, cmark)']_allVars
=============================================================================

------------------------------ MODULE Contexts ------------------------------
(***************************************************************************)
(* The contexts of Maxima's assume database: src/compar.lisp (the user's   *)
(* functions newcontext, supcontext, activate, deactivate, killcontext,    *)
(* the assignment of the variable "context", kill(all)) on top of          *)
(* src/db.lisp (contextmark, cmark, cunmrk, activate, deactivate, killc).  *)
(*                                                                         *)
(* A context is a named collection of facts.  Every context but $global    *)
(* has one subcontext.  A fact takes part in deductions exactly when the   *)
(* counter "cmark" of its context is positive (db.lisp, cntp), so whether  *)
(* the answers of is, sign, integrate, ... rest on the right facts depends *)
(* on these counters alone.  They are updated incrementally along the      *)
(* chain of subcontexts, lazily for the current context (contextmark runs  *)
(* only from clear, facts, killcontext), eagerly for activated ones.       *)
(*                                                                         *)
(* The facts of a context are a set of patterns here: which assumption is  *)
(* redundant, and the second index by subject, is in module FactBase.      *)
(***************************************************************************)
EXTENDS Integers, FiniteSets

CONSTANTS
    UserContexts,     \* names the user, or with-new-context, gives to contexts
    Facts,            \* patterns of facts
    Global, Initial,  \* $global and $initial
    NoContext,        \* an absent subcontext
    NoMark,           \* an absent cmark property
    MaxDisturbances   \* bound on the steps that disturb the hierarchy

Names == UserContexts \cup {Global, Initial}

ASSUME NamesAssumption ==
    /\ IsFiniteSet(UserContexts)
    /\ Global # Initial
    /\ Global \notin UserContexts /\ Initial \notin UserContexts
    /\ NoContext \notin Names

ASSUME MarkAssumption == NoMark \notin Int

ASSUME BoundAssumption == MaxDisturbances \in Nat

VARIABLES
    contexts,        \* $contexts, as the set of its members
    behind,          \* behind[c]: the names that follow c in the list $contexts
    context,         \* context and $context, which are always assigned together
    current,         \* db.lisp: the context whose chain carries the lazy mark
    dbcontexts,      \* db.lisp: contexts, the list that activate keeps
    activecontexts,  \* $activecontexts
    subc,            \* the subcontext of each context
    cmark,           \* the property cmark: a counter, or NoMark
    data,            \* the property data: the facts of each context
    phase,           \* "idle", "killing" inside killallcontexts, "exhausted"
    killing,         \* the names mapcar has still to visit in killallcontexts
    disturbances     \* steps so far that broke the hierarchy or the marks

listVars == <<contexts, behind>>
markVars == <<current, cmark>>
activeVars == <<dbcontexts, activecontexts>>
loopVars == <<phase, killing>>
vars == <<contexts, behind, context, current, dbcontexts, activecontexts,
          subc, cmark, data, phase, killing, disturbances>>

-----------------------------------------------------------------------------
(* The chain of subcontexts and the marks on it.                           *)

\* S contains c and, with a context, its subcontext.
ClosedFrom(c, S) ==
    /\ c \in S
    /\ \A d \in S : subc[d] # NoContext => subc[d] \in S

\* The contexts that the recursion of cmark and cunmrk reaches from c.
Chain(c) == {d \in Names : \A S \in SUBSET Names : ClosedFrom(c, S) => d \in S}

\* That recursion does not end: the chain from c runs into a cycle.
Looping(c) ==
    \E d \in Chain(c) : subc[d] # NoContext /\ d \in Chain(subc[d])

Count(k) == IF k = NoMark THEN 0 ELSE k

Mark(m, c) ==
    LET reached == Chain(c)
    IN [d \in Names |-> IF d \in reached THEN Count(m[d]) + 1 ELSE m[d]]

\* Mutant of Unmark: the subcontexts keep their marks.
UnmarkTop(m, c) == [m EXCEPT ![c] = IF @ = NoMark THEN @ ELSE @ - 1]

Unmark(m, c) ==
    LET reached == Chain(c)
    IN [d \in Names |->
           IF d \in reached /\ m[d] # NoMark THEN m[d] - 1 ELSE m[d]]

\* Mutant of Remark: the lazy mark stays where it is.
RemarkNothing(m, con) == m

\* The counters after contextmark has moved the lazy mark to con.
Remark(m, con) == IF current = con THEN m ELSE Mark(Unmark(m, current), con)

\* The recursion of that contextmark ends.
Remarkable(con) == current = con \/ ~(Looping(current) \/ Looping(con))

Visible(c) == Count(cmark[c]) > 0

-----------------------------------------------------------------------------
(* A session that has evaluated its first expression.                      *)

Init ==
    /\ contexts = {Global, Initial}
    /\ behind = [c \in Names |-> IF c = Initial THEN {Global} ELSE {}]
    /\ context = Initial
    /\ current = Initial
    /\ dbcontexts = {}
    /\ activecontexts = {}
    /\ subc = [c \in Names |-> IF c = Initial THEN Global ELSE NoContext]
    /\ cmark = [c \in Names |-> IF c \in {Global, Initial} THEN 1 ELSE NoMark]
    /\ data = [c \in Names |-> {}]
    /\ phase = "idle"
    /\ killing = {}
    /\ disturbances = 0

\* clear: every query of the database first moves the lazy mark.
Clear ==
    /\ phase = "idle"
    /\ current # context
    /\ Remarkable(context)
    /\ cmark' = Remark(cmark, context)
    /\ current' = context
    /\ UNCHANGED <<listVars, context, activeVars, subc, data, loopVars, disturbances>>

\* A query made while context is let-bound to con (clearsign, asksign's
\* answers, initialize-numeric-constant, the simplifier of conjugate): when the
\* binding is undone nothing moves the mark back.
ClearUnder(con) ==
    /\ phase = "idle"
    /\ con \in {Global, Initial}
    /\ current # con
    /\ Remarkable(con)
    /\ cmark' = Remark(cmark, con)
    /\ current' = con
    /\ UNCHANGED <<listVars, context, activeVars, subc, data, loopVars, disturbances>>

\* The part that newcontext and supcontext share: a new name at the head of
\* the list becomes the current context; marks and facts are left as they are.
Enter(x, sub) ==
    /\ phase = "idle"
    /\ x \notin contexts
    /\ contexts' = contexts \cup {x}
    /\ behind' = [behind EXCEPT ![x] = contexts]
    /\ subc' = [subc EXCEPT ![x] = sub]
    /\ context' = x
    /\ UNCHANGED <<markVars, activeVars, data, loopVars, disturbances>>

Newcontext(x) == Enter(x, Global)

\* Mutant of Supcontext: the subcontext is not looked up in the list.
SupcontextUnchecked(x, y) == Enter(x, y)

\* supcontext(x, y); supcontext(x) is the case y = context.
Supcontext(x, y) ==
    /\ y \in contexts \cup {context}
    /\ Enter(x, y)

\* The assignment context : y of an existing context; of another name it is
\* Newcontext.
Asscontext(y) ==
    /\ phase = "idle"
    /\ y \in contexts
    /\ y # context
    /\ context' = y
    /\ UNCHANGED <<listVars, markVars, activeVars, subc, data, loopVars, disturbances>>

Activate(c) ==
    /\ phase = "idle"
    /\ c \notin activecontexts
    /\ c \in contexts
    /\ activecontexts' = activecontexts \cup {c}
    /\ dbcontexts' = dbcontexts \cup {c}
    /\ c \notin dbcontexts => ~Looping(c)
    /\ cmark' = IF c \in dbcontexts THEN cmark ELSE Mark(cmark, c)
    /\ UNCHANGED <<listVars, context, current, subc, data, loopVars, disturbances>>

\* Mutant of Deactivate: the list that the marks follow keeps the context.
DeactivateHalf(c) ==
    /\ phase = "idle"
    /\ c \in contexts
    /\ activecontexts' = activecontexts \ {c}
    /\ UNCHANGED <<listVars, context, current, dbcontexts, cmark, subc, data, loopVars,
                   disturbances>>

Deactivate(c) ==
    /\ phase = "idle"
    /\ c \in contexts
    /\ c \in dbcontexts => ~Looping(c)
    /\ activecontexts' = activecontexts \ {c}
    /\ dbcontexts' = dbcontexts \ {c}
    /\ cmark' = IF c \in dbcontexts THEN Unmark(cmark, c) ELSE cmark
    /\ UNCHANGED <<listVars, context, current, subc, data, loopVars, disturbances>>

-----------------------------------------------------------------------------
(* killcontext.                                                            *)

\* Only when contextmark has something to move does it return a non-empty
\* list (the subcontexts of the new current context), and only then does
\* killcontext look at the mark of its argument.
LooksAtMark(x) == x # context /\ current # context /\ subc[context] # NoContext

\* It refuses a marked context; for one that was never marked the comparison
\* with nil is a Lisp error, after the mark has moved.
Refuses(x) ==
    /\ LooksAtMark(x)
    /\ LET m == Remark(cmark, context)[x] IN m = NoMark \/ Count(m) > 0

\* Mutants of Successor: the session stays in the killed context; it goes to the
\* subcontext of the subcontext.
SuccessorSame(x) == context
SuccessorTwice(x) == IF x # context THEN context ELSE subc[subc[x]]

\* Where the session goes when its current context is killed.
Successor(x) ==
    IF x # context THEN context
    ELSE IF subc[x] = Global THEN Initial ELSE subc[x]

\* A context that still exists would be left with x as its subcontext.
Orphans(x) == \E c \in contexts \ {x} : subc[c] = x

RefuseKill(x) ==
    /\ x \in UserContexts
    /\ Refuses(x)
    /\ Remarkable(context)
    /\ cmark' = Remark(cmark, context)
    /\ current' = context
    /\ UNCHANGED <<listVars, context, activeVars, subc, data, disturbances>>

\* Mutant of KillInitial: the facts of $initial survive.
KillInitialNothing(x) ==
    /\ x = Initial
    /\ UNCHANGED <<listVars, context, markVars, activeVars, subc, data, disturbances>>

KillInitial(x) ==
    /\ x = Initial
    /\ data' = [data EXCEPT ![x] = {}]
    /\ UNCHANGED <<listVars, context, markVars, activeVars, subc, disturbances>>

\* The marks after the deactivation of x, which follows the contextmark of the
\* test, and after the contextmark of killc.
KillMarks(x) ==
    LET tested == IF x # context THEN Remark(cmark, context) ELSE cmark
        dropped == IF x \in activecontexts /\ x \in dbcontexts
                     THEN Unmark(tested, x) ELSE tested
    IN IF x # context THEN dropped ELSE Remark(dropped, Successor(x))

KillUser(x) ==
    /\ x \in UserContexts
    /\ ~Refuses(x)
    /\ Remarkable(Successor(x))
    /\ x \in activecontexts => ~Looping(x)
    /\ contexts' = contexts \ {x}
    /\ behind' = [c \in Names |-> IF c = x THEN {} ELSE behind[c] \ {x}]
    /\ context' = Successor(x)
    /\ current' = Successor(x)
    /\ activecontexts' = activecontexts \ {x}
    /\ dbcontexts' = IF x \in activecontexts THEN dbcontexts \ {x} ELSE dbcontexts
    /\ cmark' = [KillMarks(x) EXCEPT ![x] = NoMark]
    /\ subc' = [subc EXCEPT ![x] = NoContext]
    /\ data' = [data EXCEPT ![x] = {}]
    /\ disturbances' = IF Orphans(x) /\ phase = "idle"
                         THEN disturbances + 1 ELSE disturbances

\* killcontext returns at once for a name that is not in the list and for
\* $global; the other cases are these.
KillOne(x) ==
    /\ x \in contexts
    /\ RefuseKill(x) \/ KillInitial(x) \/ KillUser(x)

Killcontext(x) ==
    /\ phase = "idle"
    /\ Orphans(x) => disturbances < MaxDisturbances
    /\ KillOne(x)
    /\ UNCHANGED loopVars

-----------------------------------------------------------------------------
(* kill(all): killallcontexts is a loop over the list as it was at the     *)
(* start, newest context first, and a reset of part of the state.          *)

KillAllStart ==
    /\ phase = "idle"
    /\ activecontexts \cap {Global, Initial} # {} => disturbances < MaxDisturbances
    /\ Remarkable(context)
    /\ cmark' = Remark(cmark, context)
    /\ current' = context
    /\ phase' = "killing"
    /\ killing' = contexts
    /\ UNCHANGED <<listVars, context, activeVars, subc, data, disturbances>>

KillAllStep(x) ==
    /\ phase = "killing"
    /\ x \in killing
    /\ \A y \in killing : x \notin behind[y]
    /\ \/ KillOne(x)
       \/ /\ x = Global
          /\ UNCHANGED <<listVars, context, markVars, activeVars, subc, data,
                         disturbances>>
    /\ killing' = killing \ {x}
    /\ phase' = phase

KillAllEnd ==
    /\ phase = "killing"
    /\ killing = {}
    /\ contexts' = {Global, Initial}
    /\ behind' = [c \in Names |-> IF c = Initial THEN {Global} ELSE {}]
    /\ context' = Initial
    /\ current' = Initial
    /\ cmark' = [cmark EXCEPT ![Global] = 1, ![Initial] = 1]
    /\ subc' = [subc EXCEPT ![Initial] = Global]
    /\ phase' = "idle"
    /\ disturbances' = IF activecontexts # {} THEN disturbances + 1 ELSE disturbances
    /\ UNCHANGED <<activeVars, data, killing>>

-----------------------------------------------------------------------------
(* Facts come and go in the current context, and cycles end the session.   *)

\* cntxt, from assume and declare after the query that found the fact unknown;
\* asksign writes the user's answers into $initial, and the facts about
\* constants are written into $global, whatever the current context is.
AddFact(f, con) ==
    /\ phase = "idle"
    /\ con \in {context, Initial, Global}
    /\ Remarkable(context)
    /\ f \notin data[con]
    /\ data' = [data EXCEPT ![con] = @ \cup {f}]
    /\ cmark' = Remark(cmark, context)
    /\ current' = context
    /\ UNCHANGED <<listVars, context, activeVars, subc, loopVars, disturbances>>

\* kcntxt, from forget, and from clearsign for all that asksign has written.
DropFacts(F, con) ==
    /\ phase = "idle"
    /\ con \in {context, Initial}
    /\ F \subseteq data[con]
    /\ data' = [data EXCEPT ![con] = @ \ F]
    /\ UNCHANGED <<listVars, context, markVars, activeVars, subc, loopVars, disturbances>>

\* The recursion of cmark or cunmrk along a cycle exhausts the Lisp stack;
\* what the session does after that is not modelled.
Exhaust ==
    /\ phase # "exhausted"
    /\ \E c \in contexts \cup {context, current} : Looping(c)
    /\ phase' = "exhausted"
    /\ UNCHANGED <<listVars, context, markVars, activeVars, subc, data, killing,
                   disturbances>>

\* What a session does to its contexts.
Manage ==
    \/ Clear
    \/ \E con \in {Global, Initial} : ClearUnder(con)
    \/ \E x \in UserContexts : Newcontext(x)
    \/ \E x \in UserContexts, y \in Names : Supcontext(x, y)
    \/ \E y \in Names : Asscontext(y)
    \/ \E c \in Names : Activate(c)
    \/ \E c \in Names : Deactivate(c)
    \/ \E x \in Names : Killcontext(x)
    \/ KillAllStart
    \/ \E x \in Names : KillAllStep(x)
    \/ KillAllEnd
    \/ Exhaust

Next ==
    \/ Manage
    \/ \E f \in Facts, con \in Names : AddFact(f, con)
    \/ \E con \in Names : \E F \in SUBSET data[con] : DropFacts(F, con)

Spec == Init /\ [][Next]_vars

-----------------------------------------------------------------------------
(* Properties.                                                             *)

TypeOK ==
    /\ contexts \in SUBSET Names
    /\ behind \in [Names -> SUBSET Names]
    /\ context \in Names
    /\ current \in Names
    /\ dbcontexts \in SUBSET Names
    /\ activecontexts \in SUBSET Names
    /\ subc \in [Names -> Names \cup {NoContext}]
    /\ cmark \in [Names -> Int \cup {NoMark}]
    /\ data \in [Names -> SUBSET Facts]
    /\ phase \in {"idle", "killing", "exhausted"}
    /\ killing \in SUBSET Names
    /\ disturbances \in Nat

\* The activated contexts whose chain contains d.
Roots(d) == {r \in dbcontexts : d \in Chain(r)}

Undisturbed == disturbances = 0

\* The counters are exact: as long as no kill has orphaned a context, cmark
\* counts, for every context, the activated contexts whose chain contains it
\* and the context that carries the lazy mark (db.lisp, contextmark, activate,
\* deactivate, killc).  Nothing in the code recomputes them.
MarksExact ==
    Undisturbed =>
        \A d \in Names :
            Count(cmark[d]) =
                Cardinality(Roots(d)) + (IF d \in Chain(current) THEN 1 ELSE 0)

\* The subcontext of every existing context exists, and the recursion of cmark
\* and cunmrk along the chain ends, as long as no kill has orphaned a context
\* (compar.lisp, supcontext and killcontext).
HierarchySound ==
    Undisturbed =>
        \A c \in contexts : (c # Global => subc[c] \in contexts) /\ ~Looping(c)

\* Whatever has been killed, the list that the user sees, $activecontexts, and
\* the list that the marks follow are the same, and hold no dead context
\* (compar.lisp, activate, deactivate, killcontext, killallcontexts).
ActivationsAgree == activecontexts = dbcontexts /\ activecontexts \subseteq contexts

\* The current context exists, and a name that is not a context keeps nothing
\* of an earlier life, so that a context created under it starts empty and
\* unmarked, as long as no kill has orphaned a context (compar.lisp,
\* killcontext; newcontext resets nothing).
DeadAreBlank ==
    Undisturbed =>
        /\ context \in contexts
        /\ \A x \in Names \ contexts :
              data[x] = {} /\ cmark[x] = NoMark /\ subc[x] = NoContext

\* kill(all) leaves no fact and no mark of the user's contexts behind, as long
\* as no kill has orphaned a context (compar.lisp, killallcontexts).
KillAllBlank ==
    [][KillAllEnd /\ disturbances' = 0 =>
          /\ data'[Initial] = {}
          /\ \A x \in UserContexts : data'[x] = {} /\ cmark'[x] = NoMark]_vars

\* The inductive invariant behind these properties: the list order is a strict
\* order in which subcontexts come later, and the loop of kill(all) has still
\* to visit every user context that is left.
ListOrdered ==
    \A c \in contexts :
        /\ behind[c] \subseteq contexts
        /\ c \notin behind[c]
        /\ c # Global => subc[c] \in behind[c]
        /\ \A d \in behind[c] : behind[d] \subseteq behind[c]

Rooted ==
    /\ {Global, Initial} \subseteq contexts
    /\ subc[Global] = NoContext /\ subc[Initial] = Global
    /\ \A c \in contexts : c # Global => subc[c] # NoContext

LoopSynced ==
    phase = "killing" =>
        current = context /\ contexts \cap UserContexts \subseteq killing

Ordered == Undisturbed => ListOrdered /\ current \in contexts

ContextsInv ==
    /\ TypeOK
    /\ ActivationsAgree
    /\ Rooted
    /\ LoopSynced
    /\ Ordered
    /\ DeadAreBlank
    /\ MarksExact

-----------------------------------------------------------------------------
(* What the documentation says, and the code does not do.                  *)

\* doc/info/Database.texi, killcontext: it "refuses to kill a context which is
\* currently active, either because it is a subcontext of the current context,
\* or by use of the function activate".
KillRefusesActive ==
    [][\A x \in UserContexts :
          Killcontext(x) /\ x # context /\ x \notin contexts' =>
              x \notin activecontexts /\ x \notin Chain(context)]_vars
=============================================================================

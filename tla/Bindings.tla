------------------------------ MODULE Bindings ------------------------------
(***************************************************************************)
(* Dynamic scoping in the evaluator: src/mlisp.lisp (mlambda, mbind,       *)
(* munbind, mlocal, local, munlocal, ev, do, block, return, go),           *)
(* src/maxmac.lisp (mbinding), src/errset.lisp (errcatch) and              *)
(* src/suprv1.lisp (errlfun1, catch, throw).                               *)
(*                                                                         *)
(* A variable has one value cell and a function one property list.         *)
(* Binding a variable saves its value on a stack that the whole evaluator  *)
(* shares, and local saves the properties of functions on another one.     *)
(* Every block, call, loop and ev takes back what it has pushed, whichever *)
(* way it is left; errcatch and catch cut the stacks back to what they     *)
(* were.  The stacks hold no marks: names and values are matched by their  *)
(* positions.                                                              *)
(***************************************************************************)
EXTENDS Integers, Sequences, SequencesExt

CONSTANTS
    Vars,       \* the variables
    Values,     \* what a variable can be set to; it can also be set to itself
    Unbound,    \* munbound: the variable has no value
    Funs,       \* the functions
    Props,      \* the definitions a function can have
    NoProp,     \* the function is not defined
    VarLists,   \* the variable lists of the blocks, calls and loops
    EvLists,    \* the variable lists of the ev's: a variable may occur twice
    FunLists,   \* the argument lists of local
    MaxDepth,   \* bound on the nesting of the evaluations
    MaxAfter,   \* the same bound, from the first fault on
    MaxLocs     \* bound on the entries of loclist and on those of mproplist

ASSUME UnboundAssumption == Unbound \notin Values \cup Vars
ASSUME ListsAssumption ==
    VarLists \subseteq Seq(Vars) /\ EvLists \subseteq Seq(Vars) /\ FunLists \subseteq Seq(Funs)
ASSUME BoundsAssumption == MaxDepth \in Nat /\ MaxAfter \in Nat /\ MaxLocs \in Nat

VARIABLES
    value,      \* the value cells of the variables
    prop,       \* the properties of the functions
    bindlist,   \* the variables that are bound; in each stack the newest is last
    mspeclist,  \* the values that they had
    loclist,    \* one list of functions for each block, call and ev
    mproplist,  \* the properties that these functions had
    stack,      \* the evaluations that are going on, the outermost one first
    mode,       \* "run", or what the evaluator is unwinding for
    fault       \* the first step that has put the stacks out of order, or "none"

vars == <<value, prop, bindlist, mspeclist, loclist, mproplist, stack, mode, fault>>
valueVars == <<value, bindlist, mspeclist>>
localVars == <<prop, loclist, mproplist>>

\* What a step has done to the stacks: an ev has left its entry on loclist;
\* local has stopped at an array, when it had saved properties already; local had
\* no entry to write to, or one that was written to before; a list of variables
\* has been assigned in part.
Faults == {"ev", "array", "entry", "pattern"}
Kinds == {"block", "lambda", "loop", "ev", "errcatch", "catch"}

\* An evaluation: in "args" it evaluates its arguments, in "atoms" an ev has
\* bound its variables to themselves.  mlocp: may local be called.  binds and
\* locs: the lengths of bindlist and loclist when it began.
Frames == [kind : Kinds, stage : {"args", "atoms", "body"}, names : Seq(Vars),
           mlocp : BOOLEAN, binds : Nat, locs : Nat]

Init ==
    /\ value = [v \in Vars |-> Unbound]
    /\ prop = [f \in Funs |-> NoProp]
    /\ bindlist = <<>> /\ mspeclist = <<>>
    /\ loclist = <<>> /\ mproplist = <<>>
    /\ stack = <<>>
    /\ mode = "run"
    /\ fault = "none"
-----------------------------------------------------------------------------
(* Saving and restoring.  The cells are the values or the properties.      *)

Occurs(n, names) == \E q \in 1 .. Len(names) : names[q] = n
FirstOf(n, names) ==
    CHOOSE q \in 1 .. Len(names) : names[q] = n /\ ~Occurs(n, SubSeq(names, 1, q - 1))
LastOf(n, names) ==
    CHOOSE q \in 1 .. Len(names) :
        names[q] = n /\ \A r \in q + 1 .. Len(names) : names[r] # n

\* The cells when the names have been set to the news, one after the other,
\* and what has been saved in doing so.
Set(names, news, cells) ==
    [n \in DOMAIN cells |->
        IF Occurs(n, names) THEN news[LastOf(n, names)] ELSE cells[n]]
Saved(names, news, cells) ==
    [q \in 1 .. Len(names) |-> Set(SubSeq(names, 1, q - 1), news, cells)[names[q]]]

Cut(s, n) == SubSeq(s, 1, Len(s) - n)
Newest(s, n) == SubSeq(s, Len(s) - n + 1, Len(s))

\* Mutant of Undone: a name that occurs twice gets back what was saved last.
UndoneLast(names, saved, cells) ==
    LET top == Newest(saved, Len(names))
    IN [n \in DOMAIN cells |->
           IF Occurs(n, names) THEN top[LastOf(n, names)] ELSE cells[n]]

\* The cells when the names have got back what is saved for them, the last
\* name first.
Undone(names, saved, cells) ==
    LET top == Newest(saved, Len(names))
    IN [n \in DOMAIN cells |->
           IF Occurs(n, names) THEN top[FirstOf(n, names)] ELSE cells[n]]

\* mbind, from the value cells "cells" and the two stacks.
Mbind(names, news, cells, bl, ml) ==
    /\ value' = Set(names, news, cells)
    /\ bindlist' = bl \o names
    /\ mspeclist' = ml \o Saved(names, news, cells)

\* munbind: the names are the caller's, the values those on top of mspeclist.
Munbind(names) ==
    /\ value' = Undone(names, mspeclist, value)
    /\ bindlist' = Cut(bindlist, Len(names))
    /\ mspeclist' = Cut(mspeclist, Len(names))

\* munlocal, n times.
Munlocal(n) ==
    LET names == FlattenSeq(Newest(loclist, n))
    IN /\ prop' = Undone(names, mproplist, prop)
       /\ mproplist' = Cut(mproplist, Len(names))
       /\ loclist' = Cut(loclist, n)

\* errlfun1: back to the lists that the evaluation f has found.
Errlfun1(f) ==
    /\ Munbind(Newest(bindlist, Len(bindlist) - f.binds))
    /\ Munlocal(Len(loclist) - f.locs)
-----------------------------------------------------------------------------
(* Evaluations and what they take back when they are left.                 *)

Running == mode = "run" /\ stack # <<>>
Top == stack[Len(stack)]
Rest == Cut(stack, 1)
WithTop(f) == Append(Rest, f)

\* The variables that the evaluation has bound at present.
BoundNames(f) == IF f.stage = "args" THEN <<>> ELSE f.names

\* The evaluation has pushed an entry on loclist.
HasEntry(f) ==
    \/ f.kind \in {"block", "lambda"} /\ f.stage = "body"
    \/ f.kind = "ev" /\ f.stage # "args"

\* ev takes its entry back only when it has got as far as the unwind-protect.
TakesEntryBack(f) == HasEntry(f) /\ f.stage = "body"

\* Mutants of Cleanup: a call is left without its unwind-protect; a block or a
\* loop takes bindings back that it has not made yet.
CleanupNormal(f) ==
    IF mode # "run" /\ f.kind = "lambda" THEN UNCHANGED <<valueVars, localVars>>
    ELSE /\ Munbind(BoundNames(f))
         /\ IF TakesEntryBack(f) THEN Munlocal(1) ELSE UNCHANGED localVars
CleanupAlways(f) ==
    /\ Munbind(IF Len(bindlist) < Len(f.names) THEN bindlist ELSE f.names)
    /\ IF TakesEntryBack(f) THEN Munlocal(1) ELSE UNCHANGED localVars

\* The evaluation f is left, normally or not.
Cleanup(f) ==
    IF f.kind = "catch" THEN Errlfun1(f)
    ELSE /\ Munbind(BoundNames(f))
         /\ IF TakesEntryBack(f) THEN Munlocal(1) ELSE UNCHANGED localVars

FirstFault(kind) == fault' = IF fault = "none" THEN kind ELSE fault

\* A new evaluation on top.
Enter(kind, stage, names, mlocp) ==
    /\ mode = "run"
    /\ Len(stack) < IF fault = "none" THEN MaxDepth ELSE MaxAfter
    /\ stack' = Append(stack, [kind |-> kind, stage |-> stage, names |-> names,
                               mlocp |-> mlocp, binds |-> Len(bindlist), locs |-> Len(loclist)])

\* mprog, mlambda, mdo and mdoin, and ev begin with their arguments.
EnterScope ==
    /\ \/ \E kind \in {"block", "lambda"}, names \in VarLists :
              Enter(kind, "args", names, TRUE)
       \/ \E names \in VarLists : Len(names) = 1 /\ Enter("loop", "args", names, FALSE)
       \/ \E names \in EvLists : Enter("ev", "args", names, FALSE)
    /\ UNCHANGED <<valueVars, localVars, mode, fault>>

EnterCatch ==
    /\ \E kind \in {"errcatch", "catch"} : Enter(kind, "body", <<>>, FALSE)
    /\ UNCHANGED <<valueVars, localVars, mode, fault>>

\* What the variables can be bound to: to themselves, or all to one value.
Inits(names) == {names} \cup {[q \in 1 .. Len(names) |-> w] : w \in Values}

\* The arguments are evaluated: the variables are bound, and a block or a call
\* pushes its entry.
Bind ==
    /\ Running /\ Top.stage = "args" /\ Top.kind # "ev"
    /\ \E news \in Inits(Top.names) : Mbind(Top.names, news, value, bindlist, mspeclist)
    /\ IF Top.kind = "loop" THEN UNCHANGED loclist
       ELSE Len(loclist) < MaxLocs /\ loclist' = Append(loclist, <<>>)
    /\ stack' = WithTop([Top EXCEPT !.stage = "body"])
    /\ UNCHANGED <<prop, mproplist, mode, fault>>

\* block([[a, b] : l], ...): the assignment to b fails when a has been set, and
\* the list was not on bindlist yet.
BindPartly ==
    /\ Running /\ Top.stage = "args" /\ Top.kind = "block"
    /\ \E q \in 1 .. Len(Top.names), w \in Values :
          value' = [value EXCEPT ![Top.names[q]] = w]
    /\ mode' = "error"
    /\ FirstFault("pattern")
    /\ UNCHANGED <<bindlist, mspeclist, localVars, stack>>
-----------------------------------------------------------------------------
(* local, and ev.                                                          *)

\* Mutant of NoProps: a value's mark is used for the properties.
NoPropsUnbound(l) == [q \in 1 .. Len(l) |-> Unbound]
NoProps(l) == [q \in 1 .. Len(l) |-> NoProp]

\* The functions of l lose their properties, which are saved.
Hide(l) ==
    /\ Len(mproplist) + Len(l) <= MaxLocs
    /\ prop' = Set(l, NoProps(l), prop)
    /\ mproplist' = mproplist \o Saved(l, NoProps(l), prop)

\* The position of the innermost block or call, 0 if there is none: its mlocp
\* is the one that local sees.
Innermost ==
    LET S == {q \in 1 .. Len(stack) : stack[q].kind \in {"block", "lambda"}}
    IN IF S = {} THEN 0 ELSE CHOOSE q \in S : \A r \in S : r <= q

Mlocp == Innermost # 0 /\ stack[Innermost].mlocp

\* local overwrites the last entry of loclist, whose ever it is.
Local ==
    /\ Running /\ Mlocp /\ loclist # <<>>
    /\ \E l \in FunLists :
          /\ Hide(l)
          /\ loclist' = Append(Cut(loclist, 1), l)
    /\ stack' = [stack EXCEPT ![Innermost].mlocp = FALSE]
    /\ IF Last(loclist) = <<>> THEN UNCHANGED fault ELSE FirstFault("entry")
    /\ UNCHANGED <<valueVars, mode>>

\* An argument of local is a declared array: the arguments before it have lost
\* their properties already.
LocalFails ==
    /\ Running /\ Mlocp
    /\ \E l \in FunLists : \E n \in 1 .. Len(l) : Hide(SubSeq(l, 1, n))
    /\ mode' = "error"
    /\ FirstFault(IF loclist = <<>> THEN "entry" ELSE "array")
    /\ UNCHANGED <<valueVars, loclist, stack>>

\* In the arguments of the outermost block there is no entry to overwrite.
LocalHasNoEntry ==
    /\ Running /\ Mlocp /\ loclist = <<>>
    /\ \E l \in FunLists : Hide(l)
    /\ mode' = "error"
    /\ FirstFault("entry")
    /\ UNCHANGED <<valueVars, loclist, stack>>

\* ev binds its variables to themselves, pushes an entry, and calls local for
\* the functions that it is to define.
EvAtoms ==
    /\ Running /\ Top.kind = "ev" /\ Top.stage = "args"
    /\ Len(loclist) < MaxLocs
    /\ Mbind(Top.names, Top.names, value, bindlist, mspeclist)
    /\ stack' = WithTop([Top EXCEPT !.stage = "atoms"])
    /\ \E l \in FunLists \cup {<<>>} :
          \/ /\ Hide(l)
             /\ loclist' = Append(loclist, l)
             /\ UNCHANGED <<mode, fault>>
          \/ \E n \in 1 .. Len(l) :
                /\ Hide(SubSeq(l, 1, n - 1))
                /\ loclist' = Append(loclist, <<>>)
                /\ mode' = "error"
                /\ FirstFault("array")

\* The variables are unbound and bound again, to their values.
EvBody ==
    /\ Running /\ Top.kind = "ev" /\ Top.stage = "atoms"
    /\ \E news \in Inits(Top.names) :
          Mbind(Top.names, news, Undone(Top.names, mspeclist, value),
                Cut(bindlist, Len(Top.names)), Cut(mspeclist, Len(Top.names)))
    /\ stack' = WithTop([Top EXCEPT !.stage = "body"])
    /\ UNCHANGED <<localVars, mode, fault>>

\* The second binding fails: nothing is bound, the entry is still taken back.
EvBodyFails ==
    /\ Running /\ Top.kind = "ev" /\ Top.stage = "atoms"
    /\ Munbind(Top.names)
    /\ stack' = WithTop([Top EXCEPT !.stage = "body", !.names = <<>>])
    /\ mode' = "error"
    /\ UNCHANGED <<localVars, fault>>
-----------------------------------------------------------------------------
(* Statements, and the ways to leave an evaluation.                        *)

Assign ==
    /\ mode = "run"
    /\ \E v \in Vars, w \in Values : value[v] # w /\ value' = [value EXCEPT ![v] = w]
    /\ UNCHANGED <<bindlist, mspeclist, localVars, stack, mode, fault>>

Define ==
    /\ mode = "run"
    /\ \E f \in Funs, p \in Props : prop[f] # p /\ prop' = [prop EXCEPT ![f] = p]
    /\ UNCHANGED <<valueVars, loclist, mproplist, stack, mode, fault>>

\* The evaluation on top ends normally.
Leave ==
    /\ Running /\ Top.stage = "body"
    /\ Cleanup(Top)
    /\ stack' = Rest
    /\ UNCHANGED <<mode, fault>>

\* An error, anywhere: also in the binding of the variables, which undoes itself.
Raise ==
    /\ Running
    /\ mode' = "error"
    /\ UNCHANGED <<valueVars, localVars, stack, fault>>

\* Where a return or go lands: a block or a loop that evaluates its body.
IsTarget(f) == f.kind \in {"block", "loop"} /\ f.stage = "body"

\* return is allowed in a block or a loop; in the arguments of a loop that is in
\* no body it finds nowhere to land.
Return ==
    /\ Running
    /\ \E q \in 1 .. Len(stack) : IsTarget(stack[q]) \/ stack[q].kind = "loop"
    /\ mode' = IF \E q \in 1 .. Len(stack) : IsTarget(stack[q]) THEN "return" ELSE "error"
    /\ UNCHANGED <<valueVars, localVars, stack, fault>>

Go ==
    /\ Running
    /\ \E q \in 1 .. Len(stack) : stack[q].kind = "block" /\ stack[q].stage = "body"
    /\ mode' = "go"
    /\ UNCHANGED <<valueVars, localVars, stack, fault>>

Throw ==
    /\ Running
    /\ \E q \in 1 .. Len(stack) : stack[q].kind = "catch"
    /\ mode' = "throw"
    /\ UNCHANGED <<valueVars, localVars, stack, fault>>

\* The evaluation f stops the unwinding.
Stops(f) ==
    \/ mode = "error" /\ f.kind = "errcatch"
    \/ mode \in {"return", "go"} /\ IsTarget(f)
    \/ mode = "throw" /\ f.kind = "catch"

Unwinding == mode # "run" /\ stack # <<>>

Unwind ==
    /\ Unwinding /\ ~Stops(Top)
    /\ Cleanup(Top)
    /\ stack' = Rest
    /\ IF HasEntry(Top) /\ ~TakesEntryBack(Top) THEN FirstFault("ev") ELSE UNCHANGED fault
    /\ UNCHANGED mode

\* errcatch: handler-case unwinds first, then errlfun1 cuts the stacks back.
Caught ==
    /\ Unwinding /\ Stops(Top) /\ mode = "error"
    /\ Errlfun1(Top)
    /\ stack' = Rest
    /\ mode' = "run"
    /\ UNCHANGED fault

\* catch: errlfun1 as on every other way out of it.
ThrowLands ==
    /\ Unwinding /\ Stops(Top) /\ mode = "throw"
    /\ Cleanup(Top)
    /\ stack' = Rest
    /\ mode' = "run"
    /\ UNCHANGED fault

\* The block or loop has the variables bound that it began with.
IsLegal(f) == Len(bindlist) = f.binds + Len(f.names)

ReturnLands ==
    /\ Unwinding /\ Stops(Top) /\ mode = "return" /\ IsLegal(Top)
    /\ Cleanup(Top)
    /\ stack' = Rest
    /\ mode' = "run"
    /\ UNCHANGED fault

\* In a block, go finds its tag.
GoLands ==
    /\ Unwinding /\ Stops(Top) /\ mode = "go"
    /\ Top.kind = "block" /\ IsLegal(Top)
    /\ mode' = "run"
    /\ UNCHANGED <<valueVars, localVars, stack, fault>>

\* No such tag, a go in a loop, or a landing that is illegal.
LandingFails ==
    /\ Unwinding /\ Stops(Top)
    /\ mode = "return" => ~IsLegal(Top)
    /\ mode \in {"return", "go"}
    /\ mode' = "error"
    /\ UNCHANGED <<valueVars, localVars, stack, fault>>

\* The top level goes on with the next input.
TopLevel ==
    /\ mode # "run" /\ stack = <<>>
    /\ mode' = "run"
    /\ UNCHANGED <<valueVars, localVars, stack, fault>>

Next ==
    \/ EnterScope \/ EnterCatch \/ Bind \/ BindPartly
    \/ Local \/ LocalFails \/ LocalHasNoEntry \/ EvAtoms \/ EvBody \/ EvBodyFails
    \/ Assign \/ Define \/ Leave
    \/ Raise \/ Return \/ Go \/ Throw
    \/ Unwind \/ Caught \/ ThrowLands \/ ReturnLands \/ GoLands \/ LandingFails \/ TopLevel

Spec == Init /\ [][Next]_vars
-----------------------------------------------------------------------------
(* Properties.                                                             *)

TypeOK ==
    /\ value \in [Vars -> Values \cup Vars \cup {Unbound}]
    /\ prop \in [Funs -> Props \cup {NoProp}]
    /\ bindlist \in Seq(Vars)
    /\ mspeclist \in Seq(Values \cup Vars \cup {Unbound})
    /\ loclist \in Seq(Seq(Funs))
    /\ mproplist \in Seq(Props \cup {NoProp})
    /\ stack \in Seq(Frames)
    /\ mode \in {"run", "error", "return", "go", "throw"}
    /\ fault \in Faults \cup {"none"}

\* What an errcatch or a catch has found is still the beginning of the stacks,
\* whatever has gone wrong inside: otherwise errlfun1 would run past the end of
\* bindlist and never stop (suprv1.lisp, errlfun1).
TailsKept ==
    \A q \in 1 .. Len(stack) :
        /\ stack[q].binds <= Len(bindlist)
        /\ stack[q].locs <= Len(loclist)

\* No return or go is ever illegal: when it lands, every binding that was made
\* inside has been taken back (mlisp.lisp, mprog, mdo: "illegal 'return'").
ReturnsAreLegal ==
    mode \in {"return", "go"} /\ stack # <<>> /\ Stops(Top) => IsLegal(Top)

\* bindlist names what the evaluations have bound, in their order, and nothing
\* else: so at the top level nothing is bound (mlisp.lisp, mbind, munbind).
BindlistIsNested ==
    /\ Len(mspeclist) = Len(bindlist)
    /\ \A q \in 1 .. Len(stack) :
          LET f == stack[q]
              end == IF q = Len(stack) THEN Len(bindlist) ELSE stack[q + 1].binds
          IN f.binds + Len(BoundNames(f)) = end /\ SubSeq(bindlist, f.binds + 1, end) = BoundNames(f)
    /\ IF stack = <<>> THEN bindlist = <<>> ELSE stack[1].binds = 0

\* The scope that an evaluation makes: what Scopes says that it will restore.
Slice(s, start, names) ==
    [n \in ToSet(names) |-> s[start + FirstOf(n, names)]]
ScopeOf(f) ==
    [vals |-> Slice(mspeclist, f.binds, BoundNames(f)),
     defs |-> IF HasEntry(f)
                THEN Slice(mproplist, Len(FlattenSeq(SubSeq(loclist, 1, f.locs))),
                           loclist[f.locs + 1])
                ELSE <<>>,
     hides |-> HasEntry(f)]
scopesBar ==
    IF fault = "none" THEN [q \in 1 .. Len(stack) |-> ScopeOf(stack[q])] ELSE <<>>

Scoped == INSTANCE Scopes WITH scopes <- scopesBar

\* Until a step puts the stacks out of order, the four shared stacks do what
\* scopes with records of their own would do: each evaluation, left in whichever
\* way, restores the values and the properties that it has found.
KeepsScopes ==
    Scoped!Init /\ [][fault' # "none" \/ Scoped!Next]_<<Scoped!vars, fault>>

-----------------------------------------------------------------------------
(* What a comment and the documentation say, and the code does not do.     *)

\* src/mlisp.lisp, ev: "Ensure that MUNLOCAL gets called so that we don't leak
\* any local function definitions if we run into an error": when no other step
\* has done harm first, no entry for a function is left at the top level.
EvLeaksNothing ==
    stack = <<>> /\ fault \in {"none", "ev"} =>
        \A q \in 1 .. Len(loclist) : loclist[q] = <<>>
=============================================================================

------------------------------- MODULE Scopes -------------------------------
(***************************************************************************)
(* What dynamic scoping promises: an evaluation may bind variables and     *)
(* hide the properties of functions, and when it is left, in whichever     *)
(* way, they are what they were.  Each scope keeps a record of its own.    *)
(* Module Bindings implements it with stacks that all evaluations share.   *)
(***************************************************************************)
EXTENDS Integers, Sequences

CONSTANTS Vars, Values, Unbound, Funs, Props, NoProp

VARIABLES
    value,   \* the values of the variables
    prop,    \* the properties of the functions
    scopes   \* the scopes, the outermost first: vals and defs are what the scope
             \* will restore, and hides says that local may add to defs

vars == <<value, prop, scopes>>

Init ==
    /\ value = [v \in Vars |-> Unbound]
    /\ prop = [f \in Funs |-> NoProp]
    /\ scopes = <<>>

\* The cells, with those of "saved" restored.
Restored(saved, cells) ==
    [n \in DOMAIN cells |-> IF n \in DOMAIN saved THEN saved[n] ELSE cells[n]]

\* Only the cells in S may differ.
SameBut(S, cells, cells2) == \A n \in DOMAIN cells \ S : cells2[n] = cells[n]

Top == scopes[Len(scopes)]
Rest == SubSeq(scopes, 1, Len(scopes) - 1)

\* A statement sets a variable or defines a function.
Work ==
    /\ \/ \E v \in Vars, w \in Values : value' = [value EXCEPT ![v] = w] /\ prop' = prop
       \/ \E f \in Funs, p \in Props : prop' = [prop EXCEPT ![f] = p] /\ value' = value
    /\ UNCHANGED scopes

Open ==
    /\ scopes' = Append(scopes, [vals |-> <<>>, defs |-> <<>>, hides |-> FALSE])
    /\ UNCHANGED <<value, prop>>

\* The innermost scope binds the variables of S, and may hide the functions of F.
BindTop(S, F, hides) ==
    /\ scopes # <<>> /\ Top = [vals |-> <<>>, defs |-> <<>>, hides |-> FALSE]
    /\ scopes' = Append(Rest, [vals |-> [v \in S |-> value[v]],
                               defs |-> [f \in F |-> prop[f]], hides |-> hides])
    /\ SameBut(S, value, value')
    /\ value' \in [Vars -> Values \cup Vars \cup {Unbound}]
    /\ prop' = [f \in Funs |-> IF f \in F THEN NoProp ELSE prop[f]]
    /\ F # {} => hides

\* The innermost scope gives its variables other values, or gives them up.
Rebind ==
    /\ scopes # <<>>
    /\ \/ SameBut(DOMAIN Top.vals, value, value') /\ UNCHANGED scopes
       \/ /\ value' = Restored(Top.vals, value)
          /\ scopes' = Append(Rest, [Top EXCEPT !.vals = <<>>])
    /\ UNCHANGED prop

\* The innermost scope that can hides the functions of F.
Hide(F) ==
    LET H == {q \in 1 .. Len(scopes) : scopes[q].hides}
        i == CHOOSE q \in H : \A r \in H : r <= q
    IN /\ H # {}
       /\ scopes' = [scopes EXCEPT ![i].defs =
                        [f \in DOMAIN @ \cup F |-> IF f \in DOMAIN @ THEN @[f] ELSE prop[f]]]
       /\ prop' = [f \in Funs |-> IF f \in F THEN NoProp ELSE prop[f]]
       /\ UNCHANGED value

\* The innermost scope is left.
Close ==
    /\ scopes # <<>>
    /\ value' = Restored(Top.vals, value)
    /\ prop' = Restored(Top.defs, prop)
    /\ scopes' = Rest

Next ==
    \/ Work \/ Open
    \/ \E S \in SUBSET Vars, F \in SUBSET Funs, hides \in BOOLEAN : BindTop(S, F, hides)
    \/ Rebind
    \/ \E F \in SUBSET Funs : Hide(F)
    \/ Close

Spec == Init /\ [][Next]_vars
=============================================================================

----------------------------- MODULE Expressions -----------------------------
(***************************************************************************)
(* What the calculator is to compute: expressions, their value, and the    *)
(* code for them.  Neither a parser nor a compiler is in the repository;   *)
(* the code is laid out as the comments of the jumps say                   *)
(* (archive/o/internal.c:807-857).                                         *)
(***************************************************************************)
EXTENDS Calculator

CONSTANT Depth      \* how deep expressions are nested at most

ASSUME DepthAssumption == Depth \in Nat

\* An expression is a record: k says of what kind it is, parts lists its parts,
\* which are in S here.
Nodes(S) ==
    [k : {"const"}, v : AllValues, parts : {<<>>}]
        \cup [k : {"var"}, name : Variables, parts : {<<>>}]
        \cup [k : {"arg"}, f : Functions, i : 1..4, parts : {<<>>}]
        \cup [k : {"rand"}, parts : {<<>>}]
        \cup [k : {"un"}, op : UnaryOps \cup Bessel, parts : [1..1 -> S]]
        \cup [k : {"bin"}, op : BinaryOps, parts : [1..2 -> S]]
        \cup [k : {"and", "or"}, parts : [1..2 -> S]]
        \cup [k : {"if"}, parts : [1..3 -> S]]
        \cup {e \in [k : {"call"}, f : Functions, parts : Seq(S)] : Len(e.parts) = Arity[e.f]}

Upto[n \in 0..Depth] == IF n = 0 THEN {} ELSE Nodes(Upto[n - 1])

Exprs == Upto[Depth]

\* Code: a single action, in front of which there are n values; code that runs on
\* top of n values; one behind the other.
One(action, n) == [actions |-> <<action>>, height |-> <<n>>]
Over(n, c) == [c EXCEPT !.height = [i \in 1..Len(@) |-> @[i] + n]]
a ++ b == [actions |-> a.actions \o b.actions, height |-> a.height \o b.height]

Joined(codes) ==
    LET list[i \in 0..Len(codes)] ==
            IF i = 0 THEN [actions |-> <<>>, height |-> <<>>] ELSE list[i - 1] ++ codes[i]
    IN  list[Len(codes)]

\* The second operand of && and || is jumped over to the bool behind it.
ShortCircuit(jump, a, b) ==
    a ++ One([op |-> jump, by |-> Len(b.actions) + 1], 1) ++ b ++ One(Op("bool"), 1)

Ternary(a, b, c) ==
    a ++ One([op |-> "jtern", by |-> Len(b.actions) + 2], 1)
      ++ b ++ One([op |-> "jump", by |-> Len(c.actions) + 1], 1) ++ c

\* The code of e, from that of its parts.
Layout(code, e) ==
    LET Of(i) == code[e.parts[i]] IN
    CASE e.k = "const" -> One(Const(e.v), 0)
      [] e.k = "var" -> One([op |-> "push", name |-> e.name], 0)
      [] e.k = "arg" -> One([op |-> "pushd", f |-> e.f, i |-> e.i], 0)
      [] e.k = "rand" -> One(Op("rand"), 0)
      [] e.k = "un" -> Of(1) ++ One(Op(e.op), 1)
      [] e.k = "bin" -> Of(1) ++ Over(1, Of(2)) ++ One(Op(e.op), 2)
      [] e.k = "and" -> ShortCircuit("jumpz", Of(1), Of(2))
      [] e.k = "or" -> ShortCircuit("jumpnz", Of(1), Of(2))
      [] e.k = "if" -> Ternary(Of(1), Of(2), Of(3))
      [] e.k = "call" ->
             Joined([i \in 1..Arity[e.f] |-> Over(i - 1, Of(i))])
                 ++ One([op |-> "call", f |-> e.f], Arity[e.f])

CodeOf[e \in Exprs] == Layout(CodeOf, e)

Compile(e) ==
    [actions |-> CodeOf[e].actions, height |-> Append(CodeOf[e].height, 1), source |-> e]

\* What is run is compiled.
ASSUME CompiledAssumption ==
    \A code \in Programs \cup {Code[f] : f \in {g \in Functions : Code[g] # NoCode}} :
        code.source \in Exprs /\ code = Compile(code.source)

-----------------------------------------------------------------------------
\* The outcomes of an expression, with arguments of its own for every call.
Failed == [value |-> NoValue, undefined |-> FALSE]

\* What an operator gives: nothing is a failure.
Answer(S) == IF S = {} THEN {Failed} ELSE S

\* The outcomes in S of what is evaluated after the outcome o.
After(o, S) ==
    IF o = Failed THEN {Failed}
    ELSE {IF r = Failed THEN r ELSE [r EXCEPT !.undefined = @ \/ o.undefined] : r \in S}

Applied(op, S) == UNION {After(o, Answer(Unary(op, o.value))) : o \in S}

Combined(op, S, T) ==
    UNION {After(o, UNION {After(p, Answer(Binary(op, o.value, p.value))) : p \in T}) : o \in S}

Branch(S, T, F) ==
    UNION {After(o, IF ~IsInt(o.value) THEN {Failed}
                    ELSE IF o.value.int_val # 0 THEN T ELSE F) : o \in S}

\* j0, j1, y0 and y1 as the comments of standard.c define them (247-301).
BesselOf(op, a) ==
    LET x == Defined({a})
        s == Applied("sin", x)  c == Applied("cos", x)  square == Combined("mult", x, x)
    IN  CASE op = "besj0" -> Combined("div", s, x)
          [] op = "besy0" -> Applied("uminus", Combined("div", c, x))
          [] op = "besj1" -> Combined("minus", Combined("div", s, square), Combined("div", c, x))
          [] op = "besy1" ->
                 Applied("uminus", Combined("plus", Combined("div", c, square), Combined("div", s, x)))

\* A choice of an outcome for each of n arguments from the pairs of an argument and
\* one of its outcomes, none of them a failure.
Chosen(pairs, n) ==
    {o \in [1..n -> {p[2] : p \in pairs}] : \A i \in 1..n : <<i, o[i]>> \in pairs /\ o[i] # Failed}

\* What the expression x[1] gives for the arguments x[2], when eval says what its
\* parts and the functions that it calls give.
Meaning(eval, x) ==
    LET e == x[1]
        n == Len(e.parts)
        Of(i) == eval[<<e.parts[i], x[2]>>]
        pairs == UNION {{i} \X Of(i) : i \in 1..n}
        Listed(o) == [i \in 1..n |-> o[i].value]
        Flagged(o) == [value |-> Integer(0), undefined |-> \E i \in 1..n : o[i].undefined]
    IN  CASE e.k = "const" -> Defined({e.v})
          [] e.k = "var" -> IF ValueOf[e.name] = NoValue THEN {Failed} ELSE Defined({ValueOf[e.name]})
          [] e.k = "arg" -> IF e.i \in 1..Len(x[2]) THEN Defined({x[2][e.i]}) ELSE {Failed}
          [] e.k = "rand" -> Rand
          [] e.k = "un" ->
                 IF e.op \in Bessel THEN UNION {After(o, BesselOf(e.op, o.value)) : o \in Of(1)}
                 ELSE Applied(e.op, Of(1))
          [] e.k = "bin" -> Combined(e.op, Of(1), Of(2))
          [] e.k = "and" -> Branch(Of(1), Applied("bool", Of(2)), Defined({Truth(FALSE)}))
          [] e.k = "or" -> Branch(Of(1), Defined({Truth(TRUE)}), Applied("bool", Of(2)))
          [] e.k = "if" -> Branch(Of(1), Of(2), Of(3))
          [] e.k = "call" ->
                 IF Code[e.f] = NoCode THEN {Failed}
                 ELSE ({p[2] : p \in pairs} \cap {Failed})
                          \cup UNION {After(Flagged(o), eval[<<Code[e.f].source, Listed(o)>>]) :
                                         o \in Chosen(pairs, n)}

Eval[x \in Exprs \X Seq(AllValues)] == Meaning(Eval, x)

-----------------------------------------------------------------------------
\* The calculator gives the value of the expression, sets undefined where a part
\* that was evaluated is undefined, and fails where such a part fails, unless it
\* has read the arguments of another call.  (archive/o/internal.c,
\* standard.c:247-301)
Agrees ==
    ~stale =>
        /\ status = "done" =>
               [value |-> stack[1], undefined |-> undefined] \in Eval[<<program.source, <<>>>>]
        /\ status = "error" => Failed \in Eval[<<program.source, <<>>>>]
=============================================================================

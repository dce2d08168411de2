---------------------------- MODULE MCCalculator -----------------------------
(***************************************************************************)
(* An instance of Calculator for TLC: every operator on every pair of      *)
(* leaves, expressions of two and three operators, and calls of functions. *)
(***************************************************************************)
EXTENDS Expressions

\* Expressions.
C(v) == [k |-> "const", v |-> v, parts |-> <<>>]
V(name) == [k |-> "var", name |-> name, parts |-> <<>>]
A(f, i) == [k |-> "arg", f |-> f, i |-> i, parts |-> <<>>]
Random == [k |-> "rand", parts |-> <<>>]
Un(op, a) == [k |-> "un", op |-> op, parts |-> <<a>>]
Bin(op, a, b) == [k |-> "bin", op |-> op, parts |-> <<a, b>>]
And(a, b) == [k |-> "and", parts |-> <<a, b>>]
Or(a, b) == [k |-> "or", parts |-> <<a, b>>]
If(a, b, c) == [k |-> "if", parts |-> <<a, b, c>>]
Apply(f, args) == [k |-> "call", f |-> f, parts |-> args]
I(i) == C(Integer(i))

MCSample == {-2, 0, 3}

MCFunctions == {"fac", "late", "least", "mix", "pick", "even", "odd", "none"}
MCArity ==
    [f \in MCFunctions |->
        CASE f = "mix" -> 4 [] f = "pick" -> 3 [] f = "least" -> 2 [] OTHER -> 1]

\* fac keeps its argument on the stack while it calls itself; late reads it after.
MCBody ==
    [f \in MCFunctions |->
        LET n == A(f, 1)
            before == Bin("minus", n, I(1))
            small == Bin("le", n, I(1))
        IN  CASE f = "fac" -> If(small, I(1), Bin("mult", n, Apply("fac", <<before>>)))
              [] f = "late" -> If(small, I(1), Bin("mult", Apply("late", <<before>>), n))
              [] f = "even" -> If(small, Un("lnot", n), Apply("odd", <<before>>))
              [] f = "odd" -> If(small, n, Bin("minus", Apply("even", <<before>>), n))
              [] f = "least" -> If(Bin("lt", n, A(f, 2)), n, A(f, 2))
              [] f = "pick" -> If(Or(n, A(f, 2)), A(f, 3), Apply("least", <<A(f, 3), n>>))
              [] f = "mix" -> Bin("minus", Apply("least", <<A(f, 4), n>>), Bin("div", A(f, 3), A(f, 2)))
              [] OTHER -> NoCode]

MCCode ==
    [f \in MCFunctions |-> IF MCBody[f] = NoCode THEN NoCode ELSE Compile(MCBody[f])]

MCVariables == {"x", "y"}
MCValueOf == [v \in MCVariables |-> IF v = "x" THEN Complex(1, 2) ELSE NoValue]

Integers_ == {I(i) : i \in Ints}
Few == {I(0), I(1), I(-4), C(Complex(-1, 0))}
Leaves == Integers_ \cup {V("x"), V("y"), Random}
              \cup {C(Complex(r, 0)) : r \in {0, 2, 3, -1}} \cup {C(Complex(0, 2))}

Inner == {Bin(op, a, b) : op \in {"div", "lt", "minus"}, a \in Few, b \in Few}
Calls == {Apply(f, <<a>>) : f \in {"fac", "late", "even", "odd", "none"}, a \in Integers_}
Pairs == {Apply("least", <<a, b>>) : a \in Calls, b \in Few}

Deep ==
    {Or(d, c) : d \in Few, c \in Inner}
        \cup ({Bin(op, c, d) : op \in {"div", "land", "mod"}, c \in Inner, d \in Few}
        \cup ({If(c, d, e) : c \in Inner, d \in Few, e \in {I(2), V("y")}}
        \cup ({If(Or(a, b), And(c, a), c) : a \in Few, b \in Few, c \in Inner}
        \cup {And(c, d) : c \in Inner, d \in Inner})))

Called ==
    Calls \cup Pairs
        \cup {Apply("least", <<a, b>>) : a \in Few, b \in Pairs}
        \cup {Apply("fac", <<a>>) : a \in Calls}
        \cup {Apply("pick", <<a, b, c>>) : a \in Few, b \in Few, c \in Few}
        \cup {Apply("mix", <<a, b, c, d>>) : a \in Few, b \in Few, c \in Few, d \in Few}

MCExpressions ==
    {Un(op, a) : op \in UnaryOps \cup Bessel, a \in Leaves}
        \cup {Bin(op, a, b) : op \in BinaryOps, a \in Leaves, b \in Leaves}
        \cup Deep \cup Called

MCPrograms == {Compile(e) : e \in MCExpressions}
=============================================================================

------------------------------- MODULE Values --------------------------------
(***************************************************************************)
(* What the operators of the archived calculator compute:                  *)
(* archive/o/internal.c and standard.c, the stack machine of gnuplot as    *)
(* Maxima's plotting once used it.  A value is an int or a complex number  *)
(* of two doubles.  Ints have their width and wrap around.  A double is a  *)
(* multiple of 1/Unit, counted in such parts; a result that is no multiple *)
(* of it, as those of the mathematical library, is any member of Sample.   *)
(*                                                                         *)
(* Every operator gives the set of its outcomes.  It is empty where the    *)
(* code calls int_error, or where the processor traps.                     *)
(***************************************************************************)
EXTENDS Integers

CONSTANTS
    Half,       \* an int is in -Half..Half-1: 2^31
    Width,      \* the bits of an int: 32
    Unit,       \* doubles are counted in parts of 1/Unit
    Sample      \* the doubles that stand for every inexact result

ASSUME WidthAssumption == Width \in Nat /\ Half \in Nat /\ Half > 1 /\ Half = 2 ^ (Width - 1)
ASSUME DoubleAssumption == Unit \in Nat \ {0} /\ Sample \subseteq Int /\ 0 \in Sample

Ints == -Half..(Half - 1)

Wrap(i) == ((i + Half) % (2 * Half)) - Half

Abs(i) == IF i < 0 THEN -i ELSE i

\* Division of C, towards zero, and its remainder.
Truncate(i, j) ==
    IF (i >= 0) = (j > 0) THEN Abs(i) \div Abs(j) ELSE -(Abs(i) \div Abs(j))
CRem(i, j) == i - j * Truncate(i, j)

-----------------------------------------------------------------------------
\* struct value, integer() and complex()
IntValues == [type : {"INT"}, int_val : Ints]
ComplexValues == [type : {"CMPLX"}, real : Int, imag : Int]
AllValues == IntValues \cup ComplexValues

Integer(i) == [type |-> "INT", int_val |-> i]
Complex(r, i) == [type |-> "CMPLX", real |-> r, imag |-> i]

IsInt(v) == v.type = "INT"
Truth(p) == Integer(IF p THEN 1 ELSE 0)

\* real() and imag()
RealPart(v) == IF IsInt(v) THEN Unit * v.int_val ELSE v.real
ImagPart(v) == IF IsInt(v) THEN 0 ELSE v.imag
IsReal(v) == ImagPart(v) = 0

\* An outcome: the value pushed, and whether undefined is set.
Defined(values) == [value : values, undefined : {FALSE}]
Undefined(v) == {[value |-> v, undefined |-> TRUE]}

\* The quotient of doubles.
Quotients(n, d) ==
    LET m == IF d < 0 THEN -n ELSE n IN
    IF d # 0 /\ m % Abs(d) = 0 THEN {m \div Abs(d)} ELSE Sample

Rectangle(reals, imags) == {Complex(r, i) : r \in reals, i \in imags}

-----------------------------------------------------------------------------
\* The Boolean and bitwise operators, after int_check.
LogicalOps == {"lor", "land"}
BitwiseOps == {"bor", "xor", "band"}

Bit(i, k) == (i \div 2 ^ k) % 2

BitOf(op, i, j) ==
    CASE op = "bor"  -> IF i + j > 0 THEN 1 ELSE 0
      [] op = "xor"  -> IF i # j THEN 1 ELSE 0
      [] op = "band" -> i * j

Bitwise(op, i, j) ==
    {t \in Ints : \A k \in 0..(Width - 1) : Bit(t, k) = BitOf(op, Bit(i, k), Bit(j, k))}

Logic(op, a, b) ==
    IF ~(IsInt(a) /\ IsInt(b)) THEN {}
    ELSE LET p == a.int_val # 0  q == b.int_val # 0 IN
         CASE op = "lor"  -> Defined({Truth(p \/ q)})
           [] op = "land" -> Defined({Truth(p /\ q)})
           [] op \in BitwiseOps ->
                  Defined({Integer(t) : t \in Bitwise(op, a.int_val, b.int_val)})

\* lnot, bnot and bool
Boolean(op, a) ==
    IF ~IsInt(a) THEN {}
    ELSE CASE op = "lnot" -> Defined({Truth(a.int_val = 0)})
           [] op = "bnot" -> Defined({Integer(-a.int_val - 1)})
           [] op = "bool" -> Defined({Truth(a.int_val # 0)})

\* eq and ne compare both parts.
Equality(op, a, b) ==
    LET same == RealPart(a) = RealPart(b) /\ ImagPart(a) = ImagPart(b)
    IN  Defined({Truth(IF op = "eq" THEN same ELSE ~same)})

\* gt, lt, ge and le look at the real parts only.
Order(op, a, b) ==
    LET r == RealPart(a)  s == RealPart(b) IN
    CASE op = "gt" -> Defined({Truth(r > s)})
      [] op = "lt" -> Defined({Truth(r < s)})
      [] op = "ge" -> Defined({Truth(r >= s)})
      [] op = "le" -> Defined({Truth(r <= s)})

\* uminus
Negate(a) ==
    Defined({IF IsInt(a) THEN Integer(Wrap(-a.int_val)) ELSE Complex(-a.real, -a.imag)})

\* Mutant of Plus: ints have no end.
PlusWide(a, b) ==
    Defined({IF IsInt(a) /\ IsInt(b) THEN Integer(a.int_val + b.int_val)
             ELSE Complex(RealPart(a) + RealPart(b), ImagPart(a) + ImagPart(b))})

Plus(a, b) ==
    Defined({IF IsInt(a) /\ IsInt(b) THEN Integer(Wrap(a.int_val + b.int_val))
             ELSE Complex(RealPart(a) + RealPart(b), ImagPart(a) + ImagPart(b))})

Minus(a, b) ==
    Defined({IF IsInt(a) /\ IsInt(b) THEN Integer(Wrap(a.int_val - b.int_val))
             ELSE Complex(RealPart(a) - RealPart(b), ImagPart(a) - ImagPart(b))})

Mult(a, b) ==
    LET ar == RealPart(a)  ai == ImagPart(a)
        br == RealPart(b)  bi == ImagPart(b)
    IN  Defined(IF IsInt(a) /\ IsInt(b) THEN {Integer(Wrap(a.int_val * b.int_val))}
                ELSE Rectangle(Quotients(ar * br - ai * bi, Unit),
                               Quotients(ar * bi + ai * br, Unit)))

\* -a.v.int_val, the negation of an int, or -a.v.cmplx_val.real.
NegatedReal(a) == IF IsInt(a) THEN Unit * Wrap(-a.int_val) ELSE -a.real

\* div: the least int divided by -1 traps, and divided by a complex number it is
\* not negated.
Div(a, b) ==
    LET ar == RealPart(a)  ai == ImagPart(a)
        br == RealPart(b)  bi == ImagPart(b)
        square == br * br + bi * bi
    IN  IF IsInt(a) /\ IsInt(b)
        THEN CASE b.int_val = 0 -> Undefined(Integer(0))
               [] b.int_val = -1 /\ a.int_val = -Half -> {}
               [] OTHER -> Defined({Integer(Wrap(Truncate(a.int_val, b.int_val)))})
        ELSE IF square = 0 THEN Undefined(Complex(0, 0))
        ELSE Defined(Rectangle(Quotients(Unit * (ar * br + ai * bi), square),
                               Quotients(Unit * (ai * br + NegatedReal(a) * bi), square)))

Mod(a, b) ==
    CASE ~(IsInt(a) /\ IsInt(b)) -> {}
      [] IsInt(a) /\ IsInt(b) /\ b.int_val = 0 -> Undefined(Integer(0))
      [] IsInt(a) /\ IsInt(b) /\ b.int_val = -1 /\ a.int_val = -Half -> {}
      [] OTHER -> Defined({Integer(Wrap(CRem(a.int_val, b.int_val)))})

\* The int that the loop of power leaves in t.  The absolute value of the least
\* int is that int, for which the loop makes no round.
Powers(i, n) ==
    LET count == IF n = -Half THEN 0 ELSE Abs(n)
        power == IF count = 0 THEN 1 ELSE i ^ count
    IN  {t \in Ints : (t - power) % (2 * Half) = 0}

\* power: a negative power of ints is a double, 1.0 divided by t, also when t is
\* 0; no power is undefined.
Power(a, b) ==
    Defined(
        CASE IsInt(a) /\ IsInt(b) /\ b.int_val >= 0 ->
                 {Integer(t) : t \in Powers(a.int_val, b.int_val)}
          [] IsInt(a) /\ IsInt(b) /\ b.int_val < 0 ->
                 UNION {Rectangle(Quotients(Unit, t), {0}) : t \in Powers(a.int_val, b.int_val)}
          [] ~IsInt(a) /\ IsInt(b) /\ IsReal(a) -> Rectangle(Sample, {0})
          [] OTHER -> Rectangle(Sample, Sample))

\* factorial, a double.
Factorial(a) ==
    IF ~IsInt(a) THEN {}
    ELSE Defined(Rectangle(IF a.int_val <= 1 THEN {Unit} ELSE Sample, {0}))

-----------------------------------------------------------------------------
\* standard.c.  Lengths are what sqrt and magnitude give.
Lengths == {s \in Sample : s >= 0}

\* real, imag, arg and conjg
Part(op, a) ==
    Defined(CASE op = "real"  -> {Complex(RealPart(a), 0)}
              [] op = "imag"  -> {Complex(ImagPart(a), 0)}
              [] op = "arg"   -> Rectangle(Sample, {0})
              [] op = "conjg" -> {Complex(RealPart(a), -ImagPart(a))})

\* sin, cos, sinh, cosh, tanh and exp: real numbers go to real numbers.
EntireOps == {"sin", "cos", "sinh", "cosh", "tanh", "exp"}
Entire(a) == Defined(Rectangle(Sample, IF IsReal(a) THEN {0} ELSE Sample))

\* tan: off the real axis the denominator can be rounded to 0.
Tan(a) ==
    IF IsReal(a) THEN Defined(Rectangle(Sample, {0}))
    ELSE Undefined(a) \cup Defined(Rectangle(Sample, Sample))

\* asin and acos are undefined on real numbers beyond 1.
Arc(a) ==
    CASE IsReal(a) /\ Abs(RealPart(a)) > Unit -> Undefined(Complex(0, 0))
      [] IsReal(a) /\ Abs(RealPart(a)) <= Unit -> Defined(Rectangle(Sample, {0}))
      [] OTHER -> Defined(Rectangle(Sample, Sample))

Atan(a) ==
    CASE IsReal(a) -> Defined(Rectangle(Sample, {0}))
      [] RealPart(a) = 0 /\ Abs(ImagPart(a)) = Unit -> Undefined(Complex(0, 0))
      [] OTHER -> Defined(Rectangle(Sample, Sample))

\* int: what does not fit an int becomes any int.
ToInt(a) ==
    LET i == Truncate(RealPart(a), Unit)
    IN  Defined({Integer(n) : n \in IF i \in Ints THEN {i} ELSE Ints})

\* abs: of the least int, that int.
Magnitude(a) ==
    Defined(CASE IsInt(a) -> {Integer(Wrap(Abs(a.int_val)))}
              [] ~IsInt(a) /\ IsReal(a) -> {Complex(Abs(a.real), 0)}
              [] OTHER -> Rectangle(Lengths, {0}))

Sgn(a) ==
    LET r == RealPart(a)
    IN  Defined({Integer(IF r > 0 THEN 1 ELSE IF r < 0 THEN -1 ELSE 0)})

Sqrt(a) ==
    Defined(CASE IsReal(a) /\ RealPart(a) < 0 -> Rectangle({0}, Lengths)
              [] IsReal(a) /\ RealPart(a) >= 0 -> Rectangle(Lengths, {0})
              [] OTHER -> Rectangle(Sample, Sample))

\* log and log10: the imaginary part is the angle, 0 for numbers above 0.
Log(a) ==
    Defined(Rectangle(Sample, IF IsReal(a) /\ RealPart(a) > 0 THEN {0} ELSE Sample))

Floor(i) == Unit * (i \div Unit)
Ceiling(i) == -Floor(-i)

\* floor and ceil
Rounded(op, a) ==
    Defined(CASE IsInt(a) -> {a}
              [] ~IsInt(a) /\ op = "floor" -> {Complex(Floor(a.real), Floor(a.imag))}
              [] ~IsInt(a) /\ op = "ceil" -> {Complex(Ceiling(a.real), Ceiling(a.imag))})

\* rand: lrand48.
Rand == Defined({Integer(i) : i \in 0..(Half - 1)})

-----------------------------------------------------------------------------
UnaryOps ==
    {"lnot", "bnot", "bool", "uminus", "factorial", "real", "imag", "arg", "conjg",
     "tan", "asin", "acos", "atan", "int", "abs", "sgn", "sqrt", "log", "log10",
     "floor", "ceil", "srand"} \cup EntireOps
BinaryOps ==
    {"eq", "ne", "gt", "lt", "ge", "le", "plus", "minus", "mult", "div", "mod", "power"}
        \cup LogicalOps \cup BitwiseOps

\* srand leaves its argument.
Unary(op, a) ==
    CASE op \in {"lnot", "bnot", "bool"} -> Boolean(op, a)
      [] op \in {"real", "imag", "arg", "conjg"} -> Part(op, a)
      [] op \in {"floor", "ceil"} -> Rounded(op, a)
      [] op \in {"asin", "acos"} -> Arc(a)
      [] op \in {"log", "log10"} -> Log(a)
      [] op \in EntireOps -> Entire(a)
      [] op = "uminus" -> Negate(a)
      [] op = "factorial" -> Factorial(a)
      [] op = "tan" -> Tan(a)
      [] op = "atan" -> Atan(a)
      [] op = "int" -> ToInt(a)
      [] op = "abs" -> Magnitude(a)
      [] op = "sgn" -> Sgn(a)
      [] op = "sqrt" -> Sqrt(a)
      [] op = "srand" -> Defined({a})

Binary(op, a, b) ==
    CASE op \in LogicalOps \cup BitwiseOps -> Logic(op, a, b)
      [] op \in {"eq", "ne"} -> Equality(op, a, b)
      [] op \in {"gt", "lt", "ge", "le"} -> Order(op, a, b)
      [] op = "plus" -> Plus(a, b)
      [] op = "minus" -> Minus(a, b)
      [] op = "mult" -> Mult(a, b)
      [] op = "div" -> Div(a, b)
      [] op = "mod" -> Mod(a, b)
      [] op = "power" -> Power(a, b)
=============================================================================

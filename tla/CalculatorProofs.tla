-------------------------- MODULE CalculatorProofs ---------------------------
(***************************************************************************)
(* The theorems about module Calculator, for any width of ints, any sample *)
(* of doubles and any code that is typed: every operator gives values, the *)
(* stack is where the types say, callers keep what they have on it, and    *)
(* the arguments of another call are read only where a function calls      *)
(* itself.                                                                 *)
(***************************************************************************)
EXTENDS Calculator, SequenceTheorems, TLAPS

Outcome == [value : AllValues, undefined : BOOLEAN]

-----------------------------------------------------------------------------
(* The operators. *)

\* Wrap leads into the ints.  (archive/o/internal.c)
LEMMA WrapTyped == ASSUME NEW i \in Int PROVE Wrap(i) \in Ints
<1>1. Half \in Nat /\ Half > 0
  BY WidthAssumption
<1>2. (i + Half) % (2 * Half) \in 0..(2 * Half - 1)
  BY <1>1, SMT
<1> QED
  BY <1>1, <1>2 DEF Wrap, Ints

\* What is made of an int is a value.
LEMMA IntegerTyped == ASSUME NEW i \in Ints PROVE Integer(i) \in AllValues
  BY DEF Integer, AllValues, IntValues

LEMMA ComplexTyped == ASSUME NEW r \in Int, NEW i \in Int PROVE Complex(r, i) \in AllValues
  BY DEF Complex, AllValues, ComplexValues

\* A value is an int or a complex number, and its parts are doubles.
LEMMA ValueParts ==
    ASSUME NEW v \in AllValues
    PROVE  /\ IsInt(v) => v.int_val \in Ints
           /\ ~IsInt(v) => v.real \in Int /\ v.imag \in Int
           /\ RealPart(v) \in Int /\ ImagPart(v) \in Int
<1>1. CASE v \in IntValues
  BY <1>1, WidthAssumption, DoubleAssumption DEF IntValues, IsInt, RealPart, ImagPart, Ints
<1>2. CASE v \in ComplexValues
  BY <1>2 DEF ComplexValues, IsInt, RealPart, ImagPart
<1> QED
  BY <1>1, <1>2 DEF AllValues

LEMMA TruthTyped == ASSUME NEW p \in BOOLEAN PROVE Truth(p) \in AllValues
<1>1. 0 \in Ints /\ 1 \in Ints
  BY WidthAssumption DEF Ints
<1> QED
  BY <1>1, IntegerTyped DEF Truth

LEMMA DefinedTyped == ASSUME NEW S, S \subseteq AllValues PROVE Defined(S) \subseteq Outcome
  BY DEF Defined, Outcome

LEMMA UndefinedTyped == ASSUME NEW v \in AllValues PROVE Undefined(v) \subseteq Outcome
  BY DEF Undefined, Outcome

LEMMA RectangleTyped ==
    ASSUME NEW R \in SUBSET Int, NEW I \in SUBSET Int PROVE Rectangle(R, I) \subseteq AllValues
  BY ComplexTyped DEF Rectangle

LEMMA QuotientsTyped == ASSUME NEW n \in Int, NEW d \in Int PROVE Quotients(n, d) \subseteq Int
<1>1. CASE d = 0
  BY <1>1, DoubleAssumption DEF Quotients
<1>2. CASE d > 0
  <2>1. n \div d \in Int
    BY <1>2
  <2>2. Quotients(n, d) \subseteq {n \div d} \cup Sample
    BY <1>2 DEF Quotients, Abs
  <2> QED
    BY <2>1, <2>2, DoubleAssumption
<1>3. CASE d < 0
  <2>1. (-n) \div (-d) \in Int
    BY <1>3
  <2>2. Quotients(n, d) \subseteq {(-n) \div (-d)} \cup Sample
    BY <1>3 DEF Quotients, Abs
  <2> QED
    BY <2>1, <2>2, DoubleAssumption
<1> QED
  BY <1>1, <1>2, <1>3

LEMMA TruncateTyped == ASSUME NEW i \in Int, NEW j \in Int, j # 0 PROVE Truncate(i, j) \in Int
<1>1. Abs(i) \in Int /\ Abs(j) \in Int /\ Abs(j) > 0
  BY DEF Abs
<1>2. Abs(i) \div Abs(j) \in Int
  BY <1>1
<1> QED
  BY <1>2 DEF Truncate

\* The Boolean and bitwise operators.  (archive/o/internal.c:162-234)
LEMMA LogicTyped ==
    ASSUME NEW op \in LogicalOps \cup BitwiseOps, NEW a \in AllValues, NEW b \in AllValues
    PROVE  Logic(op, a, b) \subseteq Outcome
<1>1. {Integer(t) : t \in Bitwise(op, a.int_val, b.int_val)} \subseteq AllValues
  BY IntegerTyped DEF Bitwise
<1>2. \A p, q \in BOOLEAN : {Truth(p \/ q)} \subseteq AllValues /\ {Truth(p /\ q)} \subseteq AllValues
  BY TruthTyped
<1>3. CASE op = "lor"
  <2>1. Logic(op, a, b) = IF ~(IsInt(a) /\ IsInt(b)) THEN {}
                          ELSE Defined({Truth(a.int_val # 0 \/ b.int_val # 0)})
    BY <1>3 DEF Logic, BitwiseOps
  <2>2. Defined({Truth(a.int_val # 0 \/ b.int_val # 0)}) \subseteq Outcome
    BY <1>2, DefinedTyped
  <2> QED
    BY <2>1, <2>2
<1>4. CASE op = "land"
  <2>1. Logic(op, a, b) = IF ~(IsInt(a) /\ IsInt(b)) THEN {}
                          ELSE Defined({Truth(a.int_val # 0 /\ b.int_val # 0)})
    BY <1>4 DEF Logic, BitwiseOps
  <2>2. Defined({Truth(a.int_val # 0 /\ b.int_val # 0)}) \subseteq Outcome
    BY <1>2, DefinedTyped
  <2> QED
    BY <2>1, <2>2
<1>5. CASE op \in BitwiseOps
  <2>1. op # "lor" /\ op # "land"
    BY <1>5 DEF BitwiseOps
  <2> QED
    BY <1>1, <1>5, <2>1, DefinedTyped DEF Logic
<1> QED
  BY <1>3, <1>4, <1>5 DEF LogicalOps

LEMMA BooleanTyped ==
    ASSUME NEW op \in {"lnot", "bnot", "bool"}, NEW a \in AllValues
    PROVE  Boolean(op, a) \subseteq Outcome
<1>1. CASE ~IsInt(a)
  BY <1>1 DEF Boolean
<1>2. CASE IsInt(a)
  <2>1. a.int_val \in Ints
    BY <1>2, ValueParts
  <2>2. -a.int_val - 1 \in Ints
    BY <2>1, WidthAssumption DEF Ints
  <2>3. {Truth(a.int_val = 0)} \subseteq AllValues /\ {Truth(a.int_val # 0)} \subseteq AllValues
    BY TruthTyped
  <2>4. {Integer(-a.int_val - 1)} \subseteq AllValues
    BY <2>2, IntegerTyped
  <2> QED
    BY <1>2, <2>3, <2>4, DefinedTyped DEF Boolean
<1> QED
  BY <1>1, <1>2

\* The comparisons.  (archive/o/internal.c:257-481)
LEMMA ComparisonsTyped ==
    ASSUME NEW a \in AllValues, NEW b \in AllValues
    PROVE  /\ \A op \in {"eq", "ne"} : Equality(op, a, b) \subseteq Outcome
           /\ \A op \in {"gt", "lt", "ge", "le"} : Order(op, a, b) \subseteq Outcome
<1>1. \A p \in BOOLEAN : Defined({Truth(p)}) \subseteq Outcome
  BY TruthTyped, DefinedTyped
<1>2. ASSUME NEW op \in {"eq", "ne"} PROVE Equality(op, a, b) \subseteq Outcome
  BY <1>1 DEF Equality
<1>3. ASSUME NEW op \in {"gt", "lt", "ge", "le"} PROVE Order(op, a, b) \subseteq Outcome
  <2>1. /\ (RealPart(a) > RealPart(b)) \in BOOLEAN
        /\ (RealPart(a) < RealPart(b)) \in BOOLEAN
        /\ (RealPart(a) >= RealPart(b)) \in BOOLEAN
        /\ (RealPart(a) <= RealPart(b)) \in BOOLEAN
    BY ValueParts
  <2> QED
    BY <1>1, <2>1 DEF Order
<1> QED
  BY <1>2, <1>3

\* uminus, plus and minus.  (archive/o/internal.c:238-253, 485-561)
LEMMA AdditionTyped ==
    ASSUME NEW a \in AllValues, NEW b \in AllValues
    PROVE  Negate(a) \subseteq Outcome /\ Plus(a, b) \subseteq Outcome /\ Minus(a, b) \subseteq Outcome
<1>1. \A i \in Int : Integer(Wrap(i)) \in AllValues
  BY WrapTyped, IntegerTyped
<1>2. \A i, j \in Ints : -i \in Int /\ i + j \in Int /\ i - j \in Int
  BY WidthAssumption DEF Ints
<1>3. Negate(a) \subseteq Outcome
  <2>1. CASE IsInt(a)
    <3>1. -a.int_val \in Int
      <4>1. a.int_val \in Ints
        BY <2>1, ValueParts
      <4> QED
        BY <1>2, <4>1
    <3>2. Integer(Wrap(-a.int_val)) \in AllValues
      BY <1>1, <3>1
    <3> QED
      BY <2>1, <3>2, DefinedTyped DEF Negate
  <2>2. CASE ~IsInt(a)
    <3>1. Complex(-a.real, -a.imag) \in AllValues
      <4>1. a.real \in Int /\ a.imag \in Int
        BY <2>2, ValueParts
      <4>2. -a.real \in Int /\ -a.imag \in Int
        BY <4>1
      <4> QED
        BY <4>2, ComplexTyped
    <3> QED
      BY <2>2, <3>1, DefinedTyped DEF Negate
  <2> QED
    BY <2>1, <2>2
<1>4. CASE IsInt(a) /\ IsInt(b)
  <2>1. a.int_val + b.int_val \in Int /\ a.int_val - b.int_val \in Int
    <3>1. a.int_val \in Ints /\ b.int_val \in Ints
      BY <1>4, ValueParts
    <3> QED
      BY <1>2, <3>1
  <2>2. /\ Integer(Wrap(a.int_val + b.int_val)) \in AllValues
        /\ Integer(Wrap(a.int_val - b.int_val)) \in AllValues
    BY <1>1, <2>1
  <2>3. Plus(a, b) \subseteq Outcome /\ Minus(a, b) \subseteq Outcome
    BY <1>4, <2>2, DefinedTyped DEF Plus, Minus
  <2> QED
    BY <1>3, <2>3
<1>5. CASE ~(IsInt(a) /\ IsInt(b))
  <2>1. /\ RealPart(a) \in Int /\ ImagPart(a) \in Int
        /\ RealPart(b) \in Int /\ ImagPart(b) \in Int
    BY ValueParts
  <2>2. /\ Complex(RealPart(a) + RealPart(b), ImagPart(a) + ImagPart(b)) \in AllValues
        /\ Complex(RealPart(a) - RealPart(b), ImagPart(a) - ImagPart(b)) \in AllValues
    BY <2>1, ComplexTyped
  <2>3. Plus(a, b) \subseteq Outcome /\ Minus(a, b) \subseteq Outcome
    BY <1>5, <2>2, DefinedTyped DEF Plus, Minus
  <2> QED
    BY <1>3, <2>3
<1> QED
  BY <1>4, <1>5

\* mult and div.  (archive/o/internal.c:565-708)
LEMMA MultTyped ==
    ASSUME NEW a \in AllValues, NEW b \in AllValues PROVE Mult(a, b) \subseteq Outcome
<1>1. CASE IsInt(a) /\ IsInt(b)
  <2>1. a.int_val \in Int /\ b.int_val \in Int
    BY <1>1, ValueParts, WidthAssumption DEF Ints
  <2>2. Integer(Wrap(a.int_val * b.int_val)) \in AllValues
    BY <2>1, WrapTyped, IntegerTyped
  <2> QED
    BY <1>1, <2>2, DefinedTyped DEF Mult
<1>2. CASE ~(IsInt(a) /\ IsInt(b))
  <2> DEFINE r == RealPart(a) * RealPart(b) - ImagPart(a) * ImagPart(b)
             i == RealPart(a) * ImagPart(b) + ImagPart(a) * RealPart(b)
  <2>1. /\ RealPart(a) \in Int /\ ImagPart(a) \in Int
        /\ RealPart(b) \in Int /\ ImagPart(b) \in Int
    BY ValueParts
  <2>2. r \in Int /\ i \in Int /\ Unit \in Int
    BY <2>1, DoubleAssumption
  <2>3. Rectangle(Quotients(r, Unit), Quotients(i, Unit)) \subseteq AllValues
    BY <2>2, QuotientsTyped, RectangleTyped
  <2>4. Mult(a, b) = Defined(Rectangle(Quotients(r, Unit), Quotients(i, Unit)))
    BY <1>2 DEF Mult
  <2> QED
    BY <2>3, <2>4, DefinedTyped
<1> QED
  BY <1>1, <1>2

LEMMA ZeroTyped == Integer(0) \in AllValues /\ Complex(0, 0) \in AllValues
<1>1. 0 \in Ints
  BY WidthAssumption DEF Ints
<1> QED
  BY <1>1, IntegerTyped, ComplexTyped

\* A quotient and a remainder of ints, where div and mod compute one.
LEMMA IntQuotientTyped ==
    ASSUME NEW i \in Ints, NEW j \in Ints, j # 0
    PROVE  /\ Integer(Wrap(Truncate(i, j))) \in AllValues
           /\ Integer(Wrap(CRem(i, j))) \in AllValues
<1>1. i \in Int /\ j \in Int
  BY WidthAssumption DEF Ints
<1>2. Truncate(i, j) \in Int
  BY <1>1, TruncateTyped
<1>3. CRem(i, j) \in Int
  BY <1>1, <1>2 DEF CRem
<1> QED
  BY <1>2, <1>3, WrapTyped, IntegerTyped

LEMMA DivTyped ==
    ASSUME NEW a \in AllValues, NEW b \in AllValues
    PROVE  Div(a, b) \subseteq Outcome /\ Mod(a, b) \subseteq Outcome
<1>1. CASE IsInt(a) /\ IsInt(b)
  <2>1. a.int_val \in Ints /\ b.int_val \in Ints
    BY <1>1, ValueParts
  <2>2. CASE b.int_val = 0
    <3>1. Undefined(Integer(0)) \subseteq Outcome
      BY ZeroTyped, UndefinedTyped
    <3>2. Div(a, b) = Undefined(Integer(0)) /\ Mod(a, b) = Undefined(Integer(0))
      BY <1>1, <2>2 DEF Div, Mod
    <3> QED
      BY <3>1, <3>2
  <2>3. CASE b.int_val = -1 /\ a.int_val = -Half
    BY <1>1, <2>3 DEF Div, Mod
  <2>4. CASE b.int_val # 0 /\ ~(b.int_val = -1 /\ a.int_val = -Half)
    <3>1. /\ Integer(Wrap(Truncate(a.int_val, b.int_val))) \in AllValues
          /\ Integer(Wrap(CRem(a.int_val, b.int_val))) \in AllValues
      BY <2>1, <2>4, IntQuotientTyped
    <3>2. /\ Div(a, b) = Defined({Integer(Wrap(Truncate(a.int_val, b.int_val)))})
          /\ Mod(a, b) = Defined({Integer(Wrap(CRem(a.int_val, b.int_val)))})
      BY <1>1, <2>4 DEF Div, Mod
    <3> QED
      BY <3>1, <3>2, DefinedTyped
  <2> QED
    BY <2>2, <2>3, <2>4
<1>2. CASE ~(IsInt(a) /\ IsInt(b))
  <2> DEFINE square == RealPart(b) * RealPart(b) + ImagPart(b) * ImagPart(b)
             r == Unit * (RealPart(a) * RealPart(b) + ImagPart(a) * ImagPart(b))
             i == Unit * (ImagPart(a) * RealPart(b) + NegatedReal(a) * ImagPart(b))
  <2>1. /\ RealPart(a) \in Int /\ ImagPart(a) \in Int
        /\ RealPart(b) \in Int /\ ImagPart(b) \in Int
    BY ValueParts
  <2>6. NegatedReal(a) \in Int
    <3>1. CASE IsInt(a)
      <4>1. -a.int_val \in Int
        BY <3>1, ValueParts, WidthAssumption DEF Ints
      <4>2. Wrap(-a.int_val) \in Int
        BY <4>1, WrapTyped, WidthAssumption DEF Ints
      <4> QED
        BY <3>1, <4>2, DoubleAssumption DEF NegatedReal
    <3>2. CASE ~IsInt(a)
      <4>1. a.real \in Int
        BY <3>2 DEF IsInt, AllValues, IntValues, ComplexValues
      <4> QED
        BY <3>2, <4>1 DEF NegatedReal
    <3> QED
      BY <3>1, <3>2
  <2>2. r \in Int /\ i \in Int /\ square \in Int
    BY <2>1, <2>6, DoubleAssumption
  <2>3. Rectangle(Quotients(r, square), Quotients(i, square)) \subseteq AllValues
    BY <2>2, QuotientsTyped, RectangleTyped
  <2>4. Div(a, b) = IF square = 0 THEN Undefined(Complex(0, 0))
                    ELSE Defined(Rectangle(Quotients(r, square), Quotients(i, square)))
    BY <1>2 DEF Div
  <2>5. Mod(a, b) = {}
    BY <1>2 DEF Mod
  <2> QED
    BY <2>3, <2>4, <2>5, DefinedTyped, UndefinedTyped, ZeroTyped
<1> QED
  BY <1>1, <1>2

\* power and factorial.  (archive/o/internal.c:712-803)
LEMMA PowerTyped ==
    ASSUME NEW a \in AllValues, NEW b \in AllValues
    PROVE  Power(a, b) \subseteq Outcome /\ Factorial(a) \subseteq Outcome
<1> DEFINE ts == Powers(a.int_val, b.int_val)
<1>1. ts \subseteq Ints /\ Ints \subseteq Int /\ Unit \in Int
  BY WidthAssumption, DoubleAssumption DEF Powers, Ints
<1>2. {Integer(t) : t \in ts} \subseteq AllValues
  BY <1>1, IntegerTyped
<1>3. UNION {Rectangle(Quotients(Unit, t), {0}) : t \in ts} \subseteq AllValues
  <2>1. \A t \in ts : Rectangle(Quotients(Unit, t), {0}) \subseteq AllValues
    BY <1>1, QuotientsTyped, RectangleTyped
  <2> QED
    BY <2>1
<1>4. /\ Rectangle(Sample, {0}) \subseteq AllValues
      /\ Rectangle(Sample, Sample) \subseteq AllValues
      /\ Rectangle({Unit}, {0}) \subseteq AllValues
  BY <1>1, DoubleAssumption, RectangleTyped
<1>5. Power(a, b) \subseteq Outcome
  <2>1. CASE IsInt(a) /\ IsInt(b)
    <3>1. b.int_val \in Ints
      BY <2>1, ValueParts
    <3>2. b.int_val \in Int
      BY <3>1, <1>1
    <3>3. CASE b.int_val >= 0
      <4>1. ~(b.int_val < 0)
        BY <3>2, <3>3
      <4>2. Power(a, b) = Defined({Integer(t) : t \in ts})
        BY <2>1, <3>3, <4>1 DEF Power
      <4> QED
        BY <1>2, <4>2, DefinedTyped
    <3>4. CASE b.int_val < 0
      <4>1. ~(b.int_val >= 0)
        BY <3>2, <3>4
      <4>2. Power(a, b) = Defined(UNION {Rectangle(Quotients(Unit, t), {0}) : t \in ts})
        BY <2>1, <3>4, <4>1 DEF Power
      <4> QED
        BY <1>3, <4>2, DefinedTyped
    <3> QED
      BY <3>2, <3>3, <3>4
  <2>3. CASE ~(IsInt(a) /\ IsInt(b))
    BY <1>4, <2>3, DefinedTyped DEF Power
  <2> QED
    BY <2>1, <2>3
<1>6. Factorial(a) \subseteq Outcome
  BY <1>4, DefinedTyped DEF Factorial
<1> QED
  BY <1>5, <1>6

-----------------------------------------------------------------------------
(* The operators of standard.c. *)

\* The rectangles that the library's functions lead into.
LEMMA SamplesTyped ==
    /\ Rectangle(Sample, {0}) \subseteq AllValues
    /\ Rectangle(Sample, Sample) \subseteq AllValues
    /\ Rectangle({0}, Lengths) \subseteq AllValues
    /\ Rectangle(Lengths, {0}) \subseteq AllValues
<1>1. Sample \subseteq Int /\ {0} \subseteq Int /\ Lengths \subseteq Int
  BY DoubleAssumption DEF Lengths
<1> QED
  BY <1>1, RectangleTyped

LEMMA LibraryTyped ==
    ASSUME NEW a \in AllValues
    PROVE  /\ Entire(a) \subseteq Outcome /\ Tan(a) \subseteq Outcome
           /\ Arc(a) \subseteq Outcome /\ Atan(a) \subseteq Outcome
           /\ Sqrt(a) \subseteq Outcome /\ Log(a) \subseteq Outcome
<1>1. \A S : S \subseteq AllValues => Defined(S) \subseteq Outcome
  BY DefinedTyped
<1>2. Undefined(a) \subseteq Outcome /\ Undefined(Complex(0, 0)) \subseteq Outcome
  BY ZeroTyped, UndefinedTyped
<1>3. /\ Defined(Rectangle(Sample, {0})) \subseteq Outcome
      /\ Defined(Rectangle(Sample, Sample)) \subseteq Outcome
      /\ Defined(Rectangle({0}, Lengths)) \subseteq Outcome
      /\ Defined(Rectangle(Lengths, {0})) \subseteq Outcome
  BY <1>1, SamplesTyped
<1>4. Entire(a) \subseteq Outcome
  BY <1>3 DEF Entire
<1>5. Tan(a) \subseteq Outcome
  BY <1>2, <1>3 DEF Tan
<1>6. RealPart(a) \in Int /\ ImagPart(a) \in Int /\ Unit \in Int
  BY ValueParts, DoubleAssumption
<1>7. Arc(a) \subseteq Outcome
  <2>1. Abs(RealPart(a)) \in Int
    BY <1>6 DEF Abs
  <2>2. Abs(RealPart(a)) > Unit <=> ~(Abs(RealPart(a)) <= Unit)
    BY <1>6, <2>1
  <2> QED
    BY <1>2, <1>3, <2>2 DEF Arc
<1>8. Atan(a) \subseteq Outcome
  <2>1. CASE IsReal(a)
    <3>1. ~(Abs(ImagPart(a)) = Unit)
      BY <2>1, DoubleAssumption DEF IsReal, Abs
    <3> QED
      BY <1>3, <2>1, <3>1 DEF Atan
  <2>2. CASE ~IsReal(a)
    BY <1>2, <1>3, <2>2 DEF Atan
  <2> QED
    BY <2>1, <2>2
<1>9. Sqrt(a) \subseteq Outcome
  <2>1. RealPart(a) >= 0 <=> ~(RealPart(a) < 0)
    BY <1>6
  <2> QED
    BY <1>3, <2>1 DEF Sqrt
<1>10. Log(a) \subseteq Outcome
  BY <1>3 DEF Log
<1> QED
  BY <1>4, <1>5, <1>7, <1>8, <1>9, <1>10

LEMMA PartTyped ==
    ASSUME NEW a \in AllValues, NEW op \in {"real", "imag", "arg", "conjg"}
    PROVE  Part(op, a) \subseteq Outcome
<1>1. RealPart(a) \in Int /\ ImagPart(a) \in Int
  BY ValueParts
<1>2. -ImagPart(a) \in Int
  BY <1>1
<1>3. /\ {Complex(RealPart(a), 0)} \subseteq AllValues
      /\ {Complex(ImagPart(a), 0)} \subseteq AllValues
      /\ {Complex(RealPart(a), -ImagPart(a))} \subseteq AllValues
  BY <1>1, <1>2, ComplexTyped
<1> QED
  BY <1>3, SamplesTyped, DefinedTyped DEF Part

\* int, abs, sgn, floor and ceil.
LEMMA RoundedTyped ==
    ASSUME NEW a \in AllValues
    PROVE  /\ ToInt(a) \subseteq Outcome /\ Magnitude(a) \subseteq Outcome
           /\ Sgn(a) \subseteq Outcome
           /\ \A op \in {"floor", "ceil"} : Rounded(op, a) \subseteq Outcome
<1>1. ToInt(a) \subseteq Outcome
  <2> DEFINE i == Truncate(RealPart(a), Unit)
             ns == IF i \in Ints THEN {i} ELSE Ints
  <2>1. \A n \in ns : Integer(n) \in AllValues
    BY IntegerTyped
  <2>2. {Integer(n) : n \in ns} \subseteq AllValues
    BY <2>1
  <2>3. ToInt(a) = Defined({Integer(n) : n \in ns})
    BY DEF ToInt
  <2> QED
    BY <2>2, <2>3, DefinedTyped
<1>2. Magnitude(a) \subseteq Outcome
  <2>1. CASE IsInt(a)
    <3>1. a.int_val \in Ints
      BY <2>1, ValueParts
    <3>2. Abs(a.int_val) \in Int
      BY <3>1, WidthAssumption DEF Ints, Abs
    <3>3. {Integer(Wrap(Abs(a.int_val)))} \subseteq AllValues
      BY <3>2, WrapTyped, IntegerTyped
    <3> QED
      BY <2>1, <3>3, DefinedTyped DEF Magnitude
  <2>2. CASE ~IsInt(a)
    <3>1. a.real \in Int
      BY <2>2, ValueParts
    <3>2. Abs(a.real) \in Int
      BY <3>1 DEF Abs
    <3>3. {Complex(Abs(a.real), 0)} \subseteq AllValues
      BY <3>2, ComplexTyped
    <3> QED
      BY <2>2, <3>3, SamplesTyped, DefinedTyped DEF Magnitude
  <2> QED
    BY <2>1, <2>2
<1>3. Sgn(a) \subseteq Outcome
  <2>1. -1 \in Ints /\ 0 \in Ints /\ 1 \in Ints
    BY WidthAssumption DEF Ints
  <2>2. {Integer(-1)} \subseteq AllValues /\ {Integer(0)} \subseteq AllValues
            /\ {Integer(1)} \subseteq AllValues
    BY <2>1, IntegerTyped
  <2> QED
    BY <2>2, DefinedTyped DEF Sgn
<1>4. ASSUME NEW op \in {"floor", "ceil"} PROVE Rounded(op, a) \subseteq Outcome
  <2>1. CASE IsInt(a)
    BY <2>1, DefinedTyped DEF Rounded
  <2>2. CASE ~IsInt(a)
    <3>1. a.real \in Int /\ a.imag \in Int /\ Unit \in Nat \ {0}
      BY <2>2, ValueParts, DoubleAssumption
    <3>2. \A n \in Int : n \div Unit \in Int
      BY <3>1
    <3>3. \A n \in Int : Floor(n) \in Int /\ Ceiling(n) \in Int
      BY <3>1, <3>2 DEF Floor, Ceiling
    <3>4. /\ {Complex(Floor(a.real), Floor(a.imag))} \subseteq AllValues
          /\ {Complex(Ceiling(a.real), Ceiling(a.imag))} \subseteq AllValues
      BY <3>1, <3>3, ComplexTyped
    <3> QED
      BY <2>2, <3>4, DefinedTyped DEF Rounded
  <2> QED
    BY <2>1, <2>2
<1> QED
  BY <1>1, <1>2, <1>3, <1>4

LEMMA RandTyped == Rand \subseteq Outcome
<1>1. \A i \in 0..(Half - 1) : i \in Ints
  BY WidthAssumption DEF Ints
<1>2. {Integer(i) : i \in 0..(Half - 1)} \subseteq AllValues
  BY <1>1, IntegerTyped
<1> QED
  BY <1>2, DefinedTyped DEF Rand

\* Every unary operator gives values, on every value.
\* (archive/o/internal.c:162-184, 238-253, 782-803; standard.c)
THEOREM UnaryTyped ==
    ASSUME NEW op \in UnaryOps, NEW a \in AllValues PROVE Unary(op, a) \subseteq Outcome
<1>1. CASE op \in {"lnot", "bnot", "bool"}
  <2>1. Unary(op, a) = Boolean(op, a)
    BY <1>1 DEF Unary, EntireOps
  <2> QED
    BY <1>1, <2>1, BooleanTyped
<1>2. CASE op \in {"real", "imag", "arg", "conjg"}
  <2>1. Unary(op, a) = Part(op, a)
    BY <1>2 DEF Unary, EntireOps
  <2> QED
    BY <1>2, <2>1, PartTyped
<1>3. CASE op \in {"floor", "ceil"}
  <2>1. Unary(op, a) = Rounded(op, a)
    BY <1>3 DEF Unary, EntireOps
  <2> QED
    BY <1>3, <2>1, RoundedTyped
<1>4. CASE op \in {"asin", "acos"}
  <2>1. Unary(op, a) = Arc(a)
    BY <1>4 DEF Unary, EntireOps
  <2> QED
    BY <2>1, LibraryTyped
<1>5. CASE op \in {"log", "log10"}
  <2>1. Unary(op, a) = Log(a)
    BY <1>5 DEF Unary, EntireOps
  <2> QED
    BY <2>1, LibraryTyped
<1>6. CASE op \in EntireOps
  <2>1. Unary(op, a) = Entire(a)
    BY <1>6 DEF Unary, EntireOps
  <2> QED
    BY <2>1, LibraryTyped
<1>7. CASE op \in {"uminus", "factorial", "tan", "atan"}
  <2>1. \/ Unary(op, a) = Negate(a) \/ Unary(op, a) = Factorial(a)
        \/ Unary(op, a) = Tan(a) \/ Unary(op, a) = Atan(a)
    BY <1>7 DEF Unary, EntireOps
  <2> QED
    BY <2>1, AdditionTyped, PowerTyped, LibraryTyped
<1>8. CASE op \in {"int", "abs", "sgn", "sqrt", "srand"}
  <2>1. \/ Unary(op, a) = ToInt(a) \/ Unary(op, a) = Magnitude(a)
        \/ Unary(op, a) = Sgn(a) \/ Unary(op, a) = Sqrt(a)
        \/ Unary(op, a) = Defined({a})
    BY <1>8 DEF Unary, EntireOps
  <2> QED
    BY <2>1, RoundedTyped, LibraryTyped, DefinedTyped
<1> QED
  BY <1>1, <1>2, <1>3, <1>4, <1>5, <1>6, <1>7, <1>8 DEF UnaryOps

\* Every binary operator gives values, on every two values.
\* (archive/o/internal.c:188-778)
THEOREM BinaryTyped ==
    ASSUME NEW op \in BinaryOps, NEW a \in AllValues, NEW b \in AllValues
    PROVE  Binary(op, a, b) \subseteq Outcome
<1>1. CASE op \in LogicalOps \cup BitwiseOps
  <2>1. Binary(op, a, b) = Logic(op, a, b)
    BY <1>1 DEF Binary, LogicalOps, BitwiseOps
  <2> QED
    BY <1>1, <2>1, LogicTyped
<1>2. CASE op \in {"eq", "ne"}
  <2>1. Binary(op, a, b) = Equality(op, a, b)
    BY <1>2 DEF Binary, LogicalOps, BitwiseOps
  <2> QED
    BY <1>2, <2>1, ComparisonsTyped
<1>3. CASE op \in {"gt", "lt", "ge", "le"}
  <2>1. Binary(op, a, b) = Order(op, a, b)
    BY <1>3 DEF Binary, LogicalOps, BitwiseOps
  <2> QED
    BY <1>3, <2>1, ComparisonsTyped
<1>4. CASE op \in {"plus", "minus", "mult"}
  <2>1. \/ Binary(op, a, b) = Plus(a, b) \/ Binary(op, a, b) = Minus(a, b)
        \/ Binary(op, a, b) = Mult(a, b)
    BY <1>4 DEF Binary, LogicalOps, BitwiseOps
  <2> QED
    BY <2>1, AdditionTyped, MultTyped
<1>5. CASE op \in {"div", "mod", "power"}
  <2>1. \/ Binary(op, a, b) = Div(a, b) \/ Binary(op, a, b) = Mod(a, b)
        \/ Binary(op, a, b) = Power(a, b)
    BY <1>5 DEF Binary, LogicalOps, BitwiseOps
  <2> QED
    BY <2>1, DivTyped, PowerTyped
<1> QED
  BY <1>1, <1>2, <1>3, <1>4, <1>5 DEF BinaryOps

-----------------------------------------------------------------------------
(* The code. *)

\* An action of each kind has the operands of its kind, and no others are in the
\* way of its effects.
LEMMA ActionParts ==
    ASSUME NEW a \in Actions
    PROVE  /\ a.op = "push" => a.name \in Variables
           /\ a.op = "pushc" => a.v \in AllValues
           /\ a.op = "pushd" => a.f \in Functions /\ a.i \in 1..4
           /\ a.op = "call" => a.f \in Functions
  BY DEF Actions, UnaryOps, BinaryOps, EntireOps, LogicalOps, BitwiseOps, Bessel

\* What the compositions of standard.c are made of are actions.
LEMMA BesselActions ==
    ASSUME NEW v \in AllValues
    PROVE  /\ Const(v) \in Actions
           /\ \A op \in {"sin", "cos", "div", "mult", "plus", "minus", "uminus"} :
                  Op(op) \in Actions
<1>1. Const(v) \in [op : {"pushc"}, v : AllValues]
  BY DEF Const
<1>2. ASSUME NEW op \in {"sin", "cos", "div", "mult", "plus", "minus", "uminus"}
      PROVE  Op(op) \in Actions
  <2>1. op \in UnaryOps \cup BinaryOps
    BY DEF UnaryOps, BinaryOps, EntireOps
  <2>2. Op(op) \in [op : UnaryOps \cup BinaryOps \cup Bessel \cup {"rand"}]
    BY <2>1 DEF Op
  <2> QED
    BY <2>2 DEF Actions
<1> QED
  BY <1>1, <1>2 DEF Actions

\* Their effects on the stack.
LEMMA BesselEffects ==
    ASSUME NEW v
    PROVE  /\ Effects(Const(v)) = {<<1, 1>>} /\ Needs(Const(v)) = 0
           /\ \A op \in {"sin", "cos", "uminus"} :
                  Effects(Op(op)) = {<<1, 0>>} /\ Needs(Op(op)) = 1
           /\ \A op \in {"div", "mult", "plus", "minus"} :
                  Effects(Op(op)) = {<<1, -1>>} /\ Needs(Op(op)) = 2
<1>1. Effects(Const(v)) = {<<1, 1>>} /\ Needs(Const(v)) = 0
  BY DEF Effects, Needs, Const, BinaryOps, LogicalOps, BitwiseOps
<1>2. ASSUME NEW op \in {"sin", "cos", "uminus"}
      PROVE  Effects(Op(op)) = {<<1, 0>>} /\ Needs(Op(op)) = 1
  <2>1. op \notin BinaryOps
    BY DEF BinaryOps, LogicalOps, BitwiseOps
  <2> QED
    BY <2>1 DEF Effects, Needs, Op
<1>3. ASSUME NEW op \in {"div", "mult", "plus", "minus"}
      PROVE  Effects(Op(op)) = {<<1, -1>>} /\ Needs(Op(op)) = 2
  <2>1. op \in BinaryOps
    BY DEF BinaryOps
  <2> QED
    BY <2>1 DEF Effects, Needs, Op
<1> QED
  BY <1>1, <1>2, <1>3

LEMMA BesselTyped ==
    ASSUME NEW op \in Bessel, NEW v \in AllValues
    PROVE  Typed(BesselCode(op, v), 1) /\ Reads(BesselCode(op, v), {})
<1>1. CASE op = "besj0"
  <2> DEFINE c == [actions |-> <<Op("sin"), Const(v), Op("div")>>,
                   height |-> <<1, 1, 2, 1>>]
  <2>1. BesselCode(op, v) = c
    BY <1>1 DEF BesselCode
  <2>2. c.actions \in Seq(Actions)
    BY BesselActions
  <2>3. Len(c.actions) = 3
    OBVIOUS
  <2>4. c.height \in [1..End(c) -> Nat] /\ c.height[1] = 1 /\ c.height[End(c)] = 1
    BY <2>3 DEF End
  <2>5. ASSUME NEW i \in 1..Len(c.actions)
        PROVE  /\ Needs(c.actions[i]) <= c.height[i] /\ c.actions[i].op # "pushd"
               /\ \A e \in Effects(c.actions[i]) :
                      /\ i + e[1] \in 1..End(c)
                      /\ c.height[i + e[1]] = c.height[i] + e[2]
    <3>1. i = 1 \/ i = 2 \/ i = 3
      BY <2>3
    <3>2. /\ c.actions[1] = Op("sin") /\ c.actions[2] = Const(v) /\ c.actions[3] = Op("div")
      OBVIOUS
    <3>3. \A j \in 1..3 : c.actions[j].op # "pushd"
      BY <3>2 DEF Op, Const
    <3> QED
      BY <2>3, <3>1, <3>2, <3>3, BesselEffects DEF End
  <2> HIDE DEF c
  <2> QED
    BY <2>1, <2>2, <2>4, <2>5 DEF Typed, Reads
<1>2. CASE op = "besy0"
  <2> DEFINE c == [actions |-> <<Op("cos"), Const(v), Op("div"), Op("uminus")>>,
                   height |-> <<1, 1, 2, 1, 1>>]
  <2>1. BesselCode(op, v) = c
    BY <1>2 DEF BesselCode
  <2>2. c.actions \in Seq(Actions)
    BY BesselActions
  <2>3. Len(c.actions) = 4
    OBVIOUS
  <2>4. c.height \in [1..End(c) -> Nat] /\ c.height[1] = 1 /\ c.height[End(c)] = 1
    BY <2>3 DEF End
  <2>5. ASSUME NEW i \in 1..Len(c.actions)
        PROVE  /\ Needs(c.actions[i]) <= c.height[i] /\ c.actions[i].op # "pushd"
               /\ \A e \in Effects(c.actions[i]) :
                      /\ i + e[1] \in 1..End(c)
                      /\ c.height[i + e[1]] = c.height[i] + e[2]
    <3>1. i = 1 \/ i = 2 \/ i = 3 \/ i = 4
      BY <2>3
    <3>2. /\ c.actions[1] = Op("cos") /\ c.actions[2] = Const(v) /\ c.actions[3] = Op("div")
          /\ c.actions[4] = Op("uminus")
      OBVIOUS
    <3>3. \A j \in 1..4 : c.actions[j].op # "pushd"
      BY <3>2 DEF Op, Const
    <3> QED
      BY <2>3, <3>1, <3>2, <3>3, BesselEffects DEF End
  <2> HIDE DEF c
  <2> QED
    BY <2>1, <2>2, <2>4, <2>5 DEF Typed, Reads
<1>3. CASE op = "besj1"
  <2> DEFINE c == [actions |-> <<Op("sin"), Const(v), Const(v), Op("mult"),
                                Op("div"), Const(v), Op("cos"), Const(v),
                                Op("div"), Op("minus")>>,
                   height |-> <<1, 1, 2, 3, 2, 1, 2, 2, 3, 2, 1>>]
  <2>1. BesselCode(op, v) = c
    BY <1>3 DEF BesselCode
  <2>2. c.actions \in Seq(Actions)
    BY BesselActions
  <2>3. Len(c.actions) = 10
    OBVIOUS
  <2>4. c.height \in [1..End(c) -> Nat] /\ c.height[1] = 1 /\ c.height[End(c)] = 1
    BY <2>3 DEF End
  <2>5. ASSUME NEW i \in 1..Len(c.actions)
        PROVE  /\ Needs(c.actions[i]) <= c.height[i] /\ c.actions[i].op # "pushd"
               /\ \A e \in Effects(c.actions[i]) :
                      /\ i + e[1] \in 1..End(c)
                      /\ c.height[i + e[1]] = c.height[i] + e[2]
    <3>1. \/ i = 1 \/ i = 2 \/ i = 3 \/ i = 4 \/ i = 5 \/ i = 6
          \/ i = 7 \/ i = 8 \/ i = 9 \/ i = 10
      BY <2>3
    <3>2. /\ c.actions[1] = Op("sin") /\ c.actions[2] = Const(v) /\ c.actions[3] = Const(v)
          /\ c.actions[4] = Op("mult") /\ c.actions[5] = Op("div") /\ c.actions[6] = Const(v)
          /\ c.actions[7] = Op("cos") /\ c.actions[8] = Const(v) /\ c.actions[9] = Op("div")
          /\ c.actions[10] = Op("minus")
      OBVIOUS
    <3>3. \A j \in 1..10 : c.actions[j].op # "pushd"
      BY <3>2 DEF Op, Const
    <3> QED
      BY <2>3, <3>1, <3>2, <3>3, BesselEffects DEF End
  <2> HIDE DEF c
  <2> QED
    BY <2>1, <2>2, <2>4, <2>5 DEF Typed, Reads
<1>4. CASE op = "besy1"
  <2> DEFINE c == [actions |-> <<Op("cos"), Const(v), Const(v), Op("mult"),
                                Op("div"), Const(v), Op("sin"), Const(v),
                                Op("div"), Op("plus"), Op("uminus")>>,
                   height |-> <<1, 1, 2, 3, 2, 1, 2, 2, 3, 2, 1, 1>>]
  <2>1. BesselCode(op, v) = c
    BY <1>4 DEF BesselCode
  <2>2. c.actions \in Seq(Actions)
    BY BesselActions
  <2>3. Len(c.actions) = 11
    OBVIOUS
  <2>4. c.height \in [1..End(c) -> Nat] /\ c.height[1] = 1 /\ c.height[End(c)] = 1
    BY <2>3 DEF End
  <2>5. ASSUME NEW i \in 1..Len(c.actions)
        PROVE  /\ Needs(c.actions[i]) <= c.height[i] /\ c.actions[i].op # "pushd"
               /\ \A e \in Effects(c.actions[i]) :
                      /\ i + e[1] \in 1..End(c)
                      /\ c.height[i + e[1]] = c.height[i] + e[2]
    <3>1. \/ i = 1 \/ i = 2 \/ i = 3 \/ i = 4 \/ i = 5 \/ i = 6
          \/ i = 7 \/ i = 8 \/ i = 9 \/ i = 10 \/ i = 11
      BY <2>3
    <3>2. /\ c.actions[1] = Op("cos") /\ c.actions[2] = Const(v) /\ c.actions[3] = Const(v)
          /\ c.actions[4] = Op("mult") /\ c.actions[5] = Op("div") /\ c.actions[6] = Const(v)
          /\ c.actions[7] = Op("sin") /\ c.actions[8] = Const(v) /\ c.actions[9] = Op("div")
          /\ c.actions[10] = Op("plus") /\ c.actions[11] = Op("uminus")
      OBVIOUS
    <3>3. \A j \in 1..11 : c.actions[j].op # "pushd"
      BY <3>2 DEF Op, Const
    <3> QED
      BY <2>3, <3>1, <3>2, <3>3, BesselEffects DEF End
  <2> HIDE DEF c
  <2> QED
    BY <2>1, <2>2, <2>4, <2>5 DEF Typed, Reads
<1> QED
  BY <1>1, <1>2, <1>3, <1>4 DEF Bessel

-----------------------------------------------------------------------------
(* The invariant. *)

Codes ==
    Programs \cup {c \in {Code[f] : f \in Functions} : c # NoCode}
        \cup {BesselCode(op, v) : op \in Bessel, v \in AllValues}
ArgTuples == {<<>>} \cup [1..4 -> AllValues \cup {NoValue}]
FrameRecords == [code : Codes, pc : Nat, base : Nat, args : ArgTuples]

Balanced(fs, len) ==
    \A k \in 1..Len(fs) :
        /\ fs[k].pc \in 1..End(fs[k].code)
        /\ (IF k = Len(fs) THEN len ELSE fs[k + 1].base + 1)
               = fs[k].base + fs[k].code.height[fs[k].pc]

\* What code underway pushes from the dummies has been stored there by a call.
Ready(fs, ds) ==
    \A k \in 1..Len(fs) : \A i \in 1..Len(fs[k].code.actions) :
        fs[k].code.actions[i].op = "pushd" =>
            ds[fs[k].code.actions[i].f][fs[k].code.actions[i].i] \in AllValues

CalculatorInv ==
    /\ TypeOK
    /\ frames \in Seq(FrameRecords)
    /\ Balanced(frames, Len(stack))
    /\ frames # <<>> => frames[1].base = 0
    /\ status = "done" => Len(stack) = 1
    /\ Ready(frames, dummies)

\* All code that runs is typed.
LEMMA CodesTyped ==
    ASSUME NEW c \in Codes
    PROVE  /\ c.actions \in Seq(Actions) /\ Len(c.actions) \in Nat
           /\ End(c) = Len(c.actions) + 1
           /\ c.height \in [1..End(c) -> Nat] /\ c.height[End(c)] = 1
           /\ \A i \in 1..Len(c.actions) :
                  /\ c.actions[i] \in Actions
                  /\ Needs(c.actions[i]) <= c.height[i]
                  /\ \A e \in Effects(c.actions[i]) :
                         /\ i + e[1] \in 1..End(c)
                         /\ c.height[i + e[1]] = c.height[i] + e[2]
<1>1. Typed(c, 0) \/ Typed(c, 1)
  <2>1. CASE c \in Programs
    BY <2>1, ProgramsAssumption
  <2>2. CASE c \in {d \in {Code[f] : f \in Functions} : d # NoCode}
    <3>1. PICK f \in Functions : c = Code[f] /\ c # NoCode
      BY <2>2
    <3> QED
      BY <3>1, CodeAssumption
  <2>3. CASE c \in {BesselCode(op, v) : op \in Bessel, v \in AllValues}
    <3>1. PICK op \in Bessel, v \in AllValues : c = BesselCode(op, v)
      BY <2>3
    <3> QED
      BY <3>1, BesselTyped
  <2> QED
    BY <2>1, <2>2, <2>3 DEF Codes
<1> QED
  BY <1>1 DEF Typed, End

\* The code underway goes on.
LEMMA Advanced ==
    ASSUME NEW fs \in Seq(FrameRecords), fs # <<>>, NEW len \in Nat, Balanced(fs, len),
           NEW by \in Int, NEW plus \in Int,
           fs[Len(fs)].pc + by \in 1..End(fs[Len(fs)].code),
           fs[Len(fs)].code.height[fs[Len(fs)].pc + by]
               = fs[Len(fs)].code.height[fs[Len(fs)].pc] + plus
    PROVE  LET gs == [fs EXCEPT ![Len(fs)].pc = @ + by] IN
           /\ gs \in Seq(FrameRecords) /\ Len(gs) = Len(fs) /\ gs # <<>>
           /\ \A k \in 1..Len(fs) : gs[k].base = fs[k].base /\ gs[k].code = fs[k].code
           /\ Balanced(gs, len + plus)
<1> DEFINE n == Len(fs)
           gs == [fs EXCEPT ![n].pc = @ + by]
           last == [fs[n] EXCEPT !.pc = @ + by]
<1>1. n \in Nat \ {0} /\ n \in 1..n /\ \A k \in 1..n : fs[k] \in FrameRecords
  BY EmptySeq, LenProperties
<1>2. End(fs[n].code) \in Nat /\ last \in FrameRecords
  <2>1. fs[n].code \in Codes
    BY <1>1 DEF FrameRecords
  <2>2. End(fs[n].code) \in Nat
    BY <2>1, CodesTyped
  <2>3. fs[n].pc + by \in Nat
    BY <2>2
  <2> QED
    BY <1>1, <2>2, <2>3 DEF FrameRecords
<1>3. gs = [fs EXCEPT ![n] = last]
  OBVIOUS
<1>4. gs \in Seq(FrameRecords) /\ Len(gs) = n
  BY <1>1, <1>2, <1>3, ExceptSeq
<1>5. gs[n] = last /\ \A k \in 1..n : k # n => gs[k] = fs[k]
  BY <1>1, <1>3
<1>6. \A k \in 1..n : gs[k].base = fs[k].base /\ gs[k].code = fs[k].code
  BY <1>1, <1>5 DEF FrameRecords
<1>7. ASSUME NEW k \in 1..n
      PROVE  /\ gs[k].pc \in 1..End(gs[k].code)
             /\ (IF k = n THEN len + plus ELSE gs[k + 1].base + 1)
                    = gs[k].base + gs[k].code.height[gs[k].pc]
  <2>1. CASE k = n
    <3>1. gs[n].pc = fs[n].pc + by
      BY <1>1, <1>5 DEF FrameRecords
    <3>2. fs[n].base \in Nat /\ fs[n].code.height[fs[n].pc] \in Nat
          /\ len = fs[n].base + fs[n].code.height[fs[n].pc]
      BY <1>1, CodesTyped DEF Balanced, FrameRecords
    <3> QED
      BY <1>1, <1>6, <2>1, <3>1, <3>2
  <2>2. CASE k # n
    <3>1. gs[k] = fs[k] /\ k + 1 \in 1..n /\ gs[k + 1].base = fs[k + 1].base
      BY <1>1, <1>5, <1>6, <2>2
    <3> QED
      BY <1>1, <2>2, <3>1 DEF Balanced
  <2> QED
    BY <2>1, <2>2
<1>8. Balanced(gs, len + plus)
  BY <1>4, <1>7 DEF Balanced
<1> QED
  BY <1>1, <1>4, <1>6, <1>8

\* Code is entered.
LEMMA Entered ==
    ASSUME NEW fs \in Seq(FrameRecords), NEW base \in Nat, Balanced(fs, base + 1),
           NEW code \in Codes, NEW n \in Nat, Typed(code, n), NEW args \in ArgTuples
    PROVE  LET gs == Append(fs, Frame(code, base, args)) IN
           /\ gs \in Seq(FrameRecords) /\ Len(gs) = Len(fs) + 1 /\ gs # <<>>
           /\ gs[Len(fs) + 1].code = code /\ gs[Len(fs) + 1].base = base
           /\ \A k \in 1..Len(fs) : gs[k] = fs[k]
           /\ Balanced(gs, base + n)
<1> DEFINE fr == Frame(code, base, args)
           gs == Append(fs, fr)
<1>1. fr \in FrameRecords /\ fr.code = code /\ fr.base = base /\ fr.pc = 1
  BY DEF Frame, FrameRecords
<1>2. /\ gs \in Seq(FrameRecords) /\ Len(gs) = Len(fs) + 1
      /\ gs[Len(fs) + 1] = fr /\ \A k \in 1..Len(fs) : gs[k] = fs[k]
  BY <1>1
<1>3. 1 \in 1..End(code) /\ code.height[1] = n
  BY CodesTyped DEF Typed
<1>4. ASSUME NEW k \in 1..Len(gs)
      PROVE  /\ gs[k].pc \in 1..End(gs[k].code)
             /\ (IF k = Len(gs) THEN base + n ELSE gs[k + 1].base + 1)
                    = gs[k].base + gs[k].code.height[gs[k].pc]
  <2>1. CASE k = Len(fs) + 1
    BY <1>1, <1>2, <1>3, <2>1
  <2>2. CASE k = Len(fs)
    <3>1. k \in 1..Len(fs) /\ gs[k] = fs[k] /\ gs[k + 1].base = base /\ k # Len(gs)
      BY <1>1, <1>2, <2>2
    <3> QED
      BY <2>2, <3>1 DEF Balanced
  <2>3. CASE k \in 1..Len(fs) /\ k # Len(fs)
    <3>1. gs[k] = fs[k] /\ gs[k + 1] = fs[k + 1] /\ k # Len(gs)
      BY <1>2, <2>3
    <3> QED
      BY <2>3, <3>1 DEF Balanced
  <2> QED
    BY <1>2, <2>1, <2>2, <2>3
<1> QED
  BY <1>1, <1>2, <1>4 DEF Balanced

\* Code is left, with one value more.
LEMMA LeftBalanced ==
    ASSUME NEW fs \in Seq(FrameRecords), fs # <<>>, NEW len \in Nat, Balanced(fs, len),
           fs[Len(fs)].pc = End(fs[Len(fs)].code)
    PROVE  LET gs == SubSeq(fs, 1, Len(fs) - 1) IN
           /\ gs \in Seq(FrameRecords) /\ Len(gs) = Len(fs) - 1
           /\ \A k \in 1..Len(gs) : gs[k] = fs[k]
           /\ len = fs[Len(fs)].base + 1
           /\ Balanced(gs, len)
<1> DEFINE n == Len(fs)
           gs == SubSeq(fs, 1, n - 1)
<1>1. n \in Nat \ {0} /\ n \in 1..n /\ \A k \in 1..n : fs[k] \in FrameRecords
  BY EmptySeq, LenProperties
<1>2. /\ gs \in Seq(FrameRecords) /\ Len(gs) = n - 1
      /\ \A k \in 1..Len(gs) : gs[k] = fs[k]
  <2>1. n - 1 \in Nat /\ 1 \in Int /\ \A i \in 1..(n - 1) : fs[i] \in FrameRecords
    BY <1>1
  <2>2. /\ gs \in Seq(FrameRecords) /\ Len(gs) = IF 1 <= n - 1 THEN n - 1 - 1 + 1 ELSE 0
        /\ \A i \in 1..(n - 1 - 1 + 1) : gs[i] = fs[1 + i - 1]
    BY <2>1, SubSeqProperties
  <2> HIDE DEF gs
  <2> HIDE DEF n
  <2>3. Len(gs) = n - 1
    <3>1. Len(gs) = IF 1 <= n - 1 THEN n - 1 - 1 + 1 ELSE 0
      BY <2>2
    <3>2. CASE 1 <= n - 1
      BY <2>1, <3>1, <3>2
    <3>3. CASE ~(1 <= n - 1)
      <4>1. n \in Nat /\ n # 0
        BY <1>1
      <4>2. n = 1
        BY <3>3, <4>1
      <4> QED
        BY <3>1, <3>3, <4>2
    <3> QED
      BY <3>2, <3>3
  <2>4. ASSUME NEW k \in 1..(n - 1) PROVE gs[k] = fs[k]
    BY <2>1, <2>2
  <2> QED
    BY <2>2, <2>3, <2>4
<1>3. len = fs[n].base + 1
  BY <1>1, CodesTyped DEF Balanced, FrameRecords
<1>4. ASSUME NEW k \in 1..Len(gs)
      PROVE  /\ gs[k].pc \in 1..End(gs[k].code)
             /\ (IF k = Len(gs) THEN len ELSE gs[k + 1].base + 1)
                    = gs[k].base + gs[k].code.height[gs[k].pc]
  <2>1. gs[k] = fs[k] /\ k \in 1..n /\ k # n /\ (k # Len(gs) => gs[k + 1] = fs[k + 1])
    BY <1>1, <1>2
  <2>2. k = Len(gs) => k + 1 = n
    BY <1>1, <1>2
  <2> QED
    BY <1>3, <2>1, <2>2 DEF Balanced
<1> QED
  BY <1>2, <1>3, <1>4 DEF Balanced

-----------------------------------------------------------------------------
(* The steps. *)

\* There is an action to take, and as many values above those of the callers as
\* it needs.
LEMMA Underway ==
    ASSUME CalculatorInv, NEW ops, At(ops)
    PROVE  /\ status = "running" /\ frames # <<>> /\ Len(frames) \in Nat \ {0}
           /\ here \in FrameRecords /\ here.code \in Codes
           /\ here.pc \in 1..Len(here.code.actions) /\ ins \in Actions /\ ins.op \in ops
           /\ Len(stack) \in Nat
           /\ here.base \in Nat /\ here.code.height[here.pc] \in Nat
           /\ Len(stack) = here.base + here.code.height[here.pc]
           /\ Needs(ins) <= here.code.height[here.pc]
           /\ \A e \in Effects(ins) :
                  /\ here.pc + e[1] \in 1..End(here.code)
                  /\ here.code.height[here.pc + e[1]] = here.code.height[here.pc] + e[2]
<1>1. /\ status = "running" /\ frames # <<>> /\ here.pc < End(here.code) /\ ins.op \in ops
      /\ frames \in Seq(FrameRecords) /\ stack \in Seq(AllValues)
  BY DEF At, CalculatorInv, TypeOK
<1>2. Len(frames) \in Nat \ {0} /\ Len(frames) \in 1..Len(frames) /\ Len(stack) \in Nat
  BY <1>1, EmptySeq, LenProperties
<1>3. here \in FrameRecords /\ here.code \in Codes /\ here.base \in Nat
  <2>1. here \in FrameRecords
    BY <1>1, <1>2 DEF here
  <2> QED
    BY <2>1 DEF FrameRecords
<1>4. /\ here.pc \in 1..End(here.code)
      /\ Len(stack) = here.base + here.code.height[here.pc]
  BY <1>2 DEF CalculatorInv, Balanced, here
<1>5. here.pc \in 1..Len(here.code.actions) /\ here.code.height[here.pc] \in Nat
  BY <1>1, <1>3, <1>4, CodesTyped
<1> QED
  BY <1>1, <1>2, <1>3, <1>4, <1>5, CodesTyped DEF ins

\* The values below stay.
LEMMA BelowTyped ==
    ASSUME stack \in Seq(AllValues), NEW n \in Nat, n <= Len(stack)
    PROVE  /\ Below(n) \in Seq(AllValues) /\ Len(Below(n)) = Len(stack) - n
           /\ \A i \in 1..(Len(stack) - n) : Below(n)[i] = stack[i]
<1>1. Len(stack) \in Nat /\ \A i \in 1..Len(stack) : stack[i] \in AllValues
  BY LenProperties
<1> DEFINE m == Len(stack) - n
<1>2. m \in Nat /\ \A i \in 1..m : stack[i] \in AllValues
  BY <1>1
<1> HIDE DEF m
<1>3. /\ SubSeq(stack, 1, m) \in Seq(AllValues)
      /\ Len(SubSeq(stack, 1, m)) = IF 1 <= m THEN m - 1 + 1 ELSE 0
      /\ \A i \in 1..(m - 1 + 1) : SubSeq(stack, 1, m)[i] = stack[1 + i - 1]
  BY <1>2, SubSeqProperties
<1>4. Len(SubSeq(stack, 1, m)) = m
  BY <1>2, <1>3
<1>5. \A i \in 1..m : SubSeq(stack, 1, m)[i] = stack[i]
  BY <1>2, <1>3
<1> QED
  BY <1>3, <1>4, <1>5 DEF m, Below

LEMMA TopTyped ==
    ASSUME stack \in Seq(AllValues), Len(stack) > 0
    PROVE  Top \in AllValues
<1>1. Len(stack) \in 1..Len(stack)
  BY LenProperties
<1> QED
  BY <1>1 DEF Top

\* An error resets the stack.
LEMMA Fails == ASSUME CalculatorInv, Fail PROVE CalculatorInv'
<1>1. /\ stack' = <<>> /\ frames' = <<>> /\ status' = "error"
      /\ UNCHANGED <<undefined, dummies, program, stale>>
  BY DEF Fail
<1>2. TypeOK'
  BY <1>1, EmptySeq DEF CalculatorInv, TypeOK
<1>3. frames' \in Seq(FrameRecords) /\ Len(frames') = 0
  BY <1>1, EmptySeq
<1> QED
  BY <1>1, <1>2, <1>3 DEF CalculatorInv, Balanced, Ready

\* An action that moves on inside its code, with its effect on the stack, keeps
\* the invariant.
LEMMA GoesOn ==
    ASSUME CalculatorInv, NEW ops, At(ops), NEW e \in Effects(ins),
           e[1] \in Int, e[2] \in Int,
           frames' = GoOn(e[1]),
           stack' \in Seq(AllValues), Len(stack') = Len(stack) + e[2],
           undefined' \in BOOLEAN, stale' \in BOOLEAN, UNCHANGED <<dummies, status>>
    PROVE  CalculatorInv'
<1> DEFINE gs == [frames EXCEPT ![Len(frames)].pc = @ + e[1]]
<1>1. frames \in Seq(FrameRecords) /\ Balanced(frames, Len(stack))
  BY DEF CalculatorInv
<1>2. frames # <<>> /\ Len(stack) \in Nat /\ status = "running" /\ Len(frames) \in Nat \ {0}
  BY Underway
<1>3. /\ frames[Len(frames)].pc + e[1] \in 1..End(frames[Len(frames)].code)
      /\ frames[Len(frames)].code.height[frames[Len(frames)].pc + e[1]]
             = frames[Len(frames)].code.height[frames[Len(frames)].pc] + e[2]
  BY Underway DEF here
<1>4. /\ gs \in Seq(FrameRecords) /\ Len(gs) = Len(frames) /\ gs # <<>>
      /\ \A k \in 1..Len(frames) : gs[k].base = frames[k].base /\ gs[k].code = frames[k].code
      /\ Balanced(gs, Len(stack) + e[2])
  BY <1>1, <1>2, <1>3, Advanced
<1>5. frames' = gs
  BY DEF GoOn
<1> HIDE DEF gs
<1>6. TypeOK'
  BY <1>2, <1>4, <1>5 DEF CalculatorInv, TypeOK
<1>7. frames'[1].base = 0
  BY <1>2, <1>4, <1>5 DEF CalculatorInv
<1>8. Ready(gs, dummies)
  BY <1>4 DEF CalculatorInv, Ready
<1> QED
  BY <1>2, <1>4, <1>5, <1>6, <1>7, <1>8 DEF CalculatorInv

\* What Effects says of the operators.
LEMMA EffectParts ==
    ASSUME NEW a \in Actions
    PROVE  /\ a.op \in {"push", "pushc", "pushd", "rand"} => <<1, 1>> \in Effects(a)
           /\ a.op \in UnaryOps => <<1, 0>> \in Effects(a) /\ Needs(a) = 1
           /\ a.op \in BinaryOps => <<1, -1>> \in Effects(a) /\ Needs(a) = 2
           /\ a.op \in Bessel => <<1, 0>> \in Effects(a) /\ Needs(a) = 1
           /\ a.op = "call" => <<1, 1 - Arity[a.f]>> \in Effects(a) /\ Needs(a) = Arity[a.f]
           /\ a.op = "jump" => <<a.by, 0>> \in Effects(a) /\ a.by \in Int
           /\ a.op = "jtern" => /\ {<<1, -1>>, <<a.by, -1>>} \subseteq Effects(a)
                                /\ Needs(a) = 1 /\ a.by \in Int
           /\ a.op \in {"jumpz", "jumpnz"} => /\ {<<1, -1>>, <<a.by, 0>>} \subseteq Effects(a)
                                              /\ Needs(a) = 1 /\ a.by \in Int
<1> USE DEF BinaryOps, LogicalOps, BitwiseOps
<1>1. /\ a.op \in {"push", "pushc", "pushd", "rand"} => <<1, 1>> \in Effects(a)
      /\ a.op \in BinaryOps => <<1, -1>> \in Effects(a) /\ Needs(a) = 2
      /\ a.op = "call" => <<1, 1 - Arity[a.f]>> \in Effects(a) /\ Needs(a) = Arity[a.f]
  BY DEF Effects, Needs
<1>2. a.op \in UnaryOps \cup Bessel => <<1, 0>> \in Effects(a) /\ Needs(a) = 1
  BY DEF Effects, Needs, UnaryOps, EntireOps, Bessel
<1>3. a.op \in {"jump", "jtern", "jumpz", "jumpnz"} => a.by \in Int
  BY DEF Actions, UnaryOps, EntireOps, Bessel
<1>4. /\ a.op = "jump" => <<a.by, 0>> \in Effects(a)
      /\ a.op = "jtern" => {<<1, -1>>, <<a.by, -1>>} \subseteq Effects(a) /\ Needs(a) = 1
      /\ a.op \in {"jumpz", "jumpnz"} =>
             {<<1, -1>>, <<a.by, 0>>} \subseteq Effects(a) /\ Needs(a) = 1
  BY DEF Effects, Needs
<1> QED
  BY <1>1, <1>2, <1>3, <1>4

LEMMA NeedsTyped == ASSUME NEW a \in Actions PROVE Needs(a) \in Int
<1>1. CASE a.op = "call"
  <2>1. Needs(a) = Arity[a.f]
    BY <1>1, EffectParts
  <2>2. Arity[a.f] \in 1..4
    BY <1>1, ActionParts, ArityAssumption
  <2> QED
    BY <2>1, <2>2
<1>2. CASE a.op # "call"
  BY <1>2 DEF Needs
<1> QED
  BY <1>1, <1>2

\* What the caller of the code underway has on the stack.
Kept ==
    /\ Len(stack') >= here.base
    /\ SubSeq(stack', 1, here.base) = SubSeq(stack, 1, here.base)

\* The same values up to some height.
LEMMA SamePrefix ==
    ASSUME NEW s \in Seq(AllValues), NEW t \in Seq(AllValues), NEW b \in Nat,
           b <= Len(s), b <= Len(t), \A i \in 1..b : s[i] = t[i]
    PROVE  SubSeq(s, 1, b) = SubSeq(t, 1, b)
<1>1. \A i \in 1..b : s[i] \in AllValues /\ t[i] \in AllValues
  BY LenProperties
<1>2. /\ SubSeq(s, 1, b) \in Seq(AllValues)
      /\ Len(SubSeq(s, 1, b)) = IF 1 <= b THEN b - 1 + 1 ELSE 0
      /\ \A i \in 1..(b - 1 + 1) : SubSeq(s, 1, b)[i] = s[1 + i - 1]
  BY <1>1, SubSeqProperties
<1>3. /\ SubSeq(t, 1, b) \in Seq(AllValues)
      /\ Len(SubSeq(t, 1, b)) = IF 1 <= b THEN b - 1 + 1 ELSE 0
      /\ \A i \in 1..(b - 1 + 1) : SubSeq(t, 1, b)[i] = t[1 + i - 1]
  BY <1>1, SubSeqProperties
<1>4. Len(SubSeq(s, 1, b)) = b /\ Len(SubSeq(t, 1, b)) = b
  BY <1>2, <1>3
<1>5. \A i \in 1..b : SubSeq(s, 1, b)[i] = s[i] /\ SubSeq(t, 1, b)[i] = t[i]
  BY <1>2, <1>3
<1> QED
  BY <1>2, <1>3, <1>4, <1>5, SeqEqual

\* The values that an action needs are above those of the caller.
LEMMA Keeps ==
    ASSUME CalculatorInv, NEW ops, At(ops), NEW n \in Nat, n <= Needs(ins),
           stack' \in Seq(AllValues), Len(stack') \in Nat, Len(stack') >= Len(stack) - n,
           \A i \in 1..(Len(stack) - n) : stack'[i] = stack[i]
    PROVE  Kept
<1>1. /\ Len(stack) \in Nat /\ here.base \in Nat /\ here.code.height[here.pc] \in Nat
      /\ Len(stack) = here.base + here.code.height[here.pc]
      /\ Needs(ins) <= here.code.height[here.pc]
      /\ stack \in Seq(AllValues)
  BY Underway DEF CalculatorInv, TypeOK
<1>2. Needs(ins) \in Int
  BY NeedsTyped, Underway
<1>3. here.base <= Len(stack) - n
  BY <1>1, <1>2
<1>4. /\ here.base <= Len(stack) /\ here.base <= Len(stack')
      /\ \A i \in 1..here.base : stack'[i] = stack[i]
  BY <1>1, <1>3
<1>5. SubSeq(stack', 1, here.base) = SubSeq(stack, 1, here.base)
  BY <1>1, <1>4, SamePrefix
<1> QED
  BY <1>4, <1>5 DEF Kept

\* Nothing below the top is of the caller.
LEMMA Taken ==
    ASSUME CalculatorInv, NEW ops, At(ops), NEW n \in Nat, n <= Needs(ins)
    PROVE  /\ n <= Len(stack) /\ Len(stack) \in Nat
           /\ Below(n) \in Seq(AllValues) /\ Len(Below(n)) = Len(stack) - n
           /\ \A i \in 1..(Len(stack) - n) : Below(n)[i] = stack[i]
<1>1. Needs(ins) \in Int
  BY NeedsTyped, Underway
<1>2. n <= Len(stack) /\ Len(stack) \in Nat
  BY <1>1, Underway
<1>3. stack \in Seq(AllValues)
  BY DEF CalculatorInv, TypeOK
<1> QED
  BY <1>2, <1>3, BelowTyped

\* An action that pops n values and pushes one.
LEMMA Gives ==
    ASSUME CalculatorInv, NEW ops, At(ops), NEW n \in Nat, n <= Needs(ins),
           <<1, 1 - n>> \in Effects(ins), NEW v \in AllValues,
           frames' = GoOn(1), stack' = Append(Below(n), v),
           undefined' \in BOOLEAN, stale' \in BOOLEAN, UNCHANGED <<dummies, status>>
    PROVE  CalculatorInv' /\ Kept
<1>1. /\ n <= Len(stack) /\ Len(stack) \in Nat
      /\ Below(n) \in Seq(AllValues) /\ Len(Below(n)) = Len(stack) - n
      /\ \A i \in 1..(Len(stack) - n) : Below(n)[i] = stack[i]
  BY Taken
<1>2. /\ stack' \in Seq(AllValues) /\ Len(stack') = Len(stack) - n + 1
      /\ \A i \in 1..(Len(stack) - n) : stack'[i] = Below(n)[i]
  BY <1>1, AppendProperties
<1>3. \A i \in 1..(Len(stack) - n) : stack'[i] = stack[i]
  BY <1>1, <1>2
<1>4. Len(stack') \in Nat /\ Len(stack') >= Len(stack) - n /\ Len(stack') = Len(stack) + (1 - n)
  BY <1>1, <1>2
<1>5. Kept
  BY <1>2, <1>3, <1>4, Keeps
<1>6. CalculatorInv'
  <2> DEFINE e == <<1, 1 - n>>
  <2>1. e[1] = 1 /\ e[2] = 1 - n /\ e[1] \in Int /\ e[2] \in Int /\ e \in Effects(ins)
    OBVIOUS
  <2> HIDE DEF e
  <2> QED
    BY <1>2, <1>4, <2>1, GoesOn
<1> QED
  BY <1>5, <1>6

\* A jump, that pops n values.
LEMMA Jumps ==
    ASSUME CalculatorInv, NEW ops, At(ops), NEW n \in Nat, n <= Needs(ins), NEW by \in Int,
           NEW m \in Int, m + n = 0, <<by, m>> \in Effects(ins), Goto(Below(n), by)
    PROVE  CalculatorInv' /\ Kept
<1>1. /\ n <= Len(stack) /\ Len(stack) \in Nat
      /\ Below(n) \in Seq(AllValues) /\ Len(Below(n)) = Len(stack) - n
      /\ \A i \in 1..(Len(stack) - n) : Below(n)[i] = stack[i]
  BY Taken
<1>2. /\ stack' = Below(n) /\ frames' = GoOn(by)
      /\ UNCHANGED <<undefined, dummies, status, program, stale>>
      /\ undefined \in BOOLEAN /\ stale \in BOOLEAN
  BY DEF Goto, CalculatorInv, TypeOK
<1>3. /\ stack' \in Seq(AllValues) /\ Len(stack') = Len(stack) - n /\ Len(stack') \in Nat
      /\ Len(stack') = Len(stack) + m
      /\ \A i \in 1..(Len(stack) - n) : stack'[i] = stack[i]
  BY <1>1, <1>2
<1>4. Kept
  <2>1. Len(stack') >= Len(stack) - n
    BY <1>1, <1>3
  <2> QED
    BY <1>3, <2>1, Keeps
<1>5. CalculatorInv'
  <2> DEFINE e == <<by, m>>
  <2>1. e[1] = by /\ e[2] = m /\ e[1] \in Int /\ e[2] \in Int /\ e \in Effects(ins)
    OBVIOUS
  <2> HIDE DEF e
  <2> QED
    BY <1>2, <1>3, <2>1, GoesOn
<1> QED
  BY <1>4, <1>5

LEMMA BelowNone == ASSUME CalculatorInv PROVE Below(0) = stack
<1>1. stack \in Seq(AllValues) /\ Len(stack) - 0 = Len(stack)
  BY LenProperties DEF CalculatorInv, TypeOK
<1> QED
  BY <1>1, SubSeqFull DEF Below

\* A value is pushed.
LEMMA Pushes ==
    ASSUME CalculatorInv, NEW ops, At(ops), <<1, 1>> \in Effects(ins), NEW v \in AllValues,
           frames' = GoOn(1), stack' = Append(stack, v),
           undefined' \in BOOLEAN, stale' \in BOOLEAN, UNCHANGED <<dummies, status>>
    PROVE  CalculatorInv' /\ Kept
<1>1. stack' = Append(Below(0), v)
  BY BelowNone
<1>2. 1 - 0 = 1 /\ 0 \in Nat
  OBVIOUS
<1>3. 0 <= Needs(ins)
  <2>1. ins \in Actions
    BY Underway
  <2>2. ins.op = "call" => Arity[ins.f] \in 1..4
    BY <2>1, ActionParts, ArityAssumption
  <2> QED
    BY <2>2 DEF Needs
<1>4. <<1, 1 - 0>> \in Effects(ins)
  BY <1>2
<1> QED
  BY <1>1, <1>2, <1>3, <1>4, Gives

\* An operator applied: its outcome replaces its operands.
LEMMA Operates ==
    ASSUME CalculatorInv, NEW ops, At(ops), NEW n \in Nat, n = Needs(ins),
           <<1, 1 - n>> \in Effects(ins), NEW outcomes \in SUBSET Outcome,
           Operate(outcomes, n)
    PROVE  CalculatorInv' /\ (status' # "error" => Kept)
<1>1. CASE outcomes = {}
  <2>1. Fail
    BY <1>1 DEF Operate
  <2> QED
    BY <2>1, Fails DEF Fail
<1>2. CASE outcomes # {}
  <2>1. PICK o \in outcomes : /\ stack' = Append(Below(n), o.value)
                              /\ undefined' = (undefined \/ o.undefined)
                              /\ frames' = GoOn(1)
                              /\ UNCHANGED <<dummies, status, program, stale>>
    BY <1>2 DEF Operate
  <2>2. o.value \in AllValues /\ o.undefined \in BOOLEAN
    BY DEF Outcome
  <2>3. undefined' \in BOOLEAN /\ stale' \in BOOLEAN
    BY <2>1, <2>2 DEF CalculatorInv, TypeOK
  <2>4. n <= Needs(ins)
    OBVIOUS
  <2> QED
    BY <2>1, <2>2, <2>3, <2>4, Gives
<1> QED
  BY <1>1, <1>2

LEMMA PushKeeps ==
    ASSUME CalculatorInv, Push \/ PushConstant
    PROVE  CalculatorInv' /\ (status' # "error" => Kept)
<1>1. CASE Push
  <2>1. At({"push"}) /\ ins \in Actions /\ ins.op = "push"
    BY <1>1, Underway DEF Push
  <2>2. CASE ValueOf[ins.name] = NoValue
    BY <1>1, <2>2, Fails DEF Push, Fail
  <2>3. CASE ValueOf[ins.name] # NoValue
    <3>1. ValueOf[ins.name] \in AllValues
      BY <2>1, <2>3, ActionParts, VariablesAssumption
    <3>2. <<1, 1>> \in Effects(ins)
      BY <2>1, EffectParts
    <3>3. /\ stack' = Append(stack, ValueOf[ins.name]) /\ frames' = GoOn(1)
          /\ UNCHANGED <<dummies, status>> /\ undefined' \in BOOLEAN /\ stale' \in BOOLEAN
      BY <1>1, <2>3 DEF Push, Give, CalculatorInv, TypeOK
    <3> QED
      BY <2>1, <3>1, <3>2, <3>3, Pushes
  <2> QED
    BY <2>2, <2>3
<1>2. CASE PushConstant
  <2>1. At({"pushc"}) /\ ins \in Actions /\ ins.op = "pushc"
    BY <1>2, Underway DEF PushConstant
  <2>2. ins.v \in AllValues /\ <<1, 1>> \in Effects(ins)
    BY <2>1, ActionParts, EffectParts
  <2>3. /\ stack' = Append(stack, ins.v) /\ frames' = GoOn(1)
        /\ UNCHANGED <<dummies, status>> /\ undefined' \in BOOLEAN /\ stale' \in BOOLEAN
    BY <1>2 DEF PushConstant, Give, CalculatorInv, TypeOK
  <2> QED
    BY <2>1, <2>2, <2>3, Pushes
<1> QED
  BY <1>1, <1>2

LEMMA PushDummyKeeps == ASSUME CalculatorInv, PushDummy PROVE CalculatorInv' /\ Kept
<1>1. At({"pushd"}) /\ ins \in Actions /\ ins.op = "pushd"
  BY Underway DEF PushDummy
<1>2. <<1, 1>> \in Effects(ins)
  BY <1>1, EffectParts
<1>3. dummies[ins.f][ins.i] \in AllValues
  <2>1. here.pc \in 1..Len(here.code.actions) /\ Len(frames) \in 1..Len(frames)
    BY <1>1, Underway
  <2> QED
    BY <1>1, <2>1 DEF CalculatorInv, Ready, here, ins
<1>4. /\ stack' = Append(stack, dummies[ins.f][ins.i]) /\ frames' = GoOn(1)
      /\ UNCHANGED <<dummies, status>> /\ undefined' \in BOOLEAN
  BY DEF PushDummy, CalculatorInv, TypeOK
<1>5. stale' \in BOOLEAN
  BY DEF PushDummy, CalculatorInv, TypeOK
<1> QED
  BY <1>1, <1>2, <1>3, <1>4, <1>5, Pushes

LEMMA ApplyKeeps ==
    ASSUME CalculatorInv, ApplyUnary \/ ApplyBinary \/ PushRandom
    PROVE  CalculatorInv' /\ (status' # "error" => Kept)
<1>1. CASE ApplyUnary
  <2>1. At(UnaryOps) /\ ins \in Actions /\ ins.op \in UnaryOps
    BY <1>1, Underway DEF ApplyUnary
  <2>2. <<1, 1 - 1>> \in Effects(ins) /\ Needs(ins) = 1
    <3>1. 1 - 1 = 0
      OBVIOUS
    <3>2. <<1, 0>> \in Effects(ins) /\ Needs(ins) = 1
      BY <2>1, EffectParts
    <3> QED
      BY <3>1, <3>2
  <2>3. Top \in AllValues
    <3>1. Len(stack) > 0
      BY <2>1, <2>2, Underway
    <3> QED
      BY <3>1, TopTyped DEF CalculatorInv, TypeOK
  <2>4. Unary(ins.op, Top) \in SUBSET Outcome
    BY <2>1, <2>3, UnaryTyped
  <2> QED
    BY <1>1, <2>1, <2>2, <2>4, Operates DEF ApplyUnary
<1>2. CASE ApplyBinary
  <2>1. At(BinaryOps) /\ ins \in Actions /\ ins.op \in BinaryOps
    BY <1>2, Underway DEF ApplyBinary
  <2>2. <<1, 1 - 2>> \in Effects(ins) /\ Needs(ins) = 2
    <3>1. 1 - 2 = -1
      OBVIOUS
    <3>2. <<1, -1>> \in Effects(ins) /\ Needs(ins) = 2
      BY <2>1, EffectParts
    <3> QED
      BY <3>1, <3>2
  <2>3. stack \in Seq(AllValues) /\ Len(stack) \in Nat /\ Len(stack) >= 2
    <3>1. stack \in Seq(AllValues)
      BY DEF CalculatorInv, TypeOK
    <3> QED
      BY <2>1, <2>2, <3>1, Underway
  <2>4. Top \in AllValues /\ stack[Len(stack) - 1] \in AllValues
    <3>1. Len(stack) - 1 \in 1..Len(stack)
      BY <2>3
    <3> QED
      BY <2>3, <3>1, TopTyped
  <2>5. Binary(ins.op, stack[Len(stack) - 1], Top) \in SUBSET Outcome
    BY <2>1, <2>4, BinaryTyped
  <2> QED
    BY <1>2, <2>1, <2>2, <2>5, Operates DEF ApplyBinary
<1>3. CASE PushRandom
  <2>1. At({"rand"}) /\ ins \in Actions /\ ins.op = "rand"
    BY <1>3, Underway DEF PushRandom
  <2>2. <<1, 1 - 0>> \in Effects(ins) /\ Needs(ins) = 0
    <3>1. 1 - 0 = 1
      OBVIOUS
    <3>2. <<1, 1>> \in Effects(ins)
      BY <2>1, EffectParts
    <3>3. Needs(ins) = 0
      BY <2>1 DEF Needs, BinaryOps, LogicalOps, BitwiseOps
    <3> QED
      BY <3>1, <3>2, <3>3
  <2>3. Rand \in SUBSET Outcome
    BY RandTyped
  <2> QED
    BY <1>3, <2>1, <2>2, <2>3, Operates DEF PushRandom
<1> QED
  BY <1>1, <1>2, <1>3

LEMMA JumpKeeps ==
    ASSUME CalculatorInv, Jump \/ JumpZero \/ JumpNonZero \/ JumpTernary
    PROVE  CalculatorInv' /\ (status' # "error" => Kept)
<1>1. /\ ins \in Actions
      /\ ins.op \in {"jump", "jumpz", "jumpnz", "jtern"} /\ At({ins.op})
      /\ \/ ins.op = "jump" /\ Goto(stack, ins.by)
         \/ ins.op \in {"jumpz", "jumpnz"} /\ Fail
         \/ ins.op \in {"jumpz", "jumpnz"} /\ Goto(stack, ins.by)
         \/ ins.op \in {"jumpz", "jumpnz"} /\ Goto(Below(1), 1)
         \/ ins.op = "jtern" /\ Fail
         \/ ins.op = "jtern" /\ \E by \in {1, ins.by} : Goto(Below(1), by)
  <2>1. CASE Jump
    BY <2>1, Underway DEF Jump, At
  <2>2. CASE JumpZero
    BY <2>2, Underway DEF JumpZero, At
  <2>3. CASE JumpNonZero
    BY <2>3, Underway DEF JumpNonZero, At
  <2>4. CASE JumpTernary
    <3>1. At({"jtern"}) /\ ins.op = "jtern" /\ ins \in Actions
      BY <2>4, Underway DEF JumpTernary
    <3>2. Fail \/ \E by \in {1, ins.by} : Goto(Below(1), by)
      BY <2>4 DEF JumpTernary
    <3> QED
      BY <3>1, <3>2
  <2> QED
    BY <2>1, <2>2, <2>3, <2>4
<1>2. ins.by \in Int
  <2>1. ins.op = "jump" \/ ins.op = "jtern" \/ ins.op \in {"jumpz", "jumpnz"}
    BY <1>1
  <2> QED
    BY <1>1, <2>1, EffectParts
<1>3. CASE Fail
  BY <1>3, Fails DEF Fail
<1>4. CASE Goto(stack, ins.by) /\ ins.op \in {"jump", "jumpz", "jumpnz"}
  <2>1. <<ins.by, 0>> \in Effects(ins)
    BY <1>1, <1>4, EffectParts
  <2>2. 0 <= Needs(ins)
    BY <1>1, <1>4, EffectParts DEF Needs
  <2>3. Goto(Below(0), ins.by)
    BY <1>4, BelowNone
  <2> QED
    BY <1>1, <1>2, <2>1, <2>2, <2>3, Jumps
<1>5. CASE Goto(Below(1), 1) /\ ins.op \in {"jumpz", "jumpnz", "jtern"}
  <2>1. <<1, -1>> \in Effects(ins) /\ Needs(ins) = 1
    BY <1>1, <1>5, EffectParts
  <2> QED
    BY <1>1, <1>2, <1>5, <2>1, Jumps
<1>6. CASE Goto(Below(1), ins.by) /\ ins.op = "jtern"
  <2>1. <<ins.by, -1>> \in Effects(ins) /\ Needs(ins) = 1
    BY <1>1, <1>6, EffectParts
  <2> QED
    BY <1>1, <1>2, <1>6, <2>1, Jumps
<1> QED
  BY <1>1, <1>3, <1>4, <1>5, <1>6

\* Code is entered, from the action of other code.
LEMMA Enters ==
    ASSUME CalculatorInv, NEW ops, At(ops), NEW n \in Nat, n = Needs(ins),
           NEW h \in Nat, h <= n, <<1, 1 - n>> \in Effects(ins),
           NEW code \in Codes, Typed(code, h), NEW args \in ArgTuples,
           frames' = Append(GoOn(1), Frame(code, Len(stack) - n, args)),
           stack' \in Seq(AllValues), Len(stack') = Len(stack) - n + h,
           UNCHANGED <<undefined, status, stale>>,
           dummies' \in [Functions -> [1..4 -> AllValues \cup {NoValue}]],
           \A f \in Functions : \A i \in 1..4 :
               dummies[f][i] \in AllValues => dummies'[f][i] \in AllValues,
           \A i \in 1..Len(code.actions) : code.actions[i].op = "pushd" =>
               dummies'[code.actions[i].f][code.actions[i].i] \in AllValues
    PROVE  CalculatorInv'
<1> DEFINE gs == [frames EXCEPT ![Len(frames)].pc = @ + 1]
           base == Len(stack) - n
           hs == Append(gs, Frame(code, base, args))
<1>1. frames \in Seq(FrameRecords) /\ Balanced(frames, Len(stack))
  BY DEF CalculatorInv
<1>2. frames # <<>> /\ Len(stack) \in Nat /\ status = "running" /\ Len(frames) \in Nat \ {0}
  BY Underway
<1>3. n <= Len(stack) /\ base \in Nat
  <2>1. n <= Needs(ins)
    OBVIOUS
  <2>2. n <= Len(stack)
    BY <2>1, Taken
  <2> QED
    BY <1>2, <2>2
<1>4. /\ frames[Len(frames)].pc + 1 \in 1..End(frames[Len(frames)].code)
      /\ frames[Len(frames)].code.height[frames[Len(frames)].pc + 1]
             = frames[Len(frames)].code.height[frames[Len(frames)].pc] + (1 - n)
  <2> DEFINE e == <<1, 1 - n>>
  <2>1. e \in Effects(ins) /\ e[1] = 1 /\ e[2] = 1 - n
    OBVIOUS
  <2> HIDE DEF e
  <2> QED
    BY <2>1, Underway DEF here
<1>5. /\ gs \in Seq(FrameRecords) /\ Len(gs) = Len(frames) /\ gs # <<>>
      /\ \A k \in 1..Len(frames) : gs[k].base = frames[k].base /\ gs[k].code = frames[k].code
      /\ Balanced(gs, Len(stack) + (1 - n))
  <2>1. 1 \in Int /\ 1 - n \in Int
    OBVIOUS
  <2> QED
    BY <1>1, <1>2, <1>4, <2>1, Advanced
<1>6. frames' = hs
  BY DEF GoOn
<1> HIDE DEF gs
<1>7. Balanced(gs, base + 1)
  <2>1. Len(stack) + (1 - n) = base + 1
    BY <1>2
  <2> QED
    BY <1>5, <2>1
<1> HIDE DEF base
<1>8. /\ hs \in Seq(FrameRecords) /\ Len(hs) = Len(gs) + 1 /\ hs # <<>>
      /\ hs[Len(gs) + 1].code = code /\ hs[Len(gs) + 1].base = base
      /\ \A k \in 1..Len(gs) : hs[k] = gs[k]
      /\ Balanced(hs, base + h)
  BY <1>3, <1>5, <1>7, Entered
<1> HIDE DEF hs
<1>9. Len(stack') = base + h
  BY DEF base
<1>10. TypeOK'
  BY <1>2, <1>6, <1>8 DEF CalculatorInv, TypeOK
<1>11. hs[1].base = 0
  <2>1. 1 \in 1..Len(frames) /\ frames[1].base = 0
    BY <1>2 DEF CalculatorInv
  <2> QED
    BY <1>5, <1>8, <2>1
<1>12. ASSUME NEW k \in 1..Len(hs), NEW i \in 1..Len(hs[k].code.actions),
              hs[k].code.actions[i].op = "pushd"
       PROVE  dummies'[hs[k].code.actions[i].f][hs[k].code.actions[i].i] \in AllValues
  <2>1. CASE k = Len(gs) + 1
    BY <1>8, <1>12, <2>1
  <2>2. CASE k \in 1..Len(frames)
    <3>1. hs[k].code = frames[k].code /\ frames[k].code \in Codes
      <4>1. frames[k] \in FrameRecords
        BY <1>1, <2>2
      <4> QED
        BY <1>5, <1>8, <2>2, <4>1 DEF FrameRecords
    <3>2. /\ frames[k].code.actions[i] \in Actions
          /\ frames[k].code.actions[i].op = "pushd"
      BY <1>12, <3>1, CodesTyped
    <3>3. dummies[frames[k].code.actions[i].f][frames[k].code.actions[i].i] \in AllValues
      BY <1>12, <2>2, <3>1, <3>2 DEF CalculatorInv, Ready
    <3>4. /\ frames[k].code.actions[i].f \in Functions
          /\ frames[k].code.actions[i].i \in 1..4
      BY <3>2, ActionParts
    <3> QED
      BY <3>1, <3>3, <3>4
  <2> QED
    BY <1>2, <1>5, <1>8, <2>1, <2>2
<1>13. Ready(hs, dummies')
  BY <1>12 DEF Ready
<1> QED
  BY <1>2, <1>6, <1>8, <1>9, <1>10, <1>11, <1>13 DEF CalculatorInv

LEMMA CallKeeps == ASSUME CalculatorInv, Call PROVE CalculatorInv' /\ (status' # "error" => Kept)
<1> DEFINE f == ins.f
           n == Arity[f]
           args == Popped(f, n)
<1>1. At({"call"}) /\ ins \in Actions /\ ins.op = "call" /\ f \in Functions
  BY Underway, ActionParts DEF Call
<1>2. n \in 1..4 /\ n \in Nat /\ n = Needs(ins) /\ <<1, 1 - n>> \in Effects(ins)
  <2>1. n \in 1..4
    BY <1>1, ArityAssumption
  <2>2. <<1, 1 - n>> \in Effects(ins) /\ Needs(ins) = n
    BY <1>1, EffectParts
  <2> QED
    BY <2>1, <2>2
<1>3. CASE Code[f] = NoCode
  <2>1. Fail
    BY <1>3 DEF Call
  <2> QED
    BY <2>1, Fails DEF Fail
<1>4. CASE Code[f] # NoCode
  <2>1. /\ stack' = Below(n) /\ dummies' = [dummies EXCEPT ![f] = args]
        /\ frames' = Append(GoOn(1), Frame(Code[f], Len(stack) - n, args))
        /\ UNCHANGED <<undefined, status, program, stale>>
    BY <1>4 DEF Call
  <2>2. /\ n <= Len(stack) /\ Len(stack) \in Nat
        /\ Below(n) \in Seq(AllValues) /\ Len(Below(n)) = Len(stack) - n
        /\ \A i \in 1..(Len(stack) - n) : Below(n)[i] = stack[i]
    <3>1. n <= Needs(ins) /\ n \in Nat
      BY <1>2
    <3> HIDE DEF n, f, args
    <3> QED
      BY <1>1, <3>1, Taken
  <2>3. dummies \in [Functions -> [1..4 -> AllValues \cup {NoValue}]] /\ stack \in Seq(AllValues)
    BY DEF CalculatorInv, TypeOK
  <2>4. /\ args \in [1..4 -> AllValues \cup {NoValue}]
        /\ \A i \in 1..4 : i <= n => args[i] \in AllValues
        /\ \A i \in 1..4 : i > n => args[i] = dummies[f][i]
    <3>1. ASSUME NEW i \in 1..4, i <= n
          PROVE  stack[Len(stack) - n + i] \in AllValues
      <4>1. Len(stack) - n + i \in 1..Len(stack)
        BY <1>2, <2>2, <3>1
      <4> QED
        BY <2>3, <4>1
    <3>2. ASSUME NEW i \in 1..4 PROVE dummies[f][i] \in AllValues \cup {NoValue}
      BY <1>1, <2>3
    <3> HIDE DEF n, f
    <3> QED
      BY <1>2, <3>1, <3>2 DEF Popped
  <2>5. Code[f] \in Codes /\ Typed(Code[f], 0) /\ Reads(Code[f], {f})
    BY <1>1, <1>4, CodeAssumption DEF Codes
  <2> HIDE DEF args, n, f
  <2>6. dummies' \in [Functions -> [1..4 -> AllValues \cup {NoValue}]]
    BY <2>1, <2>3, <2>4
  <2>7. ASSUME NEW g \in Functions, NEW i \in 1..4, dummies[g][i] \in AllValues
        PROVE  dummies'[g][i] \in AllValues
    <3>1. CASE g # f
      BY <2>1, <2>3, <2>7, <3>1
    <3>2. CASE g = f
      <4>1. dummies'[g] = args
        BY <1>1, <2>1, <2>3, <3>2
      <4> QED
        BY <1>2, <2>4, <2>7, <3>2, <4>1
    <3> QED
      BY <3>1, <3>2
  <2>8. ASSUME NEW i \in 1..Len(Code[f].actions), Code[f].actions[i].op = "pushd"
        PROVE  dummies'[Code[f].actions[i].f][Code[f].actions[i].i] \in AllValues
    <3>1. /\ Code[f].actions[i].f = f /\ Code[f].actions[i].i <= n
          /\ Code[f].actions[i].i \in 1..4
      <4>1. Code[f].actions[i].f = f /\ Code[f].actions[i].i <= Arity[f]
        BY <2>5, <2>8 DEF Reads
      <4>2. Code[f].actions[i] \in Actions
        BY <2>5, CodesTyped
      <4>3. Code[f].actions[i].i \in 1..4
        BY <2>8, <4>2, ActionParts
      <4> QED
        BY <4>1, <4>3 DEF n
    <3>2. dummies'[f] = args
      BY <1>1, <2>1, <2>3
    <3> QED
      BY <2>4, <3>1, <3>2
  <2>9. args \in ArgTuples
    BY <2>4 DEF ArgTuples
  <2>10. stack' \in Seq(AllValues) /\ Len(stack') = Len(stack) - n + 0 /\ 0 \in Nat /\ 0 <= n
    BY <1>2, <2>1, <2>2
  <2>11. CalculatorInv'
    BY <1>1, <1>2, <2>1, <2>5, <2>6, <2>7, <2>8, <2>9, <2>10, Enters
  <2>12. Kept
    <3>1. /\ n <= Needs(ins) /\ Len(stack') \in Nat /\ Len(stack') >= Len(stack) - n
          /\ \A i \in 1..(Len(stack) - n) : stack'[i] = stack[i]
      BY <1>2, <2>1, <2>2
    <3> QED
      BY <1>1, <1>2, <2>10, <3>1, Keeps
  <2> QED
    BY <2>11, <2>12
<1> QED
  BY <1>3, <1>4

LEMMA BesselKeeps == ASSUME CalculatorInv, ApplyBessel PROVE CalculatorInv' /\ Kept
<1> DEFINE code == BesselCode(ins.op, Top)
<1>1. At(Bessel) /\ ins \in Actions /\ ins.op \in Bessel
  BY Underway DEF ApplyBessel
<1>2. <<1, 1 - 1>> \in Effects(ins) /\ Needs(ins) = 1
  <2>1. 1 - 1 = 0
    OBVIOUS
  <2> QED
    BY <1>1, <2>1, EffectParts
<1>3. stack \in Seq(AllValues) /\ Len(stack) \in Nat /\ Len(stack) > 0
  <2>1. stack \in Seq(AllValues)
    BY DEF CalculatorInv, TypeOK
  <2>2. Len(stack) \in Nat /\ 1 <= Len(stack)
    BY <1>1, <1>2, Taken
  <2> QED
    BY <2>1, <2>2
<1>4. code \in Codes /\ Typed(code, 1) /\ Reads(code, {})
  <2>1. Top \in AllValues
    BY <1>3, TopTyped
  <2> QED
    BY <1>1, <2>1, BesselTyped DEF Codes
<1>5. /\ frames' = Append(GoOn(1), Frame(code, Len(stack) - 1, <<>>))
      /\ UNCHANGED <<stack, undefined, dummies, program, status, stale>>
  BY DEF ApplyBessel
<1> HIDE DEF code
<1>6. \A i \in 1..Len(code.actions) : code.actions[i].op # "pushd"
  BY <1>4 DEF Reads
<1>7. dummies' \in [Functions -> [1..4 -> AllValues \cup {NoValue}]]
  BY <1>5 DEF CalculatorInv, TypeOK
<1>8. stack' \in Seq(AllValues) /\ Len(stack') = Len(stack) - 1 + 1 /\ <<>> \in ArgTuples
  BY <1>3, <1>5 DEF ArgTuples
<1>9. CalculatorInv'
  <2>1. \A f \in Functions : \A i \in 1..4 :
            dummies[f][i] \in AllValues => dummies'[f][i] \in AllValues
    BY <1>5
  <2> QED
    BY <1>1, <1>2, <1>4, <1>5, <1>6, <1>7, <1>8, <2>1, Enters
<1>10. Kept
  <2>1. here.base <= Len(stack) /\ here.base \in Nat
    BY <1>1, Underway
  <2> QED
    BY <1>5, <2>1 DEF Kept
<1> QED
  BY <1>9, <1>10

LEMMA ReturnKeeps == ASSUME CalculatorInv, Return PROVE CalculatorInv' /\ Kept
<1> DEFINE gs == SubSeq(frames, 1, Len(frames) - 1)
<1>1. /\ status = "running" /\ frames # <<>> /\ here.pc = End(here.code) /\ frames' = gs
      /\ status' = IF Len(frames) = 1 THEN "done" ELSE "running"
      /\ UNCHANGED <<stack, undefined, dummies, program, stale>>
  BY DEF Return
<1>2. /\ frames \in Seq(FrameRecords) /\ Balanced(frames, Len(stack)) /\ TypeOK
      /\ stack \in Seq(AllValues) /\ Len(stack) \in Nat /\ Len(frames) \in Nat \ {0}
      /\ frames[1].base = 0
  BY <1>1, EmptySeq, LenProperties DEF CalculatorInv, TypeOK
<1>3. /\ gs \in Seq(FrameRecords) /\ Len(gs) = Len(frames) - 1
      /\ \A k \in 1..Len(gs) : gs[k] = frames[k]
      /\ Len(stack) = here.base + 1
      /\ Balanced(gs, Len(stack))
  BY <1>1, <1>2, LeftBalanced DEF here
<1> HIDE DEF gs
<1>4. here.base \in Nat
  <2>1. here \in FrameRecords
    BY <1>2 DEF here
  <2> QED
    BY <2>1 DEF FrameRecords
<1>5. Kept
  BY <1>1, <1>3, <1>4 DEF Kept
<1>6. Ready(gs, dummies)
  <2>1. \A k \in 1..Len(gs) : k \in 1..Len(frames)
    BY <1>2, <1>3
  <2> QED
    BY <1>3, <2>1 DEF CalculatorInv, Ready
<1>7. CASE Len(frames) = 1
  <2>1. Len(gs) = 0 /\ gs = <<>> /\ Len(stack) = 1 /\ status' = "done"
    <3>1. here.base = 0 /\ Len(gs) = 0
      BY <1>2, <1>3, <1>7 DEF here
    <3> QED
      BY <1>1, <1>3, <1>7, <3>1, EmptySeq
  <2> QED
    BY <1>1, <1>2, <1>3, <1>5, <1>6, <2>1 DEF CalculatorInv, TypeOK
<1>8. CASE Len(frames) # 1
  <2>1. Len(gs) > 0 /\ gs # <<>> /\ gs[1].base = 0 /\ status' = "running"
    BY <1>1, <1>2, <1>3, <1>8
  <2> QED
    BY <1>1, <1>2, <1>3, <1>5, <1>6, <2>1 DEF CalculatorInv, TypeOK
<1> QED
  BY <1>7, <1>8

-----------------------------------------------------------------------------
(* The theorems about the specification. *)

\* An evaluation starts with an empty stack and the program's code.
\* (archive/o/internal.c:29-32)
LEMMA CalculatorStarts == Init => CalculatorInv
<1> SUFFICES ASSUME Init PROVE CalculatorInv
  OBVIOUS
<1>1. /\ stack = <<>> /\ undefined = FALSE /\ status = "running" /\ stale = FALSE
      /\ dummies = [f \in Functions |-> <<NoValue, NoValue, NoValue, NoValue>>]
      /\ program \in Programs /\ frames = <<Frame(program, 0, <<>>)>>
  BY DEF Init
<1>2. program \in Codes /\ Typed(program, 0) /\ Reads(program, {}) /\ <<>> \in ArgTuples
  BY <1>1, ProgramsAssumption DEF Codes, ArgTuples
<1>3. frames = Append(<<>>, Frame(program, 0, <<>>))
  BY <1>1
<1>4. <<>> \in Seq(FrameRecords) /\ Len(<<>>) = 0 /\ stack \in Seq(AllValues) /\ Len(stack) = 0
  BY <1>1, EmptySeq
<1>5. Balanced(<<>>, 0 + 1)
  BY <1>4 DEF Balanced
<1>6. /\ frames \in Seq(FrameRecords) /\ Len(frames) = 1 /\ frames # <<>>
      /\ frames[1].code = program /\ frames[1].base = 0
      /\ Balanced(frames, 0)
  <2> DEFINE fs == <<>>
             zero == 0
             args == <<>>
  <2>1. fs \in Seq(FrameRecords) /\ Len(fs) = 0 /\ Balanced(fs, zero + 1)
    BY <1>4, <1>5
  <2>2. frames = Append(fs, Frame(program, zero, args))
    BY <1>3
  <2>3. zero \in Nat /\ Typed(program, zero) /\ args \in ArgTuples /\ program \in Codes
    BY <1>2
  <2> HIDE DEF fs, zero, args
  <2> DEFINE gs == Append(fs, Frame(program, zero, args))
  <2>4. /\ gs \in Seq(FrameRecords) /\ Len(gs) = Len(fs) + 1 /\ gs # <<>>
        /\ gs[Len(fs) + 1].code = program /\ gs[Len(fs) + 1].base = zero
        /\ \A k \in 1..Len(fs) : gs[k] = fs[k]
        /\ Balanced(gs, zero + zero)
    BY <2>1, <2>3, Entered
  <2> HIDE DEF gs
  <2>5. Len(fs) + 1 = 1 /\ zero + zero = 0 /\ zero = 0
    BY <2>1 DEF zero
  <2> QED
    BY <2>2, <2>4, <2>5 DEF gs
<1>7. TypeOK
  <2>1. <<NoValue, NoValue, NoValue, NoValue>> \in [1..4 -> AllValues \cup {NoValue}]
    OBVIOUS
  <2>2. dummies \in [Functions -> [1..4 -> AllValues \cup {NoValue}]]
    BY <1>1, <2>1
  <2> QED
    BY <1>1, <1>4, <1>6, <2>2 DEF TypeOK
<1>8. Ready(frames, dummies)
  BY <1>2, <1>6 DEF Ready, Reads
<1> QED
  BY <1>1, <1>4, <1>6, <1>7, <1>8 DEF CalculatorInv

LEMMA CalculatorSteps ==
    ASSUME CalculatorInv, Next PROVE CalculatorInv' /\ (status' # "error" => Kept)
  BY PushKeeps, PushDummyKeeps, ApplyKeeps, BesselKeeps, JumpKeeps, CallKeeps, ReturnKeeps
     DEF Next

LEMMA CalculatorStutters == ASSUME CalculatorInv, UNCHANGED vars PROVE CalculatorInv'
<1>1. UNCHANGED <<stack, undefined, dummies, frames, program, status, stale>>
  BY DEF vars
<1> QED
  BY <1>1 DEF CalculatorInv, TypeOK

\* CalculatorInv holds in every state of every evaluation.
THEOREM CalculatorInvariant == Spec => []CalculatorInv
<1>1. CalculatorInv /\ [Next]_vars => CalculatorInv'
  BY CalculatorSteps, CalculatorStutters
<1> QED
  BY <1>1, CalculatorStarts, PTL DEF Spec

\* The stack holds values only, whatever the operators compute.
\* (archive/o/internal.c:44-65)
THEOREM CalculatorTypes == Spec => []TypeOK
<1>1. CalculatorInv => TypeOK
  BY DEF CalculatorInv
<1> QED
  BY <1>1, CalculatorInvariant, PTL

\* The height of the stack is that of the types: nothing is popped from an empty
\* stack, and at the end there is one value.  (archive/o/internal.c:36-65)
THEOREM StackIsBalanced == Spec => []StackBalanced
<1>1. CalculatorInv => StackBalanced
  BY DEF CalculatorInv, Balanced, StackBalanced
<1> QED
  BY <1>1, CalculatorInvariant, PTL

\* No step touches what the callers have on the stack.
\* (archive/o/internal.c:128-149)
THEOREM CallersAreKept == Spec => CallersKept
<1> DEFINE A == status' # "error" /\ frames # <<>> =>
                   /\ Len(stack') >= here.base
                   /\ SubSeq(stack', 1, here.base) = SubSeq(stack, 1, here.base)
<1>1. CalculatorInv /\ [Next]_vars => [A]_vars
  BY CalculatorSteps DEF Kept
<1> QED
  BY <1>1, CalculatorInvariant, PTL DEF Spec, CallersKept

-----------------------------------------------------------------------------
(* Calls, and the arguments of other calls.                                *)

ReadBy(code) ==
    {code.actions[i].f : i \in {j \in 1..Len(code.actions) : code.actions[j].op = "pushd"}}
ReachedBy(code) == {f \in Functions : \E g \in Callees(code) : g = f \/ <<g, f>> \in Reaches}

\* S has the functions that f calls, and those that the functions in S call.
ClosedFrom(f, S) == \A c \in Calling : c[1] \in S \cup {f} => c[2] \in S

LEMMA CalleesTyped ==
    ASSUME NEW c \in Codes
    PROVE  Callees(c) \subseteq Functions /\ ReadBy(c) \subseteq Functions
<1>1. \A i \in 1..Len(c.actions) : c.actions[i] \in Actions
  BY CodesTyped
<1> QED
  BY <1>1, ActionParts DEF Callees, ReadBy

LEMMA CallingIs ==
    ASSUME NEW f, NEW g
    PROVE  <<f, g>> \in Calling <=> f \in Functions /\ Code[f] # NoCode /\ g \in Callees(Code[f])
BY DEF Calling

LEMMA ReachesIs ==
    ASSUME NEW f \in Functions, NEW g \in Functions
    PROVE  <<f, g>> \in Reaches <=>
               \A S \in SUBSET Functions : ClosedFrom(f, S) => g \in S
BY DEF Reaches, ClosedFrom

\* A set that is closed from f is closed from what is in it.
LEMMA ClosedWithin ==
    ASSUME NEW S, NEW f, NEW g, ClosedFrom(f, S), g \in S \cup {f}
    PROVE  ClosedFrom(g, S) /\ (g \in Functions /\ Code[g] # NoCode => Callees(Code[g]) \subseteq S)
<1>1. ClosedFrom(g, S)
  BY DEF ClosedFrom
<1>2. ASSUME g \in Functions, Code[g] # NoCode, NEW h \in Callees(Code[g]) PROVE h \in S
  <2>1. <<g, h>> \in Calling
    BY <1>2, CallingIs
  <2> QED
    BY <2>1 DEF ClosedFrom
<1> QED
  BY <1>1, <1>2

LEMMA CodesOfFunctions ==
    ASSUME NEW f \in Functions, Code[f] # NoCode
    PROVE  Code[f] \in Codes /\ Callees(Code[f]) \subseteq Functions
<1>1. Code[f] \in Codes
  BY DEF Codes
<1> QED
  BY <1>1, CalleesTyped

\* Reaching is transitive.
LEMMA ReachedOn ==
    ASSUME NEW c \in Codes, NEW f \in ReachedBy(c), Code[f] # NoCode
    PROVE  Callees(Code[f]) \subseteq ReachedBy(c)
<1>1. f \in Functions
  BY DEF ReachedBy
<1>2. PICK g \in Callees(c) : g = f \/ <<g, f>> \in Reaches
  BY DEF ReachedBy
<1>3. g \in Functions
  BY <1>2, CalleesTyped
<1>4. SUFFICES ASSUME NEW h \in Callees(Code[f]) PROVE h \in Functions /\ <<g, h>> \in Reaches
  BY <1>2 DEF ReachedBy
<1>5. h \in Functions
  BY <1>1, CodesOfFunctions
<1>6. ASSUME NEW S \in SUBSET Functions, ClosedFrom(g, S) PROVE h \in S
  <2>1. f \in S \cup {g}
    BY <1>1, <1>2, <1>3, <1>6, ReachesIs
  <2> QED
    BY <1>1, <1>6, <2>1, ClosedWithin
<1> QED
  BY <1>3, <1>5, <1>6, ReachesIs

LEMMA ReachedSelf ==
    ASSUME NEW f \in Functions, Code[f] # NoCode, f \in ReachedBy(Code[f])
    PROVE  <<f, f>> \in Reaches
<1>1. PICK g \in Callees(Code[f]) : g = f \/ <<g, f>> \in Reaches
  BY DEF ReachedBy
<1>2. g \in Functions
  BY <1>1, CodesOfFunctions
<1>3. ASSUME NEW S \in SUBSET Functions, ClosedFrom(f, S) PROVE f \in S
  <2>1. g \in S
    BY <1>1, <1>3, ClosedWithin
  <2>2. ClosedFrom(g, S)
    BY <1>3, <2>1, ClosedWithin
  <2> QED
    BY <1>1, <1>2, <1>3, <2>1, <2>2, ReachesIs
<1> QED
  BY <1>3, ReachesIs

LEMMA CalleesReached ==
    ASSUME NEW c \in Codes
    PROVE  Callees(c) \subseteq ReachedBy(c)
BY CalleesTyped DEF ReachedBy

\* The compositions call no user-defined function.
LEMMA BesselCallsNone ==
    ASSUME NEW op \in Bessel, NEW v
    PROVE  Callees(BesselCode(op, v)) = {} /\ ReadBy(BesselCode(op, v)) = {}
<1> SUFFICES \A i \in 1..Len(BesselCode(op, v).actions) :
                 BesselCode(op, v).actions[i].op \notin {"call", "pushd"}
  BY DEF Callees, ReadBy
<1>0. Const(v).op = "pushc"
  BY DEF Const
<1>1. CASE op = "besj0"
  <2>1. BesselCode(op, v).actions = <<Op("sin"), Const(v), Op("div")>>
    BY <1>1 DEF BesselCode
  <2> QED
    BY <1>0, <2>1 DEF Op
<1>2. CASE op = "besy0"
  <2>1. BesselCode(op, v).actions = <<Op("cos"), Const(v), Op("div"), Op("uminus")>>
    BY <1>2 DEF BesselCode
  <2> QED
    BY <1>0, <2>1 DEF Op
<1>3. CASE op = "besj1"
  <2>1. BesselCode(op, v).actions =
            <<Op("sin"), Const(v), Const(v), Op("mult"), Op("div"),
              Const(v), Op("cos"), Const(v), Op("div"), Op("minus")>>
    BY <1>3 DEF BesselCode
  <2> QED
    BY <1>0, <2>1 DEF Op
<1>4. CASE op = "besy1"
  <2>1. BesselCode(op, v).actions =
            <<Op("cos"), Const(v), Const(v), Op("mult"), Op("div"),
              Const(v), Op("sin"), Const(v), Op("div"), Op("plus"), Op("uminus")>>
    BY <1>4 DEF BesselCode
  <2> QED
    BY <1>0, <2>1 DEF Op
<1> QED
  BY <1>1, <1>2, <1>3, <1>4 DEF Bessel

\* A frame reads only the dummies of the function whose body it runs.
OwnReads(fs) ==
    \A k \in 1..Len(fs) : \A f \in ReadBy(fs[k].code) :
        f \in Functions /\ Code[f] # NoCode /\ fs[k].code = Code[f]

\* What a frame calls is reached from every frame below it.
ChainReached(fs) ==
    \A k \in 1..Len(fs) : \A m \in k..Len(fs) :
        Callees(fs[m].code) \subseteq ReachedBy(fs[k].code)

\* A function that reaches itself, and is reached from the program.
SelfCalling(f, p) == <<f, f>> \in Reaches /\ f \in ReachedBy(p)

\* The arguments that a frame was entered with are still those of its function,
\* unless the function calls itself.
ArgsKept(fs, ds, p) ==
    \A k \in 1..Len(fs) : \A f \in ReadBy(fs[k].code) : SelfCalling(f, p) \/ fs[k].args = ds[f]

FramesOf(fs, ds, p) ==
    /\ 1 \in 1..Len(fs) => fs[1].code = p
    /\ OwnReads(fs) /\ ChainReached(fs) /\ ArgsKept(fs, ds, p)

\* The frames that are there, or fewer, go on with their code and arguments.
LEMMA FramesStay ==
    ASSUME NEW fs, NEW gs, NEW ds, NEW p, Len(fs) \in Nat, Len(gs) \in Nat, Len(gs) <= Len(fs),
           \A k \in 1..Len(gs) : gs[k].code = fs[k].code /\ gs[k].args = fs[k].args,
           FramesOf(fs, ds, p)
    PROVE  FramesOf(gs, ds, p)
<1>1. \A k \in 1..Len(gs) : k \in 1..Len(fs)
  OBVIOUS
<1>2. OwnReads(gs)
  BY <1>1 DEF FramesOf, OwnReads
<1>3. ArgsKept(gs, ds, p)
  BY <1>1 DEF FramesOf, ArgsKept
<1>4. ChainReached(gs)
  <2> SUFFICES ASSUME NEW k \in 1..Len(gs), NEW m \in k..Len(gs)
               PROVE  Callees(gs[m].code) \subseteq ReachedBy(gs[k].code)
    BY DEF ChainReached
  <2>1. k \in 1..Len(fs) /\ m \in k..Len(fs) /\ m \in 1..Len(gs)
    OBVIOUS
  <2>2. Callees(fs[m].code) \subseteq ReachedBy(fs[k].code)
    BY <2>1 DEF FramesOf, ChainReached
  <2> QED
    BY <2>1, <2>2
<1>5. 1 \in 1..Len(gs) => gs[1].code = p
  BY <1>1 DEF FramesOf
<1> QED
  BY <1>2, <1>3, <1>4, <1>5 DEF FramesOf

\* A composition is entered.
LEMMA FramesCompose ==
    ASSUME NEW fs, NEW gs, NEW ds, NEW p, Len(fs) \in Nat \ {0}, Len(gs) = Len(fs) + 1,
           \A k \in 1..Len(fs) : gs[k].code = fs[k].code /\ gs[k].args = fs[k].args,
           Callees(gs[Len(gs)].code) = {}, ReadBy(gs[Len(gs)].code) = {},
           FramesOf(fs, ds, p)
    PROVE  FramesOf(gs, ds, p)
<1>1. \A k \in 1..Len(gs) : k \in 1..Len(fs) \/ k = Len(gs)
  OBVIOUS
<1>2. OwnReads(gs)
  BY <1>1 DEF FramesOf, OwnReads
<1>3. ArgsKept(gs, ds, p)
  BY <1>1 DEF FramesOf, ArgsKept
<1>4. ChainReached(gs)
  <2> SUFFICES ASSUME NEW k \in 1..Len(gs), NEW m \in k..Len(gs), m # Len(gs)
               PROVE  Callees(gs[m].code) \subseteq ReachedBy(gs[k].code)
    BY DEF ChainReached
  <2>1. k \in 1..Len(fs) /\ m \in k..Len(fs) /\ m \in 1..Len(fs)
    OBVIOUS
  <2>2. Callees(fs[m].code) \subseteq ReachedBy(fs[k].code)
    BY <2>1 DEF FramesOf, ChainReached
  <2> QED
    BY <2>1, <2>2
<1>5. 1 \in 1..Len(gs) => gs[1].code = p
  BY <1>1 DEF FramesOf
<1> QED
  BY <1>2, <1>3, <1>4, <1>5 DEF FramesOf

\* A function is entered: its dummies are those of the new frame, and a frame that
\* runs it already belongs to a function that has reached itself.
LEMMA FramesCall ==
    ASSUME NEW fs, NEW gs, NEW ds, NEW es, NEW p, Len(fs) \in Nat \ {0}, Len(gs) = Len(fs) + 1,
           \A k \in 1..Len(fs) : gs[k].code = fs[k].code /\ gs[k].args = fs[k].args,
           \A k \in 1..Len(fs) : fs[k].code \in Codes,
           NEW f \in Functions, Code[f] # NoCode, f \in Callees(fs[Len(fs)].code),
           gs[Len(gs)].code = Code[f], gs[Len(gs)].args = es[f],
           \A g \in Functions : g # f => es[g] = ds[g],
           FramesOf(fs, ds, p)
    PROVE  FramesOf(gs, es, p)
<1>1. \A k \in 1..Len(gs) : k \in 1..Len(fs) \/ k = Len(gs)
  OBVIOUS
<1>2. ReadBy(Code[f]) \subseteq {f} /\ Code[f] \in Codes
  BY CodeAssumption, CodesOfFunctions DEF Reads, ReadBy
<1>3. OwnReads(gs)
  BY <1>1, <1>2 DEF FramesOf, OwnReads
<1>4. ASSUME NEW k \in 1..Len(fs) PROVE f \in ReachedBy(fs[k].code)
  <2>1. PICK m \in k..Len(fs) : m = Len(fs)
    OBVIOUS
  <2>2. Callees(fs[m].code) \subseteq ReachedBy(fs[k].code)
    BY DEF FramesOf, ChainReached
  <2> QED
    BY <2>1, <2>2
<1>5. ChainReached(gs)
  <2> SUFFICES ASSUME NEW k \in 1..Len(gs), NEW m \in k..Len(gs)
               PROVE  Callees(gs[m].code) \subseteq ReachedBy(gs[k].code)
    BY DEF ChainReached
  <2>1. CASE m # Len(gs)
    <3>1. k \in 1..Len(fs) /\ m \in k..Len(fs) /\ m \in 1..Len(fs)
      BY <2>1
    <3>2. Callees(fs[m].code) \subseteq ReachedBy(fs[k].code)
      BY <3>1 DEF FramesOf, ChainReached
    <3> QED
      BY <3>1, <3>2
  <2>2. CASE m = Len(gs) /\ k = Len(gs)
    BY <1>2, <2>2, CalleesReached
  <2>3. CASE m = Len(gs) /\ k # Len(gs)
    <3>1. k \in 1..Len(fs) /\ gs[k].code = fs[k].code /\ fs[k].code \in Codes
      BY <1>1, <2>3
    <3>2. f \in ReachedBy(fs[k].code)
      BY <1>4, <3>1
    <3> QED
      BY <2>3, <3>1, <3>2, ReachedOn
  <2> QED
    BY <2>1, <2>2, <2>3
<1>6. ASSUME NEW k \in 1..Len(gs), NEW g \in ReadBy(gs[k].code)
      PROVE  SelfCalling(g, p) \/ gs[k].args = es[g]
  <2>1. CASE k = Len(gs)
    BY <1>2, <1>6, <2>1
  <2>2. CASE k \in 1..Len(fs)
    <3>1. g \in ReadBy(fs[k].code) /\ gs[k].args = fs[k].args
      BY <1>6, <2>2
    <3>2. g \in Functions /\ fs[k].code = Code[g] /\ (SelfCalling(g, p) \/ fs[k].args = ds[g])
      BY <2>2, <3>1 DEF FramesOf, OwnReads, ArgsKept
    <3>3. CASE g # f
      BY <3>1, <3>2, <3>3
    <3>4. CASE g = f
      <4>1. f \in ReachedBy(Code[f])
        BY <1>4, <2>2, <3>2, <3>4
      <4>2. <<f, f>> \in Reaches
        BY <4>1, ReachedSelf
      <4>3. 1 \in 1..Len(fs) /\ fs[1].code = p
        BY DEF FramesOf
      <4>4. f \in ReachedBy(p)
        BY <1>4, <4>3
      <4> QED
        BY <3>4, <4>2, <4>4 DEF SelfCalling
    <3> QED
      BY <3>3, <3>4
  <2> QED
    BY <1>1, <2>1, <2>2
<1>7. 1 \in 1..Len(gs) => gs[1].code = p
  <2>1. 1 \in 1..Len(fs)
    OBVIOUS
  <2> QED
    BY <2>1 DEF FramesOf
<1> QED
  BY <1>3, <1>5, <1>6, <1>7 DEF FramesOf, ArgsKept

ArgsInv == FramesOf(frames, dummies, program) /\ StaleNeedsRecursion

\* A step that stays in the code of the last frame.
LEMMA GoingOn ==
    ASSUME CalculatorInv, frames # <<>>, NEW by \in Int
    PROVE  /\ Len(frames) \in Nat \ {0} /\ Len(GoOn(by)) = Len(frames)
           /\ \A k \in 1..Len(frames) : /\ GoOn(by)[k].code = frames[k].code
                                        /\ GoOn(by)[k].args = frames[k].args
                                        /\ frames[k].code \in Codes
<1> DEFINE n == Len(frames)
           last == [frames[n] EXCEPT !.pc = @ + by]
<1>1. /\ frames \in Seq(FrameRecords) /\ n \in Nat \ {0} /\ n \in 1..n
      /\ \A k \in 1..n : frames[k] \in FrameRecords
  BY EmptySeq, LenProperties DEF CalculatorInv
<1>2. GoOn(by) = [frames EXCEPT ![n] = last]
  BY DEF GoOn
<1>3. frames \in [1..n -> FrameRecords]
  BY <1>1, LenProperties
<1>4. /\ \A k \in 1..n : k # n => GoOn(by)[k] = frames[k]
      /\ GoOn(by)[n] = last /\ DOMAIN GoOn(by) = 1..n
  BY <1>1, <1>2, <1>3
<1>5. last.code = frames[n].code /\ last.args = frames[n].args
  BY <1>1 DEF FrameRecords
<1>6. \A k \in 1..n : frames[k].code \in Codes
  BY <1>1 DEF FrameRecords
<1>7. Len(GoOn(by)) = n
  <2>1. GoOn(by) \in [1..n -> FrameRecords \cup {last}]
    BY <1>1, <1>2, <1>3
  <2>2. GoOn(by) \in Seq(FrameRecords \cup {last})
    BY <1>1, <2>1
  <2> QED
    BY <1>1, <1>4, <2>2, LenProperties
<1> QED
  BY <1>1, <1>4, <1>5, <1>6, <1>7

\* A step that calls nothing, or returns.
LEMMA ArgsGoOn ==
    ASSUME CalculatorInv, ArgsInv, frames # <<>>, NEW by \in Int, frames' = GoOn(by),
           UNCHANGED <<dummies, program, stale>>
    PROVE  ArgsInv'
<1>1. FramesOf(frames', dummies, program)
  BY GoingOn, FramesStay DEF ArgsInv
<1> QED
  BY <1>1 DEF ArgsInv, StaleNeedsRecursion

LEMMA ArgsFail ==
    ASSUME ArgsInv, Fail
    PROVE  ArgsInv'
<1>1. Len(<<>>) = 0 /\ frames' = <<>> /\ UNCHANGED <<dummies, program, stale>>
  BY EmptySeq DEF Fail
<1>2. \A fs, ds, p : Len(fs) = 0 => FramesOf(fs, ds, p)
  BY DEF FramesOf, OwnReads, ChainReached, ArgsKept
<1> QED
  BY <1>1, <1>2 DEF ArgsInv, StaleNeedsRecursion

LEMMA ArgsOperate ==
    ASSUME CalculatorInv, ArgsInv, frames # <<>>, NEW outcomes, NEW n, Operate(outcomes, n)
    PROVE  ArgsInv'
<1>1. 1 \in Int
  OBVIOUS
<1> QED
  BY <1>1, ArgsFail, ArgsGoOn DEF Operate

LEMMA ArgsGoto ==
    ASSUME CalculatorInv, ArgsInv, frames # <<>>, NEW values, NEW by \in Int, Goto(values, by)
    PROVE  ArgsInv'
BY ArgsGoOn DEF Goto

LEMMA JumpsTyped ==
    ASSUME CalculatorInv, NEW ops, At(ops), ops \subseteq {"jump", "jumpz", "jumpnz", "jtern"}
    PROVE  ins.by \in Int
<1>1. ins \in Actions /\ ins.op \in {"jump", "jumpz", "jumpnz", "jtern"}
  BY Underway
<1> QED
  BY <1>1 DEF Actions, UnaryOps, BinaryOps, EntireOps, LogicalOps, BitwiseOps, Bessel

LEMMA ArgsSteps ==
    ASSUME CalculatorInv, ArgsInv,
           \/ Push \/ PushConstant \/ PushRandom \/ ApplyUnary \/ ApplyBinary
           \/ Jump \/ JumpZero \/ JumpNonZero \/ JumpTernary
    PROVE  ArgsInv'
<1>0. 1 \in Int
  OBVIOUS
<1>1. frames # <<>>
  BY DEF Push, PushConstant, PushRandom, ApplyUnary, ApplyBinary, Jump, JumpZero, JumpNonZero,
         JumpTernary, At
<1>2. ASSUME NEW values, Give(values) PROVE ArgsInv'
  BY <1>0, <1>1, <1>2, ArgsGoOn DEF Give
<1>3. CASE Push \/ PushConstant
  BY <1>2, <1>3, ArgsFail DEF Push, PushConstant
<1>4. CASE PushRandom \/ ApplyUnary \/ ApplyBinary
  BY <1>1, <1>4, ArgsOperate DEF PushRandom, ApplyUnary, ApplyBinary
<1>5. CASE Jump \/ JumpZero \/ JumpNonZero \/ JumpTernary
  <2>1. ins.by \in Int
    BY <1>5, JumpsTyped DEF Jump, JumpZero, JumpNonZero, JumpTernary
  <2>2. ASSUME NEW values, Goto(values, ins.by) \/ Goto(values, 1) PROVE ArgsInv'
    BY <1>0, <1>1, <2>1, <2>2, ArgsGoto
  <2>3. CASE Jump
    BY <2>2, <2>3 DEF Jump
  <2>4. CASE JumpZero
    BY <2>2, <2>4, ArgsFail DEF JumpZero
  <2>5. CASE JumpNonZero
    BY <2>2, <2>5, ArgsFail DEF JumpNonZero
  <2>6. CASE JumpTernary
    <3>1. PICK by : by = (IF Top.int_val # 0 THEN 1 ELSE ins.by) /\ by \in {1, ins.by}
      OBVIOUS
    <3> QED
      BY <2>2, <2>6, <3>1, ArgsFail DEF JumpTernary
  <2> QED
    BY <1>5, <2>3, <2>4, <2>5, <2>6
<1> QED
  BY <1>3, <1>4, <1>5

\* An argument is read: that of the frame, or of another call of a function that
\* calls itself.
LEMMA ArgsRead ==
    ASSUME CalculatorInv, ArgsInv, PushDummy
    PROVE  ArgsInv'
<1>1. /\ frames # <<>> /\ ins.op = "pushd" /\ frames' = GoOn(1)
      /\ UNCHANGED <<dummies, program>>
      /\ stale' = (stale \/ here.args[ins.i] # dummies[ins.f][ins.i])
  BY DEF PushDummy, At
<1>2. Len(frames) \in Nat \ {0} /\ here.pc \in 1..Len(here.code.actions)
  BY Underway DEF PushDummy
<1>3. ins.f \in ReadBy(here.code)
  BY <1>1, <1>2 DEF ReadBy, ins
<1>4. SelfCalling(ins.f, program) \/ here.args = dummies[ins.f]
  <2>1. Len(frames) \in 1..Len(frames)
    BY <1>2
  <2> QED
    BY <1>3, <2>1 DEF ArgsInv, FramesOf, ArgsKept, here
<1>5. FramesOf(frames', dummies', program')
  <2>1. 1 \in Int
    OBVIOUS
  <2>2. FramesOf(frames', dummies, program)
    BY <1>1, <2>1, GoingOn, FramesStay DEF ArgsInv
  <2> QED
    BY <1>1, <2>2
<1>6. StaleNeedsRecursion'
  <2>1. CASE stale
    BY <1>1, <2>1 DEF ArgsInv, StaleNeedsRecursion
  <2>2. CASE SelfCalling(ins.f, program)
    BY <1>1, <2>2 DEF SelfCalling, ReachedBy, StaleNeedsRecursion
  <2>3. CASE ~stale /\ here.args = dummies[ins.f]
    BY <1>1, <2>3 DEF StaleNeedsRecursion
  <2> QED
    BY <1>4, <2>1, <2>2, <2>3
<1> QED
  BY <1>5, <1>6 DEF ArgsInv

\* What Append leaves in front of the new frame.
LEMMA Appended ==
    ASSUME CalculatorInv, frames # <<>>, NEW fr, frames' = Append(GoOn(1), fr)
    PROVE  /\ Len(frames) \in Nat \ {0} /\ Len(frames') = Len(frames) + 1
           /\ frames'[Len(frames')] = fr
           /\ \A k \in 1..Len(frames) : /\ frames'[k].code = frames[k].code
                                        /\ frames'[k].args = frames[k].args
                                        /\ frames[k].code \in Codes
<1>1. PICK gs : gs = GoOn(1) /\ frames' = Append(gs, fr)
  OBVIOUS
<1>2. /\ Len(frames) \in Nat \ {0} /\ Len(gs) = Len(frames)
      /\ \A k \in 1..Len(frames) : /\ gs[k].code = frames[k].code
                                   /\ gs[k].args = frames[k].args
                                   /\ frames[k].code \in Codes
  <2>1. 1 \in Int
    OBVIOUS
  <2> QED
    BY <1>1, <2>1, GoingOn
<1>3. /\ Len(frames') = Len(gs) + 1 /\ frames'[Len(gs) + 1] = fr
      /\ \A k \in 1..Len(gs) : frames'[k] = gs[k]
  <2>1. \E S : gs \in Seq(S)
    <3>1. gs = [frames EXCEPT ![Len(frames)].pc = @ + 1]
      BY <1>1 DEF GoOn
    <3>2. frames \in [1..Len(frames) -> FrameRecords] /\ Len(frames) \in 1..Len(frames)
      BY <1>2, LenProperties DEF CalculatorInv
    <3>3. PICK last : gs = [frames EXCEPT ![Len(frames)] = last]
      BY <3>1
    <3>4. gs \in [1..Len(frames) -> FrameRecords \cup {last}]
      BY <3>2, <3>3
    <3>5. gs \in Seq(FrameRecords \cup {last})
      BY <1>2, <3>4
    <3> QED
      BY <3>5
  <2>2. PICK S : gs \in Seq(S)
    BY <2>1
  <2>3. PICK T : gs \in Seq(T) /\ fr \in T
    <3>1. gs \in Seq(S \cup {fr})
      BY <2>2
    <3> QED
      BY <3>1
  <2> QED
    BY <1>1, <2>3
<1> QED
  BY <1>2, <1>3

LEMMA FrameParts ==
    ASSUME NEW code, NEW base, NEW args
    PROVE  Frame(code, base, args).code = code /\ Frame(code, base, args).args = args
BY DEF Frame

LEMMA ArgsCall ==
    ASSUME CalculatorInv, ArgsInv, Call
    PROVE  ArgsInv'
<1>1. /\ At({"call"}) /\ frames # <<>> /\ ins.op = "call" /\ ins \in Actions
      /\ here.pc \in 1..Len(here.code.actions)
  BY Underway DEF Call, At
<1>2. PICK f : f = ins.f /\ f \in Functions
  BY <1>1, ActionParts
<1>3. PICK args : args = Popped(f, Arity[f])
  OBVIOUS
<1>4. CASE Code[f] = NoCode
  BY <1>2, <1>4, ArgsFail DEF Call
<1>5. CASE Code[f] # NoCode
  <2>1. PICK base : base = Len(stack) - Arity[f]
    OBVIOUS
  <2>2. /\ dummies' = [dummies EXCEPT ![f] = args]
        /\ frames' = Append(GoOn(1), Frame(Code[f], base, args))
        /\ UNCHANGED <<program, stale>>
    BY <1>2, <1>3, <1>5, <2>1 DEF Call
  <2>3. f \in Callees(here.code)
    BY <1>1, <1>2 DEF Callees, ins
  <2>4. f \in Callees(frames[Len(frames)].code)
    BY <2>3 DEF here
  <2>5. DOMAIN dummies = Functions
    BY DEF CalculatorInv, TypeOK
  <2>6. dummies'[f] = args /\ \A g \in Functions : g # f => dummies'[g] = dummies[g]
    BY <1>2, <2>2, <2>5
  <2>7. PICK fr : fr = Frame(Code[f], base, args) /\ fr.code = Code[f] /\ fr.args = args
    BY FrameParts
  <2>8. /\ Len(frames) \in Nat \ {0} /\ Len(frames') = Len(frames) + 1
        /\ frames'[Len(frames')] = fr
        /\ \A k \in 1..Len(frames) : /\ frames'[k].code = frames[k].code
                                     /\ frames'[k].args = frames[k].args
                                     /\ frames[k].code \in Codes
    BY <1>1, <2>2, <2>7, Appended
  <2>9. PICK gs, es : gs = frames' /\ es = dummies'
    OBVIOUS
  <2>10. FramesOf(gs, es, program)
    BY <1>2, <1>5, <2>4, <2>6, <2>7, <2>8, <2>9, FramesCall DEF ArgsInv
  <2>11. FramesOf(frames', dummies', program')
    BY <2>2, <2>9, <2>10
  <2> QED
    BY <2>2, <2>11 DEF ArgsInv, StaleNeedsRecursion
<1> QED
  BY <1>4, <1>5

LEMMA ArgsBessel ==
    ASSUME CalculatorInv, ArgsInv, ApplyBessel
    PROVE  ArgsInv'
<1>1. /\ frames # <<>> /\ ins.op \in Bessel
      /\ frames' = Append(GoOn(1), Frame(BesselCode(ins.op, Top), Len(stack) - 1, <<>>))
      /\ UNCHANGED <<dummies, program, stale>>
  BY DEF ApplyBessel, At
<1>2. PICK fr : /\ fr = Frame(BesselCode(ins.op, Top), Len(stack) - 1, <<>>)
                /\ fr.code = BesselCode(ins.op, Top)
  BY FrameParts
<1>3. Callees(fr.code) = {} /\ ReadBy(fr.code) = {}
  BY <1>1, <1>2, BesselCallsNone
<1>4. /\ Len(frames) \in Nat \ {0} /\ Len(frames') = Len(frames) + 1
      /\ frames'[Len(frames')] = fr
      /\ \A k \in 1..Len(frames) : /\ frames'[k].code = frames[k].code
                                   /\ frames'[k].args = frames[k].args
  BY <1>1, <1>2, Appended
<1>5. PICK gs : gs = frames'
  OBVIOUS
<1>6. FramesOf(gs, dummies, program)
  BY <1>3, <1>4, <1>5, FramesCompose DEF ArgsInv
<1>7. FramesOf(frames', dummies', program')
  BY <1>1, <1>5, <1>6
<1> QED
  BY <1>1, <1>7 DEF ArgsInv, StaleNeedsRecursion

LEMMA ArgsReturn ==
    ASSUME CalculatorInv, ArgsInv, Return
    PROVE  ArgsInv'
<1>1. /\ frames # <<>> /\ frames' = SubSeq(frames, 1, Len(frames) - 1)
      /\ UNCHANGED <<dummies, program, stale>>
  BY DEF Return
<1>2. frames \in Seq(FrameRecords) /\ Len(frames) \in Nat \ {0}
  BY <1>1, EmptySeq, LenProperties DEF CalculatorInv
<1>3. PICK gs : gs = frames'
  OBVIOUS
<1>4. Len(gs) = Len(frames) - 1 /\ \A k \in 1..Len(gs) : gs[k] = frames[k]
  <2>1. PICK m \in Nat : m = Len(frames) - 1 /\ m <= Len(frames)
    <3>1. \A n \in Nat \ {0} : n - 1 \in Nat /\ n - 1 <= n
      OBVIOUS
    <3> QED
      BY <1>2, <3>1
  <2>2. \A k \in 1..m : frames[k] \in FrameRecords
    BY <1>2, <2>1
  <2>3. /\ Len(SubSeq(frames, 1, m)) = IF 1 <= m THEN m - 1 + 1 ELSE 0
        /\ \A k \in 1..(m - 1 + 1) : SubSeq(frames, 1, m)[k] = frames[1 + k - 1]
    BY <2>2, SubSeqProperties
  <2>4. Len(gs) = m
    BY <1>1, <1>3, <2>1, <2>3
  <2> QED
    BY <1>1, <1>3, <2>1, <2>3, <2>4
<1>5. FramesOf(gs, dummies, program)
  <2>1. Len(gs) \in Nat /\ Len(gs) <= Len(frames)
    BY <1>2, <1>4
  <2> QED
    BY <1>2, <1>4, <2>1, FramesStay DEF ArgsInv
<1>6. FramesOf(frames', dummies', program')
  BY <1>1, <1>3, <1>5
<1> QED
  BY <1>1, <1>6 DEF ArgsInv, StaleNeedsRecursion

LEMMA ArgsStart == Init => ArgsInv
<1> SUFFICES ASSUME Init PROVE ArgsInv
  OBVIOUS
<1>1. /\ frames = <<Frame(program, 0, <<>>)>> /\ program \in Programs /\ stale = FALSE
  BY DEF Init
<1>2. Len(frames) = 1 /\ frames[1].code = program
  BY <1>1 DEF Frame
<1>3. program \in Codes /\ ReadBy(program) = {}
  BY <1>1, ProgramsAssumption DEF Codes, Reads, ReadBy
<1>4. \A k \in 1..Len(frames) : k = 1
  BY <1>2
<1>5. \A k \in 1..Len(frames) : \A m \in k..Len(frames) : m = 1
  BY <1>2
<1>6. OwnReads(frames) /\ ArgsKept(frames, dummies, program)
  BY <1>2, <1>3, <1>4 DEF OwnReads, ArgsKept
<1>7. ChainReached(frames)
  BY <1>2, <1>3, <1>4, <1>5, CalleesReached DEF ChainReached
<1> QED
  BY <1>1, <1>2, <1>6, <1>7 DEF ArgsInv, FramesOf, StaleNeedsRecursion

\* The one place that a function has for each argument is enough unless the function
\* calls itself, whatever the functions and the program.
\* (archive/o/internal.c:95-149)
THEOREM ArgumentsAreOwn == Spec => []StaleNeedsRecursion
<1>1. ASSUME CalculatorInv, ArgsInv, [Next]_vars PROVE ArgsInv'
  <2>1. CASE UNCHANGED vars
    BY <1>1, <2>1 DEF vars, ArgsInv, StaleNeedsRecursion
  <2> QED
    BY <1>1, <2>1, ArgsSteps, ArgsRead, ArgsCall, ArgsBessel, ArgsReturn DEF Next
<1>2. CalculatorInv /\ ArgsInv /\ [Next]_vars => ArgsInv'
  BY <1>1
<1>3. ArgsInv => StaleNeedsRecursion
  BY DEF ArgsInv
<1> QED
  BY <1>2, <1>3, ArgsStart, CalculatorInvariant, PTL DEF Spec
=============================================================================

---------------------------- MODULE ModularProofs ----------------------------
(***************************************************************************)
(* Proofs about the arithmetic modulo MODULUS, for every modulus, every    *)
(* coefficient and every limit of fixnums, and about its predecessor in C  *)
(* for every width of an int.                                              *)
(***************************************************************************)
EXTENDS ArchivedModular, TLAPS, WellFoundedInduction

-----------------------------------------------------------------------------
(* Division *)

\* normalized-modulus leads into (-m/2, m/2].
LEMMA Normal ==
    ASSUME NEW n \in Int, NEW m \in Nat \ {0}
    PROVE  /\ NormalizedModulus(n, m) \in Int
           /\ -m < 2 * NormalizedModulus(n, m) /\ 2 * NormalizedModulus(n, m) <= m
<1>1. n % m \in 0..(m - 1)
    OBVIOUS
<1>2. QED
    BY <1>1 DEF NormalizedModulus

\* TRUNCATE of natural numbers is the quotient of the Euclidean division.
LEMMA TruncateNat ==
    ASSUME NEW i \in Nat, NEW j \in Nat \ {0}
    PROVE  Truncate(i, j) \in Nat /\ Rem(i, j) \in 0..(j - 1)
<1>1. i \div j \in Nat /\ i - j * (i \div j) \in 0..(j - 1)
    OBVIOUS
<1>2. QED
    BY <1>1 DEF Truncate, Rem

LEMMA TruncateInt ==
    ASSUME NEW i \in Int, NEW j \in Int \ {0}
    PROVE  Truncate(i, j) \in Int
<1>1. Abs(i) \in Nat /\ Abs(j) \in Nat \ {0}
    BY DEF Abs
<1>2. Abs(i) \div Abs(j) \in Int
    BY <1>1
<1>3. i >= 0 /\ j > 0 => i \div j \in Int
    OBVIOUS
<1>4. QED
    BY <1>2, <1>3 DEF Truncate

\* REM leaves less than the modulus.
LEMMA RemRange ==
    ASSUME NEW i \in Int, NEW m \in Nat \ {0}
    PROVE  Rem(i, m) \in Int /\ -m < Rem(i, m) /\ Rem(i, m) < m
<1>1. CASE i >= 0
    BY <1>1, TruncateNat DEF Rem
<1>2. CASE i < 0
  <2>1. -i \in Nat /\ (-i) \div m \in Nat /\ (-i) - m * ((-i) \div m) \in 0..(m - 1)
    BY <1>2
  <2>2. Truncate(i, m) = -((-i) \div m)
    BY <1>2 DEF Truncate, Abs
  <2>3. Rem(i, m) = -((-i) - m * ((-i) \div m))
    BY <2>1, <2>2 DEF Rem
  <2>4. QED
    BY <2>1, <2>3
<1>3. QED
    BY <1>1, <1>2

\* A round keeps the sum of the products, and so bounds the coefficients.
LEMMA BezoutStep ==
    ASSUME NEW i \in Int, NEW j \in Int, NEW k \in Int, NEW l \in Int, NEW q \in Int
    PROVE  (j + q * i) * k + i * (l - q * k) = i * l + j * k
OBVIOUS

LEMMA BezoutBound ==
    ASSUME NEW i \in Nat, NEW k \in Nat \ {0}, NEW j \in Nat, NEW l \in Nat, NEW n \in Nat,
           i * k + j * l = n
    PROVE  i <= n
OBVIOUS

LEMMA BezoutFirst ==
    ASSUME NEW n \in Nat \ {0}, NEW l \in Int
    PROVE  n \in 1..n /\ 1 * n + 0 * l = n
OBVIOUS

-----------------------------------------------------------------------------
(* The invariant *)

\* A coefficient of this modulus is within it.
FreshFits ==
    fresh /\ modulus # 0 =>
        /\ -modulus <= x /\ x <= modulus
        /\ modulus > 1 => -modulus < x /\ x < modulus

\* What an operation was asked for with.
JobFits ==
    /\ job.op = "power" => job.arg \in Nat
    /\ job.op = "invert" => modulus # 0
    /\ place = "start" /\ modulus = 0 /\ job.op = "power" => Small(Exact(x, job.arg))
    /\ place \in {"fixnum", "general", "power"} => modulus # 0

\* Bezout: the products add up to the modulus, and the signs alternate.
EuclidFits ==
    place = "fixnum" =>
        /\ modulus < FixnumLimit
        /\ mod \in 1..modulus /\ remainder \in 0..modulus
        /\ Abs(a) <= modulus /\ Abs(b) <= modulus
        /\ (a >= 0 /\ b <= 0) \/ (a <= 0 /\ b >= 0)
        /\ Abs(a) * mod + Abs(b) * remainder = modulus

\* The last round of cexpt reduces the result.
PowerFits == place = "power" /\ pow = 0 => -modulus < s /\ s < modulus

ModularInv == TypeOK /\ FreshFits /\ JobFits /\ EuclidFits /\ PowerFits

\* What a result has to satisfy.
Fits(value) ==
    /\ value \in Int
    /\ modulus # 0 => /\ -modulus <= value /\ value <= modulus
                      /\ modulus > 1 => -modulus < value /\ value < modulus

LEMMA ModulusNat == ASSUME TypeOK PROVE modulus \in Nat
BY ModuliAssumption DEF TypeOK

LEMMA CmodFits == ASSUME TypeOK, NEW n \in Int PROVE Fits(Cmod(n))
<1>1. CASE modulus = 0
    BY <1>1 DEF Fits, Cmod
<1>2. CASE modulus # 0
  <2>1. modulus \in Nat \ {0}
    BY <1>2, ModulusNat
  <2>2. Cmod(n) = NormalizedModulus(n, modulus)
    BY <1>2 DEF Cmod
  <2> DEFINE r == NormalizedModulus(n, modulus)
  <2>3. r \in Int /\ -modulus < 2 * r /\ 2 * r <= modulus
    BY <2>1, Normal
  <2> HIDE DEF r
  <2>4. QED
    BY <2>1, <2>2, <2>3 DEF Fits, r
<1>3. QED
    BY <1>1, <1>2

LEMMA NoJobTyped == NoJob \in [op : Operations \cup {"none"}, arg : Int] /\ NoJob.op = "none"
BY DEF NoJob

\* The two ends of an operation.
LEMMA FinishKeeps ==
    ASSUME TypeOK, NEW value, Fits(value), Finish(value)
    PROVE  ModularInv'
<1> USE DEF Finish
<1>1. job'.op = "none" /\ place' = "idle"
    BY NoJobTyped
<1>2. TypeOK'
  <2>1. modulus' \in Moduli /\ x' \in Int /\ fresh' \in BOOLEAN
    BY DEF TypeOK, Fits
  <2>2. job' \in [op : Operations \cup {"none"}, arg : Int]
    BY NoJobTyped
  <2>3. outcome' \in Outcomes /\ place' \in Places
    BY DEF Outcomes, Places
  <2>4. mod' \in Int /\ remainder' \in Int /\ a' \in Int /\ b' \in Int
    OBVIOUS
  <2>5. base' \in Int /\ s' \in Int /\ pow' \in Nat
    OBVIOUS
  <2>6. place' = "idle" <=> job' = NoJob'
    BY DEF NoJob
  <2>7. QED
    BY <2>1, <2>2, <2>3, <2>4, <2>5, <2>6 DEF TypeOK
<1>3. FreshFits'
    BY DEF FreshFits, Fits
<1>4. JobFits' /\ EuclidFits' /\ PowerFits'
    BY <1>1 DEF JobFits, EuclidFits, PowerFits
<1>5. QED
    BY <1>2, <1>3, <1>4 DEF ModularInv

LEMMA SignalKeeps ==
    ASSUME ModularInv, NEW how \in Outcomes, Signal(how)
    PROVE  ModularInv'
<1> USE DEF Signal, ModularInv
<1>1. job'.op = "none" /\ place' = "idle"
    BY NoJobTyped
<1>2. TypeOK'
  <2>1. modulus' \in Moduli /\ x' \in Int /\ fresh' \in BOOLEAN
    BY DEF TypeOK
  <2>2. job' \in [op : Operations \cup {"none"}, arg : Int]
    BY NoJobTyped
  <2>3. outcome' \in Outcomes /\ place' \in Places
    BY DEF Places
  <2>4. mod' \in Int /\ remainder' \in Int /\ a' \in Int /\ b' \in Int
    OBVIOUS
  <2>5. base' \in Int /\ s' \in Int /\ pow' \in Nat
    BY DEF TypeOK, expt
  <2>6. place' = "idle" <=> job' = NoJob'
    BY DEF NoJob
  <2>7. QED
    BY <2>1, <2>2, <2>3, <2>4, <2>5, <2>6 DEF TypeOK
<1>3. FreshFits'
    BY DEF FreshFits
<1>4. JobFits' /\ EuclidFits' /\ PowerFits'
    BY <1>1 DEF JobFits, EuclidFits, PowerFits
<1>5. QED
    BY <1>2, <1>3, <1>4

LEMMA AbsUnits == Abs(1) = 1 /\ Abs(0) = 0
BY DEF Abs

\* The first and the following rounds of the Euclidean algorithm.
LEMMA CrecipKeeps ==
    ASSUME ModularInv, place = "start", job.op \in {"quotient", "invert"}, modulus # 0,
           CrecipStart(x)
    PROVE  ModularInv'
<1>1. CASE modulus < FixnumLimit /\ x \notin -modulus..modulus
    BY <1>1, SignalKeeps DEF CrecipStart, Outcomes
<1>2. CASE ~(modulus < FixnumLimit /\ x \notin -modulus..modulus)
  <2>1. modulus \in Nat /\ x \in Int
    BY ModulusNat DEF ModularInv, TypeOK
  <2>2. /\ mod' = modulus /\ a' = 1 /\ b' = 0
        /\ remainder' = IF x < 0 THEN x + modulus ELSE x
        /\ place' = IF modulus < FixnumLimit THEN "fixnum" ELSE "general"
        /\ UNCHANGED <<modulus, x, fresh, job, outcome, base, s, pow>>
    BY <1>2 DEF CrecipStart, expt
  <2>3. remainder' \in Int
    BY <2>1, <2>2
  <2>4. place' \in Places /\ place # "idle" /\ place' # "idle"
    BY <2>2 DEF Places
  <2>5. TypeOK'
    BY <2>1, <2>2, <2>3, <2>4 DEF ModularInv, TypeOK
  <2>6. FreshFits' /\ JobFits'
    BY <2>2 DEF ModularInv, FreshFits, JobFits
  <2>7. EuclidFits'
    <3> SUFFICES ASSUME modulus < FixnumLimit PROVE EuclidFits'
      BY <2>2, LimitAssumption DEF EuclidFits
    <3>1. remainder' \in 0..modulus
      BY <1>2, <2>1, <2>2
    <3>2. modulus \in 1..modulus /\ 1 * modulus + 0 * remainder' = modulus
      BY <2>1, <2>3, BezoutFirst
    <3>3. QED
      BY <2>1, <2>2, <3>1, <3>2, AbsUnits DEF EuclidFits
  <2>8. PowerFits'
    BY <2>2 DEF PowerFits
  <2>9. QED
    BY <2>5, <2>6, <2>7, <2>8 DEF ModularInv
<1>3. QED
    BY <1>1, <1>2

LEMMA EuclidKeeps ==
    ASSUME ModularInv, EuclidStep
    PROVE  ModularInv'
<1> DEFINE q == Truncate(mod, remainder)
<1> USE DEF EuclidStep
<1>1. /\ mod \in Int /\ remainder \in Int /\ a \in Int /\ b \in Int
      /\ modulus \in Nat /\ remainder # 0 /\ remainder # 1
    BY ModulusNat DEF ModularInv, TypeOK
<1>2. q \in Int
    BY <1>1, TruncateInt
<1>3. /\ mod' = remainder /\ remainder' = mod - q * remainder
      /\ a' = b - a * q /\ b' = a
      /\ UNCHANGED <<modulus, x, fresh, job, outcome, place, base, s, pow>>
    BY DEF expt
<1> HIDE DEF q
<1>4. TypeOK'
    BY <1>1, <1>2, <1>3 DEF ModularInv, TypeOK
<1>5. FreshFits' /\ JobFits' /\ PowerFits'
    BY <1>3 DEF ModularInv, FreshFits, JobFits, PowerFits
<1>6. EuclidFits'
  <2> SUFFICES ASSUME place = "fixnum" PROVE EuclidFits'
    BY <1>3 DEF EuclidFits
  <2>1. /\ modulus < FixnumLimit
        /\ mod \in 1..modulus /\ remainder \in 0..modulus
        /\ Abs(a) <= modulus
        /\ (a >= 0 /\ b <= 0) \/ (a <= 0 /\ b >= 0)
        /\ Abs(a) * mod + Abs(b) * remainder = modulus
    BY DEF ModularInv, EuclidFits
  <2>2. remainder \in Nat \ {0} /\ mod \in Nat
    BY <1>1, <2>1
  <2>3. q \in Nat /\ mod - q * remainder \in 0..(remainder - 1)
    BY <2>2, TruncateNat DEF q, Rem
  <2>4. Abs(a) \in Nat /\ Abs(b) \in Nat /\ Abs(b - a * q) = Abs(b) + q * Abs(a)
    BY <1>1, <2>1, <2>3 DEF Abs
  <2>5. (Abs(b) + q * Abs(a)) * remainder + Abs(a) * (mod - q * remainder) = modulus
    BY <1>1, <1>2, <2>1, <2>4, BezoutStep
  <2>6. Abs(b) + q * Abs(a) \in Nat
    BY <2>3, <2>4
  <2>7. Abs(b) + q * Abs(a) <= modulus
    <3>1. mod - q * remainder \in Nat
      BY <2>2, <2>3
    <3>2. QED
      BY <1>1, <2>2, <2>4, <2>5, <2>6, <3>1, BezoutBound
  <2>8. mod' \in 1..modulus /\ remainder' \in 0..modulus
    BY <1>1, <1>3, <2>1, <2>2, <2>3
  <2>9. Abs(a') = Abs(b) + q * Abs(a) /\ Abs(b') = Abs(a)
    BY <1>3, <2>4
  <2>10. (a' >= 0 /\ b' <= 0) \/ (a' <= 0 /\ b' >= 0)
    <3>1. CASE a >= 0 /\ b <= 0
      <4>1. a * q >= 0
        BY <1>1, <2>3, <3>1
      <4>2. QED
        BY <1>1, <1>2, <1>3, <3>1, <4>1
    <3>2. CASE a <= 0 /\ b >= 0
      <4>1. a * q <= 0
        BY <1>1, <2>3, <3>2
      <4>2. QED
        BY <1>1, <1>2, <1>3, <3>2, <4>1
    <3>3. QED
      BY <2>1, <3>1, <3>2
  <2>11. QED
    BY <1>3, <2>1, <2>5, <2>7, <2>8, <2>9, <2>10 DEF EuclidFits
<1>7. QED
    BY <1>4, <1>5, <1>6 DEF ModularInv

\* cexpt: the exponent is at least two when the loop starts, so that it has a
\* round, and the round in which it becomes zero has an odd exponent.
LEMMA PowerKeeps ==
    ASSUME ModularInv, PowerStart \/ PowerStep
    PROVE  ModularInv'
<1>1. CASE PowerStart
  <2> USE <1>1 DEF PowerStart, Starting
  <2>1. job.arg \in Nat /\ job.arg > 1 /\ x \in Int
    BY DEF ModularInv, JobFits, TypeOK
  <2>2. job.arg \div 2 \in Nat /\ job.arg \div 2 # 0
    BY <2>1
  <2>3. TypeOK'
    BY <2>1, <2>2 DEF ModularInv, TypeOK, Places, NoJob, euclid
  <2>4. FreshFits' /\ JobFits' /\ EuclidFits' /\ PowerFits'
    BY <2>2 DEF ModularInv, FreshFits, JobFits, EuclidFits, PowerFits
  <2>5. QED
    BY <2>3, <2>4 DEF ModularInv
<1>2. CASE PowerStep
  <2> USE <1>2 DEF PowerStep
  <2>1. modulus \in Nat \ {0} /\ base \in Int /\ s \in Int /\ pow \in Nat
    BY ModulusNat DEF ModularInv, JobFits, TypeOK
  <2>2. base' \in Int
    BY <2>1, RemRange
  <2>3. s' \in Int
    BY <2>1, <2>2, RemRange
  <2>4. pow \div 2 \in Nat /\ (pow \div 2 = 0 => pow % 2 = 1)
    BY <2>1
  <2>5. TypeOK'
    BY <2>2, <2>3, <2>4 DEF ModularInv, TypeOK, NoJob, euclid
  <2>6. pow' = 0 => -modulus < s' /\ s' < modulus
    BY <2>1, <2>2, <2>4, RemRange
  <2>7. FreshFits' /\ JobFits' /\ EuclidFits' /\ PowerFits'
    BY <2>6 DEF ModularInv, FreshFits, JobFits, EuclidFits, PowerFits
  <2>8. QED
    BY <2>5, <2>7 DEF ModularInv
<1>3. QED
    BY <1>1, <1>2

\* The operations that end at once.
LEMMA AtOnceKeeps ==
    ASSUME ModularInv, Enter \/ Plus \/ Difference \/ Times \/ Quotient \/ Invert \/ PowerAtOnce
    PROVE  ModularInv'
<1>1. x \in Int /\ job.arg \in Int /\ modulus \in Nat /\ TypeOK
    BY ModulusNat DEF ModularInv, TypeOK
<1>2. CASE Enter
    BY <1>1, <1>2, CmodFits, FinishKeeps DEF Enter
<1>3. CASE Plus
    BY <1>1, <1>3, CmodFits, FinishKeeps DEF Plus, Cplus
<1>4. CASE Difference
    BY <1>1, <1>4, CmodFits, FinishKeeps DEF Difference, Cdifference
<1>5. CASE Times
  <2>1. x * job.arg \in Int
    BY <1>1
  <2>2. QED
    BY <1>1, <1>5, <2>1, CmodFits, FinishKeeps DEF Times, Ctimes
<1>6. CASE Quotient
  <2>1. CASE job.arg = 0 /\ Finish(0)
    <3>1. Fits(0)
      BY <1>1 DEF Fits
    <3>2. QED
      BY <1>1, <2>1, <3>1, FinishKeeps
  <2>2. CASE modulus = 0 /\ x # 0 /\ Finish(Truncate(job.arg, x))
    <3>1. Fits(Truncate(job.arg, x))
      BY <1>1, <2>2, TruncateInt DEF Fits
    <3>2. QED
      BY <1>1, <2>2, <3>1, FinishKeeps
  <2>3. CASE Signal("not exact")
    BY <2>3, SignalKeeps DEF Outcomes
  <2>4. CASE modulus # 0 /\ CrecipStart(x)
    BY <1>6, <2>4, CrecipKeeps DEF Quotient, Starting
  <2>5. QED
    BY <1>6, <2>1, <2>2, <2>3, <2>4 DEF Quotient
<1>7. CASE Invert
  <2>1. CASE Signal("no inverse")
    BY <2>1, SignalKeeps DEF Outcomes
  <2>2. CASE CrecipStart(x)
    BY <1>7, <2>2, CrecipKeeps DEF Invert, Starting, ModularInv, JobFits
  <2>3. QED
    BY <1>7, <2>1, <2>2 DEF Invert
<1>8. CASE PowerAtOnce
  <2>1. CASE Finish(1)
    <3>1. Fits(1)
      BY <1>1 DEF Fits
    <3>2. QED
      BY <1>1, <2>1, <3>1, FinishKeeps
  <2>2. CASE modulus = 0 /\ Finish(Exact(x, job.arg))
    <3>1. Exact(x, job.arg) \in Int
      BY <1>8, <2>2, SpanAssumption DEF PowerAtOnce, Starting, ModularInv, JobFits, Small
    <3>2. Fits(Exact(x, job.arg))
      BY <2>2, <3>1 DEF Fits
    <3>3. QED
      BY <1>1, <2>2, <3>2, FinishKeeps
  <2>3. CASE /\ outcome' = "done" /\ job' = NoJob /\ place' = "idle"
             /\ UNCHANGED <<modulus, x, fresh, euclid, expt>>
    <3>1. job'.op = "none" /\ job' \in [op : Operations \cup {"none"}, arg : Int]
      BY <2>3, NoJobTyped
    <3>2. place' = "idle" <=> job' = NoJob'
      BY <2>3 DEF NoJob
    <3>3. TypeOK'
      BY <1>1, <2>3, <3>1, <3>2 DEF TypeOK, Outcomes, Places, euclid, expt
    <3>4. FreshFits' /\ JobFits' /\ EuclidFits' /\ PowerFits'
      BY <2>3, <3>1 DEF ModularInv, FreshFits, JobFits, EuclidFits, PowerFits
    <3>5. QED
      BY <3>3, <3>4 DEF ModularInv
  <2>4. QED
    BY <1>8, <2>1, <2>2, <2>3 DEF PowerAtOnce
<1>9. QED
    BY <1>2, <1>3, <1>4, <1>5, <1>6, <1>7, <1>8

\* The ends of the loops.
LEMMA DoneKeeps ==
    ASSUME ModularInv, NoInverse \/ RecipDone \/ PowerDone
    PROVE  ModularInv'
<1>1. /\ job.arg \in Int /\ modulus \in Nat /\ TypeOK
      /\ a \in Int /\ s \in Int
    BY ModulusNat DEF ModularInv, TypeOK
<1>2. CASE NoInverse
    BY <1>2, SignalKeeps DEF NoInverse, Outcomes
<1>3. CASE RecipDone
  <2> DEFINE n == IF job.op = "invert" THEN 1 ELSE job.arg
             r == IF place = "fixnum" THEN Normalized(a) ELSE Cmod(a)
  <2>1. modulus \in Nat \ {0} /\ n \in Int
    BY <1>1, <1>3 DEF RecipDone, ModularInv, JobFits
  <2>2. Cmod(a) \in Int
    BY <1>1, CmodFits DEF Fits
  <2>3. a % modulus \in 0..(modulus - 1) /\ a % 2 \in 0..1
    BY <1>1, <2>1
  <2>4. r \in Int
    BY <2>1, <2>2, <2>3 DEF Normalized
  <2>5. Finish(Ctimes(n, r))
    BY <1>3 DEF RecipDone
  <2> HIDE DEF n, r
  <2>6. n * r \in Int
    BY <2>1, <2>4
  <2>7. QED
    BY <1>1, <2>5, <2>6, CmodFits, FinishKeeps DEF Ctimes
<1>4. CASE PowerDone
  <2>1. Fits(s)
    BY <1>1, <1>4 DEF PowerDone, Fits, ModularInv, PowerFits
  <2>2. QED
    BY <1>1, <1>4, <2>1, FinishKeeps DEF PowerDone
<1>5. QED
    BY <1>2, <1>3, <1>4

LEMMA UserKeeps ==
    ASSUME ModularInv,
           \/ \E m \in Moduli : SetModulus(m)
           \/ \E op \in Operations, arg \in -Span..Span : Ask(op, arg)
    PROVE  ModularInv'
<1>1. CASE \E m \in Moduli : SetModulus(m)
  <2>1. PICK m \in Moduli : SetModulus(m)
    BY <1>1
  <2> USE <2>1 DEF SetModulus
  <2>2. TypeOK'
    BY DEF ModularInv, TypeOK, NoJob, euclid, expt
  <2>3. job.op = "none"
    BY NoJobTyped DEF ModularInv, TypeOK
  <2>4. FreshFits' /\ JobFits' /\ EuclidFits' /\ PowerFits'
    BY <2>3 DEF ModularInv, FreshFits, JobFits, EuclidFits, PowerFits
  <2>5. QED
    BY <2>2, <2>4 DEF ModularInv
<1>2. CASE \E op \in Operations, arg \in -Span..Span : Ask(op, arg)
  <2>1. PICK op \in Operations, arg \in -Span..Span : Ask(op, arg)
    BY <1>2
  <2> USE <2>1 DEF Ask
  <2>2. arg \in Int /\ op # "none"
    BY SpanAssumption DEF Operations
  <2>3. job'.op = op /\ job'.arg = arg /\ job' # NoJob
    BY <2>2 DEF NoJob
  <2>4. job' \in [op : Operations \cup {"none"}, arg : Int]
    BY <2>2
  <2>5. place' = "idle" <=> job' = NoJob'
    BY <2>3 DEF NoJob
  <2>6. TypeOK'
    BY <2>4, <2>5 DEF ModularInv, TypeOK, Places, Outcomes, euclid, expt
  <2>7. op = "power" => arg \in Nat
    BY SpanAssumption DEF Operand
  <2>8. op = "invert" => modulus # 0
    BY DEF Operand
  <2>9. modulus = 0 /\ op = "power" => Small(Exact(x, arg))
    BY DEF Within
  <2>10. FreshFits' /\ EuclidFits' /\ PowerFits'
    BY DEF ModularInv, FreshFits, EuclidFits, PowerFits
  <2>11. JobFits'
    BY <2>3, <2>7, <2>8, <2>9 DEF JobFits, Small
  <2>12. QED
    BY <2>6, <2>10, <2>11 DEF ModularInv
<1>3. QED
    BY <1>1, <1>2

-----------------------------------------------------------------------------
LEMMA ModularStep == ModularInv /\ [Next]_vars => ModularInv'
<1> SUFFICES ASSUME ModularInv, [Next]_vars PROVE ModularInv'
    OBVIOUS
<1>1. CASE UNCHANGED vars
  <2>1. UNCHANGED <<modulus, x, fresh, job, outcome, place, mod, remainder, a, b, base, s, pow>>
    BY <1>1 DEF vars, euclid, expt
  <2>2. TypeOK'
    BY <2>1 DEF ModularInv, TypeOK, NoJob
  <2>3. FreshFits' /\ JobFits' /\ EuclidFits' /\ PowerFits'
    BY <2>1 DEF ModularInv, FreshFits, JobFits, EuclidFits, PowerFits, Small, Exact
  <2>4. QED
    BY <2>2, <2>3 DEF ModularInv
<1>2. QED
    BY <1>1, UserKeeps, AtOnceKeeps, EuclidKeeps, PowerKeeps, DoneKeeps DEF Next, Compute

LEMMA ModularStart == Init => ModularInv
<1> SUFFICES ASSUME Init PROVE ModularInv
    OBVIOUS
<1> USE DEF Init
<1>1. TypeOK
    BY NoJobTyped DEF TypeOK, Outcomes, Places
<1>2. JobFits
    BY NoJobTyped DEF JobFits
<1>3. modulus \in Nat
    BY ModuliAssumption
<1>4. FreshFits /\ EuclidFits /\ PowerFits
    BY <1>3 DEF FreshFits, EuclidFits, PowerFits
<1>5. QED
    BY <1>1, <1>2, <1>4 DEF ModularInv

\* The invariant holds in every reachable state.
THEOREM ModularInvariant == Spec => []ModularInv
BY ModularStart, ModularStep, PTL DEF Spec

\* Type correctness of the coefficient and of the variables of the loops.
THEOREM ModularTypes == Spec => []TypeOK
<1>1. ModularInv => TypeOK
    BY DEF ModularInv
<1>2. QED
    BY <1>1, ModularInvariant, PTL

\* The declarations of crecip are true: whatever the modulus and the coefficient,
\* no variable of the loop leaves the fixnums.
THEOREM FixnumsSuffice == Spec => []RegistersFit
<1>1. ModularInv => RegistersFit
  <2> SUFFICES ASSUME ModularInv, place = "fixnum" PROVE RegistersFit
    BY DEF RegistersFit
  <2>1. /\ mod \in Int /\ remainder \in Int /\ a \in Int /\ b \in Int /\ modulus \in Nat
        /\ modulus < FixnumLimit /\ mod \in 1..modulus /\ remainder \in 0..modulus
        /\ Abs(a) <= modulus /\ Abs(b) <= modulus
    BY ModulusNat DEF ModularInv, TypeOK, EuclidFits
  <2>2. mod \in 0..(FixnumLimit - 1) /\ remainder \in 0..(FixnumLimit - 1)
    BY <2>1, LimitAssumption
  <2>3. a \in -FixnumLimit..(FixnumLimit - 1) /\ b \in -FixnumLimit..(FixnumLimit - 1)
    BY <2>1, LimitAssumption DEF Abs
  <2>4. QED
    BY <2>2, <2>3 DEF RegistersFit
<1>2. QED
    BY <1>1, ModularInvariant, PTL

\* pzerop is right about every coefficient of the modulus that is set.
THEOREM ZeroTestRight == Spec => []ZeroIsZero
<1>1. ModularInv => ZeroIsZero
  <2> SUFFICES ASSUME ModularInv, fresh, modulus > 1, x # 0 PROVE x % modulus # 0
    BY DEF ZeroIsZero
  <2>1. modulus \in Nat \ {0} /\ x \in Int
    BY ModulusNat DEF ModularInv, TypeOK
  <2>2. -modulus < x /\ x < modulus
    BY <2>1 DEF ModularInv, FreshFits
  <2>3. QED
    BY <2>1, <2>2
<1>2. QED
    BY <1>1, ModularInvariant, PTL

LEMMA OutIsStale ==
    ASSUME ModularInv, modulus # 0, x \notin -modulus..modulus
    PROVE  ~fresh
<1>1. modulus \in Nat /\ x \in Int
    BY ModulusNat DEF ModularInv, TypeOK
<1>2. ~(-modulus <= x /\ x <= modulus)
    BY <1>1
<1>3. QED
    BY <1>2 DEF ModularInv, FreshFits

\* A reciprocal that is refused for its range is that of a stale coefficient.
THEOREM RangeErrorsStale == Spec => []OutOfRangeIsStale
<1>1. Init => OutOfRangeIsStale
    BY DEF Init, OutOfRangeIsStale
<1>2. ModularInv /\ OutOfRangeIsStale /\ [Next]_vars => OutOfRangeIsStale'
  <2> SUFFICES ASSUME ModularInv, OutOfRangeIsStale, [Next]_vars PROVE OutOfRangeIsStale'
    OBVIOUS
  <2> USE DEF OutOfRangeIsStale
  <2>1. ASSUME NEW how \in Outcomes, Signal(how), how # "out of range" PROVE OutOfRangeIsStale'
    BY <2>1 DEF Signal
  <2>2. ASSUME CrecipStart(x), modulus # 0 PROVE OutOfRangeIsStale'
    <3>1. CASE modulus < FixnumLimit /\ x \notin -modulus..modulus
      <4>1. ~fresh
        BY <2>2, <3>1, OutIsStale
      <4>2. UNCHANGED fresh
        BY <2>2, <3>1 DEF CrecipStart, Signal
      <4>3. QED
        BY <4>1, <4>2
    <3>2. CASE ~(modulus < FixnumLimit /\ x \notin -modulus..modulus)
      BY <2>2, <3>2 DEF CrecipStart
    <3>3. QED
      BY <3>1, <3>2
  <2>3. CASE Enter \/ Plus \/ Difference \/ Times \/ RecipDone \/ PowerDone
    BY <2>3 DEF Enter, Plus, Difference, Times, RecipDone, PowerDone, Finish
  <2>4. CASE Quotient
    BY <2>1, <2>2, <2>4 DEF Quotient, Finish, Outcomes
  <2>5. CASE Invert
    BY <2>1, <2>2, <2>5 DEF Invert, Starting, Outcomes, ModularInv, JobFits
  <2>6. CASE NoInverse
    BY <2>1, <2>6 DEF NoInverse, Outcomes
  <2>7. CASE EuclidStep \/ PowerStart \/ PowerStep
    BY <2>7 DEF EuclidStep, PowerStart, PowerStep
  <2>8. CASE PowerAtOnce
    BY <2>8 DEF PowerAtOnce, Finish
  <2>9. CASE \E m \in Moduli : SetModulus(m)
    BY <2>9 DEF SetModulus
  <2>10. CASE \E op \in Operations, arg \in -Span..Span : Ask(op, arg)
    BY <2>10 DEF Ask
  <2>11. CASE UNCHANGED vars
    BY <2>11 DEF vars
  <2>12. QED
    BY <2>3, <2>4, <2>5, <2>6, <2>7, <2>8, <2>9, <2>10, <2>11 DEF Next, Compute
<1>3. QED
    BY <1>1, <1>2, ModularInvariant, PTL DEF Spec

-----------------------------------------------------------------------------
(* The loops *)

\* What is left in front of the loop underway: the size of the remainder, which is
\* negative in crecip-general when the coefficient is older than the modulus, or
\* the exponent.
LoopLeft == IF place = "power" THEN pow + 1 ELSE IF place = "idle" THEN 0 ELSE Abs(remainder) + 1

\* A loop is underway; and less is left of it than was before.
Looping == place \in {"fixnum", "general", "power"}
LessLeft == LoopLeft \in Nat /\ LoopLeft' \in Nat /\ LoopLeft' < LoopLeft

\* What TRUNCATE leaves is smaller than the divisor, whatever the signs.
LEMMA TruncateLeaves ==
    ASSUME NEW i \in Int, NEW j \in Int \ {0}
    PROVE  Abs(i - Truncate(i, j) * j) < Abs(j)
<1> DEFINE p == Abs(i)  d == Abs(j)  q == p \div d
<1>1. p \in Nat /\ d \in Nat \ {0}
    BY DEF Abs
<1>2. q \in Nat /\ p - d * q \in 0..(d - 1)
  <2> HIDE DEF p, d
  <2>1. QED
    BY <1>1
<1>3. CASE i >= 0 /\ j > 0
  <2>1. p = i /\ d = j /\ Truncate(i, j) = q
    BY <1>3 DEF Abs, Truncate
  <2> HIDE DEF p, d, q
  <2>2. i - Truncate(i, j) * j = p - d * q
    BY <1>2, <2>1
  <2>3. QED
    BY <1>1, <1>2, <2>2 DEF Abs, d
<1>4. CASE i >= 0 /\ j < 0
  <2>1. p = i /\ j = -d /\ Truncate(i, j) = -q
    BY <1>4 DEF Abs, Truncate
  <2> HIDE DEF p, d, q
  <2>2. i - Truncate(i, j) * j = p - d * q
    BY <1>1, <1>2, <2>1
  <2>3. QED
    BY <1>1, <1>2, <2>2 DEF Abs, d
<1>5. CASE i < 0 /\ j > 0
  <2>1. i = -p /\ d = j /\ Truncate(i, j) = -q
    BY <1>5 DEF Abs, Truncate
  <2> HIDE DEF p, d, q
  <2>2. i - Truncate(i, j) * j = -(p - d * q)
    BY <1>1, <1>2, <2>1
  <2>3. QED
    BY <1>1, <1>2, <2>2 DEF Abs, d
<1>6. CASE i < 0 /\ j < 0
  <2>1. i = -p /\ j = -d /\ Truncate(i, j) = q
    BY <1>6 DEF Abs, Truncate
  <2> HIDE DEF p, d, q
  <2>2. i - Truncate(i, j) * j = -(p - d * q)
    BY <1>1, <1>2, <2>1
  <2>3. QED
    BY <1>1, <1>2, <2>2 DEF Abs, d
<1>7. QED
    BY <1>3, <1>4, <1>5, <1>6

\* Every round of crecip, crecip-general and cexpt leaves less to do than there was
\* before, also on a coefficient for which the numbers of crecip-general become
\* negative: none of the loops runs for ever.  (src/rat3a.lisp:92-186)
THEOREM LoopsEnd == Spec => [][Looping => LessLeft]_vars
<1>1. ModularInv /\ [Next]_vars => [Looping => LessLeft]_vars
  <2> SUFFICES ASSUME ModularInv, Next, Looping PROVE LessLeft
    OBVIOUS
  <2> USE DEF Looping, LessLeft
  <2>1. mod \in Int /\ remainder \in Int /\ pow \in Nat /\ place # "start" /\ place # "idle"
    BY DEF ModularInv, TypeOK
  <2>2. LoopLeft \in Nat \ {0}
    BY <2>1 DEF LoopLeft, Abs
  <2>3. CASE EuclidStep
    <3>1. PICK r \in Int : r = mod - Truncate(mod, remainder) * remainder
      BY <2>1, <2>3, TruncateInt DEF EuclidStep
    <3>2. place' = place /\ place # "power" /\ place # "idle" /\ remainder' = r /\ remainder # 0
      BY <2>3, <3>1 DEF EuclidStep
    <3>3. Abs(r) < Abs(remainder) /\ Abs(r) \in Nat
      BY <2>1, <3>1, <3>2, TruncateLeaves DEF Abs
    <3>4. QED
      BY <2>1, <2>2, <3>2, <3>3 DEF LoopLeft, Abs
  <2>4. CASE PowerStep
    <3>1. place = "power" /\ place' = "power" /\ pow # 0 /\ pow' = pow \div 2
      BY <2>4 DEF PowerStep
    <3>2. pow \div 2 \in Nat /\ pow \div 2 < pow
      BY <2>1, <3>1
    <3>3. LoopLeft = pow + 1 /\ LoopLeft' = (pow \div 2) + 1
      BY <3>1 DEF LoopLeft
    <3>4. QED
      BY <2>1, <3>2, <3>3
  <2>5. CASE NoInverse \/ RecipDone \/ PowerDone
    <3>1. place' = "idle"
      BY <2>5, Zenon DEF NoInverse, RecipDone, PowerDone, Signal, Finish
    <3>2. QED
      BY <2>2, <3>1 DEF LoopLeft
  <2>6. /\ ~ \E m \in Moduli : SetModulus(m)
        /\ ~ \E op \in Operations, arg \in -Span..Span : Ask(op, arg)
    BY <2>1, Zenon DEF SetModulus, Ask
  <2>7. ~(Enter \/ Plus \/ Difference \/ Times \/ Quotient \/ Invert \/ PowerAtOnce \/ PowerStart)
    BY <2>1, Zenon DEF Enter, Plus, Difference, Times, Quotient, Invert, PowerAtOnce, PowerStart, Starting
  <2>8. QED
    BY <2>3, <2>4, <2>5, <2>6, <2>7, Zenon DEF Next, Compute
<1>2. QED
    BY <1>1, ModularInvariant, PTL DEF Spec

-----------------------------------------------------------------------------
(* The predecessor in C *)

\* The sum and the difference of two fixnums are exact, overflow or not.
THEOREM FplusExact == \A m, n \in Fixnums : Fplus(m, n) = m + n /\ Fminus(m, n) = m - n
BY HalfAssumption DEF Fixnums, Fplus, Fminus, Wrap, Masked, Bignum2

\* On coefficients in its range cplus and cdifference cannot overflow, although
\* they add ints.
THEOREM RangeHasNoOverflow ==
    ASSUME NEW m \in Fixnums, m > 0, NEW i \in Int, NEW j \in Int,
           InRange(i, m), InRange(j, m)
    PROVE  Wrap(i + j) = i + j /\ Wrap(i - j) = i - j
<1>1. 2 * (m \div 2) <= m /\ m \div 2 \in Nat
    BY HalfAssumption DEF Fixnums
<1>2. QED
    BY <1>1, HalfAssumption DEF Fixnums, Wrap, InRange
-----------------------------------------------------------------------------
(* Congruence: the ring without division.                                  *)

Cong(i, j, m) == \E k \in Int : i = j + k * m

LEMMA CongSame ==
    ASSUME NEW m \in Nat \ {0}, NEW i \in Int, NEW j \in Int
    PROVE  Cong(i, i, m) /\ (Cong(i, j, m) => Cong(j, i, m))
<1>1. Cong(i, i, m)
  <2>1. 0 \in Int /\ i = i + 0 * m
    OBVIOUS
  <2> QED
    BY <2>1 DEF Cong
<1>2. ASSUME Cong(i, j, m) PROVE Cong(j, i, m)
  <2>1. PICK k \in Int : i = j + k * m
    BY <1>2 DEF Cong
  <2>2. -k \in Int /\ j = i + (-k) * m
    BY <2>1
  <2> QED
    BY <2>2 DEF Cong
<1> QED
  BY <1>1, <1>2

LEMMA CongTrans ==
    ASSUME NEW m \in Nat \ {0}, NEW i \in Int, NEW j \in Int, NEW l \in Int,
           Cong(i, j, m), Cong(j, l, m)
    PROVE  Cong(i, l, m)
<1>1. PICK p \in Int : i = j + p * m
  BY DEF Cong
<1>2. PICK q \in Int : j = l + q * m
  BY DEF Cong
<1>3. p + q \in Int /\ i = l + (p + q) * m
  BY <1>1, <1>2
<1> QED
  BY <1>3 DEF Cong

LEMMA CongSum ==
    ASSUME NEW m \in Nat \ {0}, NEW i \in Int, NEW j \in Int, NEW k \in Int, NEW l \in Int,
           Cong(i, j, m), Cong(k, l, m)
    PROVE  Cong(i + k, j + l, m) /\ Cong(i - k, j - l, m)
<1>1. PICK p \in Int : i = j + p * m
  BY DEF Cong
<1>2. PICK q \in Int : k = l + q * m
  BY DEF Cong
<1>3. /\ p + q \in Int /\ i + k = (j + l) + (p + q) * m
      /\ p - q \in Int /\ i - k = (j - l) + (p - q) * m
  BY <1>1, <1>2
<1> QED
  BY <1>3 DEF Cong

LEMMA CongProduct ==
    ASSUME NEW m \in Nat \ {0}, NEW i \in Int, NEW j \in Int, NEW k \in Int, NEW l \in Int,
           Cong(i, j, m), Cong(k, l, m)
    PROVE  Cong(i * k, j * l, m)
<1>1. PICK p \in Int : i = j + p * m
  BY DEF Cong
<1>2. PICK q \in Int : k = l + q * m
  BY DEF Cong
<1>3. (j + p * m) * (l + q * m) = j * l + (j * q + p * l + p * q * m) * m
  BY <1>1, <1>2
<1>4. j * q + p * l + p * q * m \in Int
  BY <1>1, <1>2
<1>5. i * k = (j + p * m) * (l + q * m)
  BY <1>1, <1>2
<1> QED
  BY <1>3, <1>4, <1>5 DEF Cong

\* Less than a modulus apart, and congruent: equal.
LEMMA CongNear ==
    ASSUME NEW m \in Nat \ {0}, NEW i \in Int, NEW j \in Int, Cong(i, j, m),
           -m < i - j, i - j < m
    PROVE  i = j
<1>1. PICK k \in Int : i = j + k * m
  BY DEF Cong
<1>2. CASE k >= 1
  <2>1. k * m >= m
    BY <1>2
  <2> QED
    BY <1>1, <2>1
<1>3. CASE k <= -1
  <2>1. k * m <= -m
    BY <1>3
  <2> QED
    BY <1>1, <2>1
<1>4. CASE k = 0
  BY <1>1, <1>4
<1> QED
  BY <1>2, <1>3, <1>4

LEMMA CongRest ==
    ASSUME NEW m \in Nat \ {0}, NEW i \in Int
    PROVE  i % m \in 0..(m - 1) /\ Cong(i, i % m, m)
<1>1. i % m \in 0..(m - 1) /\ i \div m \in Int /\ i = (i % m) + (i \div m) * m
  OBVIOUS
<1> QED
  BY <1>1 DEF Cong

\* Numbers are congruent when they leave the same rest.
LEMMA CongMod ==
    ASSUME NEW m \in Nat \ {0}, NEW i \in Int, NEW j \in Int
    PROVE  Cong(i, j, m) <=> i % m = j % m
<1>1. PICK p \in 0..(m - 1) : p = i % m /\ Cong(i, p, m)
  BY CongRest
<1>2. PICK q \in 0..(m - 1) : q = j % m /\ Cong(j, q, m)
  BY CongRest
<1>3. Cong(p, i, m) /\ Cong(q, j, m)
  <2>1. p \in Int /\ q \in Int
    OBVIOUS
  <2> QED
    BY <1>1, <1>2, <2>1, CongSame
<1>4. ASSUME Cong(i, j, m) PROVE p = q
  <2>1. Cong(p, j, m)
    BY <1>3, <1>4, CongTrans
  <2>2. Cong(p, q, m)
    BY <1>2, <2>1, CongTrans
  <2>3. p \in Int /\ q \in Int /\ -m < p - q /\ p - q < m
    OBVIOUS
  <2> QED
    BY <2>2, <2>3, CongNear
<1>5. ASSUME p = q PROVE Cong(i, j, m)
  BY <1>1, <1>3, <1>5, CongTrans
<1> QED
  BY <1>1, <1>2, <1>4, <1>5

\* What REM and normalized-modulus leave is congruent to what they are given.
LEMMA RemCong ==
    ASSUME NEW m \in Nat \ {0}, NEW i \in Int
    PROVE  Rem(i, m) \in Int /\ Cong(Rem(i, m), i, m)
<1>1. PICK q \in Int : q = Truncate(i, m)
  BY TruncateInt
<1>2. Rem(i, m) = i + (-q) * m /\ -q \in Int
  BY <1>1 DEF Rem
<1> QED
  BY <1>2 DEF Cong

LEMMA NormalCong ==
    ASSUME NEW m \in Nat \ {0}, NEW n \in Int
    PROVE  NormalizedModulus(n, m) \in Int /\ Cong(NormalizedModulus(n, m), n, m)
<1>1. PICK r \in 0..(m - 1) : r = n % m /\ Cong(n, r, m)
  BY CongRest
<1>2. Cong(r, n, m)
  BY <1>1, CongSame
<1>3. NormalizedModulus(n, m) \in {r, r - m}
  BY <1>1 DEF NormalizedModulus
<1>4. Cong(r - m, n, m)
  <2>1. r - m \in Int /\ r - m = r + (-1) * m
    OBVIOUS
  <2>2. Cong(r - m, r, m)
    BY <2>1 DEF Cong
  <2> QED
    BY <1>2, <2>1, <2>2, CongTrans
<1> QED
  BY <1>2, <1>3, <1>4

-----------------------------------------------------------------------------
(* Powers.                                                                 *)

LEMMA LeastNatural ==
    ASSUME NEW S \in SUBSET Nat, S # {}
    PROVE  \E n \in S : \A m \in S : n <= m
<1> DEFINE R == {ss \in Nat \X Nat : ss[1] < ss[2]}
<1>1. IsWellFoundedOn(R, Nat)
  BY NatLessThanWellFounded DEF OpToRel
<1> HIDE DEF R
<1>2. PICK n \in S : \A m \in S : <<m, n>> \notin R
  BY <1>1, WFMin
<1>3. \A m \in S : ~ (m < n)
  BY <1>2 DEF R
<1> QED
  BY <1>3

\* A set that holds 0 and with each number the next one holds them all.
LEMMA EveryNatural ==
    ASSUME NEW S, 0 \in S, \A n \in Nat : n \in S => n + 1 \in S
    PROVE  \A n \in Nat : n \in S
<1> SUFFICES ASSUME Nat \ S # {} PROVE FALSE
  OBVIOUS
<1>1. PICK n \in Nat \ S : \A m \in Nat \ S : n <= m
  BY LeastNatural
<1>2. n - 1 \in Nat /\ n - 1 \in S
  BY <1>1
<1> QED
  BY <1>1, <1>2

\* g holds the powers of i up to the n-th, as EXPT does.
IsPowers(g, i, n) == g = [k \in 0..n |-> IF k = 0 THEN 1 ELSE i * g[k - 1]]

LEMMA PowersAt ==
    ASSUME NEW i, NEW n \in Nat, NEW g, IsPowers(g, i, n), NEW k \in 0..n
    PROVE  g[k] = IF k = 0 THEN 1 ELSE i * g[k - 1]
<1>1. [q \in 0..n |-> IF q = 0 THEN 1 ELSE i * g[q - 1]][k] = IF k = 0 THEN 1 ELSE i * g[k - 1]
  OBVIOUS
<1> QED
  BY <1>1, Zenon DEF IsPowers

LEMMA PowersExist ==
    ASSUME NEW i, NEW n \in Nat
    PROVE  \E g : IsPowers(g, i, n)
<1> DEFINE S == {q \in Nat : \E g : IsPowers(g, i, q)}
<1>1. 0 \in S
  <2>1. IsPowers([r \in 0..0 |-> 1], i, 0)
    BY DEF IsPowers
  <2> QED
    BY <2>1
<1>2. ASSUME NEW d \in Nat, d \in S PROVE d + 1 \in S
  <2>1. PICK g : IsPowers(g, i, d)
    BY <1>2
  <2>2. PICK new : new = i * g[d]
    OBVIOUS
  <2> DEFINE h == [r \in 0..(d + 1) |-> IF r = d + 1 THEN new ELSE g[r]]
  <2>3. ASSUME NEW r \in 0..(d + 1) PROVE h[r] = IF r = 0 THEN 1 ELSE i * h[r - 1]
    <3>1. CASE r = d + 1
      <4>1. r # 0 /\ r - 1 = d /\ d \in 0..(d + 1) /\ d # d + 1
        BY <3>1
      <4>2. h[r] = new /\ h[d] = g[d]
        BY <3>1, <4>1
      <4> QED
        BY <2>2, <3>1, <4>1, <4>2
    <3>2. CASE r # d + 1
      <4>1. r \in 0..d /\ (r # 0 => r - 1 \in 0..d)
        BY <3>2
      <4>2. h[r] = g[r] /\ (r # 0 => h[r - 1] = g[r - 1])
        BY <4>1
      <4>3. g[r] = IF r = 0 THEN 1 ELSE i * g[r - 1]
        BY <2>1, <4>1, PowersAt
      <4> QED
        BY <4>2, <4>3
    <3> QED
      BY <3>1, <3>2
  <2>4. h = [r \in 0..(d + 1) |-> IF r = 0 THEN 1 ELSE i * h[r - 1]]
    <3>1. h = [r \in 0..(d + 1) |-> h[r]]
      OBVIOUS
    <3> HIDE DEF h
    <3> QED
      BY <2>3, <3>1
  <2>5. IsPowers(h, i, d + 1)
    BY <2>4 DEF IsPowers
  <2> QED
    BY <2>5
<1> HIDE DEF S
<1>3. \A q \in Nat : q \in S
  BY <1>1, <1>2, EveryNatural
<1> QED
  BY <1>3 DEF S

PowerAt(g, i, k) == g[k] = IF k = 0 THEN 1 ELSE i * g[k - 1]

LEMMA ExactIs ==
    ASSUME NEW i, NEW n \in Nat
    PROVE  \E g : Exact(i, n) = g[n] /\ \A k \in 0..n : PowerAt(g, i, k)
<1> DEFINE e == CHOOSE g : IsPowers(g, i, n)
<1>1. IsPowers(e, i, n)
  BY PowersExist
<1>2. Exact(i, n) = e[n]
  BY DEF Exact, IsPowers
<1> HIDE DEF e
<1>3. \A k \in 0..n : PowerAt(e, i, k)
  BY <1>1, PowersAt DEF PowerAt
<1> QED
  BY <1>2, <1>3

\* Two such functions agree where both are defined.
LEMMA PowersAgree ==
    ASSUME NEW i \in Int, NEW g, NEW h, NEW n \in Nat,
           \A k \in 0..n : PowerAt(g, i, k), \A k \in 0..n : PowerAt(h, i, k)
    PROVE  \A k \in 0..n : g[k] = h[k] /\ g[k] \in Int
<1> DEFINE S == {k \in Nat : k <= n => g[k] = h[k] /\ g[k] \in Int}
<1>1. 0 \in S
  BY DEF PowerAt
<1>2. ASSUME NEW k \in Nat, k \in S PROVE k + 1 \in S
  <2> SUFFICES ASSUME k + 1 <= n PROVE g[k + 1] = h[k + 1] /\ g[k + 1] \in Int
    OBVIOUS
  <2>1. PICK l \in 0..n : l = k + 1 /\ l - 1 = k /\ l # 0
    OBVIOUS
  <2>2. g[l] = i * g[k] /\ h[l] = i * h[k]
    BY <2>1 DEF PowerAt
  <2>3. g[k] = h[k] /\ g[k] \in Int
    BY <1>2
  <2> QED
    BY <2>1, <2>2, <2>3
<1> HIDE DEF S
<1>3. \A k \in Nat : k \in S
  BY <1>1, <1>2, EveryNatural
<1> QED
  BY <1>3 DEF S

\* The laws of EXPT.
LEMMA ExactFirst == ASSUME NEW i PROVE Exact(i, 0) = 1
<1>1. PICK g : Exact(i, 0) = g[0] /\ \A k \in 0..0 : PowerAt(g, i, k)
  BY ExactIs
<1> QED
  BY <1>1 DEF PowerAt

LEMMA ExactNext ==
    ASSUME NEW i \in Int, NEW n \in Nat
    PROVE  Exact(i, n) \in Int /\ Exact(i, n + 1) = i * Exact(i, n)
<1>1. PICK g : Exact(i, n) = g[n] /\ \A k \in 0..n : PowerAt(g, i, k)
  BY ExactIs
<1>2. PICK v \in Nat : v = n + 1 /\ v - 1 = n /\ v # 0
  OBVIOUS
<1>3. PICK h : Exact(i, v) = h[v] /\ \A k \in 0..v : PowerAt(h, i, k)
  BY ExactIs
<1>4. \A k \in 0..n : PowerAt(h, i, k)
  BY <1>2, <1>3
<1>5. g[n] = h[n] /\ g[n] \in Int
  BY <1>1, <1>4, PowersAgree
<1>6. h[v] = i * h[n]
  BY <1>2, <1>3 DEF PowerAt
<1> QED
  BY <1>1, <1>2, <1>3, <1>5, <1>6

LEMMA ExactOne == ASSUME NEW i \in Int PROVE Exact(i, 1) = i
<1>1. Exact(i, 0 + 1) = i * Exact(i, 0)
  BY ExactNext
<1> QED
  BY <1>1, ExactFirst

LEMMA ExactSum ==
    ASSUME NEW i \in Int, NEW n \in Nat
    PROVE  \A k \in Nat : Exact(i, n + k) = Exact(i, n) * Exact(i, k)
<1>0. Exact(i, n) \in Int
  BY ExactNext
<1> DEFINE S == {k \in Nat : Exact(i, n + k) = Exact(i, n) * Exact(i, k)}
<1>1. 0 \in S
  BY <1>0, ExactFirst
<1>2. ASSUME NEW k \in Nat, k \in S PROVE k + 1 \in S
  <2>1. Exact(i, k) \in Int /\ Exact(i, k + 1) = i * Exact(i, k)
    BY ExactNext
  <2>2. n + k \in Nat /\ n + (k + 1) = (n + k) + 1
    OBVIOUS
  <2>3. Exact(i, (n + k) + 1) = i * Exact(i, n + k)
    BY <2>2, ExactNext
  <2>4. Exact(i, n + k) = Exact(i, n) * Exact(i, k)
    BY <1>2
  <2>5. i * (Exact(i, n) * Exact(i, k)) = Exact(i, n) * (i * Exact(i, k))
    BY <1>0, <2>1
  <2> QED
    BY <2>1, <2>2, <2>3, <2>4, <2>5
<1> HIDE DEF S
<1>3. \A k \in Nat : k \in S
  BY <1>1, <1>2, EveryNatural
<1> QED
  BY <1>3 DEF S

LEMMA ExactSquare ==
    ASSUME NEW i \in Int
    PROVE  \A k \in Nat : Exact(i * i, k) = Exact(i, 2 * k)
<1>0. i * i \in Int
  OBVIOUS
<1> DEFINE S == {k \in Nat : Exact(i * i, k) = Exact(i, 2 * k)}
<1>1. 0 \in S
  BY ExactFirst
<1>2. ASSUME NEW k \in Nat, k \in S PROVE k + 1 \in S
  <2>1. Exact(i * i, k + 1) = (i * i) * Exact(i * i, k)
    BY <1>0, ExactNext
  <2>2. 2 * k \in Nat /\ 2 * k + 1 \in Nat /\ 2 * (k + 1) = (2 * k + 1) + 1
    OBVIOUS
  <2>3. Exact(i, 2 * k) \in Int /\ Exact(i, 2 * k + 1) = i * Exact(i, 2 * k)
    BY <2>2, ExactNext
  <2>4. Exact(i, (2 * k + 1) + 1) = i * Exact(i, 2 * k + 1)
    BY <2>2, ExactNext
  <2>5. Exact(i * i, k) = Exact(i, 2 * k)
    BY <1>2
  <2>6. i * (i * Exact(i, 2 * k)) = (i * i) * Exact(i, 2 * k)
    BY <2>3
  <2> QED
    BY <2>1, <2>2, <2>3, <2>4, <2>5, <2>6
<1> HIDE DEF S
<1>3. \A k \in Nat : k \in S
  BY <1>1, <1>2, EveryNatural
<1> QED
  BY <1>3 DEF S

LEMMA ExactCong ==
    ASSUME NEW m \in Nat \ {0}, NEW i \in Int, NEW j \in Int, Cong(i, j, m)
    PROVE  \A k \in Nat : Cong(Exact(i, k), Exact(j, k), m)
<1> DEFINE S == {k \in Nat : Cong(Exact(i, k), Exact(j, k), m)}
<1>1. 0 \in S
  BY ExactFirst, CongSame
<1>2. ASSUME NEW k \in Nat, k \in S PROVE k + 1 \in S
  <2>1. /\ Exact(i, k) \in Int /\ Exact(i, k + 1) = i * Exact(i, k)
        /\ Exact(j, k) \in Int /\ Exact(j, k + 1) = j * Exact(j, k)
    BY ExactNext
  <2>2. Cong(Exact(i, k), Exact(j, k), m)
    BY <1>2
  <2>3. Cong(i * Exact(i, k), j * Exact(j, k), m)
    BY <2>1, <2>2, CongProduct
  <2> QED
    BY <2>1, <2>3
<1> HIDE DEF S
<1>3. \A k \in Nat : k \in S
  BY <1>1, <1>2, EveryNatural
<1> QED
  BY <1>3 DEF S

-----------------------------------------------------------------------------
(* The elements of the ring.                                               *)

Res(i) == IF modulus = 0 THEN i ELSE i % modulus

LEMMA ClassIs == \A i : Ring!Class(i) = Res(i)
BY DEF Ring!Class, Res

LEMMA ResFacts ==
    ASSUME modulus \in Nat, NEW i \in Int
    PROVE  /\ Res(i) \in Int /\ Res(Res(i)) = Res(i)
           /\ modulus # 0 => Cong(i, Res(i), modulus)
<1>1. CASE modulus = 0
  BY <1>1 DEF Res
<1>2. CASE modulus # 0
  <2>1. PICK r \in 0..(modulus - 1) : r = i % modulus /\ Cong(i, r, modulus)
    BY <1>2, CongRest
  <2>2. r \in Int /\ r % modulus = r
    BY <1>2
  <2> QED
    BY <1>2, <2>1, <2>2 DEF Res
<1> QED
  BY <1>1, <1>2

LEMMA ResSame ==
    ASSUME modulus \in Nat, NEW i \in Int, NEW j \in Int
    PROVE  /\ modulus = 0 => (Res(i) = Res(j) <=> i = j)
           /\ modulus # 0 => (Res(i) = Res(j) <=> Cong(i, j, modulus))
BY CongMod DEF Res

\* Operations on elements are operations on what stands for them.
LEMMA ResProduct ==
    ASSUME modulus \in Nat, NEW i \in Int, NEW j \in Int
    PROVE  /\ Res(i * j) = Res(Res(i) * j) /\ Res(i * j) = Res(Res(i) * Res(j))
           /\ Res(i * j) = Res(i * Res(j))
<1>1. CASE modulus = 0
  BY <1>1 DEF Res
<1>2. CASE modulus # 0
  <2>1. PICK p \in Int : p = Res(i) /\ Cong(i, p, modulus)
    BY <1>2, ResFacts
  <2>2. PICK q \in Int : q = Res(j) /\ Cong(j, q, modulus)
    BY <1>2, ResFacts
  <2>3. Cong(j, j, modulus) /\ Cong(i, i, modulus)
    BY <1>2, CongSame
  <2>4. Cong(i * j, p * j, modulus) /\ Cong(i * j, p * q, modulus) /\ Cong(i * j, i * q, modulus)
    BY <1>2, <2>1, <2>2, <2>3, CongProduct
  <2>5. i * j \in Int /\ p * j \in Int /\ p * q \in Int /\ i * q \in Int
    OBVIOUS
  <2>6. Res(i * j) = Res(p * j) /\ Res(i * j) = Res(p * q) /\ Res(i * j) = Res(i * q)
    BY <1>2, <2>4, <2>5, ResSame
  <2> QED
    BY <2>1, <2>2, <2>6
<1> QED
  BY <1>1, <1>2

LEMMA ResSum ==
    ASSUME modulus \in Nat, NEW i \in Int, NEW j \in Int
    PROVE  Res(i + j) = Res(Res(i) + j) /\ Res(i - j) = Res(Res(i) - j)
<1>1. CASE modulus = 0
  BY <1>1 DEF Res
<1>2. CASE modulus # 0
  <2>1. PICK p \in Int : p = Res(i) /\ Cong(i, p, modulus)
    BY <1>2, ResFacts
  <2>2. Cong(j, j, modulus)
    BY <1>2, CongSame
  <2>3. Cong(i + j, p + j, modulus) /\ Cong(i - j, p - j, modulus)
    BY <1>2, <2>1, <2>2, CongSum
  <2>4. i + j \in Int /\ p + j \in Int /\ i - j \in Int /\ p - j \in Int
    OBVIOUS
  <2>5. Res(i + j) = Res(p + j) /\ Res(i - j) = Res(p - j)
    BY <1>2, <2>3, <2>4, ResSame
  <2> QED
    BY <2>1, <2>5
<1> QED
  BY <1>1, <1>2

\* cmod keeps the element.
LEMMA CmodRes ==
    ASSUME modulus \in Nat, NEW n \in Int
    PROVE  Cmod(n) \in Int /\ Res(Cmod(n)) = Res(n)
<1>1. CASE modulus = 0
  BY <1>1 DEF Cmod
<1>2. CASE modulus # 0
  <2>1. Cmod(n) \in Int /\ Cong(Cmod(n), n, modulus)
    BY <1>2, NormalCong DEF Cmod
  <2> QED
    BY <1>2, <2>1, ResSame
<1> QED
  BY <1>1, <1>2

\* The powers in the ring.
IsClassPowers(g, r, n) ==
    g = [k \in 0..n |-> IF k = 0 THEN Ring!Class(1) ELSE Ring!Class(r * g[k - 1])]

LEMMA ClassPowersAt ==
    ASSUME NEW r, NEW n \in Nat, NEW g, IsClassPowers(g, r, n), NEW k \in 0..n
    PROVE  g[k] = IF k = 0 THEN Ring!Class(1) ELSE Ring!Class(r * g[k - 1])
<1>1. [q \in 0..n |-> IF q = 0 THEN Ring!Class(1) ELSE Ring!Class(r * g[q - 1])][k] =
         IF k = 0 THEN Ring!Class(1) ELSE Ring!Class(r * g[k - 1])
  OBVIOUS
<1> QED
  BY <1>1, Zenon DEF IsClassPowers

LEMMA RingPower ==
    ASSUME modulus \in Nat, NEW i \in Int, NEW n \in Nat
    PROVE  Ring!PowerOf(Res(i), n) = Res(Exact(i, n))
<1>1. PICK r \in Int : r = Res(i)
  BY ResFacts
<1>2. PICK f : Exact(i, n) = f[n] /\ \A k \in 0..n : PowerAt(f, i, k)
  BY ExactIs
<1>3. \A k \in 0..n : f[k] \in Int
  BY <1>2, PowersAgree
<1>4. ASSUME NEW k \in 1..n
      PROVE  f[k] = i * f[k - 1] /\ f[k - 1] \in Int /\ Res(f[k]) = Res(r * Res(f[k - 1]))
  <2>1. k \in 0..n /\ k - 1 \in 0..n /\ k # 0
    OBVIOUS
  <2>2. PICK c \in Int : c = f[k - 1]
    BY <1>3, <2>1
  <2>3. f[k] = i * c
    BY <1>2, <2>1, <2>2 DEF PowerAt
  <2>4. Res(i * c) = Res(Res(i) * Res(c))
    BY ResProduct
  <2> QED
    BY <1>1, <2>2, <2>3, <2>4
<1> DEFINE h == [k \in 0..n |-> Res(f[k])]
<1>5. IsClassPowers(h, r, n)
  <2>1. \A k \in 0..n : h[k] = IF k = 0 THEN Ring!Class(1) ELSE Ring!Class(r * h[k - 1])
    <3> TAKE k \in 0..n
    <3>1. CASE k = 0
      <4>1. f[0] = 1 /\ h[0] = Res(f[0])
        BY <1>2, <3>1 DEF PowerAt
      <4> QED
        BY <3>1, <4>1, ClassIs
    <3>2. CASE k # 0
      <4>1. k \in 1..n /\ k - 1 \in 0..n
        BY <3>2
      <4>2. h[k] = Res(f[k]) /\ h[k - 1] = Res(f[k - 1])
        BY <4>1
      <4>3. Res(f[k]) = Res(r * Res(f[k - 1]))
        BY <1>4, <4>1
      <4> QED
        BY <3>2, <4>2, <4>3, ClassIs
    <3> QED
      BY <3>1, <3>2
  <2>2. h = [k \in 0..n |-> h[k]]
    OBVIOUS
  <2> HIDE DEF h
  <2>3. h = [k \in 0..n |-> IF k = 0 THEN Ring!Class(1) ELSE Ring!Class(r * h[k - 1])]
    BY <2>1, <2>2
  <2> QED
    BY <2>3 DEF IsClassPowers
<1> HIDE DEF h
<1> DEFINE p == CHOOSE g : IsClassPowers(g, r, n)
<1>6. IsClassPowers(p, r, n)
  BY <1>5
<1>7. Ring!PowerOf(r, n) = p[n]
  BY DEF Ring!PowerOf, IsClassPowers
<1> HIDE DEF p
<1> DEFINE S == {k \in Nat : k <= n => p[k] = Res(f[k])}
<1>8. 0 \in S
  <2>1. 0 \in 0..n
    OBVIOUS
  <2>2. p[0] = Ring!Class(1) /\ f[0] = 1
    BY <1>2, <1>6, <2>1, ClassPowersAt DEF PowerAt
  <2> QED
    BY <2>2, ClassIs
<1>9. ASSUME NEW k \in Nat, k \in S PROVE k + 1 \in S
  <2> SUFFICES ASSUME k + 1 <= n PROVE p[k + 1] = Res(f[k + 1])
    OBVIOUS
  <2>1. PICK l \in 1..n : l = k + 1 /\ l - 1 = k /\ l # 0 /\ l \in 0..n
    OBVIOUS
  <2>2. p[l] = Ring!Class(r * p[l - 1])
    BY <1>6, <2>1, ClassPowersAt
  <2>3. p[k] = Res(f[k])
    BY <1>9
  <2>4. Res(f[l]) = Res(r * Res(f[l - 1]))
    BY <1>4
  <2> QED
    BY <2>1, <2>2, <2>3, <2>4, ClassIs
<1> HIDE DEF S
<1>10. \A k \in Nat : k \in S
  BY <1>8, <1>9, EveryNatural
<1>11. p[n] = Res(f[n])
  BY <1>10 DEF S
<1> QED
  BY <1>1, <1>2, <1>7, <1>11

-----------------------------------------------------------------------------
(* The invariant of the loops.                                             *)

Units == {"quotient", "invert"}

\* crecip: each register is the coefficient times its Bezout coefficient, and the
\* two generate the modulus and the coefficient, so that what divides both of them
\* divides those.  Of a coefficient that is not stale they stay natural, and the
\* larger one is no unit.
EuclidRing ==
    place \in {"fixnum", "general"} =>
        /\ job.op \in Units /\ (job.op = "quotient" => job.arg # 0)
        /\ Cong(a * x, remainder, modulus) /\ Cong(b * x, mod, modulus)
        /\ \E i, j \in Int : modulus = i * mod + j * remainder
        /\ \E i, j \in Int : x = i * mod + j * remainder
        /\ fresh /\ modulus # 1 => mod > 1 /\ remainder >= 0

\* cexpt: the product of s with the power of base that is still missing.
PowerRing ==
    place = "power" =>
        /\ job.op = "power" /\ job.arg \in Nat
        /\ Cong(s * Exact(base, 2 * pow), Exact(x, job.arg), modulus)

\* The bound on the integers covers the coefficients of every modulus.
Bounded == -Span..Span

RingInv ==
    /\ x \in Bounded /\ job.arg \in Bounded
    /\ place # "idle" => job.op \in Operations
    /\ place = "start" /\ modulus = 0 => Within(job.op, job.arg)
    /\ EuclidRing /\ PowerRing

LEMMA RingTypes ==
    ASSUME ModularInv
    PROVE  /\ modulus \in Nat /\ modulus \in Moduli /\ x \in Int /\ job.arg \in Int
           /\ mod \in Int /\ remainder \in Int /\ a \in Int /\ b \in Int
           /\ base \in Int /\ s \in Int /\ pow \in Nat /\ fresh \in BOOLEAN
           /\ place \in {"fixnum", "general", "power"} => modulus # 0
BY ModulusNat DEF ModularInv, TypeOK, JobFits

LEMMA RingFinish ==
    ASSUME ModularInv, NEW value, Finish(value), Fits(value),
           modulus = 0 => value \in Bounded
    PROVE  RingInv'
<1>1. modulus \in Moduli /\ modulus \in Nat /\ modulus <= Span /\ Span \in Nat
  BY RingTypes, SpanAssumption
<1>2. value \in Bounded
  BY <1>1 DEF Fits, Bounded
<1>3. job'.op = "none" /\ job'.arg = 0 /\ place' = "idle" /\ x' = value
  BY DEF Finish, NoJob
<1> QED
  BY <1>1, <1>2, <1>3 DEF RingInv, EuclidRing, PowerRing, Bounded

LEMMA RingSignal ==
    ASSUME RingInv, NEW how, Signal(how)
    PROVE  RingInv'
<1>1. job'.op = "none" /\ job'.arg = 0 /\ place' = "idle" /\ x' = x
  BY DEF Signal, NoJob
<1>2. Span \in Nat
  BY SpanAssumption
<1> QED
  BY <1>1, <1>2 DEF RingInv, EuclidRing, PowerRing, Bounded

LEMMA RingCrecip ==
    ASSUME ModularInv, RingInv, place = "start", job.op \in Units, modulus # 0,
           job.op = "quotient" => job.arg # 0, CrecipStart(x)
    PROVE  RingInv'
<1>1. CASE modulus < FixnumLimit /\ x \notin -modulus..modulus
  BY <1>1, RingSignal DEF CrecipStart
<1>2. CASE ~(modulus < FixnumLimit /\ x \notin -modulus..modulus)
  <2>0. modulus \in Nat \ {0} /\ x \in Int
    BY RingTypes
  <2>1. /\ mod' = modulus /\ a' = 1 /\ b' = 0
        /\ remainder' = IF x < 0 THEN x + modulus ELSE x
        /\ place' \in {"fixnum", "general"} /\ place' # "start" /\ place' # "power"
        /\ place' # "idle"
        /\ modulus' = modulus /\ x' = x /\ fresh' = fresh /\ job' = job
    BY <1>2 DEF CrecipStart
  <2>2. PICK r \in Int : r = IF x < 0 THEN x + modulus ELSE x
    BY <2>0
  <2>3. PICK k \in Int : x = r + k * modulus
    <3>1. CASE x < 0
      <4>1. -1 \in Int /\ x = r + (-1) * modulus
        BY <2>0, <2>2, <3>1
      <4> QED
        BY <4>1
    <3>2. CASE ~(x < 0)
      <4>1. 0 \in Int /\ x = r + 0 * modulus
        BY <2>0, <2>2, <3>2
      <4> QED
        BY <4>1
    <3> QED
      BY <3>1, <3>2
  <2>4. Cong(1 * x, r, modulus)
    BY <2>0, <2>3 DEF Cong
  <2>5. Cong(0 * x, modulus, modulus)
    <3>1. -1 \in Int /\ 0 * x = modulus + (-1) * modulus
      BY <2>0
    <3> QED
      BY <3>1 DEF Cong
  <2>6. \E i, j \in Int : modulus = i * modulus + j * r
    <3>1. 1 \in Int /\ 0 \in Int /\ modulus = 1 * modulus + 0 * r
      BY <2>0
    <3> QED
      BY <3>1
  <2>7. \E i, j \in Int : x = i * modulus + j * r
    <3>1. 1 \in Int /\ x = k * modulus + 1 * r
      BY <2>0, <2>3
    <3> QED
      BY <3>1
  <2>8. fresh /\ modulus # 1 => modulus > 1 /\ r >= 0
    BY <2>0, <2>2 DEF ModularInv, FreshFits
  <2>9. EuclidRing'
    BY <2>1, <2>2, <2>4, <2>5, <2>6, <2>7, <2>8 DEF EuclidRing
  <2>10. PowerRing'
    BY <2>1 DEF PowerRing
  <2> QED
    BY <2>1, <2>9, <2>10 DEF RingInv, Bounded
<1> QED
  BY <1>1, <1>2

LEMMA RingEuclid ==
    ASSUME ModularInv, RingInv, EuclidStep
    PROVE  RingInv'
<1>0. /\ modulus \in Nat \ {0} /\ x \in Int /\ mod \in Int /\ remainder \in Int
      /\ a \in Int /\ b \in Int /\ remainder \notin {0, 1}
      /\ place \in {"fixnum", "general"}
  BY RingTypes DEF EuclidStep
<1>1. PICK q \in Int : q = Truncate(mod, remainder)
  BY <1>0, TruncateInt
<1>2. /\ mod' = remainder /\ remainder' = mod - q * remainder
      /\ a' = b - a * q /\ b' = a
      /\ UNCHANGED <<modulus, x, fresh, job, outcome, place>>
  BY <1>1 DEF EuclidStep
<1>3. /\ job.op \in Units /\ (job.op = "quotient" => job.arg # 0)
      /\ Cong(a * x, remainder, modulus) /\ Cong(b * x, mod, modulus)
      /\ fresh /\ modulus # 1 => mod > 1 /\ remainder >= 0
  BY <1>0 DEF RingInv, EuclidRing
<1>4. PICK r \in Int : r = mod - q * remainder
  BY <1>0
<1>5. Cong((b - a * q) * x, r, modulus)
  <2>1. Cong(q, q, modulus)
    BY <1>0, CongSame
  <2>2. a * x \in Int /\ b * x \in Int /\ q * (a * x) \in Int /\ q * remainder \in Int
    BY <1>0
  <2>3. Cong(q * (a * x), q * remainder, modulus)
    BY <1>0, <1>3, <2>1, <2>2, CongProduct
  <2>4. Cong(b * x - q * (a * x), mod - q * remainder, modulus)
    BY <1>0, <1>3, <2>2, <2>3, CongSum
  <2>5. b * x - q * (a * x) = (b - a * q) * x
    BY <1>0
  <2> QED
    BY <1>4, <2>4, <2>5
<1>6. ASSUME NEW n \in Int, \E i, j \in Int : n = i * mod + j * remainder
      PROVE  \E i, j \in Int : n = i * remainder + j * r
  <2>1. PICK i \in Int, j \in Int : n = i * mod + j * remainder
    BY <1>6
  <2>2. i * q + j \in Int /\ n = (i * q + j) * remainder + i * r
    BY <1>0, <1>4, <2>1
  <2> QED
    BY <2>2
<1>7. \E i, j \in Int : modulus = i * remainder + j * r
  <2>1. \E i, j \in Int : modulus = i * mod + j * remainder
    BY <1>0 DEF RingInv, EuclidRing
  <2>2. modulus \in Int
    BY <1>0
  <2> QED
    BY <1>6, <2>1, <2>2
<1>8. \E i, j \in Int : x = i * remainder + j * r
  <2>1. \E i, j \in Int : x = i * mod + j * remainder
    BY <1>0 DEF RingInv, EuclidRing
  <2> QED
    BY <1>0, <1>6, <2>1
<1>9. fresh /\ modulus # 1 => remainder > 1 /\ r >= 0
  <2> HAVE fresh /\ modulus # 1
  <2>1. mod \in Nat /\ remainder \in Nat \ {0} /\ remainder > 1
    BY <1>0, <1>3
  <2>2. Rem(mod, remainder) \in 0..(remainder - 1)
    BY <2>1, TruncateNat
  <2>3. Rem(mod, remainder) = mod - remainder * q
    BY <1>1 DEF Rem
  <2>4. remainder * q = q * remainder
    BY <1>0
  <2> QED
    BY <1>4, <2>1, <2>2, <2>3, <2>4
<1>10. EuclidRing'
  BY <1>0, <1>2, <1>3, <1>4, <1>5, <1>7, <1>8, <1>9 DEF EuclidRing
<1>11. PowerRing'
  BY <1>0, <1>2 DEF PowerRing
<1> QED
  BY <1>0, <1>2, <1>10, <1>11 DEF RingInv, Bounded

LEMMA RingPowers ==
    ASSUME ModularInv, RingInv, PowerStart \/ PowerStep
    PROVE  RingInv'
<1>0. /\ modulus \in Nat /\ x \in Int /\ base \in Int /\ s \in Int /\ pow \in Nat
      /\ job.arg \in Int
  BY RingTypes
<1>1. CASE PowerStart
  <2>1. /\ job.op = "power" /\ job.arg > 1 /\ modulus # 0 /\ base' = x
        /\ s' = (IF job.arg % 2 = 1 THEN x ELSE 1) /\ pow' = job.arg \div 2
        /\ place' = "power" /\ UNCHANGED <<modulus, x, fresh, job, outcome>>
    BY <1>1 DEF PowerStart, Starting
  <2>2. PICK n \in Nat : n = job.arg
    BY <1>0, <2>1
  <2>3. PICK p \in Nat : p = n \div 2 /\ 2 * p \in Nat
    OBVIOUS
  <2>4. (n % 2 = 1 /\ n = 2 * p + 1) \/ (n % 2 = 0 /\ n = 2 * p)
    BY <2>3
  <2>5. Exact(x, 2 * p) \in Int /\ Exact(x, 2 * p + 1) = x * Exact(x, 2 * p)
        /\ Exact(x, n) \in Int
    BY <1>0, <2>3, ExactNext
  <2>6. s' * Exact(x, 2 * p) = Exact(x, n)
    BY <1>0, <2>1, <2>2, <2>4, <2>5
  <2>7. Cong(s' * Exact(x, 2 * p), Exact(x, n), modulus)
    BY <1>0, <2>1, <2>5, <2>6, CongSame
  <2>8. PowerRing'
    BY <2>1, <2>2, <2>3, <2>7 DEF PowerRing, Exact
  <2>9. EuclidRing'
    BY <2>1 DEF EuclidRing
  <2> QED
    BY <2>1, <2>8, <2>9 DEF RingInv, Bounded, Operations
<1>2. CASE PowerStep
  <2>1. /\ place = "power" /\ pow # 0 /\ modulus # 0
        /\ base' = Rem(base * base, modulus)
        /\ s' = (IF pow % 2 = 1 THEN Rem(s * base', modulus) ELSE s)
        /\ pow' = pow \div 2
        /\ UNCHANGED <<modulus, x, fresh, job, outcome, place>>
    BY <1>2, RingTypes DEF PowerStep
  <2>2. /\ job.op = "power" /\ job.arg \in Nat
        /\ Cong(s * Exact(base, 2 * pow), Exact(x, job.arg), modulus)
    BY <2>1 DEF RingInv, PowerRing
  <2>3. PICK e \in Int : e = base * base
    BY <1>0
  <2>4. PICK c \in Int : c = base' /\ Cong(c, e, modulus)
    BY <1>0, <2>1, <2>3, RemCong
  <2>5. PICK p \in Nat : p = pow \div 2 /\ 2 * p \in Nat
    BY <1>0
  <2>6. (pow % 2 = 1 /\ pow = 2 * p + 1) \/ (pow % 2 = 0 /\ pow = 2 * p)
    BY <1>0, <2>5
  <2>7. PICK u \in Int : u = Exact(e, 2 * p)
    BY <2>5, ExactNext
  <2>8. PICK v \in Int : v = Exact(c, 2 * p) /\ Cong(v, u, modulus)
    BY <1>0, <2>1, <2>4, <2>5, <2>7, ExactNext, ExactCong
  <2>9. Exact(base, 2 * pow) = Exact(e, pow)
    BY <1>0, <2>3, ExactSquare
  <2>10. CASE pow % 2 = 1
    <3>1. Exact(e, pow) = e * u
      <4>1. PICK l \in Nat : l = 2 * p
        BY <2>5
      <4>2. Exact(e, l + 1) = e * Exact(e, l)
        BY <2>3, ExactNext
      <4>3. pow = l + 1
        BY <2>6, <2>10, <4>1
      <4> QED
        BY <2>7, <4>1, <4>2, <4>3
    <3>2. s * c \in Int /\ s * e \in Int
      BY <1>0
    <3>3. PICK t \in Int : t = s' /\ Cong(t, s * c, modulus)
      BY <1>0, <2>1, <2>4, <2>10, <3>2, RemCong
    <3>4. Cong(s, s, modulus)
      BY <1>0, <2>1, CongSame
    <3>5. Cong(s * c, s * e, modulus)
      BY <1>0, <2>1, <2>4, <3>4, CongProduct
    <3>6. Cong(t, s * e, modulus)
      BY <1>0, <2>1, <3>2, <3>3, <3>5, CongTrans
    <3>7. Cong(t * v, (s * e) * u, modulus)
      BY <1>0, <2>1, <2>8, <3>2, <3>6, CongProduct
    <3>8. (s * e) * u = s * Exact(base, 2 * pow)
      BY <1>0, <2>9, <3>1
    <3>9. /\ t * v \in Int /\ (s * e) * u \in Int /\ Exact(x, job.arg) \in Int
          /\ Cong((s * e) * u, Exact(x, job.arg), modulus)
      <4>1. t * v \in Int /\ (s * e) * u \in Int
        BY <2>7, <2>8, <3>2, <3>3
      <4>2. Exact(x, job.arg) \in Int
        BY <1>0, <2>2, ExactNext
      <4> QED
        BY <2>2, <3>8, <4>1, <4>2
    <3>10. Cong(t * v, Exact(x, job.arg), modulus)
      BY <1>0, <2>1, <3>7, <3>9, CongTrans
    <3>11. PowerRing'
      BY <2>1, <2>2, <2>4, <2>5, <2>8, <3>3, <3>10 DEF PowerRing
    <3>12. EuclidRing'
      BY <2>1 DEF EuclidRing
    <3> QED
      BY <2>1, <3>11, <3>12 DEF RingInv, Bounded
  <2>11. CASE pow % 2 = 0
    <3>1. Exact(e, pow) = u
      BY <2>6, <2>7, <2>11
    <3>2. Cong(s, s, modulus)
      BY <1>0, <2>1, CongSame
    <3>3. Cong(s * v, s * u, modulus)
      BY <1>0, <2>1, <2>8, <3>2, CongProduct
    <3>4. /\ s * v \in Int /\ s * u \in Int /\ Exact(x, job.arg) \in Int
          /\ Cong(s * u, Exact(x, job.arg), modulus)
      <4>1. s * v \in Int /\ s * u \in Int
        BY <1>0, <2>7, <2>8
      <4>2. Exact(x, job.arg) \in Int
        BY <1>0, <2>2, ExactNext
      <4> QED
        BY <2>2, <2>9, <3>1, <4>1, <4>2
    <3>5. Cong(s * v, Exact(x, job.arg), modulus)
      BY <1>0, <2>1, <3>3, <3>4, CongTrans
    <3>6. PowerRing'
      BY <2>1, <2>2, <2>4, <2>5, <2>8, <2>11, <3>5 DEF PowerRing
    <3>7. EuclidRing'
      BY <2>1 DEF EuclidRing
    <3> QED
      BY <2>1, <3>6, <3>7 DEF RingInv, Bounded
  <2> QED
    BY <1>0, <2>10, <2>11
<1> QED
  BY <1>1, <1>2

\* TRUNCATE leaves nothing larger.
LEMMA TruncateBound ==
    ASSUME NEW n \in Int, NEW d \in Int \ {0}, NEW l \in Nat, -l <= n, n <= l
    PROVE  -l <= Truncate(n, d) /\ Truncate(n, d) <= l
<1>1. PICK p \in Nat : p = Abs(n) /\ p <= l
  BY DEF Abs
<1>2. PICK q \in Nat \ {0} : q = Abs(d)
  BY DEF Abs
<1>3. PICK r \in Nat : r = p \div q
  BY <1>1, <1>2
<1>4. r <= p
  <2>1. q * r <= p
    BY <1>1, <1>2, <1>3
  <2>2. r <= q * r
    BY <1>2, <1>3
  <2> QED
    BY <1>1, <1>2, <1>3, <2>1, <2>2
<1>5. Truncate(n, d) \in {r, -r}
  BY <1>1, <1>2, <1>3 DEF Truncate, Abs
<1> QED
  BY <1>1, <1>3, <1>4, <1>5

\* What the operations that end at once leave.
LEMMA RingAtOnce ==
    ASSUME ModularInv, RingInv,
           Enter \/ Plus \/ Difference \/ Times \/ Quotient \/ Invert \/ PowerAtOnce
    PROVE  RingInv'
<1>0. /\ TypeOK /\ x \in Int /\ job.arg \in Int /\ modulus \in Nat /\ Span \in Nat
      /\ x \in Bounded /\ job.arg \in Bounded
      /\ \A n : modulus = 0 => Cmod(n) = n
      /\ place = "start" /\ modulus = 0 => Within(job.op, job.arg)
  BY RingTypes, SpanAssumption DEF ModularInv, RingInv, Cmod
<1>1. CASE Enter
  BY <1>0, <1>1, CmodFits, RingFinish DEF Enter
<1>2. CASE Plus
  <2>1. modulus = 0 => Cplus(x, job.arg) \in Bounded
    BY <1>0, <1>2 DEF Plus, Starting, Cplus, Within, Small, Bounded
  <2> QED
    BY <1>0, <1>2, <2>1, CmodFits, RingFinish DEF Plus, Cplus
<1>3. CASE Difference
  <2>1. modulus = 0 => Cdifference(x, job.arg) \in Bounded
    BY <1>0, <1>3 DEF Difference, Starting, Cdifference, Within, Small, Bounded
  <2> QED
    BY <1>0, <1>3, <2>1, CmodFits, RingFinish DEF Difference, Cdifference
<1>4. CASE Times
  <2>1. modulus = 0 => Ctimes(x, job.arg) \in Bounded
    BY <1>0, <1>4 DEF Times, Starting, Ctimes, Within, Small, Bounded
  <2>2. x * job.arg \in Int
    BY <1>0
  <2> QED
    BY <1>0, <1>4, <2>1, <2>2, CmodFits, RingFinish DEF Times, Ctimes
<1>5. CASE Quotient
  <2>1. CASE job.arg = 0 /\ Finish(0)
    <3>1. Fits(0) /\ 0 \in Bounded
      BY <1>0 DEF Fits, Bounded
    <3> QED
      BY <2>1, <3>1, RingFinish
  <2>2. CASE modulus = 0 /\ x # 0 /\ Finish(Truncate(job.arg, x))
    <3>1. Fits(Truncate(job.arg, x)) /\ Truncate(job.arg, x) \in Bounded
      BY <1>0, <2>2, TruncateInt, TruncateBound DEF Fits, Bounded
    <3> QED
      BY <2>2, <3>1, RingFinish
  <2>3. CASE Signal("not exact")
    BY <2>3, RingSignal
  <2>4. CASE job.arg # 0 /\ modulus # 0 /\ CrecipStart(x)
    BY <1>5, <2>4, RingCrecip DEF Quotient, Starting, Units
  <2> QED
    BY <1>5, <2>1, <2>2, <2>3, <2>4 DEF Quotient
<1>6. CASE Invert
  <2>1. CASE Signal("no inverse")
    BY <2>1, RingSignal
  <2>2. CASE CrecipStart(x)
    BY <1>6, <2>2, RingCrecip DEF Invert, Starting, ModularInv, JobFits, Units
  <2> QED
    BY <1>6, <2>1, <2>2 DEF Invert
<1>7. CASE PowerAtOnce
  <2>1. CASE job.arg = 0 /\ Finish(1)
    <3>1. Fits(1)
      BY <1>0 DEF Fits
    <3>2. modulus = 0 => 1 \in Bounded
      BY <1>0, <1>7, <2>1, ExactFirst DEF PowerAtOnce, Starting, Within, Small, Bounded
    <3> QED
      BY <2>1, <3>1, <3>2, RingFinish
  <2>2. CASE modulus = 0 /\ Finish(Exact(x, job.arg))
    <3>1. Exact(x, job.arg) \in Bounded
      BY <1>0, <1>7, <2>2 DEF PowerAtOnce, Starting, Within, Small, Bounded
    <3>2. Fits(Exact(x, job.arg))
      BY <1>0, <2>2, <3>1 DEF Fits, Bounded
    <3> QED
      BY <2>2, <3>1, <3>2, RingFinish
  <2>3. CASE /\ outcome' = "done" /\ job' = NoJob /\ place' = "idle"
             /\ UNCHANGED <<modulus, x, fresh, euclid, expt>>
    <3>1. job'.op = "none" /\ job'.arg = 0 /\ place' = "idle" /\ x' = x
      BY <2>3 DEF NoJob
    <3> QED
      BY <1>0, <3>1 DEF RingInv, EuclidRing, PowerRing, Bounded
  <2> QED
    BY <1>7, <2>1, <2>2, <2>3 DEF PowerAtOnce
<1> QED
  BY <1>1, <1>2, <1>3, <1>4, <1>5, <1>6, <1>7

\* What the reciprocal is made of.
LEMMA RecipParts ==
    ASSUME ModularInv, RecipDone
    PROVE  \E n, r \in Int :
              /\ n = (IF job.op = "invert" THEN 1 ELSE job.arg)
              /\ Cong(r, a, modulus) /\ n * r \in Int
              /\ Finish(Ctimes(n, r)) /\ Ctimes(n, r) = Cmod(n * r)
<1>0. modulus \in Nat \ {0} /\ a \in Int /\ job.arg \in Int
  BY RingTypes DEF RecipDone
<1>1. PICK n \in Int : n = IF job.op = "invert" THEN 1 ELSE job.arg
  BY <1>0
<1>2. Cmod(a) \in Int /\ Cong(Cmod(a), a, modulus)
  BY <1>0, NormalCong DEF Cmod
<1>3. Normalized(a) \in Int /\ Cong(Normalized(a), a, modulus)
  <2>1. CASE modulus = 2
    <3>1. PICK c \in 0..1 : c = a % 2 /\ Cong(a, c, 2)
      BY <1>0, CongRest
    <3>2. c \in Int /\ Cong(c, a, 2)
      BY <1>0, <3>1, CongSame
    <3> QED
      BY <2>1, <3>1, <3>2 DEF Normalized
  <2>2. CASE modulus # 2
    <3>1. Normalized(a) = NormalizedModulus(a, modulus)
      BY <2>2 DEF Normalized, NormalizedModulus
    <3> QED
      BY <1>0, <3>1, NormalCong
  <2> QED
    BY <2>1, <2>2
<1>4. PICK r \in Int : /\ r = (IF place = "fixnum" THEN Normalized(a) ELSE Cmod(a))
                       /\ Cong(r, a, modulus)
  BY <1>2, <1>3
<1>5. Finish(Ctimes(n, r))
  BY <1>1, <1>4 DEF RecipDone
<1>6. n * r \in Int
  BY <1>1, <1>4
<1> QED
  BY <1>1, <1>4, <1>5, <1>6 DEF Ctimes

LEMMA RingEnds ==
    ASSUME ModularInv, RingInv, NoInverse \/ RecipDone \/ PowerDone
    PROVE  RingInv'
<1>0. TypeOK /\ modulus \in Nat /\ s \in Int
  BY RingTypes DEF ModularInv
<1>1. CASE NoInverse
  BY <1>1, RingSignal DEF NoInverse
<1>2. CASE RecipDone
  <2>1. PICK n \in Int, r \in Int :
           n * r \in Int /\ Finish(Ctimes(n, r)) /\ Ctimes(n, r) = Cmod(n * r)
    BY <1>2, RecipParts
  <2>2. modulus # 0
    BY <1>2, RingTypes DEF RecipDone
  <2> QED
    BY <1>0, <2>1, <2>2, CmodFits, RingFinish
<1>3. CASE PowerDone
  <2>1. Fits(s) /\ modulus # 0 /\ Finish(s)
    BY <1>0, <1>3, RingTypes DEF PowerDone, Fits, ModularInv, PowerFits
  <2> QED
    BY <2>1, RingFinish
<1> QED
  BY <1>1, <1>2, <1>3

LEMMA RingUser ==
    ASSUME ModularInv, RingInv,
           \/ \E m \in Moduli : SetModulus(m)
           \/ \E op \in Operations, arg \in -Span..Span : Ask(op, arg)
    PROVE  RingInv'
<1>1. CASE \E m \in Moduli : SetModulus(m)
  <2>1. place' = "idle" /\ x' = x /\ job' = job
    BY <1>1 DEF SetModulus
  <2> QED
    BY <2>1 DEF RingInv, EuclidRing, PowerRing, Bounded
<1>2. CASE \E op \in Operations, arg \in -Span..Span : Ask(op, arg)
  <2>1. PICK op \in Operations, arg \in -Span..Span : Ask(op, arg)
    BY <1>2
  <2>2. /\ place' = "start" /\ x' = x /\ job'.op = op /\ job'.arg = arg /\ modulus' = modulus
        /\ modulus = 0 => Within(op, arg)
    BY <2>1 DEF Ask
  <2>3. modulus' = 0 => Within(job.op, job.arg)'
    BY <2>2 DEF Within, Small, Exact
  <2>4. EuclidRing' /\ PowerRing'
    BY <2>2 DEF EuclidRing, PowerRing
  <2> QED
    BY <2>1, <2>2, <2>3, <2>4 DEF RingInv, Bounded
<1> QED
  BY <1>1, <1>2

LEMMA RingStep == ModularInv /\ RingInv /\ [Next]_vars => RingInv'
<1> SUFFICES ASSUME ModularInv, RingInv, [Next]_vars PROVE RingInv'
  OBVIOUS
<1>1. CASE UNCHANGED vars
  <2>1. UNCHANGED <<modulus, x, fresh, job, outcome, place, mod, remainder, a, b, base, s, pow>>
    BY <1>1 DEF vars, euclid, expt
  <2>2. EuclidRing' /\ PowerRing'
    BY <2>1 DEF RingInv, EuclidRing, PowerRing
  <2>3. place' = "start" /\ modulus' = 0 => Within(job.op, job.arg)'
    BY <2>1 DEF RingInv, Within, Small, Exact
  <2> QED
    BY <2>1, <2>2, <2>3 DEF RingInv, Bounded
<1> QED
  BY <1>1, RingUser, RingAtOnce, RingEuclid, RingPowers, RingEnds DEF Next, Compute

LEMMA RingStart == Init => RingInv
<1> SUFFICES ASSUME Init PROVE RingInv
  OBVIOUS
<1>1. job.op = "none" /\ job.arg = 0 /\ x = 0 /\ place = "idle" /\ Span \in Nat
  BY SpanAssumption DEF Init, NoJob
<1> QED
  BY <1>1 DEF RingInv, EuclidRing, PowerRing, Bounded

-----------------------------------------------------------------------------
(* Operations as steps in the ring.                                        *)

\* q is what job asks for, when the coefficient stands for r.
IsResult(q, r) ==
    /\ job.op = "enter" => q = Res(job.arg)
    /\ job.op = "plus" => q = Res(r + job.arg)
    /\ job.op = "difference" => q = Res(r - job.arg)
    /\ job.op = "times" => q = Res(r * job.arg)
    /\ job.op = "power" => q = Ring!PowerOf(r, job.arg)
    /\ job.op = "quotient" => Ring!IsQuotient(q, job.arg, r)
    /\ job.op = "invert" => Ring!IsQuotient(q, 1, r)

LEMMA NoJobs == Ring!NoJob = NoJob /\ Ring!Operations = Operations
BY DEF Ring!NoJob, NoJob, Ring!Operations, Operations

LEMMA ResultIs ==
    ASSUME NEW q, IsResult(q, Res(x)), job.op \in Operations
    PROVE  Ring!Result(q)
<1>1. PICK r : r = Res(x) /\ r = (IF modulus = 0 THEN x ELSE x % modulus)
  BY DEF Res
<1>2. IsResult(q, r)
  BY <1>1
<1>3. CASE job.op = "enter"
  BY <1>1, <1>2, <1>3, ClassIs DEF IsResult, Ring!Result
<1>4. CASE job.op = "plus"
  BY <1>1, <1>2, <1>4, ClassIs DEF IsResult, Ring!Result
<1>5. CASE job.op = "difference"
  BY <1>1, <1>2, <1>5, ClassIs DEF IsResult, Ring!Result
<1>6. CASE job.op = "times"
  BY <1>1, <1>2, <1>6, ClassIs DEF IsResult, Ring!Result
<1>7. CASE job.op = "power"
  BY <1>1, <1>2, <1>7 DEF IsResult, Ring!Result
<1>8. CASE job.op = "quotient"
  BY <1>1, <1>2, <1>8 DEF IsResult, Ring!Result
<1>9. CASE job.op = "invert"
  BY <1>1, <1>2, <1>9 DEF IsResult, Ring!Result
<1> QED
  BY <1>3, <1>4, <1>5, <1>6, <1>7, <1>8, <1>9 DEF Operations

\* An operation that ends with a result that the ring promises.
LEMMA RingDelivers ==
    ASSUME ModularInv, RingInv, place # "idle", NEW value, Finish(value),
           IsResult(Res(value), Res(x))
    PROVE  Ring!Deliver
<1>1. job # NoJob /\ job.op \in Operations
  BY DEF ModularInv, TypeOK, RingInv
<1>2. /\ job' = NoJob /\ outcome' = "done" /\ fresh' = TRUE /\ modulus' = modulus
      /\ x' = value
  BY DEF Finish
<1>3. PICK q : q = Res(value)
  OBVIOUS
<1>4. Ring!Result(q)
  BY <1>1, <1>3, ResultIs
<1>5. q = IF modulus' = 0 THEN x' ELSE x' % modulus'
  BY <1>2, <1>3 DEF Res
<1> QED
  BY <1>1, <1>2, <1>4, <1>5, NoJobs DEF Ring!Deliver

\* An operation that ends without one, for a reason.
LEMMA RingFails ==
    ASSUME ModularInv, RingInv, job.op \in Units,
           NEW how \in {"no inverse", "out of range", "not exact"}, Signal(how),
           fresh /\ modulus # 1 =>
               \A q \in Bounded :
                  ~Ring!IsQuotient(q, IF job.op = "invert" THEN 1 ELSE job.arg, Res(x))
    PROVE  Ring!Fail
<1>1. PICK r : r = Res(x) /\ r = (IF modulus = 0 THEN x ELSE x % modulus)
  BY DEF Res
<1>2. /\ job' = NoJob /\ outcome' = how /\ fresh' = fresh /\ modulus' = modulus
      /\ x' = x
  BY DEF Signal
<1>3. fresh /\ modulus # 1 =>
         ~\E q \in -Span..Span :
            Ring!IsQuotient(q, IF job.op = "invert" THEN 1 ELSE job.arg, r)
  BY <1>1 DEF Bounded
<1> QED
  BY <1>1, <1>2, <1>3, NoJobs DEF Ring!Fail, Ring!Failures, Units

\* A step inside of an operation.
LEMMA RingStutters ==
    ASSUME UNCHANGED <<modulus, x, fresh, job, outcome>>
    PROVE  UNCHANGED Ring!ringVars
BY DEF Ring!ringVars

\* A coefficient that shares a divisor with the modulus is no unit.
LEMMA NoUnit ==
    ASSUME modulus \in Nat \ {0}, x \in Int, NEW d \in Int, d > 1,
           NEW A \in Int, NEW C \in Int, modulus = A * d, x = C * d
    PROVE  \A i \in Int : Res(i * Res(x)) # Res(1)
<1> SUFFICES ASSUME NEW i \in Int, Res(i * Res(x)) = Res(1) PROVE FALSE
  OBVIOUS
<1>1. Res(i * x) = Res(i * Res(x))
  BY ResProduct
<1>2. i * x \in Int
  OBVIOUS
<1>3. Cong(i * x, 1, modulus)
  BY <1>1, <1>2, ResSame
<1>4. PICK k \in Int : i * x = 1 + k * modulus
  BY <1>3 DEF Cong
<1>5. PICK t \in Int : t = i * C - k * A
  OBVIOUS
<1>6. t * d = i * x - k * modulus
  BY <1>5
<1>7. t * d = 1
  BY <1>2, <1>4, <1>6
<1>8. CASE t >= 1
  <2>1. t * d >= d
    BY <1>8
  <2> QED
    BY <1>7, <2>1
<1>9. CASE t <= 0
  <2>1. t * d <= 0
    BY <1>9
  <2> QED
    BY <1>7, <2>1
<1> QED
  BY <1>8, <1>9

\* Without a unit nothing is a quotient of what is not zero.
LEMMA NoQuotient ==
    ASSUME modulus \in Nat \ {0}, x \in Int, NEW n \in Int, n # 0,
           \A i \in Int : Res(i * Res(x)) # Res(1)
    PROVE  \A q : ~Ring!IsQuotient(q, n, Res(x))
<1>1. PICK r : r = Res(x)
  OBVIOUS
<1>2. \A i \in 0..(modulus - 1) : Res(i * r) # Res(1)
  BY <1>1
<1> QED
  BY <1>1, <1>2, ClassIs DEF Ring!IsQuotient

\* crecip's result, and what cquotient makes of it, are quotients.
LEMMA RecipQuotient ==
    ASSUME modulus \in Nat \ {0}, x \in Int, NEW c \in Int, NEW n \in Int, NEW r \in Int,
           Cong(c * x, 1, modulus), Cong(r, c, modulus), n * r \in Int
    PROVE  Ring!IsQuotient(Res(Cmod(n * r)), n, Res(x))
<1>1. PICK q \in Int : q = Cmod(n * r) /\ Res(q) = Res(n * r)
  BY CmodRes
<1>2. PICK y \in Int : y = Res(x)
  BY ResFacts
<1>3. PICK z \in Int : z = Res(q)
  BY <1>1, ResFacts
<1>4. Res(z * y) = Res(n)
  <2>1. Res(q * x) = Res(z * y)
    BY <1>1, <1>2, <1>3, ResProduct
  <2>2. Res((n * r) * x) = Res(Res(n * r) * x) /\ Res(q * x) = Res(Res(q) * x)
    BY <1>1, ResProduct
  <2>3. Cong(x, x, modulus) /\ Cong(n, n, modulus)
    BY CongSame
  <2>4. c * x \in Int /\ r * x \in Int /\ n * (r * x) \in Int /\ n * (c * x) \in Int
    OBVIOUS
  <2>5. Cong(r * x, c * x, modulus)
    BY <2>3, CongProduct
  <2>6. Cong(r * x, 1, modulus)
    BY <2>4, <2>5, CongTrans
  <2>7. Cong(n * (r * x), n * 1, modulus)
    BY <2>3, <2>4, <2>6, CongProduct
  <2>8. n * (r * x) = (n * r) * x /\ n * 1 = n
    OBVIOUS
  <2>9. Res((n * r) * x) = Res(n)
    BY <2>4, <2>7, <2>8, ResSame
  <2> QED
    BY <1>1, <2>1, <2>2, <2>9
<1>5. PICK i \in 0..(modulus - 1) : i = c % modulus /\ i = Res(c)
  BY CongRest DEF Res
<1>6. Res(i * y) = Res(1)
  <2>1. Res(c * x) = Res(Res(c) * Res(x))
    BY ResProduct
  <2>2. c * x \in Int
    OBVIOUS
  <2>3. Res(c * x) = Res(1)
    BY <2>2, ResSame
  <2> QED
    BY <1>2, <1>5, <2>1, <2>3
<1> QED
  BY <1>1, <1>2, <1>3, <1>4, <1>5, <1>6, ClassIs DEF Ring!IsQuotient

\* TRUNCATE undoes a multiplication.
LEMMA TruncateProduct ==
    ASSUME NEW q \in Int, NEW d \in Int \ {0}
    PROVE  Truncate(q * d, d) = q
<1>1. ASSUME NEW p \in Nat, NEW k \in Nat \ {0} PROVE (p * k) \div k = p
  <2>1. PICK n \in Nat : n = p * k
    OBVIOUS
  <2>2. PICK e \in Int : e = n \div k /\ e * k <= n /\ n < e * k + k
    BY <2>1
  <2>3. (p - e) * k >= 0 /\ (p - e) * k < k
    BY <2>1, <2>2
  <2>4. CASE p - e >= 1
    <3>1. (p - e) * k >= k
      BY <2>2, <2>4
    <3> QED
      BY <2>2, <2>3, <3>1
  <2>5. CASE p - e <= -1
    <3>1. (p - e) * k <= -k
      BY <2>2, <2>5
    <3> QED
      BY <2>2, <2>3, <3>1
  <2> QED
    BY <2>1, <2>2, <2>4, <2>5
<1>2. PICK n \in Int : n = q * d
  OBVIOUS
<1>3. CASE q >= 0 /\ d > 0
  <2>1. n >= 0 /\ n \div d = q
    BY <1>1, <1>2, <1>3
  <2> QED
    BY <1>2, <1>3, <2>1 DEF Truncate
<1>4. CASE q > 0 /\ d < 0
  <2>1. n < 0
    BY <1>2, <1>4
  <2>2. -n = q * (-d) /\ -d \in Nat \ {0} /\ q \in Nat
    BY <1>2, <1>4
  <2>3. (-n) \div (-d) = q
    BY <1>1, <2>2
  <2>4. Abs(n) = -n /\ Abs(d) = -d /\ (n >= 0) = (d > 0) /\ ~(n >= 0 /\ d > 0)
    BY <1>4, <2>1 DEF Abs
  <2> QED
    BY <1>2, <2>3, <2>4 DEF Truncate
<1>5. CASE q = 0 /\ d < 0
  <2>1. n = 0 /\ -d \in Nat \ {0}
    BY <1>2, <1>5
  <2>2. 0 \div (-d) = 0
    BY <2>1
  <2>3. Abs(n) = 0 /\ Abs(d) = -d
    BY <1>5, <2>1 DEF Abs
  <2> QED
    BY <1>2, <1>5, <2>1, <2>2, <2>3 DEF Truncate
<1>6. CASE q < 0 /\ d > 0
  <2>1. n < 0
    BY <1>2, <1>6
  <2>2. -n = (-q) * d /\ d \in Nat \ {0} /\ -q \in Nat
    BY <1>2, <1>6
  <2>3. (-n) \div d = -q
    BY <1>1, <2>2
  <2>4. Abs(n) = -n /\ Abs(d) = d /\ ~(n >= 0) /\ d > 0
    BY <1>6, <2>1 DEF Abs
  <2> QED
    BY <1>2, <2>3, <2>4 DEF Truncate
<1>7. CASE q < 0 /\ d < 0
  <2>1. n > 0
    BY <1>2, <1>7
  <2>2. n = (-q) * (-d) /\ -d \in Nat \ {0} /\ -q \in Nat
    BY <1>2, <1>7
  <2>3. n \div (-d) = -q
    BY <1>1, <2>2
  <2>4. Abs(n) = n /\ Abs(d) = -d /\ n >= 0 /\ ~(d > 0)
    BY <1>7, <2>1 DEF Abs
  <2> QED
    BY <1>2, <2>3, <2>4 DEF Truncate
<1> QED
  BY <1>3, <1>4, <1>5, <1>6, <1>7

\* The start of crecip: an error in the range of a stale coefficient, or nothing yet.
LEMMA CrecipStartsRing ==
    ASSUME ModularInv, RingInv, job.op \in Units, modulus # 0, CrecipStart(x)
    PROVE  Ring!Fail \/ UNCHANGED Ring!ringVars
<1>1. CASE modulus < FixnumLimit /\ x \notin -modulus..modulus
  <2>1. Signal("out of range")
    BY <1>1 DEF CrecipStart
  <2>2. ~fresh
    BY <1>1, OutIsStale
  <2> QED
    BY <2>1, <2>2, RingFails
<1>2. CASE ~(modulus < FixnumLimit /\ x \notin -modulus..modulus)
  BY <1>2, RingStutters DEF CrecipStart
<1> QED
  BY <1>1, <1>2

\* The operations of the integers, and their images in the ring.
LEMMA SumsInRing ==
    ASSUME ModularInv, RingInv, Enter \/ Plus \/ Difference \/ Times
    PROVE  Ring!Deliver
<1>0. modulus \in Nat /\ x \in Int /\ job.arg \in Int
  BY RingTypes
<1>1. CASE Enter
  <2>1. Res(Cmod(job.arg)) = Res(job.arg)
    BY <1>0, CmodRes
  <2>2. IsResult(Res(Cmod(job.arg)), Res(x))
    BY <1>1, <2>1 DEF Enter, Starting, IsResult
  <2> QED
    BY <1>1, <2>2, RingDelivers DEF Enter, Starting
<1>2. CASE Plus
  <2>1. x + job.arg \in Int
    BY <1>0
  <2>2. Res(Cplus(x, job.arg)) = Res(Res(x) + job.arg)
    BY <1>0, <2>1, CmodRes, ResSum DEF Cplus
  <2>3. IsResult(Res(Cplus(x, job.arg)), Res(x))
    BY <1>2, <2>2 DEF Plus, Starting, IsResult
  <2> QED
    BY <1>2, <2>3, RingDelivers DEF Plus, Starting
<1>3. CASE Difference
  <2>1. x - job.arg \in Int
    BY <1>0
  <2>2. Res(Cdifference(x, job.arg)) = Res(Res(x) - job.arg)
    BY <1>0, <2>1, CmodRes, ResSum DEF Cdifference
  <2>3. IsResult(Res(Cdifference(x, job.arg)), Res(x))
    BY <1>3, <2>2 DEF Difference, Starting, IsResult
  <2> QED
    BY <1>3, <2>3, RingDelivers DEF Difference, Starting
<1>4. CASE Times
  <2>1. x * job.arg \in Int
    BY <1>0
  <2>2. Res(Ctimes(x, job.arg)) = Res(Res(x) * job.arg)
    BY <1>0, <2>1, CmodRes, ResProduct DEF Ctimes
  <2>3. IsResult(Res(Ctimes(x, job.arg)), Res(x))
    BY <1>4, <2>2 DEF Times, Starting, IsResult
  <2> QED
    BY <1>4, <2>3, RingDelivers DEF Times, Starting
<1> QED
  BY <1>1, <1>2, <1>3, <1>4

\* cquotient: 0 divided, the quotient of integers, and the start of crecip.
LEMMA QuotientInRing ==
    ASSUME ModularInv, RingInv, Quotient
    PROVE  Ring!Deliver \/ Ring!Fail \/ UNCHANGED Ring!ringVars
<1>0. /\ modulus \in Nat /\ x \in Int /\ job.arg \in Int
      /\ place # "idle" /\ job.op = "quotient" /\ job.op \in Units
  BY RingTypes DEF Quotient, Starting, Units
<1>1. CASE job.arg = 0 /\ Finish(0)
  <2>1. PICK y \in Int : y = Res(x)
    BY <1>0, ResFacts
  <2>2. Res(0) = 0 /\ 0 * y = 0
    BY <1>0 DEF Res
  <2>3. Ring!IsQuotient(Res(0), job.arg, Res(x))
    BY <1>1, <2>1, <2>2, ClassIs DEF Ring!IsQuotient
  <2>4. IsResult(Res(0), Res(x))
    BY <1>0, <2>3 DEF IsResult
  <2> QED
    BY <1>0, <1>1, <2>4, RingDelivers
<1>2. CASE modulus = 0 /\ x # 0 /\ Rem(job.arg, x) = 0 /\ Finish(Truncate(job.arg, x))
  <2>1. PICK q \in Int : q = Truncate(job.arg, x)
    BY <1>0, <1>2, TruncateInt
  <2>2. q * x = job.arg
    BY <1>0, <1>2, <2>1 DEF Rem
  <2>3. Res(q) = q /\ Res(x) = x /\ Res(q * x) = job.arg /\ Res(job.arg) = job.arg
    BY <1>2, <2>2 DEF Res
  <2>4. Ring!IsQuotient(Res(q), job.arg, Res(x))
    BY <1>2, <2>3, ClassIs DEF Ring!IsQuotient
  <2>5. IsResult(Res(q), Res(x))
    BY <1>0, <2>4 DEF IsResult
  <2> QED
    BY <1>0, <1>2, <2>1, <2>5, RingDelivers
<1>3. CASE /\ job.arg # 0 /\ modulus = 0 /\ ~(x # 0 /\ Rem(job.arg, x) = 0)
           /\ Signal("not exact")
  <2>1. ASSUME NEW q \in Bounded, Ring!IsQuotient(q, job.arg, Res(x))
        PROVE  FALSE
    <3>1. q \in Int
      BY SpanAssumption DEF Bounded
    <3>2. q * x = job.arg
      BY <1>3, <2>1, ClassIs DEF Ring!IsQuotient, Res
    <3>3. x # 0
      <4>1. q * 0 = 0
        BY <3>1
      <4> QED
        BY <1>3, <3>2, <4>1
    <3>4. Truncate(job.arg, x) = q
      BY <1>0, <3>1, <3>2, <3>3, TruncateProduct
    <3>5. Rem(job.arg, x) = 0
      BY <1>0, <3>1, <3>2, <3>4 DEF Rem
    <3> QED
      BY <1>3, <3>3, <3>5
  <2>2. \A q \in Bounded :
           ~Ring!IsQuotient(q, IF job.op = "invert" THEN 1 ELSE job.arg, Res(x))
    BY <1>0, <2>1
  <2> QED
    BY <1>0, <1>3, <2>2, RingFails
<1>4. CASE job.arg # 0 /\ modulus # 0 /\ CrecipStart(x)
  BY <1>0, <1>4, CrecipStartsRing
<1> QED
  BY <1>1, <1>2, <1>3, <1>4 DEF Quotient

\* ratinvert.
LEMMA InvertInRing ==
    ASSUME ModularInv, RingInv, Invert
    PROVE  Ring!Fail \/ UNCHANGED Ring!ringVars
<1>0. /\ modulus \in Nat \ {0} /\ x \in Int /\ job.op = "invert" /\ job.op \in Units
  BY RingTypes DEF Invert, Starting, Units, ModularInv, JobFits
<1>1. CASE x = 0 /\ Signal("no inverse")
  <2>1. ASSUME modulus # 1
        PROVE  \A q : ~Ring!IsQuotient(q, 1, Res(x))
    <3>1. modulus > 1 /\ modulus \in Int
      BY <1>0, <2>1
    <3>2. \A m \in Int : m = 1 * m /\ 0 * m = 0
      OBVIOUS
    <3>3. modulus = 1 * modulus /\ x = 0 * modulus
      BY <1>1, <3>1, <3>2
    <3>4. \A i \in Int : Res(i * Res(x)) # Res(1)
      BY <1>0, <3>1, <3>3, NoUnit
    <3> QED
      BY <1>0, <3>4, NoQuotient
  <2> QED
    BY <1>0, <1>1, <2>1, RingFails
<1>2. CASE CrecipStart(x)
  BY <1>0, <1>2, CrecipStartsRing
<1> QED
  BY <1>1, <1>2 DEF Invert

\* The ends of crecip: the Bezout coefficient is the inverse, and when the loop
\* ends at 0 there is none.
LEMMA RecipInRing ==
    ASSUME ModularInv, RingInv, NoInverse \/ RecipDone
    PROVE  Ring!Deliver \/ Ring!Fail
<1>0. /\ modulus \in Nat \ {0} /\ x \in Int /\ job.arg \in Int /\ a \in Int /\ mod \in Int
      /\ place \in {"fixnum", "general"} /\ place # "idle"
  BY RingTypes DEF NoInverse, RecipDone
<1>1. /\ job.op \in Units /\ (job.op = "quotient" => job.arg # 0)
      /\ Cong(a * x, remainder, modulus)
      /\ fresh /\ modulus # 1 => mod > 1
  BY <1>0 DEF RingInv, EuclidRing
<1>2. PICK n \in Int : n = (IF job.op = "invert" THEN 1 ELSE job.arg) /\ n # 0
  BY <1>0, <1>1 DEF Units
<1>3. CASE NoInverse
  <2>1. remainder = 0 /\ Signal("no inverse")
    BY <1>3 DEF NoInverse
  <2>2. PICK A \in Int, A0 \in Int : modulus = A * mod + A0 * remainder
    BY <1>0 DEF RingInv, EuclidRing
  <2>3. PICK C \in Int, C0 \in Int : x = C * mod + C0 * remainder
    BY <1>0 DEF RingInv, EuclidRing
  <2>4. PICK u \in Int, v \in Int : u = A * mod /\ v = C * mod
    BY <1>0, <2>2, <2>3
  <2>4a. modulus = A * mod
    <3>1. A0 * 0 = 0
      BY <2>2
    <3>2. A0 * remainder = 0
      BY <2>1, <3>1
    <3> QED
      BY <2>2, <2>4, <3>2
  <2>4b. x = C * mod
    <3>1. C0 * 0 = 0
      BY <2>3
    <3>2. C0 * remainder = 0
      BY <2>1, <3>1
    <3> QED
      BY <2>3, <2>4, <3>2
  <2>5. ASSUME fresh, modulus # 1
        PROVE  \A q : ~Ring!IsQuotient(q, n, Res(x))
    <3>1. \A i \in Int : Res(i * Res(x)) # Res(1)
      BY <1>0, <1>1, <2>2, <2>3, <2>4a, <2>4b, <2>5, NoUnit
    <3> QED
      BY <1>0, <1>2, <3>1, NoQuotient
  <2> QED
    BY <1>1, <1>2, <2>1, <2>5, RingFails
<1>4. CASE RecipDone
  <2>1. remainder = 1
    BY <1>4 DEF RecipDone
  <2>2. PICK m \in Int, r \in Int :
           /\ m = (IF job.op = "invert" THEN 1 ELSE job.arg)
           /\ Cong(r, a, modulus) /\ m * r \in Int
           /\ Finish(Ctimes(m, r)) /\ Ctimes(m, r) = Cmod(m * r)
    BY <1>4, RecipParts
  <2>3. Ring!IsQuotient(Res(Cmod(m * r)), m, Res(x))
    BY <1>0, <1>1, <2>1, <2>2, RecipQuotient
  <2>4. PICK v : v = Ctimes(m, r)
    OBVIOUS
  <2>5. IsResult(Res(v), Res(x))
    BY <1>1, <2>2, <2>3, <2>4 DEF IsResult, Units
  <2>6. Finish(v)
    BY <2>2, <2>4
  <2> QED
    BY <1>0, <2>5, <2>6, RingDelivers
<1> QED
  BY <1>3, <1>4

\* cexpt and the powers that are known at once.
LEMMA PowerInRing ==
    ASSUME ModularInv, RingInv, PowerAtOnce \/ PowerDone
    PROVE  Ring!Deliver
<1>0. modulus \in Nat /\ x \in Int /\ job.arg \in Int /\ s \in Int
  BY RingTypes
<1>1. CASE PowerAtOnce
  <2>0. place # "idle" /\ job.op = "power"
    BY <1>1 DEF PowerAtOnce, Starting
  <2>1. CASE job.arg = 0 /\ Finish(1)
    <3>1. Ring!PowerOf(Res(x), 0) = Res(1)
      BY <1>0, RingPower, ExactFirst
    <3>2. IsResult(Res(1), Res(x))
      BY <2>0, <2>1, <3>1 DEF IsResult
    <3> QED
      BY <2>0, <2>1, <3>2, RingDelivers
  <2>2. CASE job.arg > 1 /\ modulus = 0 /\ Finish(Exact(x, job.arg))
    <3>1. Ring!PowerOf(Res(x), job.arg) = Res(Exact(x, job.arg))
      BY <1>0, <2>2, RingPower
    <3>2. IsResult(Res(Exact(x, job.arg)), Res(x))
      BY <2>0, <3>1 DEF IsResult
    <3> QED
      BY <2>0, <2>2, <3>2, RingDelivers
  <2>3. CASE /\ job.arg = 1 /\ outcome' = "done" /\ job' = NoJob
             /\ UNCHANGED <<modulus, x, fresh>>
    <3>1. Ring!PowerOf(Res(x), 1) = Res(x)
      BY <1>0, RingPower, ExactOne
    <3>2. IsResult(Res(x), Res(x))
      BY <2>0, <2>3, <3>1 DEF IsResult
    <3>3. job # NoJob /\ job.op \in Operations
      BY <2>0 DEF ModularInv, TypeOK, RingInv
    <3>4. PICK q : q = Res(x) /\ q = IF modulus = 0 THEN x ELSE x % modulus
      BY DEF Res
    <3>5. Ring!Result(q)
      BY <3>2, <3>3, <3>4, ResultIs
    <3> QED
      BY <2>3, <3>3, <3>4, <3>5, NoJobs DEF Ring!Deliver
  <2> QED
    BY <1>1, <2>1, <2>2, <2>3 DEF PowerAtOnce
<1>2. CASE PowerDone
  <2>0. place = "power" /\ pow = 0 /\ Finish(s) /\ modulus # 0
    BY <1>2, RingTypes DEF PowerDone
  <2>1. /\ job.op = "power" /\ job.arg \in Nat
        /\ Cong(s * Exact(base, 2 * pow), Exact(x, job.arg), modulus)
    BY <2>0 DEF RingInv, PowerRing
  <2>2. Exact(base, 2 * pow) = 1
    BY <2>0, ExactFirst
  <2>3. s * Exact(base, 2 * pow) = s
    BY <1>0, <2>2
  <2>3a. Exact(x, job.arg) \in Int
    BY <1>0, <2>1, ExactNext
  <2>4. Res(s) = Res(Exact(x, job.arg))
    BY <1>0, <2>0, <2>1, <2>3, <2>3a, ResSame
  <2>5. Ring!PowerOf(Res(x), job.arg) = Res(Exact(x, job.arg))
    BY <1>0, <2>1, RingPower
  <2>6. IsResult(Res(s), Res(x))
    BY <2>1, <2>4, <2>5 DEF IsResult
  <2> QED
    BY <2>0, <2>6, RingDelivers
<1> QED
  BY <1>1, <1>2

\* The user's steps.
LEMMA UserInRing ==
    ASSUME ModularInv, RingInv,
           \/ \E m \in Moduli : SetModulus(m)
           \/ \E op \in Operations, arg \in -Span..Span : Ask(op, arg)
    PROVE  Ring!SetModulus \/ Ring!Ask
<1>1. ASSUME NEW m \in Moduli, SetModulus(m) PROVE Ring!SetModulus
  <2>1. /\ job = NoJob /\ modulus' = m /\ fresh' = (fresh /\ m = modulus)
        /\ x' = x /\ job' = job /\ outcome' = outcome
    BY <1>1 DEF SetModulus, ModularInv, TypeOK
  <2>2. CASE m = modulus
    BY <2>1, <2>2, NoJobs DEF Ring!SetModulus, ModularInv, TypeOK
  <2>3. CASE m # modulus
    <3>1. x \in -Span..Span
      BY DEF RingInv, Bounded
    <3> QED
      BY <2>1, <2>3, <3>1, NoJobs DEF Ring!SetModulus, Ring!Class
  <2> QED
    BY <2>2, <2>3
<1>2. ASSUME NEW op \in Operations, NEW arg \in -Span..Span, Ask(op, arg) PROVE Ring!Ask
  <2>1. /\ job = NoJob /\ job' = [op |-> op, arg |-> arg] /\ outcome' = "done"
        /\ UNCHANGED <<modulus, x, fresh>>
    BY <1>2 DEF Ask, ModularInv, TypeOK
  <2>2. job' \in [op : Operations, arg : -Span..Span]
    BY <2>1
  <2> QED
    BY <2>1, <2>2, NoJobs DEF Ring!Ask
<1> QED
  BY <1>1, <1>2

\* The loops of crecip and cexpt deliver what the ring of residues promises, for
\* every modulus: quotients are quotients, an inverse is refused only where there is
\* none or the coefficient is stale, and a power is the repeated product
\* (src/rat3a.lisp, cplus to cexpt; src/rat3e.lisp; src/mutils.lisp).
THEOREM CoefficientsAreResidues == Spec => RingSpec
<1>1. Init => Ring!RingInit
  <2>1. \A m \in Moduli \ {0} : 0 % m = 0
    BY ModuliAssumption
  <2> QED
    BY <2>1, NoJobs DEF Init, Ring!RingInit
<1>2. ASSUME ModularInv, RingInv, [Next]_vars
      PROVE  [Ring!RingNext]_(Ring!ringVars)
  <2>1. CASE UNCHANGED vars
    BY <2>1, RingStutters DEF vars
  <2>2. CASE EuclidStep \/ PowerStart \/ PowerStep
    BY <2>2, RingStutters DEF EuclidStep, PowerStart, PowerStep
  <2>3. Ring!Deliver \/ Ring!Fail \/ Ring!SetModulus \/ Ring!Ask => Ring!RingNext
    BY DEF Ring!RingNext
  <2> QED
    BY <1>2, <2>1, <2>2, <2>3, UserInRing, SumsInRing, QuotientInRing, InvertInRing, RecipInRing,
       PowerInRing DEF Next, Compute
<1>3. ModularInv /\ RingInv /\ [Next]_vars => [Ring!RingNext]_(Ring!ringVars)
  BY <1>2
<1> QED
  BY <1>1, <1>3, RingStart, RingStep, ModularInvariant, PTL DEF Spec, RingSpec, Ring!RingSpec
-----------------------------------------------------------------------------
(* The predecessor in C, on the coefficients of a computation.             *)

\* The remainder of C has the sign of the dividend.
LEMMA CRemFacts ==
    ASSUME NEW m \in Nat \ {0}, NEW i \in Int
    PROVE  /\ CRem(i, m) \in Int /\ -m < CRem(i, m) /\ CRem(i, m) < m
           /\ Cong(CRem(i, m), i, m)
<1>1. CASE i >= 0
  <2>1. PICK r \in 0..(m - 1) : r = i % m /\ Cong(i, r, m)
    BY CongRest
  <2>2. CRem(i, m) = r
    BY <1>1, <2>1 DEF CRem
  <2>3. r \in Int /\ -m < r /\ r < m
    OBVIOUS
  <2>4. Cong(r, i, m)
    BY <2>1, <2>3, CongSame
  <2> QED
    BY <2>2, <2>3, <2>4
<1>2. CASE i < 0
  <2>1. PICK j \in Int : j = -i
    OBVIOUS
  <2>2. PICK r \in 0..(m - 1) : r = j % m /\ Cong(j, r, m)
    BY <2>1, CongRest
  <2>3. CRem(i, m) = -r
    BY <1>2, <2>1, <2>2 DEF CRem
  <2>4. -r \in Int /\ -m < -r /\ -r < m
    OBVIOUS
  <2>5. PICK k \in Int : j = r + k * m
    BY <2>2 DEF Cong
  <2>6. -r = i + k * m
    BY <2>1, <2>5
  <2> QED
    BY <2>3, <2>4, <2>5, <2>6 DEF Cong
<1> QED
  BY <1>1, <1>2

\* FIX_MOD leads a remainder into its range.
LEMMA FixModFacts ==
    ASSUME NEW m \in Nat \ {0}, NEW r \in Int, -m < r, r < m
    PROVE  FixMod(r, m) \in Int /\ InRange(FixMod(r, m), m) /\ Cong(FixMod(r, m), r, m)
<1>1. PICK h \in Int : h = m \div 2 /\ 2 * h <= m /\ m <= 2 * h + 1
  <2>1. m \div 2 \in Int /\ 2 * (m \div 2) <= m /\ m <= 2 * (m \div 2) + 1
    OBVIOUS
  <2> QED
    BY <2>1
<1>2. CASE r > h
  <2>1. FixMod(r, m) = r - m
    BY <1>1, <1>2 DEF FixMod
  <2>2. r - m = r + (-1) * m /\ -1 \in Int /\ r - m \in Int
    OBVIOUS
  <2>3. Cong(r - m, r, m)
    BY <2>2 DEF Cong
  <2>4. -h <= r - m /\ r - m <= h
    BY <1>1, <1>2
  <2> QED
    BY <1>1, <2>1, <2>2, <2>3, <2>4 DEF InRange
<1>3. CASE r < -h
  <2>1. FixMod(r, m) = r + m
    BY <1>1, <1>3 DEF FixMod
  <2>2. r + m = r + 1 * m /\ 1 \in Int /\ r + m \in Int
    OBVIOUS
  <2>3. Cong(r + m, r, m)
    BY <2>2 DEF Cong
  <2>4. -h <= r + m /\ r + m <= h
    BY <1>1, <1>3
  <2> QED
    BY <1>1, <2>1, <2>2, <2>3, <2>4 DEF InRange
<1>4. CASE ~(r > h) /\ ~(r < -h)
  <2>1. FixMod(r, m) = r
    BY <1>1, <1>4 DEF FixMod
  <2>2. -h <= r /\ r <= h
    BY <1>1, <1>4
  <2> QED
    BY <1>1, <2>1, <2>2, CongSame DEF InRange
<1> QED
  BY <1>2, <1>3, <1>4

\* So does normalized-modulus.
LEMMA NormalInRange ==
    ASSUME NEW m \in Nat \ {0}, NEW n \in Int
    PROVE  InRange(NormalizedModulus(n, m), m)
<1>1. PICK v \in Int : v = NormalizedModulus(n, m) /\ -m < 2 * v /\ 2 * v <= m
  BY Normal
<1>2. -(m \div 2) <= v /\ v <= m \div 2
  BY <1>1
<1> QED
  BY <1>1, <1>2 DEF InRange

\* The range of an odd modulus has one number for each element.
LEMMA OneForEach ==
    ASSUME NEW m \in Nat \ {0}, m % 2 = 1, NEW i \in Int, NEW j \in Int,
           InRange(i, m), InRange(j, m), Cong(i, j, m)
    PROVE  i = j
<1>1. PICK h \in Int : h = m \div 2 /\ m = 2 * h + 1
  <2>1. m \div 2 \in Int /\ m = 2 * (m \div 2) + (m % 2)
    OBVIOUS
  <2> QED
    BY <2>1
<1>2. -h <= i /\ i <= h /\ -h <= j /\ j <= h
  BY <1>1 DEF InRange
<1>3. -m < i - j /\ i - j < m
  BY <1>1, <1>2
<1> QED
  BY <1>3, CongNear

\* A number that C computes from n, and what cmod makes of n.
LEMMA RepresentsSame ==
    ASSUME modulus \in Nat \ {0}, NEW n \in Int, NEW c \in Int, Cong(c, n, modulus)
    PROVE  /\ Same(c, n) /\ Same(c, Cmod(n))
           /\ InRange(c, modulus) => Agrees(c, Cmod(n))
           /\ modulus \notin Fixnums => Agrees(c, Cmod(n))
<1>1. PICK v \in Int :
         /\ v = NormalizedModulus(n, modulus) /\ v = Cmod(n)
         /\ Cong(v, n, modulus) /\ InRange(v, modulus)
  BY NormalCong, NormalInRange DEF Cmod
<1>2. Cong(n, v, modulus)
  BY <1>1, CongSame
<1>3. Cong(c, v, modulus)
  BY <1>2, CongTrans
<1>4. c % modulus = n % modulus /\ c % modulus = v % modulus
  BY <1>3, CongMod
<1>5. Same(c, n) /\ Same(c, v)
  BY <1>4 DEF Same
<1>6. InRange(c, modulus) /\ modulus % 2 = 1 => c = v
  BY <1>1, <1>3, OneForEach
<1> QED
  BY <1>1, <1>5, <1>6 DEF Agrees

LEMMA FixAgrees ==
    ASSUME modulus \in Nat \ {0}, NEW n \in Int
    PROVE  Agrees(FixMod(CRem(n, modulus), modulus), Cmod(n))
<1>1. PICK r \in Int : /\ r = CRem(n, modulus) /\ -modulus < r /\ r < modulus
                       /\ Cong(r, n, modulus)
  BY CRemFacts
<1>2. PICK c \in Int : /\ c = FixMod(r, modulus) /\ InRange(c, modulus)
                       /\ Cong(c, r, modulus)
  BY <1>1, FixModFacts
<1>3. Cong(c, n, modulus)
  BY <1>1, <1>2, CongTrans
<1> QED
  BY <1>1, <1>2, <1>3, RepresentsSame

\* mcmod, whatever the branch, stays in the class; so does fmod.
LEMMA McmodCong ==
    ASSUME NEW m \in Nat \ {0}, NEW n \in Int
    PROVE  Mcmod(n, m) \in Int /\ Cong(Mcmod(n, m), n, m)
<1>1. PICK r \in Int : r = CRem(n, m) /\ -m < r /\ r < m /\ Cong(r, n, m)
  BY CRemFacts
<1>2. PICK c \in Int : c = FixMod(r, m) /\ Cong(c, r, m)
  BY <1>1, FixModFacts
<1>3. Cong(c, n, m)
  BY <1>1, <1>2, CongTrans
<1>4. PICK d \in Int : d = r - m
  OBVIOUS
<1>5. d = r + (-1) * m /\ -1 \in Int
  BY <1>4
<1>6. Cong(d, r, m)
  BY <1>5 DEF Cong
<1>7. Cong(d, n, m)
  BY <1>1, <1>6, CongTrans
<1>8. Mcmod(n, m) \in {c, d, r}
  BY <1>1, <1>2, <1>4 DEF Mcmod
<1> QED
  BY <1>1, <1>3, <1>7, <1>8

LEMMA FmodFacts ==
    ASSUME NEW m \in Nat \ {0}, NEW n \in Int
    PROVE  /\ Fmod(n, m) \in Int /\ Cong(Fmod(n, m), n, m)
           /\ Abs(n) < m => InRange(Fmod(n, m), m)
<1>1. PICK r \in Int : r = CRem(n, m) /\ -m < r /\ r < m /\ Cong(r, n, m)
  BY CRemFacts
<1>2. PICK u \in Int : u = n - m /\ u = n + (-1) * m
  OBVIOUS
<1>3. Cong(u, n, m)
  <2>1. -1 \in Int
    OBVIOUS
  <2> QED
    BY <1>2, <2>1 DEF Cong
<1>4. PICK v \in Int : v = r + m /\ v = r + 1 * m
  BY <1>1
<1>5. Cong(v, r, m)
  <2>1. 1 \in Int
    OBVIOUS
  <2> QED
    BY <1>4, <2>1 DEF Cong
<1>6. Cong(v, n, m)
  BY <1>1, <1>5, CongTrans
<1>7. Fmod(n, m) \in {u, v, r}
  BY <1>1, <1>2, <1>4 DEF Fmod
<1>8. ASSUME Abs(n) < m PROVE InRange(Fmod(n, m), m)
  <2>1. -m < n /\ n < m
    BY <1>8 DEF Abs
  <2>2. Cong(r, n, m) /\ n = r
    <3>1. n >= 0 => n % m = n
      BY <2>1
    <3>2. n < 0 => (-n) % m = -n
      BY <2>1
    <3> QED
      BY <1>1, <3>1, <3>2 DEF CRem
  <2>3. Fmod(n, m) = FixMod(n, m)
    BY <1>1, <2>2 DEF Fmod, FixMod
  <2> QED
    BY <2>1, <2>3, FixModFacts
<1> QED
  BY <1>1, <1>3, <1>6, <1>7, <1>8

\* The operand of a sum or a product is what cmod made of it, until the operation is
\* computed.
OperandReduced ==
    place = "start" /\ job.op \in {"plus", "difference", "times"} => job.arg = Cmod(job.arg)

LEMMA OperandsReduced == Spec => []OperandReduced
<1>1. Init => OperandReduced
  BY DEF Init, OperandReduced
<1>2. ModularInv /\ OperandReduced /\ [Next]_vars => OperandReduced'
  <2> SUFFICES ASSUME ModularInv, OperandReduced, [Next]_vars PROVE OperandReduced'
    OBVIOUS
  <2>1. CASE UNCHANGED vars
    BY <2>1 DEF OperandReduced, vars, Cmod
  <2>2. ASSUME place' # "start" PROVE OperandReduced'
    BY <2>2 DEF OperandReduced
  <2>3. CASE \E m \in Moduli : SetModulus(m)
    BY <2>2, <2>3 DEF SetModulus
  <2>4. CASE Compute
    <3>1. \A value : Finish(value) => place' # "start"
      BY DEF Finish
    <3>2. \A how : Signal(how) => place' # "start"
      BY DEF Signal
    <3>3. \A n : CrecipStart(n) => place' # "start"
      BY <3>2 DEF CrecipStart
    <3>4. EuclidStep \/ PowerStart \/ PowerStep => place' # "start"
      BY DEF EuclidStep, PowerStart, PowerStep
    <3> QED
      BY <2>2, <2>4, <3>1, <3>2, <3>3, <3>4
         DEF Compute, Enter, Plus, Difference, Times, Quotient, Invert, NoInverse, RecipDone,
             PowerAtOnce, PowerDone
  <2>5. CASE \E op \in Operations, arg \in -Span..Span : Ask(op, arg)
    <3>1. PICK op \in Operations, arg \in -Span..Span : Ask(op, arg)
      BY <2>5
    <3>2. job'.op = op /\ job'.arg = arg /\ modulus' = modulus /\ Operand(op, arg)
      BY <3>1 DEF Ask
    <3>3. op \in {"plus", "difference", "times"} => arg = Cmod(arg)
      BY <3>2 DEF Operand
    <3>4. Cmod(arg)' = Cmod(arg)
      BY <3>2 DEF Cmod
    <3> QED
      BY <3>2, <3>3, <3>4 DEF OperandReduced, Cmod
  <2> QED
    BY <2>1, <2>3, <2>4, <2>5 DEF Next
<1> QED
  BY <1>1, <1>2, ModularInvariant, PTL DEF Spec

\* Coefficients of a range that are added, subtracted and multiplied.
LEMMA RangeFixnums ==
    ASSUME NEW m \in Fixnums, m > 0, NEW i \in Int, InRange(i, m)
    PROVE  i \in Fixnums
<1>1. 2 * (m \div 2) <= m /\ m \div 2 \in Nat
  BY HalfAssumption DEF Fixnums
<1> QED
  BY <1>1, HalfAssumption DEF Fixnums, InRange

LEMMA ReducedInRange ==
    ASSUME modulus \in Nat \ {0}, NEW i \in Int, i = Cmod(i)
    PROVE  InRange(i, modulus)
BY NormalInRange DEF Cmod

\* Without a modulus the numbers are computed as they are.
LEMMA ExactAgrees ==
    ASSUME modulus = 0, NEW i \in Int, NEW j \in Int
    PROVE  /\ Agrees(CCplus(i, j, modulus), Cplus(i, j))
           /\ Agrees(CCdifference(i, j, modulus), Cdifference(i, j))
           /\ Agrees(CCtimes(i, j, modulus), Ctimes(i, j))
<1>1. CCplus(i, j, 0) = i + j
  BY FplusExact DEF CCplus
<1>2. CCdifference(i, j, 0) = i - j
  BY FplusExact DEF CCdifference
<1>3. CCtimes(i, j, 0) = i * j
  BY DEF CCtimes, Ftimes
<1>4. \A c : Agrees(c, c)
  <2>1. 0 % 2 = 0
    OBVIOUS
  <2> QED
    BY <2>1 DEF Agrees, Same
<1> QED
  BY <1>1, <1>2, <1>3, <1>4 DEF Cplus, Cdifference, Ctimes, Cmod

LEMMA RangeAgrees ==
    ASSUME modulus \in Nat \ {0}, NEW i \in Int, NEW j \in Int,
           InRange(i, modulus), InRange(j, modulus)
    PROVE  /\ Agrees(CCplus(i, j, modulus), Cplus(i, j))
           /\ Agrees(CCdifference(i, j, modulus), Cdifference(i, j))
           /\ Agrees(CCtimes(i, j, modulus), Ctimes(i, j))
<1>1. PICK p \in Int, d \in Int, t \in Int : p = i + j /\ d = i - j /\ t = i * j
  OBVIOUS
<1>2. CASE modulus \in Fixnums
  <2>1. modulus > 0 /\ i \in Fixnums /\ j \in Fixnums
    BY <1>2, RangeFixnums
  <2>2. Wrap(p) = p /\ Wrap(d) = d
    BY <1>1, <1>2, <2>1, RangeHasNoOverflow
  <2>3. /\ CCplus(i, j, modulus) = FixMod(CRem(p, modulus), modulus)
        /\ CCdifference(i, j, modulus) = FixMod(CRem(d, modulus), modulus)
        /\ CCtimes(i, j, modulus) = FixMod(CRem(t, modulus), modulus)
    BY <1>1, <1>2, <2>1, <2>2 DEF CCplus, CCdifference, CCtimes, Dblrem
  <2> QED
    BY <1>1, <2>3, FixAgrees DEF Cplus, Cdifference, Ctimes
<1>3. CASE modulus \notin Fixnums
  <2>1. /\ CCplus(i, j, modulus) = Mcmod(p, modulus)
        /\ CCdifference(i, j, modulus) = Mcmod(d, modulus)
        /\ CCtimes(i, j, modulus) = Mcmod(t, modulus)
    BY <1>1, <1>3 DEF CCplus, CCdifference, CCtimes
  <2>2. ASSUME NEW n \in Int PROVE Agrees(Mcmod(n, modulus), Cmod(n))
    BY <1>3, McmodCong, RepresentsSame
  <2> QED
    BY <1>1, <2>1, <2>2 DEF Cplus, Cdifference, Ctimes
<1> QED
  BY <1>2, <1>3

\* The C predecessor agrees with its successor on the coefficients of every
\* computation, for every modulus and every width of an int
\* (src/archive/src/rat3f-hc.c, cplus, cdifference, ctimes, mcmod, fmod, plusrem and
\* subrem; src/rat3a.lisp, cmod).
THEOREM PredecessorAgrees == Spec => []ArchivedAgrees
<1>1. ModularInv /\ OperandReduced => ArchivedAgrees
  <2> SUFFICES ASSUME ModularInv, OperandReduced PROVE ArchivedAgrees
    OBVIOUS
  <2>1. modulus \in Nat /\ x \in Int /\ job.arg \in Int
    BY ModulusNat DEF ModularInv, TypeOK
  <2>2. PICK arg \in Int : arg = job.arg
    BY <2>1
  <2>3. ASSUME place = "start", modulus # 0 => InRange(x, modulus)
        PROVE  /\ job.op = "plus" => Agrees(CCplus(x, arg, modulus), Cplus(x, arg))
               /\ job.op = "difference" =>
                      Agrees(CCdifference(x, arg, modulus), Cdifference(x, arg))
               /\ job.op = "times" => Agrees(CCtimes(x, arg, modulus), Ctimes(x, arg))
    <3>1. CASE modulus = 0
      BY <2>1, <3>1, ExactAgrees
    <3>2. CASE modulus # 0 /\ job.op \in {"plus", "difference", "times"}
      <4>1. arg = Cmod(arg)
        BY <2>2, <2>3, <3>2 DEF OperandReduced
      <4>2. InRange(arg, modulus) /\ InRange(x, modulus)
        BY <2>1, <2>3, <3>2, <4>1, ReducedInRange
      <4> QED
        BY <2>1, <3>2, <4>2, RangeAgrees
    <3> QED
      BY <3>1, <3>2
  <2>4. ASSUME place = "start", modulus \in Fixnums \ {0}
        PROVE  /\ job.op = "enter" /\ arg \in Fixnums => Agrees(Mcmod(arg, modulus), Cmod(arg))
               /\ job.op = "enter" =>
                      /\ Same(Mcmod(arg, modulus), arg)
                      /\ Same(Fmod(arg, modulus), arg)
                      /\ Abs(arg) < modulus => InRange(Fmod(arg, modulus), modulus)
               /\ job.op = "plus" => Agrees(FixMod(Plusrem(x, arg, modulus), modulus), Cplus(x, arg))
               /\ job.op = "difference" =>
                      Agrees(FixMod(Subrem(x, arg, modulus), modulus), Cdifference(x, arg))
    <3>1. modulus \in Nat \ {0}
      BY <2>1, <2>4
    <3>2. ASSUME arg \in Fixnums PROVE Agrees(Mcmod(arg, modulus), Cmod(arg))
      <4>1. Mcmod(arg, modulus) = FixMod(CRem(arg, modulus), modulus)
        BY <2>4, <3>2 DEF Mcmod
      <4> QED
        BY <3>1, <4>1, FixAgrees
    <3>3. Same(Mcmod(arg, modulus), arg)
      BY <3>1, McmodCong, RepresentsSame
    <3>4. Same(Fmod(arg, modulus), arg)
      BY <3>1, FmodFacts, RepresentsSame
    <3>5. Abs(arg) < modulus => InRange(Fmod(arg, modulus), modulus)
      BY <3>1, FmodFacts
    <3>6. x + arg \in Int /\ x - arg \in Int
      BY <2>1
    <3>7. Agrees(FixMod(Plusrem(x, arg, modulus), modulus), Cplus(x, arg))
      BY <3>1, <3>6, FixAgrees DEF Plusrem, Cplus
    <3>8. Agrees(FixMod(Subrem(x, arg, modulus), modulus), Cdifference(x, arg))
      BY <3>1, <3>6, FixAgrees DEF Subrem, Cdifference
    <3> QED
      BY <3>2, <3>3, <3>4, <3>5, <3>7, <3>8
  <2> QED
    BY <2>2, <2>3, <2>4, Zenon DEF ArchivedAgrees
<1> QED
  BY <1>1, OperandsReduced, ModularInvariant, PTL
=============================================================================

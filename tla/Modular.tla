------------------------------- MODULE Modular -------------------------------
(***************************************************************************)
(* The arithmetic of the coefficients of canonical rational expressions    *)
(* while a modulus is set: src/mutils.lisp and src/rat3a.lisp.  There is   *)
(* one coefficient; an operation is asked for and then computed, the loops *)
(* of crecip, crecip-general and cexpt one round at a step.  An operation  *)
(* that signals an error goes back to the top level and leaves the         *)
(* coefficient as it was.                                                  *)
(*                                                                         *)
(* The modulus is an option that the user can reset at any time; the       *)
(* coefficients that are there are not converted.  fresh is history: has   *)
(* the coefficient been computed since.                                    *)
(***************************************************************************)
EXTENDS Integers

CONSTANTS
    Moduli,         \* the values of modulus that are tried; 0 stands for false
    FixnumLimit,    \* crecip uses fixnums below it: 2^15
    Span,           \* bound on the integers of the model: -Span to Span
    MaxPower        \* bound on the exponents

ASSUME ModuliAssumption == Moduli \subseteq Nat
ASSUME LimitAssumption == FixnumLimit \in Nat /\ FixnumLimit > 1
ASSUME SpanAssumption == Span \in Nat /\ MaxPower \in Nat /\ \A m \in Moduli : m <= Span

VARIABLES
    modulus,        \* MODULUS, or 0 for NIL
    x,              \* the coefficient
    fresh,          \* was it computed under this modulus
    job,            \* the operation underway and its operand
    outcome,        \* how the last operation ended
    place,          \* where the operation is
    mod, remainder, a, b,   \* the variables of crecip and crecip-general
    base, s, pow            \* the variables of cexpt

euclid == <<mod, remainder, a, b>>
expt == <<base, s, pow>>
vars == <<modulus, x, fresh, job, outcome, place, euclid, expt>>

Operations == {"enter", "plus", "difference", "times", "quotient", "invert", "power"}
NoJob == [op |-> "none", arg |-> 0]
Outcomes == {"done", "no inverse", "out of range", "not exact"}
Places == {"idle", "start", "fixnum", "general", "power"}

TypeOK ==
    /\ modulus \in Moduli /\ x \in Int /\ fresh \in BOOLEAN
    /\ job \in [op : Operations \cup {"none"}, arg : Int]
    /\ outcome \in Outcomes /\ place \in Places
    /\ mod \in Int /\ remainder \in Int /\ a \in Int /\ b \in Int
    /\ base \in Int /\ s \in Int /\ pow \in Nat
    /\ place = "idle" <=> job = NoJob

Init ==
    /\ modulus \in Moduli /\ x = 0 /\ fresh = TRUE
    /\ job = NoJob /\ outcome = "done" /\ place = "idle"
    /\ mod = 0 /\ remainder = 0 /\ a = 0 /\ b = 0
    /\ base = 0 /\ s = 0 /\ pow = 0

-----------------------------------------------------------------------------
Abs(i) == IF i < 0 THEN -i ELSE i

\* TRUNCATE and REM round towards zero.
Truncate(i, j) ==
    IF i >= 0 /\ j > 0 THEN i \div j
    ELSE IF (i >= 0) = (j > 0) THEN Abs(i) \div Abs(j) ELSE -(Abs(i) \div Abs(j))

Rem(i, j) == i - j * Truncate(i, j)

\* normalized-modulus: into (-m/2, m/2].
NormalizedModulus(n, m) ==
    LET rem == n % m IN IF 2 * rem <= m THEN rem ELSE rem - m

Cmod(n) == IF modulus = 0 THEN n ELSE NormalizedModulus(n, modulus)

\* cplus, cdifference and ctimes.
Cplus(i, j) == Cmod(i + j)
Cdifference(i, j) == Cmod(i - j)
Ctimes(i, j) == Cmod(i * j)

Small(i) == i \in -Span..Span

\* EXPT
Exact(i, n) == LET e[k \in 0..n] == IF k = 0 THEN 1 ELSE i * e[k - 1] IN e[n]

\* The bound on the integers, which only matters where there is no modulus.
Within(op, arg) ==
    CASE op = "plus"       -> Small(x + arg)
      [] op = "difference" -> Small(x - arg)
      [] op = "times"      -> Small(x * arg)
      [] op = "power"      -> Small(x) /\ Small(Exact(x, arg))
      [] OTHER -> TRUE

\* What an operand can be for each operation: a coefficient that prep1 has made,
\* or the exponent of a power.
Operand(op, arg) ==
    CASE op \in {"plus", "difference", "times", "quotient"} -> arg = Cmod(arg)
      [] op = "power" -> arg \in 0..MaxPower
      [] op = "invert" -> arg = 0 /\ modulus # 0
      [] OTHER -> TRUE

-----------------------------------------------------------------------------
\* set-modulus, or an assignment to modulus.
SetModulus(m) ==
    /\ place = "idle"
    /\ modulus' = m
    /\ fresh' = (fresh /\ m = modulus)
    /\ UNCHANGED <<x, job, outcome, place, euclid, expt>>

Ask(op, arg) ==
    /\ place = "idle"
    /\ Operand(op, arg)
    /\ modulus = 0 => Within(op, arg)
    /\ job' = [op |-> op, arg |-> arg]
    /\ outcome' = "done"
    /\ place' = "start"
    /\ UNCHANGED <<modulus, x, fresh, euclid, expt>>

\* The end of an operation, with a result and without one.
Finish(value) ==
    /\ x' = value /\ fresh' = TRUE /\ outcome' = "done"
    /\ job' = NoJob /\ place' = "idle"
    /\ mod' = 0 /\ remainder' = 0 /\ a' = 0 /\ b' = 0
    /\ base' = 0 /\ s' = 0 /\ pow' = 0
    /\ UNCHANGED modulus

Signal(how) ==
    /\ outcome' = how
    /\ job' = NoJob /\ place' = "idle"
    /\ mod' = 0 /\ remainder' = 0 /\ a' = 0 /\ b' = 0
    /\ UNCHANGED <<modulus, x, fresh, expt>>

Starting(op) == place = "start" /\ job.op = op

\* An integer is made a coefficient: prep1.
Enter == Starting("enter") /\ Finish(Cmod(job.arg))

Plus == Starting("plus") /\ Finish(Cplus(x, job.arg))

Difference == Starting("difference") /\ Finish(Cdifference(x, job.arg))

Times == Starting("times") /\ Finish(Ctimes(x, job.arg))

-----------------------------------------------------------------------------
(* cquotient, ratinvert and crecip *)

\* Mutant of CrecipStart: fixnums are used without the check of the range.
CrecipUnchecked(n) ==
    /\ mod' = modulus /\ a' = 1 /\ b' = 0
    /\ remainder' = IF n < 0 THEN n + modulus ELSE n
    /\ place' = IF modulus < FixnumLimit THEN "fixnum" ELSE "general"
    /\ UNCHANGED <<modulus, x, fresh, job, outcome, expt>>

\* The entry of crecip, and of crecip-general, which has no check.
CrecipStart(n) ==
    IF modulus < FixnumLimit /\ n \notin -modulus..modulus
      THEN Signal("out of range")
      ELSE /\ mod' = modulus /\ a' = 1 /\ b' = 0
           /\ remainder' = IF n < 0 THEN n + modulus ELSE n
           /\ place' = IF modulus < FixnumLimit THEN "fixnum" ELSE "general"
           /\ UNCHANGED <<modulus, x, fresh, job, outcome, expt>>

\* cquotient: zero is not divided at all; without a modulus the quotient has to be
\* exact.
Quotient ==
    /\ Starting("quotient")
    /\ \/ job.arg = 0 /\ Finish(0)
       \/ /\ job.arg # 0 /\ modulus = 0
          /\ IF x # 0 /\ Rem(job.arg, x) = 0
               THEN Finish(Truncate(job.arg, x))
               ELSE Signal("not exact")
       \/ job.arg # 0 /\ modulus # 0 /\ CrecipStart(x)

\* ratinvert, for a coefficient.
Invert ==
    /\ Starting("invert")
    /\ IF x = 0 THEN Signal("no inverse") ELSE CrecipStart(x)

\* A round of the loop of either function.
EuclidStep ==
    /\ place \in {"fixnum", "general"}
    /\ remainder \notin {0, 1}
    /\ LET quot == Truncate(mod, remainder) IN
         /\ mod' = remainder
         /\ remainder' = mod - quot * remainder
         /\ a' = b - a * quot
         /\ b' = a
    /\ UNCHANGED <<modulus, x, fresh, job, outcome, place, expt>>

NoInverse ==
    /\ place \in {"fixnum", "general"}
    /\ remainder = 0
    /\ Signal("no inverse")

\* What crecip makes of the Bezout coefficient, without cmod.
Normalized(i) ==
    IF modulus = 2 THEN i % 2
    ELSE LET nn == i % modulus IN IF 2 * nn <= modulus THEN nn ELSE nn - modulus

\* Mutant of RecipDone: the other coefficient is returned.
RecipOther ==
    /\ place \in {"fixnum", "general"}
    /\ remainder = 1
    /\ Finish(Ctimes(IF job.op = "invert" THEN 1 ELSE job.arg,
                     IF place = "fixnum" THEN Normalized(b) ELSE Cmod(b)))

\* The reciprocal, which the quotient is multiplied with.
RecipDone ==
    /\ place \in {"fixnum", "general"}
    /\ remainder = 1
    /\ Finish(Ctimes(IF job.op = "invert" THEN 1 ELSE job.arg,
                     IF place = "fixnum" THEN Normalized(a) ELSE Cmod(a)))

-----------------------------------------------------------------------------
(* pexpt and cexpt *)

\* The powers that pexpt knows, and cexpt without a modulus.
PowerAtOnce ==
    /\ Starting("power")
    /\ \/ job.arg = 0 /\ Finish(1)
       \/ /\ job.arg = 1
          /\ outcome' = "done" /\ job' = NoJob /\ place' = "idle"
          /\ UNCHANGED <<modulus, x, fresh, euclid, expt>>
       \/ job.arg > 1 /\ modulus = 0 /\ Finish(Exact(x, job.arg))

PowerStart ==
    /\ Starting("power")
    /\ job.arg > 1 /\ modulus # 0
    /\ base' = x
    /\ s' = IF job.arg % 2 = 1 THEN x ELSE 1
    /\ pow' = job.arg \div 2
    /\ place' = "power"
    /\ UNCHANGED <<modulus, x, fresh, job, outcome, euclid>>

\* Mutants of PowerStep: the product is not reduced; the exponent is rounded up
\* when it is halved.
PowerStepBig ==
    /\ place = "power" /\ pow # 0
    /\ base' = Rem(base * base, modulus)
    /\ s' = IF pow % 2 = 1 THEN s * base' ELSE s
    /\ pow' = pow \div 2
    /\ UNCHANGED <<modulus, x, fresh, job, outcome, place, euclid>>

PowerStepUp ==
    /\ place = "power" /\ pow # 0
    /\ base' = Rem(base * base, modulus)
    /\ s' = IF pow % 2 = 1 THEN Rem(s * base', modulus) ELSE s
    /\ pow' = (pow + 1) \div 2
    /\ UNCHANGED <<modulus, x, fresh, job, outcome, place, euclid>>

\* A round of the loop of cexpt.
PowerStep ==
    /\ place = "power" /\ pow # 0
    /\ base' = Rem(base * base, modulus)
    /\ s' = IF pow % 2 = 1 THEN Rem(s * base', modulus) ELSE s
    /\ pow' = pow \div 2
    /\ UNCHANGED <<modulus, x, fresh, job, outcome, place, euclid>>

\* Its end: the result is not put into the range of cmod.
PowerDone ==
    /\ place = "power" /\ pow = 0
    /\ Finish(s)

Compute ==
    \/ Enter \/ Plus \/ Difference \/ Times \/ Quotient \/ Invert
    \/ EuclidStep \/ NoInverse \/ RecipDone
    \/ PowerAtOnce \/ PowerStart \/ PowerStep \/ PowerDone

Next ==
    \/ \E m \in Moduli : SetModulus(m)
    \/ \E op \in Operations, arg \in -Span..Span : Ask(op, arg)
    \/ Compute

\* A computation that has been started goes on.
Spec == Init /\ [][Next]_vars /\ WF_vars(Compute)

-----------------------------------------------------------------------------
\* The declared types of crecip: the numbers that the Euclidean algorithm goes
\* through are unsigned and the Bezout coefficients signed fixnums, for every
\* coefficient that the check lets in.  (src/rat3a.lisp:104-118)
RegistersFit ==
    place = "fixnum" =>
        /\ {mod, remainder} \subseteq 0..(FixnumLimit - 1)
        /\ {a, b} \subseteq -FixnumLimit..(FixnumLimit - 1)

\* A coefficient that was computed under the modulus is zero in the ring only if
\* it is the number 0, which is what pzerop looks for when a term is dropped,
\* although cexpt leaves the range of cmod.  (src/rat3a.lisp:177-186)
ZeroIsZero == fresh /\ modulus > 1 /\ x # 0 => x % modulus # 0

\* The reciprocal is refused for its range only if the coefficient is older than
\* the modulus.  (src/rat3a.lisp:95-97)
OutOfRangeIsStale == outcome = "out of range" => ~fresh

\* Every operation ends, also that on a coefficient for which crecip-general
\* leaves the positive numbers.  (src/rat3a.lisp:117-171)
Ends == place # "idle" ~> place = "idle"

\* What the operations do in the ring.
Ring == INSTANCE Residues WITH residue <- IF modulus = 0 THEN x ELSE x % modulus
RingSpec == Ring!RingSpec
=============================================================================

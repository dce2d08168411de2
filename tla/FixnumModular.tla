---------------------------- MODULE FixnumModular ----------------------------
(***************************************************************************)
(* The coefficient arithmetic in C that Maxima used on AKCL,               *)
(* archive/src/rat3f-hc.c.  It is kept in the repository but not built any *)
(* more: module Modular is its successor.  A fixnum is a C int; Half is    *)
(* the number of its non-negative values, 2^31.  The operations are        *)
(* functions of integers; what is not a fixnum is a bignum.                *)
(***************************************************************************)
EXTENDS Integers

CONSTANT Half       \* 2^31

ASSUME HalfAssumption == Half \in Nat /\ Half > 1

Fixnums == -Half..(Half - 1)

\* An int that an addition or a subtraction leaves.
Wrap(i) == IF i \in Fixnums THEN i ELSE IF i > 0 THEN i - 2 * Half ELSE i + 2 * Half

\* The remainder of C and of the divide instructions, with the sign of i.
CRem(i, m) == IF i >= 0 THEN i % m ELSE -((-i) % m)

\* FIX_MOD
FixMod(i, m) ==
    IF i > m \div 2 THEN i - m
    ELSE IF i < -(m \div 2) THEN i + m ELSE i

\* dblrem, whose product has twice the width, and plusrem and subrem, which put
\* the carry into the upper half of the dividend.
Dblrem(i, j, m) == CRem(i * j, m)
Plusrem(i, j, m) == CRem(i + j, m)
Subrem(i, j, m) == CRem(i - j, m)

\* bignum2: an upper and a lower word of 31 bits.
Bignum2(high, low) == high * Half + low

\* MASK cuts the sign bit off.
Masked(i) == IF i < 0 THEN i + Half ELSE i

\* Mutant of Fplus: the bignum is chosen by the sign of the sum that is left.
FplusSign(m, n) ==
    LET d0 == Wrap(m + n) IN
    IF m + n \in Fixnums THEN d0
    ELSE IF d0 > 0 THEN Bignum2(1, Masked(d0)) ELSE Bignum2(-2, Masked(d0))

\* fplus and fminus: the sum, or after an overflow a bignum.
Fplus(m, n) ==
    LET d0 == Wrap(m + n) IN
    IF m + n \in Fixnums THEN d0
    ELSE IF n > 0 THEN Bignum2(1, Masked(d0)) ELSE Bignum2(-2, Masked(d0))

Fminus(m, n) ==
    LET d0 == Wrap(m - n) IN
    IF m - n \in Fixnums THEN d0
    ELSE IF n < 0 THEN Bignum2(1, Masked(d0)) ELSE Bignum2(-2, Masked(d0))

\* ftimes: fixnum_times of Lisp where mulsl overflows.
Ftimes(m, n) == m * n

\* fmod: what is too large is replaced by m - mod and not by res - mod.
Fmod(m, mod) ==
    LET res == CRem(m, mod) IN
    IF res > mod \div 2 THEN m - mod
    ELSE IF res < -(mod \div 2) THEN res + mod ELSE res

\* mcmod: a bignum below zero is not put into the range.
Mcmod(i, mod) ==
    LET rp == CRem(i, mod) IN
    IF {i, mod} \subseteq Fixnums THEN FixMod(rp, mod)
    ELSE IF rp > mod \div 2 THEN rp - mod ELSE rp

\* The operations; mod is 0 for Cnil.  The sum and the difference of fixnums are
\* ints, so that they wrap around.
CCplus(i, j, mod) ==
    IF mod = 0 THEN IF {i, j} \subseteq Fixnums THEN Fplus(i, j) ELSE i + j
    ELSE IF mod \in Fixnums THEN FixMod(CRem(Wrap(i + j), mod), mod)
    ELSE Mcmod(i + j, mod)

CCdifference(i, j, mod) ==
    IF mod = 0 THEN IF {i, j} \subseteq Fixnums THEN Fminus(i, j) ELSE i - j
    ELSE IF mod \in Fixnums THEN FixMod(CRem(Wrap(i - j), mod), mod)
    ELSE Mcmod(i - j, mod)

CCtimes(i, j, mod) ==
    IF {i, j} \subseteq Fixnums /\ mod = 0 THEN Ftimes(i, j)
    ELSE IF {i, j, mod} \subseteq Fixnums THEN FixMod(Dblrem(i, j, mod), mod)
    ELSE IF mod = 0 THEN i * j ELSE Mcmod(i * j, mod)

\* The range that FIX_MOD leads into: symmetric, so that half of an even modulus
\* has two representations.
InRange(i, mod) == -(mod \div 2) <= i /\ i <= mod \div 2
=============================================================================

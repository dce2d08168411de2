--------------------------- MODULE ArchivedModular ---------------------------
(***************************************************************************)
(* The coefficient arithmetic of Modular beside its predecessor in C.      *)
(***************************************************************************)
EXTENDS Modular, FixnumModular

Same(i, j) == IF modulus = 0 THEN i = j ELSE i % modulus = j % modulus

\* A number that C computes where Lisp computes another.
Agrees(c, lisp) ==
    /\ Same(c, lisp)
    /\ modulus \in Fixnums \ {0} => InRange(c, modulus)
    /\ modulus \in Fixnums /\ modulus % 2 = 1 => c = lisp

\* On coefficients of its own range the C predecessor does what cmod, cplus,
\* cdifference and ctimes do: the same element, in its range, and the same number
\* when the modulus is odd or there is none.  Of any other number the bignum
\* branch of mcmod and fmod make one of the same class, although it may be out of
\* the range, and plusrem and subrem take any fixnums, where the additions of
\* cplus and cdifference could overflow.  (archive/src/rat3f-hc.c:42-79, 133-264)
ArchivedAgrees ==
    LET arg == job.arg IN
    /\ place = "start" /\ (modulus # 0 => InRange(x, modulus)) =>
           /\ job.op = "plus" => Agrees(CCplus(x, arg, modulus), Cplus(x, arg))
           /\ job.op = "difference" => Agrees(CCdifference(x, arg, modulus), Cdifference(x, arg))
           /\ job.op = "times" => Agrees(CCtimes(x, arg, modulus), Ctimes(x, arg))
    /\ place = "start" /\ modulus \in Fixnums \ {0} =>
           /\ job.op = "enter" /\ arg \in Fixnums => Agrees(Mcmod(arg, modulus), Cmod(arg))
           /\ job.op = "enter" => /\ Same(Mcmod(arg, modulus), arg)
                                  /\ Same(Fmod(arg, modulus), arg)
                                  /\ Abs(arg) < modulus => InRange(Fmod(arg, modulus), modulus)
           /\ job.op = "plus" => Agrees(FixMod(Plusrem(x, arg, modulus), modulus), Cplus(x, arg))
           /\ job.op = "difference" =>
                  Agrees(FixMod(Subrem(x, arg, modulus), modulus), Cdifference(x, arg))
=============================================================================

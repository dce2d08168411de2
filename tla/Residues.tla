------------------------------ MODULE Residues ------------------------------
(***************************************************************************)
(* What arithmetic on a coefficient promises while a modulus is set        *)
(* (Maxima's option variable modulus): it is arithmetic in the ring of the *)
(* integers modulo that number, or in the integers when there is none.     *)
(* An operation is one step; it may fail only where it has no result, or   *)
(* when the coefficient was made under another modulus.                    *)
(***************************************************************************)
EXTENDS Integers

CONSTANTS
    Moduli,     \* the values that modulus is given; 0 stands for false
    Span        \* the integers from -Span to Span occur

VARIABLES
    modulus,    \* the modulus, or 0
    residue,    \* the coefficient, as an element of the ring
    fresh,      \* was it made under this modulus
    job,        \* the operation underway and its operand
    outcome     \* how the last operation ended

ringVars == <<modulus, residue, fresh, job, outcome>>

Operations == {"enter", "plus", "difference", "times", "quotient", "invert", "power"}
NoJob == [op |-> "none", arg |-> 0]
Failures == {"no inverse", "out of range", "not exact"}

\* The element that an integer stands for.
Class(i) == IF modulus = 0 THEN i ELSE i % modulus

\* The power of an element.
PowerOf(r, n) ==
    LET p[k \in 0..n] == IF k = 0 THEN Class(1) ELSE Class(r * p[k - 1]) IN p[n]

\* q is arg divided by r, which has to be a unit of the ring.
IsQuotient(q, arg, r) ==
    /\ Class(q * r) = Class(arg)
    /\ arg # 0 /\ modulus # 0 => \E i \in 0..(modulus - 1) : Class(i * r) = Class(1)

Result(q) ==
    CASE job.op = "enter"      -> q = Class(job.arg)
      [] job.op = "plus"       -> q = Class(residue + job.arg)
      [] job.op = "difference" -> q = Class(residue - job.arg)
      [] job.op = "times"      -> q = Class(residue * job.arg)
      [] job.op = "power"      -> q = PowerOf(residue, job.arg)
      [] job.op = "quotient"   -> IsQuotient(q, job.arg, residue)
      [] job.op = "invert"     -> IsQuotient(q, 1, residue)

-----------------------------------------------------------------------------
RingInit ==
    /\ modulus \in Moduli /\ residue = 0 /\ fresh = TRUE
    /\ job = NoJob /\ outcome = "done"

\* Another modulus: what the coefficient stands for changes with it.
SetModulus ==
    /\ job = NoJob
    /\ modulus' \in Moduli
    /\ IF modulus' = modulus
         THEN UNCHANGED <<residue, fresh>>
         ELSE /\ fresh' = FALSE
              /\ \E i \in -Span..Span : residue = Class(i) /\ residue' = Class(i)'
    /\ UNCHANGED <<job, outcome>>

\* An operation is asked for.
Ask ==
    /\ job = NoJob
    /\ job' \in [op : Operations, arg : -Span..Span]
    /\ outcome' = "done"
    /\ UNCHANGED <<modulus, residue, fresh>>

\* The operation gives its result.
Deliver ==
    /\ job # NoJob
    /\ job' = NoJob
    /\ outcome' = "done"
    /\ Result(residue')
    /\ fresh' = TRUE \/ (fresh' = fresh /\ residue' = residue)
    /\ UNCHANGED modulus

\* It has none, or the coefficient is not one of this modulus.  The ring of one
\* element, modulo 1, has a quotient but none is promised.
Fail ==
    /\ job.op \in {"quotient", "invert"}
    /\ fresh /\ modulus # 1 =>
          ~\E q \in -Span..Span :
              IsQuotient(q, IF job.op = "invert" THEN 1 ELSE job.arg, residue)
    /\ job' = NoJob
    /\ outcome' \in Failures
    /\ UNCHANGED <<modulus, residue, fresh>>

RingNext == SetModulus \/ Ask \/ Deliver \/ Fail

RingSpec == RingInit /\ [][RingNext]_ringVars
=============================================================================

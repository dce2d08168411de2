----------------------------- MODULE SharedWord -----------------------------
(***************************************************************************)
(* The word of shared memory through which signals reach a Maxima that     *)
(* runs on MS Windows: interfaces/xmaxima/win32.  The senders (winkill.c,  *)
(* tclwinkill.c) execute  *at |= value  on it and the reader               *)
(* (winkill_lib.c)  *at &= ~mask .  The word is an int that is not         *)
(* volatile and the statements take no lock, so each is a load and a store *)
(* that others may come between.                                           *)
(*                                                                         *)
(* The word is the set of the signals whose bits are set in it.  Three     *)
(* history variables say what it should hold: pending is what a kill under *)
(* Unix would keep for the process, due is what the reader still owes the  *)
(* senders, and raced tells whether a store has ever overwritten one that  *)
(* came after its load.                                                    *)
(***************************************************************************)
EXTENDS FiniteSets

CONSTANTS
    Signals,    \* the signals whose bits a sender can set
    Parties     \* the threads that read and write the word

VARIABLES
    bits,       \* the word: the signals whose bits are set
    reg,        \* what each party has loaded
    open,       \* the parties between the load and the store of a statement
    stale,      \* those of them that have loaded what has been overwritten since
    pending,    \* the signals that were stored and not yet taken
    due,        \* the signals that were stored and not yet acted upon
    raced       \* has a party stored what was stale

wordVars == <<bits, reg, open, stale, pending, due, raced>>

WordTypeOK ==
    /\ bits \subseteq Signals
    /\ reg \in [Parties -> SUBSET Signals]
    /\ open \subseteq Parties
    /\ stale \subseteq open
    /\ pending \subseteq Signals
    /\ due \subseteq Signals
    /\ raced \in BOOLEAN

\* A file mapping is zero when it is created.
WordInit ==
    /\ bits = {}
    /\ reg = [p \in Parties |-> {}]
    /\ open = {}
    /\ stale = {}
    /\ pending = {}
    /\ due = {}
    /\ raced = FALSE

-----------------------------------------------------------------------------
\* The load of  *at |= value  and of  *at &= ~mask .
LoadWord(p) ==
    /\ reg' = [reg EXCEPT ![p] = bits]
    /\ open' = open \cup {p}
    /\ UNCHANGED <<bits, stale, pending, due, raced>>

\* Their store: who is still between a load and a store is now stale.
StoreWord(p, word) ==
    /\ bits' = word
    /\ open' = open \ {p}
    /\ stale' = open \ {p}
    /\ raced' = (raced \/ p \in stale)
    /\ reg' = [reg EXCEPT ![p] = {}]

\* The store of  *at |= value .
StoreOr(p, value) ==
    /\ StoreWord(p, reg[p] \cup value)
    /\ pending' = pending \cup value
    /\ due' = due \cup value

\* Mutants of StoreReset: the whole word is cleared, as reset_shared_memory does;
\* the mask is stored and not masked with.
StoreResetWhole(p, sig) ==
    /\ StoreWord(p, {})
    /\ pending' = pending \ {sig}
    /\ UNCHANGED due

StoreResetMask(p, sig) ==
    /\ StoreWord(p, Signals \ {sig})
    /\ pending' = pending \ {sig}
    /\ UNCHANGED due

\* The store of  *at &= ~signal_mask(sig) .
StoreReset(p, sig) ==
    /\ StoreWord(p, reg[p] \ {sig})
    /\ pending' = pending \ {sig}
    /\ UNCHANGED due

\* The reader acts upon a signal.
Settle(sig) ==
    /\ due' = due \ {sig}
    /\ UNCHANGED <<bits, reg, open, stale, pending, raced>>

-----------------------------------------------------------------------------
\* Unless a store has overwritten one that it did not know, the word holds
\* exactly the signals that were sent and not taken: neither a lost signal, nor
\* one that is back after it was taken.  (winkill.c:258, winkill_lib.c:275, 287)
OnlyRacesLose == raced \/ bits = pending
=============================================================================

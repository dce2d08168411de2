----------------------------- MODULE TclWinkill -----------------------------
(***************************************************************************)
(* The Tcl extension tclwinkill.c, which xmaxima can load to signal a      *)
(* Maxima without running winkill, beside the parts of module Winkill: it  *)
(* is one more writer of the word.  It keeps the memories that it has      *)
(* opened on a list; here there is one process, so the list is empty or    *)
(* has one entry.  It knows the names of GCL only.                         *)
(*                                                                         *)
(* getSharedMemoryPtr ends without a return statement when it has put a    *)
(* new entry on the list.  What the caller gets is then what is left in a  *)
(* register: the entry, a null pointer, or an address elsewhere; the last  *)
(* is written to instead of the word.                                      *)
(***************************************************************************)
EXTENDS Winkill, Integers

CONSTANTS
    Tcl,            \* the extension, as a party
    MaxInterps,     \* bound on the interpreters that load it
    MaxCommands     \* bound on the commands

ASSUME ClientsAssumption == Clients = {Tcl}
ASSUME TclBoundsAssumption == MaxInterps \in Nat /\ MaxCommands \in Nat

VARIABLES
    refcount,       \* the interpreters that have loaded the extension
    listed,         \* is the memory on the list sharedMemoryPtr
    forgotten,      \* is a handle open that is on no list any more
    step,           \* where the command that is executed is
    value,          \* the signals that it is to set
    loads, commands \* how often the extension was loaded and called

tclVars == <<refcount, listed, forgotten, step, value, loads, commands>>
allVars == <<vars, tclVars>>

Steps == {"idle", "find", "map", "load", "store", "ended"}

TclTypeOK ==
    /\ TypeOK
    /\ refcount \in -1..MaxInterps
    /\ loads \in 0..MaxInterps /\ commands \in 0..MaxCommands
    /\ listed \in BOOLEAN /\ forgotten \in BOOLEAN
    /\ step \in Steps /\ value \subseteq Signals

TclInit ==
    /\ Init
    /\ refcount = 0 /\ loads = 0 /\ commands = 0
    /\ listed = FALSE /\ forgotten = FALSE
    /\ step = "idle" /\ value = {}

-----------------------------------------------------------------------------
\* Tclwinkill_Init
Load ==
    /\ step = "idle" /\ loads < MaxInterps
    /\ loads' = loads + 1
    /\ refcount' = refcount + 1
    /\ UNCHANGED <<vars, listed, forgotten, step, value, commands>>

\* close_shared_memory, when an interpreter goes: the last one closes what is on
\* the list.  The list is emptied in any case.
Unload ==
    /\ step = "idle" /\ refcount > 0
    /\ refcount' = refcount - 1
    /\ listed' = FALSE
    /\ IF refcount - 1 <= 0
         THEN /\ holders' = IF forgotten THEN holders ELSE holders \ {Tcl}
              /\ UNCHANGED forgotten
         ELSE /\ forgotten' = (forgotten \/ listed)
              /\ UNCHANGED holders
    /\ UNCHANGED <<wordVars, serverVars, senderVars, asked, step, value, loads, commands>>

\* xmaxima ends: close_shared_memory1, which atexit has registered, and the
\* system closes what is left.
Quit ==
    /\ step = "idle" /\ loads > 0
    /\ step' = "ended"
    /\ refcount' = -1
    /\ listed' = FALSE /\ forgotten' = FALSE
    /\ holders' = holders \ {Tcl}
    /\ UNCHANGED <<wordVars, serverVars, senderVars, asked, value, loads, commands>>

\* The search of sigNames.  The name of a signal is read from its second character
\* on: it is found only if something is written before it ("-INT", not "INT").
\* Several signals can be given, or none; a later name that the rest of the table
\* does not have stands for the signal before it, so signals are those found.
Known(signals, prefixed) == signals = {} \/ prefixed

\* Tcl_WinKillCmd, its arguments: a name that is not known ends in TCL_ERROR.
Command ==
    /\ step = "idle" /\ refcount > 0 /\ commands < MaxCommands
    /\ commands' = commands + 1
    /\ \E signals \in SUBSET Signals, prefixed \in BOOLEAN :
         IF Known(signals, prefixed)
           THEN step' = "find" /\ value' = signals /\ asked' = asked \cup signals
           ELSE UNCHANGED <<step, value, asked>>
    /\ UNCHANGED <<wordVars, serverVars, holders, senderVars, refcount, listed, forgotten,
                   loads>>

\* getSharedMemoryPtr: the list, then OpenFileMapping; TCL_ERROR if both fail.
Find ==
    /\ step = "find"
    /\ \/ listed /\ step' = "load" /\ UNCHANGED holders
       \/ ~listed /\ Found("gcl") /\ step' = "map" /\ holders' = holders \cup {Tcl}
       \/ ~listed /\ ~Found("gcl") /\ step' = "idle" /\ UNCHANGED holders
    /\ value' = IF step' = "idle" THEN {} ELSE value
    /\ UNCHANGED <<wordVars, serverVars, senderVars, asked, refcount, listed, forgotten,
                   loads, commands>>

\* Mutant of Map: the entry is not put on the list.
MapUnlisted ==
    /\ step = "map"
    /\ \/ step' = "idle" /\ forgotten' = TRUE
       \/ step' \in {"load", "idle"} /\ UNCHANGED forgotten
    /\ value' = IF step' = "idle" THEN {} ELSE value
    /\ UNCHANGED <<vars, refcount, listed, loads, commands>>

\* MapViewOfFile.  When it fails the handle stays open.  Otherwise the entry is
\* put on the list, and the caller gets it, or NULL, or writes elsewhere.
Map ==
    /\ step = "map"
    /\ \/ step' = "idle" /\ forgotten' = TRUE /\ UNCHANGED listed
       \/ step' \in {"load", "idle"} /\ listed' = TRUE /\ UNCHANGED forgotten
    /\ value' = IF step' = "idle" THEN {} ELSE value
    /\ UNCHANGED <<vars, refcount, loads, commands>>

\* *at |= value, with no signal as well.
TclLoad ==
    /\ step = "load"
    /\ step' = "store"
    /\ LoadWord(Tcl)
    /\ UNCHANGED <<serverVars, holders, senderVars, asked, refcount, listed, forgotten,
                   value, loads, commands>>

TclStore ==
    /\ step = "store"
    /\ step' = "idle"
    /\ value' = {}
    /\ StoreOr(Tcl, value)
    /\ UNCHANGED <<serverVars, holders, senderVars, asked, refcount, listed, forgotten,
                   loads, commands>>

Extension == Load \/ Unload \/ Quit \/ Command \/ Find \/ Map \/ TclLoad \/ TclStore

TclNext ==
    \/ Next /\ UNCHANGED tclVars
    \/ Extension

TclFairness == WF_allVars(Monitor /\ UNCHANGED tclVars) /\ WF_allVars(quitting /\ Exit /\ UNCHANGED tclVars)

TclSpec == TclInit /\ [][TclNext]_allVars /\ TclFairness

-----------------------------------------------------------------------------
\* The extension keeps the memory open exactly as long as the list or a handle
\* that has got lost says so: the entry that a command finds on the list is one
\* that is still open, even when Maxima has gone and another interpreter has been
\* unloaded.  (tclwinkill.c:190-205, 215-221, 253-257)
ListedIsOpen ==
    /\ step # "map" => (Tcl \in holders <=> listed \/ forgotten)
    /\ step \in {"load", "store"} => listed
=============================================================================

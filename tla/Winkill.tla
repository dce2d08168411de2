------------------------------- MODULE Winkill -------------------------------
(***************************************************************************)
(* Interrupts on MS Windows: the program winkill (winkill.c), which a user *)
(* interface runs to signal a Maxima, the library in that Maxima           *)
(* (winkill_lib.c) and its monitor thread (win_signals.lisp).              *)
(*                                                                         *)
(* The memory is a file mapping that is named after the process.  It lives *)
(* as long as a process holds it.  Maximas on SBCL and CCL create          *)
(* maxima-<pid>; GCL creates gcl-<pid> itself, and its reader, which is    *)
(* not in this repository, is taken to be the same loop ("the main idea is *)
(* copied from gcl/maxima", win_signals.lisp:4); other Lisps create none.  *)
(***************************************************************************)
EXTENDS SharedWord

CONSTANTS
    Senders,    \* the runs of winkill, each for one signal
    Clients,    \* the other programs that write the word (see TclWinkill)
    Server,     \* the monitor thread of Maxima
    SigInt,     \* SIGINT
    SigTerm,    \* SIGTERM
    BadName     \* a signal name that is not in sigNames

ASSUME PartiesAssumption == Parties = Senders \cup Clients \cup {Server}
ASSUME ServerAssumption == Server \notin Senders \cup Clients /\ Senders \cap Clients = {}
ASSUME SignalsAssumption == {SigInt, SigTerm} \subseteq Signals /\ SigInt # SigTerm
ASSUME BadNameAssumption == BadName \notin Signals

VARIABLES
    lisp,           \* the Lisp that Maxima runs on
    host,           \* how far Maxima is with its start, or that it is gone
    initialised,    \* is_shared_memory_initialised
    holders,        \* who has a handle or a view of the file mapping
    monitor,        \* where the monitor thread is
    checking,       \* the signal it is checking for
    raised,         \* the signals for which it has interrupted the main thread
    quitting,       \* the main thread is to run $quit
    at,             \* where each run of winkill is
    sig,            \* the signal that it sends
    asked           \* the signals that someone wanted to send

serverVars == <<lisp, host, initialised, monitor, checking, raised, quitting>>
senderVars == <<at, sig>>
vars == <<wordVars, serverVars, holders, senderVars, asked>>

Lisps == {"gcl", "ccl or sbcl", "other"}
Hosts == {"new", "created", "up", "gone"}
MonitorPlaces == {"off", "read", "load", "store", "raise"}
SenderPlaces == {"start", "open gcl", "open maxima", "map", "load", "store", "close",
                 "sent", "failed"}

\* sigNames, which winkill looks an argument up in, and a name that it lacks.
Names == Signals \cup {BadName}

TypeOK ==
    /\ WordTypeOK
    /\ lisp \in Lisps /\ host \in Hosts /\ initialised \in BOOLEAN
    /\ holders \subseteq Parties
    /\ monitor \in MonitorPlaces /\ checking \in {SigInt, SigTerm}
    /\ raised \subseteq Signals /\ quitting \in BOOLEAN
    /\ at \in [Senders -> SenderPlaces]
    /\ sig \in [Senders -> Names]
    /\ asked \subseteq Signals

Init ==
    /\ WordInit
    /\ lisp \in Lisps /\ host = "new" /\ initialised = FALSE
    /\ holders = {}
    /\ monitor = "off" /\ checking = SigInt
    /\ raised = {} /\ quitting = FALSE
    /\ at = [s \in Senders |-> "start"]
    /\ sig = [s \in Senders |-> BadName]
    /\ asked = {}

-----------------------------------------------------------------------------
(* Maxima: init_shared_memory and start-monitor *)

\* CreateFileMapping fails: MapViewOfFile fails with it, and the flag is FALSE
\* again.  The monitor is started all the same.  A Lisp that has no monitor
\* comes up without a memory.
StartWithout ==
    /\ host = "new"
    /\ host' = "up"
    /\ monitor' = IF lisp = "other" THEN "off" ELSE "read"
    /\ UNCHANGED <<wordVars, lisp, initialised, holders, checking, raised, quitting,
                   senderVars, asked>>

\* CreateFileMapping: from here on a sender finds the memory.
CreateSegment ==
    /\ host = "new" /\ lisp # "other"
    /\ host' = "created"
    /\ initialised' = TRUE
    /\ holders' = holders \cup {Server}
    /\ UNCHANGED <<wordVars, lisp, monitor, checking, raised, quitting, senderVars, asked>>

\* MapViewOfFile, and start-monitor.  When it fails the flag is FALSE again,
\* but the handle stays open.
MapSegment ==
    /\ host = "created"
    /\ host' = "up"
    /\ initialised' \in BOOLEAN
    /\ monitor' = "read"
    /\ UNCHANGED <<wordVars, lisp, holders, checking, raised, quitting, senderVars, asked>>

-----------------------------------------------------------------------------
(* The monitor thread: monitor-shared-memory *)

\* Mutant of Turn: the thread checks for SIGINT only.
TurnBack(s) == IF s = SigInt THEN SigInt ELSE SigInt

Turn(s) == IF s = SigInt THEN SigTerm ELSE SigInt

\* read_sm_sigint or read_sm_sigterm; after SIGTERM the thread sleeps.
CheckSignal ==
    /\ monitor = "read"
    /\ IF initialised /\ checking \in bits
         THEN monitor' = "load" /\ UNCHANGED checking
         ELSE checking' = Turn(checking) /\ UNCHANGED monitor
    /\ UNCHANGED <<wordVars, lisp, host, initialised, holders, raised, quitting,
                   senderVars, asked>>

\* reset_sm_sigint or reset_sm_sigterm.
ResetLoad ==
    /\ monitor = "load"
    /\ LoadWord(Server)
    /\ monitor' = "store"
    /\ UNCHANGED <<lisp, host, initialised, holders, checking, raised, quitting,
                   senderVars, asked>>

ResetStore ==
    /\ monitor = "store"
    /\ StoreReset(Server, checking)
    /\ monitor' = "raise"
    /\ UNCHANGED <<lisp, host, initialised, holders, checking, raised, quitting,
                   senderVars, asked>>

\* Mutant of Raise: the error is signalled for both signals.
RaiseError ==
    /\ monitor = "raise"
    /\ Settle(checking)
    /\ raised' = raised \cup {checking}
    /\ checking' = Turn(checking)
    /\ monitor' = "read"
    /\ UNCHANGED <<lisp, host, initialised, holders, quitting, senderVars, asked>>

\* process-interrupt: an error in the main thread for SIGINT, $quit for SIGTERM.
Raise ==
    /\ monitor = "raise"
    /\ Settle(checking)
    /\ raised' = raised \cup {checking}
    /\ quitting' = (quitting \/ checking = SigTerm)
    /\ checking' = Turn(checking)
    /\ monitor' = "read"
    /\ UNCHANGED <<lisp, host, initialised, holders, senderVars, asked>>

\* Mutant of Monitor: the thread interrupts first and resets the word then.
ResetLast ==
    \/ CheckSignal
    \/ /\ \/ /\ monitor = "load" /\ monitor' = "raise"
             /\ Settle(checking) /\ raised' = raised \cup {checking}
             /\ quitting' = (quitting \/ checking = SigTerm)
             /\ UNCHANGED checking
          \/ /\ monitor = "raise" /\ monitor' = "store"
             /\ LoadWord(Server)
             /\ UNCHANGED <<raised, quitting, checking>>
          \/ /\ monitor = "store" /\ monitor' = "read"
             /\ StoreReset(Server, checking) /\ checking' = Turn(checking)
             /\ UNCHANGED <<raised, quitting>>
       /\ UNCHANGED <<lisp, host, initialised, holders, senderVars, asked>>

Monitor == CheckSignal \/ ResetLoad \/ ResetStore \/ Raise

\* $quit, which the main thread may run of itself as well: the thread is killed,
\* close_shared_memory unmaps the view, and the process ends.
Exit ==
    /\ host = "up"
    /\ host' = "gone"
    /\ monitor' = "off"
    /\ holders' = holders \ {Server}
    /\ open' = open \ {Server}
    /\ stale' = stale \ {Server}
    /\ quitting' = FALSE
    /\ UNCHANGED <<bits, reg, pending, due, raced, lisp, initialised, checking, raised,
                   senderVars, asked>>

-----------------------------------------------------------------------------
(* winkill: main *)

\* OpenFileMapping finds a name as long as somebody holds the memory.
Found(kind) == lisp = kind /\ holders # {}

Go(s, from, to) == at[s] = from /\ at' = [at EXCEPT ![s] = to]

\* The arguments: a signal that is not in sigNames, or a process id that is not a
\* number, ends in the usage message and exit(1).
Parse(s) ==
    /\ \E arg \in Names, pidOk \in BOOLEAN :
         /\ sig' = [sig EXCEPT ![s] = arg]
         /\ IF arg # BadName /\ pidOk
              THEN Go(s, "start", "open gcl") /\ asked' = asked \cup {arg}
              ELSE Go(s, "start", "failed") /\ UNCHANGED asked
    /\ UNCHANGED <<wordVars, serverVars, holders>>

\* The name of a GCL is tried first; the process is tried as another Maxima next.
\* The main program ends when it finds neither.
OpenAs(s, from, kind, otherwise) ==
    /\ IF Found(kind)
         THEN Go(s, from, "map") /\ holders' = holders \cup {s}
         ELSE Go(s, from, otherwise) /\ UNCHANGED holders
    /\ UNCHANGED <<wordVars, serverVars, sig, asked>>

OpenGcl(s) == OpenAs(s, "open gcl", "gcl", "open maxima")

OpenMaxima(s) == OpenAs(s, "open maxima", "ccl or sbcl", "failed")

\* MapViewOfFile; when it fails the process ends, and its handle with it.
MapView(s) ==
    /\ \/ Go(s, "map", "load") /\ UNCHANGED holders
       \/ Go(s, "map", "failed") /\ holders' = holders \ {s}
    /\ UNCHANGED <<wordVars, serverVars, sig, asked>>

SetLoad(s) ==
    /\ Go(s, "load", "store")
    /\ LoadWord(s)
    /\ UNCHANGED <<serverVars, holders, sig, asked>>

SetStore(s) ==
    /\ Go(s, "store", "close")
    /\ StoreOr(s, {sig[s]})
    /\ UNCHANGED <<serverVars, holders, sig, asked>>

\* close_shared_memory and the end of the program.
Close(s) ==
    /\ Go(s, "close", "sent")
    /\ holders' = holders \ {s}
    /\ UNCHANGED <<wordVars, serverVars, sig, asked>>

Send(s) ==
    Parse(s) \/ OpenGcl(s) \/ OpenMaxima(s) \/ MapView(s) \/ SetLoad(s) \/ SetStore(s) \/ Close(s)

Next ==
    \/ StartWithout \/ CreateSegment \/ MapSegment
    \/ Monitor \/ Exit
    \/ \E s \in Senders : Send(s)

\* The Lisp schedules the monitor thread, and the interrupt of the main thread is
\* run; nobody has to send anything.
Fairness == WF_vars(Monitor) /\ WF_vars(quitting /\ Exit)

Spec == Init /\ [][Next]_vars /\ Fairness

-----------------------------------------------------------------------------
\* The main thread is interrupted only for a signal that somebody has sent: no
\* store, overlapped or not, makes up a bit.  (win_signals.lisp:66-77)
RaisedWasAsked == raised \cup bits \subseteq asked

\* Who reads or writes through its view has the memory mapped: the library
\* guards each access by a flag, and winkill ends when a call fails.
\* (winkill_lib.c:186-288, winkill.c:242-258)
MappedWhenUsed ==
    /\ monitor \in {"load", "store"} => initialised /\ Server \in holders
    /\ \A s \in Senders : at[s] \in {"load", "store"} => s \in holders

\* A signal that the monitor takes out of the word is the one that it interrupts
\* the main thread for: whatever was sent since the last interrupt for it
\* is still in the word, or its interrupt comes next, until Maxima ends or a race
\* has lost it.  A signal that comes between the check, the reset and the interrupt
\* is not taken together with the one before it.  (win_signals.lisp:66-77)
DueIsUnderway ==
    ~raced /\ host # "gone" =>
        due \subseteq bits \cup (IF monitor = "raise" THEN {checking} ELSE {})

Handled == {SigInt, SigTerm}

\* A signal that is in the memory of a Maxima that reads it is taken, unless a
\* race has lost it or Maxima ends first.  (win_signals.lisp:66-77)
Taken ==
    \A s \in Handled : s \in bits ~> (s \notin bits \/ raced \/ host # "up" \/ ~initialised)

\* SIGTERM in the memory of a Maxima that reads it ends Maxima, unless a race has
\* lost it.  (win_signals.lisp:42-51, 73-75)
TermEnds == SigTerm \in bits /\ host = "up" ~> (host = "gone" \/ raced \/ ~initialised)
=============================================================================

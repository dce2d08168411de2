---------------------------- MODULE WinkillProofs ----------------------------
(***************************************************************************)
(* Proofs about the signals that reach a Maxima on MS Windows, for every   *)
(* number of runs of winkill, every set of signals and every use of the    *)
(* Tcl extension.                                                          *)
(*                                                                         *)
(* The invariant has five parts, one for each of the lemmas: the types,    *)
(* what the parties have loaded, who has asked for what, who holds the     *)
(* memory, and what the monitor still owes.                                *)
(***************************************************************************)
EXTENDS TclWinkill, TLAPS

\* Who is about to store has loaded, and what it has loaded is the word unless it
\* is marked as stale.
WordInv ==
    /\ OnlyRacesLose
    /\ \A p \in open \ stale : reg[p] = bits
    /\ monitor = "store" => Server \in open
    /\ \A s \in Senders : at[s] = "store" => s \in open
    /\ step = "store" => Tcl \in open

\* Whatever is in the word, in a register or underway was asked for.
AskedInv ==
    /\ RaisedWasAsked
    /\ \A p \in Parties : reg[p] \subseteq asked
    /\ monitor \in {"load", "store", "raise"} => checking \in asked
    /\ \A s \in Senders : at[s] \notin {"start", "failed"} => sig[s] \in asked
    /\ value \subseteq asked

\* Who uses the memory holds it.
HolderInv ==
    /\ MappedWhenUsed
    /\ ListedIsOpen
    /\ monitor # "off" => host = "up"
    /\ host = "new" => ~initialised
    /\ host = "created" => initialised
    /\ host \in {"created", "up"} /\ initialised => Server \in holders
    /\ \A s \in Senders : at[s] \in {"map", "load", "store", "close"} => s \in holders
    /\ step = "map" => Tcl \in holders /\ ~listed

HeldInv == HolderInv /\ refcount <= loads

\* What is due has not been taken yet, or the interrupt comes next.
DueInv ==
    host # "gone" =>
        due \subseteq pending \cup (IF monitor = "raise" THEN {checking} ELSE {})

WinkillInv == TclTypeOK /\ WordInv /\ AskedInv /\ HeldInv /\ DueInv

-----------------------------------------------------------------------------
\* Nothing is unloaded that was not loaded.
LEMMA CountStep ==
    ASSUME refcount \in -1..MaxInterps, loads \in 0..MaxInterps, refcount <= loads,
           MaxInterps \in Nat, Load \/ Unload \/ Quit
    PROVE  refcount' <= loads'
<1>1. CASE Load
    BY <1>1 DEF Load
<1>2. CASE Unload
    BY <1>2 DEF Unload
<1>3. CASE Quit
    BY <1>3 DEF Quit
<1>4. QED
    BY <1>1, <1>2, <1>3

\* The type invariant is kept by every step.
LEMMA TypeStep == WinkillInv /\ [TclNext]_allVars => TclTypeOK'
<1> SUFFICES ASSUME WinkillInv, [TclNext]_allVars PROVE TclTypeOK'
    OBVIOUS
<1> USE PartiesAssumption, ServerAssumption, SignalsAssumption, BadNameAssumption,
         ClientsAssumption, TclBoundsAssumption
    DEF WinkillInv,
            Hosts, MonitorPlaces, SenderPlaces, Steps, Lisps
<1>1. CASE StartWithout /\ UNCHANGED tclVars
  <2>1. WordTypeOK'
    BY <1>1 DEF StartWithout, WordTypeOK, TypeOK, TclTypeOK,
        allVars, vars, tclVars, wordVars, serverVars, senderVars
  <2>2. TypeOK'
    BY <1>1, <2>1 DEF StartWithout, TypeOK, TclTypeOK,
        allVars, vars, tclVars, wordVars, serverVars, senderVars
  <2>3. QED
    BY <1>1, <2>2 DEF StartWithout, TclTypeOK, HeldInv,
        allVars, vars, tclVars, wordVars, serverVars, senderVars
<1>2. CASE CreateSegment /\ UNCHANGED tclVars
  <2>1. WordTypeOK'
    BY <1>2 DEF CreateSegment, WordTypeOK, TypeOK, TclTypeOK,
        allVars, vars, tclVars, wordVars, serverVars, senderVars
  <2>2. TypeOK'
    BY <1>2, <2>1 DEF CreateSegment, TypeOK, TclTypeOK,
        allVars, vars, tclVars, wordVars, serverVars, senderVars
  <2>3. QED
    BY <1>2, <2>2 DEF CreateSegment, TclTypeOK, HeldInv,
        allVars, vars, tclVars, wordVars, serverVars, senderVars
<1>3. CASE MapSegment /\ UNCHANGED tclVars
  <2>1. WordTypeOK'
    BY <1>3 DEF MapSegment, WordTypeOK, TypeOK, TclTypeOK,
        allVars, vars, tclVars, wordVars, serverVars, senderVars
  <2>2. TypeOK'
    BY <1>3, <2>1 DEF MapSegment, TypeOK, TclTypeOK,
        allVars, vars, tclVars, wordVars, serverVars, senderVars
  <2>3. QED
    BY <1>3, <2>2 DEF MapSegment, TclTypeOK, HeldInv,
        allVars, vars, tclVars, wordVars, serverVars, senderVars
<1>4. CASE CheckSignal /\ UNCHANGED tclVars
  <2>1. WordTypeOK'
    BY <1>4 DEF CheckSignal, Turn, WordTypeOK, TypeOK, TclTypeOK,
        allVars, vars, tclVars, wordVars, serverVars, senderVars
  <2>2. TypeOK'
    BY <1>4, <2>1 DEF CheckSignal, Turn, TypeOK, TclTypeOK,
        allVars, vars, tclVars, wordVars, serverVars, senderVars
  <2>3. QED
    BY <1>4, <2>2 DEF CheckSignal, Turn, TclTypeOK, HeldInv,
        allVars, vars, tclVars, wordVars, serverVars, senderVars
<1>5. CASE ResetLoad /\ UNCHANGED tclVars
  <2>1. WordTypeOK'
    BY <1>5 DEF ResetLoad, LoadWord, WordTypeOK, TypeOK, TclTypeOK,
        allVars, vars, tclVars, wordVars, serverVars, senderVars
  <2>2. TypeOK'
    BY <1>5, <2>1 DEF ResetLoad, LoadWord, TypeOK, TclTypeOK,
        allVars, vars, tclVars, wordVars, serverVars, senderVars
  <2>3. QED
    BY <1>5, <2>2 DEF ResetLoad, LoadWord, TclTypeOK, HeldInv,
        allVars, vars, tclVars, wordVars, serverVars, senderVars
<1>6. CASE ResetStore /\ UNCHANGED tclVars
  <2>1. WordTypeOK'
    BY <1>6 DEF ResetStore, StoreReset, StoreWord, WordTypeOK, TypeOK, TclTypeOK,
        allVars, vars, tclVars, wordVars, serverVars, senderVars
  <2>2. TypeOK'
    BY <1>6, <2>1 DEF ResetStore, StoreReset, StoreWord, TypeOK, TclTypeOK,
        allVars, vars, tclVars, wordVars, serverVars, senderVars
  <2>3. QED
    BY <1>6, <2>2 DEF ResetStore, StoreReset, StoreWord, TclTypeOK, HeldInv,
        allVars, vars, tclVars, wordVars, serverVars, senderVars
<1>7. CASE Raise /\ UNCHANGED tclVars
  <2>1. WordTypeOK'
    BY <1>7 DEF Raise, Settle, Turn, WordTypeOK, TypeOK, TclTypeOK,
        allVars, vars, tclVars, wordVars, serverVars, senderVars
  <2>2. TypeOK'
    BY <1>7, <2>1 DEF Raise, Settle, Turn, TypeOK, TclTypeOK,
        allVars, vars, tclVars, wordVars, serverVars, senderVars
  <2>3. QED
    BY <1>7, <2>2 DEF Raise, Settle, Turn, TclTypeOK, HeldInv,
        allVars, vars, tclVars, wordVars, serverVars, senderVars
<1>8. CASE Exit /\ UNCHANGED tclVars
  <2>1. WordTypeOK'
    BY <1>8 DEF Exit, WordTypeOK, TypeOK, TclTypeOK,
        allVars, vars, tclVars, wordVars, serverVars, senderVars
  <2>2. TypeOK'
    BY <1>8, <2>1 DEF Exit, TypeOK, TclTypeOK,
        allVars, vars, tclVars, wordVars, serverVars, senderVars
  <2>3. QED
    BY <1>8, <2>2 DEF Exit, TclTypeOK, HeldInv,
        allVars, vars, tclVars, wordVars, serverVars, senderVars
<1>9. ASSUME NEW s \in Senders, Parse(s), UNCHANGED tclVars PROVE TclTypeOK'
  <2>1. WordTypeOK'
    BY <1>9 DEF Parse, WordTypeOK, TypeOK, TclTypeOK, wordVars
  <2>2. PICK arg \in Names, pidOk \in BOOLEAN :
          /\ sig' = [sig EXCEPT ![s] = arg]
          /\ IF arg # BadName /\ pidOk
               THEN Go(s, "start", "open gcl") /\ asked' = asked \cup {arg}
               ELSE Go(s, "start", "failed") /\ UNCHANGED asked
    BY <1>9 DEF Parse
  <2>3. sig' \in [Senders -> Names]
    BY <2>2 DEF TclTypeOK, TypeOK
  <2>4. at' \in [Senders -> SenderPlaces]
    BY <2>2 DEF TclTypeOK, TypeOK, Go
  <2>5. asked' \subseteq Signals
    BY <2>2 DEF TclTypeOK, TypeOK, Names
  <2>6. TypeOK'
    BY <1>9, <2>1, <2>3, <2>4, <2>5 DEF Parse, TclTypeOK, TypeOK, serverVars
  <2>7. QED
    BY <1>9, <2>6 DEF TclTypeOK, tclVars
<1>10. ASSUME NEW s \in Senders, OpenGcl(s), UNCHANGED tclVars PROVE TclTypeOK'
  <2>1. WordTypeOK'
    BY <1>10 DEF OpenGcl, OpenAs, Go, WordTypeOK, TypeOK, TclTypeOK,
        allVars, vars, tclVars, wordVars, serverVars, senderVars
  <2>2. TypeOK'
    BY <1>10, <2>1 DEF OpenGcl, OpenAs, Go, TypeOK, TclTypeOK,
        allVars, vars, tclVars, wordVars, serverVars, senderVars
  <2>3. QED
    BY <1>10, <2>2 DEF OpenGcl, OpenAs, Go, TclTypeOK, HeldInv,
        allVars, vars, tclVars, wordVars, serverVars, senderVars
<1>11. ASSUME NEW s \in Senders, OpenMaxima(s), UNCHANGED tclVars PROVE TclTypeOK'
  <2>1. WordTypeOK'
    BY <1>11 DEF OpenMaxima, OpenAs, Go, WordTypeOK, TypeOK, TclTypeOK,
        allVars, vars, tclVars, wordVars, serverVars, senderVars
  <2>2. TypeOK'
    BY <1>11, <2>1 DEF OpenMaxima, OpenAs, Go, TypeOK, TclTypeOK,
        allVars, vars, tclVars, wordVars, serverVars, senderVars
  <2>3. QED
    BY <1>11, <2>2 DEF OpenMaxima, OpenAs, Go, TclTypeOK, HeldInv,
        allVars, vars, tclVars, wordVars, serverVars, senderVars
<1>12. ASSUME NEW s \in Senders, MapView(s), UNCHANGED tclVars PROVE TclTypeOK'
  <2>1. WordTypeOK'
    BY <1>12 DEF MapView, Go, WordTypeOK, TypeOK, TclTypeOK,
        allVars, vars, tclVars, wordVars, serverVars, senderVars
  <2>2. TypeOK'
    BY <1>12, <2>1 DEF MapView, Go, TypeOK, TclTypeOK,
        allVars, vars, tclVars, wordVars, serverVars, senderVars
  <2>3. QED
    BY <1>12, <2>2 DEF MapView, Go, TclTypeOK, HeldInv,
        allVars, vars, tclVars, wordVars, serverVars, senderVars
<1>13. ASSUME NEW s \in Senders, SetLoad(s), UNCHANGED tclVars PROVE TclTypeOK'
  <2>1. WordTypeOK'
    BY <1>13 DEF SetLoad, Go, LoadWord, WordTypeOK, TypeOK, TclTypeOK,
        allVars, vars, tclVars, wordVars, serverVars, senderVars
  <2>2. TypeOK'
    BY <1>13, <2>1 DEF SetLoad, Go, LoadWord, TypeOK, TclTypeOK,
        allVars, vars, tclVars, wordVars, serverVars, senderVars
  <2>3. QED
    BY <1>13, <2>2 DEF SetLoad, Go, LoadWord, TclTypeOK, HeldInv,
        allVars, vars, tclVars, wordVars, serverVars, senderVars
<1>14. ASSUME NEW s \in Senders, SetStore(s), UNCHANGED tclVars PROVE TclTypeOK'
  <2>1. sig[s] \in Signals
    BY <1>14 DEF SetStore, Go, AskedInv, TclTypeOK, TypeOK
  <2>2. WordTypeOK'
    BY <1>14, <2>1 DEF SetStore, StoreOr, StoreWord, WordTypeOK, TypeOK, TclTypeOK
  <2>3. at' \in [Senders -> SenderPlaces]
    BY <1>14 DEF SetStore, Go, TclTypeOK, TypeOK
  <2>4. TypeOK'
    BY <1>14, <2>2, <2>3 DEF SetStore, TypeOK, TclTypeOK, serverVars
  <2>5. QED
    BY <1>14, <2>4 DEF TclTypeOK, tclVars
<1>15. ASSUME NEW s \in Senders, Close(s), UNCHANGED tclVars PROVE TclTypeOK'
  <2>1. WordTypeOK'
    BY <1>15 DEF Close, Go, WordTypeOK, TypeOK, TclTypeOK,
        allVars, vars, tclVars, wordVars, serverVars, senderVars
  <2>2. TypeOK'
    BY <1>15, <2>1 DEF Close, Go, TypeOK, TclTypeOK,
        allVars, vars, tclVars, wordVars, serverVars, senderVars
  <2>3. QED
    BY <1>15, <2>2 DEF Close, Go, TclTypeOK, HeldInv,
        allVars, vars, tclVars, wordVars, serverVars, senderVars
<1>16. CASE Load
  <2>1. WordTypeOK'
    BY <1>16 DEF Load, WordTypeOK, TypeOK, TclTypeOK,
        allVars, vars, tclVars, wordVars, serverVars, senderVars
  <2>2. TypeOK'
    BY <1>16, <2>1 DEF Load, TypeOK, TclTypeOK,
        allVars, vars, tclVars, wordVars, serverVars, senderVars
  <2>3. QED
    BY <1>16, <2>2 DEF Load, TclTypeOK, HeldInv,
        allVars, vars, tclVars, wordVars, serverVars, senderVars
<1>17. CASE Unload
  <2>1. WordTypeOK'
    BY <1>17 DEF Unload, WordTypeOK, TypeOK, TclTypeOK, wordVars
  <2>2. holders' \subseteq Parties
    BY <1>17 DEF Unload, TypeOK, TclTypeOK
  <2>3. TypeOK'
    BY <1>17, <2>1, <2>2 DEF Unload, TypeOK, TclTypeOK, serverVars, senderVars
  <2>4. refcount' \in -1..MaxInterps
    BY <1>17 DEF Unload, TclTypeOK
  <2>5. listed' \in BOOLEAN /\ forgotten' \in BOOLEAN
    BY <1>17 DEF Unload, TclTypeOK
  <2>6. QED
    BY <1>17, <2>3, <2>4, <2>5 DEF Unload, TclTypeOK
<1>18. CASE Quit
  <2>1. WordTypeOK'
    BY <1>18 DEF Quit, WordTypeOK, TypeOK, TclTypeOK, wordVars
  <2>2. TypeOK'
    BY <1>18, <2>1 DEF Quit, TypeOK, TclTypeOK, serverVars, senderVars
  <2>3. refcount' \in -1..MaxInterps
    BY <1>18 DEF Quit, TclTypeOK
  <2>4. QED
    BY <1>18, <2>2, <2>3 DEF Quit, TclTypeOK
<1>19. CASE Command
  <2>1. WordTypeOK'
    BY <1>19 DEF Command, WordTypeOK, TypeOK, TclTypeOK,
        allVars, vars, tclVars, wordVars, serverVars, senderVars
  <2>2. TypeOK'
    BY <1>19, <2>1 DEF Command, TypeOK, TclTypeOK,
        allVars, vars, tclVars, wordVars, serverVars, senderVars
  <2>3. QED
    BY <1>19, <2>2 DEF Command, TclTypeOK, HeldInv,
        allVars, vars, tclVars, wordVars, serverVars, senderVars
<1>20. CASE Find
  <2>1. WordTypeOK'
    BY <1>20 DEF Find, WordTypeOK, TypeOK, TclTypeOK,
        allVars, vars, tclVars, wordVars, serverVars, senderVars
  <2>2. TypeOK'
    BY <1>20, <2>1 DEF Find, TypeOK, TclTypeOK,
        allVars, vars, tclVars, wordVars, serverVars, senderVars
  <2>3. QED
    BY <1>20, <2>2 DEF Find, TclTypeOK, HeldInv,
        allVars, vars, tclVars, wordVars, serverVars, senderVars
<1>21. CASE Map
  <2>1. WordTypeOK'
    BY <1>21 DEF Map, WordTypeOK, TypeOK, TclTypeOK,
        allVars, vars, tclVars, wordVars, serverVars, senderVars
  <2>2. TypeOK'
    BY <1>21, <2>1 DEF Map, TypeOK, TclTypeOK,
        allVars, vars, tclVars, wordVars, serverVars, senderVars
  <2>3. QED
    BY <1>21, <2>2 DEF Map, TclTypeOK, HeldInv,
        allVars, vars, tclVars, wordVars, serverVars, senderVars
<1>22. CASE TclLoad
  <2>1. WordTypeOK'
    BY <1>22 DEF TclLoad, LoadWord, WordTypeOK, TypeOK, TclTypeOK,
        allVars, vars, tclVars, wordVars, serverVars, senderVars
  <2>2. TypeOK'
    BY <1>22, <2>1 DEF TclLoad, LoadWord, TypeOK, TclTypeOK,
        allVars, vars, tclVars, wordVars, serverVars, senderVars
  <2>3. QED
    BY <1>22, <2>2 DEF TclLoad, LoadWord, TclTypeOK, HeldInv,
        allVars, vars, tclVars, wordVars, serverVars, senderVars
<1>23. CASE TclStore
  <2>1. WordTypeOK'
    BY <1>23 DEF TclStore, StoreOr, StoreWord, WordTypeOK, TypeOK, TclTypeOK,
        allVars, vars, tclVars, wordVars, serverVars, senderVars
  <2>2. TypeOK'
    BY <1>23, <2>1 DEF TclStore, StoreOr, StoreWord, TypeOK, TclTypeOK,
        allVars, vars, tclVars, wordVars, serverVars, senderVars
  <2>3. QED
    BY <1>23, <2>2 DEF TclStore, StoreOr, StoreWord, TclTypeOK, HeldInv,
        allVars, vars, tclVars, wordVars, serverVars, senderVars
<1>24. CASE UNCHANGED allVars
  <2>1. WordTypeOK'
    BY <1>24 DEF WordTypeOK, TypeOK, TclTypeOK,
        allVars, vars, tclVars, wordVars, serverVars, senderVars
  <2>2. TypeOK'
    BY <1>24, <2>1 DEF TypeOK, TclTypeOK,
        allVars, vars, tclVars, wordVars, serverVars, senderVars
  <2>3. QED
    BY <1>24, <2>2 DEF TclTypeOK,
        allVars, vars, tclVars, wordVars, serverVars, senderVars
<1>25. QED
    BY <1>1, <1>2, <1>3, <1>4, <1>5, <1>6, <1>7, <1>8, <1>9, <1>10, <1>11, <1>12, <1>13, <1>14, <1>15, <1>16, <1>17, <1>18, <1>19, <1>20, <1>21, <1>22, <1>23, <1>24
    DEF TclNext, Next, Monitor, Send, Extension

\* A step that stores what it has loaded, and that nobody has overtaken, keeps
\* the word equal to the signals that are pending.
LEMMA WordStep == WinkillInv /\ [TclNext]_allVars => WordInv'
<1> SUFFICES ASSUME WinkillInv, [TclNext]_allVars PROVE WordInv'
    OBVIOUS
<1> USE PartiesAssumption, ServerAssumption, SignalsAssumption, BadNameAssumption,
         ClientsAssumption, TclBoundsAssumption
    DEF WinkillInv,
            TclTypeOK, TypeOK, WordTypeOK, Hosts, MonitorPlaces, SenderPlaces, Steps, Lisps,
            WordInv, OnlyRacesLose
<1>1. CASE StartWithout /\ UNCHANGED tclVars
    BY <1>1 DEF StartWithout,
        allVars, vars, tclVars, wordVars, serverVars, senderVars
<1>2. CASE CreateSegment /\ UNCHANGED tclVars
    BY <1>2 DEF CreateSegment,
        allVars, vars, tclVars, wordVars, serverVars, senderVars
<1>3. CASE MapSegment /\ UNCHANGED tclVars
    BY <1>3 DEF MapSegment,
        allVars, vars, tclVars, wordVars, serverVars, senderVars
<1>4. CASE CheckSignal /\ UNCHANGED tclVars
    BY <1>4 DEF CheckSignal, Turn,
        allVars, vars, tclVars, wordVars, serverVars, senderVars
<1>5. CASE ResetLoad /\ UNCHANGED tclVars
    BY <1>5 DEF ResetLoad, LoadWord,
        allVars, vars, tclVars, wordVars, serverVars, senderVars
<1>6. CASE ResetStore /\ UNCHANGED tclVars
    BY <1>6 DEF ResetStore, StoreReset, StoreWord,
        allVars, vars, tclVars, wordVars, serverVars, senderVars
<1>7. CASE Raise /\ UNCHANGED tclVars
    BY <1>7 DEF Raise, Settle, Turn,
        allVars, vars, tclVars, wordVars, serverVars, senderVars
<1>8. CASE Exit /\ UNCHANGED tclVars
    BY <1>8 DEF Exit,
        allVars, vars, tclVars, wordVars, serverVars, senderVars
<1>9. ASSUME NEW s \in Senders, Parse(s), UNCHANGED tclVars PROVE WordInv'
  <2>1. PICK arg \in Names, pidOk \in BOOLEAN :
          IF arg # BadName /\ pidOk
            THEN Go(s, "start", "open gcl")
            ELSE Go(s, "start", "failed")
    BY <1>9 DEF Parse
  <2>2. \A t \in Senders : at'[t] \in {"store"} => at[t] = at'[t]
    BY <2>1 DEF Go
  <2>3. QED
    BY <1>9, <2>2 DEF Parse, wordVars, serverVars, tclVars
<1>10. ASSUME NEW s \in Senders, OpenGcl(s), UNCHANGED tclVars PROVE WordInv'
    BY <1>10 DEF OpenGcl, OpenAs, Go,
        allVars, vars, tclVars, wordVars, serverVars, senderVars
<1>11. ASSUME NEW s \in Senders, OpenMaxima(s), UNCHANGED tclVars PROVE WordInv'
    BY <1>11 DEF OpenMaxima, OpenAs, Go,
        allVars, vars, tclVars, wordVars, serverVars, senderVars
<1>12. ASSUME NEW s \in Senders, MapView(s), UNCHANGED tclVars PROVE WordInv'
    BY <1>12 DEF MapView, Go,
        allVars, vars, tclVars, wordVars, serverVars, senderVars
<1>13. ASSUME NEW s \in Senders, SetLoad(s), UNCHANGED tclVars PROVE WordInv'
    BY <1>13 DEF SetLoad, Go, LoadWord,
        allVars, vars, tclVars, wordVars, serverVars, senderVars
<1>14. ASSUME NEW s \in Senders, SetStore(s), UNCHANGED tclVars PROVE WordInv'
    BY <1>14 DEF SetStore, Go, StoreOr, StoreWord,
        allVars, vars, tclVars, wordVars, serverVars, senderVars
<1>15. ASSUME NEW s \in Senders, Close(s), UNCHANGED tclVars PROVE WordInv'
    BY <1>15 DEF Close, Go,
        allVars, vars, tclVars, wordVars, serverVars, senderVars
<1>16. CASE Load
    BY <1>16 DEF Load,
        allVars, vars, tclVars, wordVars, serverVars, senderVars
<1>17. CASE Unload
    BY <1>17 DEF Unload,
        allVars, vars, tclVars, wordVars, serverVars, senderVars
<1>18. CASE Quit
    BY <1>18 DEF Quit,
        allVars, vars, tclVars, wordVars, serverVars, senderVars
<1>19. CASE Command
    BY <1>19 DEF Command,
        allVars, vars, tclVars, wordVars, serverVars, senderVars
<1>20. CASE Find
    BY <1>20 DEF Find,
        allVars, vars, tclVars, wordVars, serverVars, senderVars
<1>21. CASE Map
    BY <1>21 DEF Map,
        allVars, vars, tclVars, wordVars, serverVars, senderVars
<1>22. CASE TclLoad
    BY <1>22 DEF TclLoad, LoadWord,
        allVars, vars, tclVars, wordVars, serverVars, senderVars
<1>23. CASE TclStore
    BY <1>23 DEF TclStore, StoreOr, StoreWord,
        allVars, vars, tclVars, wordVars, serverVars, senderVars
<1>24. CASE UNCHANGED allVars
    BY <1>24 DEF allVars, vars, tclVars, wordVars, serverVars, senderVars
<1>25. QED
    BY <1>1, <1>2, <1>3, <1>4, <1>5, <1>6, <1>7, <1>8, <1>9, <1>10, <1>11, <1>12, <1>13, <1>14, <1>15, <1>16, <1>17, <1>18, <1>19, <1>20, <1>21, <1>22, <1>23, <1>24
    DEF TclNext, Next, Monitor, Send, Extension

\* No step makes up a signal.
LEMMA AskedStep == WinkillInv /\ [TclNext]_allVars => AskedInv'
<1> SUFFICES ASSUME WinkillInv, [TclNext]_allVars PROVE AskedInv'
    OBVIOUS
<1> USE PartiesAssumption, ServerAssumption, SignalsAssumption, BadNameAssumption,
         ClientsAssumption, TclBoundsAssumption
    DEF WinkillInv,
            TclTypeOK, TypeOK, WordTypeOK, Hosts, MonitorPlaces, SenderPlaces, Steps, Lisps,
            AskedInv, RaisedWasAsked
<1>1. CASE StartWithout /\ UNCHANGED tclVars
    BY <1>1 DEF StartWithout,
        allVars, vars, tclVars, wordVars, serverVars, senderVars
<1>2. CASE CreateSegment /\ UNCHANGED tclVars
    BY <1>2 DEF CreateSegment,
        allVars, vars, tclVars, wordVars, serverVars, senderVars
<1>3. CASE MapSegment /\ UNCHANGED tclVars
    BY <1>3 DEF MapSegment,
        allVars, vars, tclVars, wordVars, serverVars, senderVars
<1>4. CASE CheckSignal /\ UNCHANGED tclVars
    BY <1>4 DEF CheckSignal, Turn,
        allVars, vars, tclVars, wordVars, serverVars, senderVars
<1>5. CASE ResetLoad /\ UNCHANGED tclVars
    BY <1>5 DEF ResetLoad, LoadWord,
        allVars, vars, tclVars, wordVars, serverVars, senderVars
<1>6. CASE ResetStore /\ UNCHANGED tclVars
    BY <1>6 DEF ResetStore, StoreReset, StoreWord,
        allVars, vars, tclVars, wordVars, serverVars, senderVars
<1>7. CASE Raise /\ UNCHANGED tclVars
    BY <1>7 DEF Raise, Settle, Turn,
        allVars, vars, tclVars, wordVars, serverVars, senderVars
<1>8. CASE Exit /\ UNCHANGED tclVars
    BY <1>8 DEF Exit,
        allVars, vars, tclVars, wordVars, serverVars, senderVars
<1>9. ASSUME NEW s \in Senders, Parse(s), UNCHANGED tclVars PROVE AskedInv'
  <2>1. PICK arg \in Names, pidOk \in BOOLEAN :
          /\ sig' = [sig EXCEPT ![s] = arg]
          /\ IF arg # BadName /\ pidOk
               THEN Go(s, "start", "open gcl") /\ asked' = asked \cup {arg}
               ELSE Go(s, "start", "failed") /\ UNCHANGED asked
    BY <1>9 DEF Parse
  <2>2. asked \subseteq asked'
    BY <2>1
  <2>3. \A t \in Senders : at'[t] \notin {"start", "failed"} => sig'[t] \in asked'
    BY <2>1, <2>2 DEF Go
  <2>4. QED
    BY <1>9, <2>2, <2>3 DEF Parse, wordVars, serverVars, tclVars
<1>10. ASSUME NEW s \in Senders, OpenGcl(s), UNCHANGED tclVars PROVE AskedInv'
    BY <1>10 DEF OpenGcl, OpenAs, Go,
        allVars, vars, tclVars, wordVars, serverVars, senderVars
<1>11. ASSUME NEW s \in Senders, OpenMaxima(s), UNCHANGED tclVars PROVE AskedInv'
    BY <1>11 DEF OpenMaxima, OpenAs, Go,
        allVars, vars, tclVars, wordVars, serverVars, senderVars
<1>12. ASSUME NEW s \in Senders, MapView(s), UNCHANGED tclVars PROVE AskedInv'
    BY <1>12 DEF MapView, Go,
        allVars, vars, tclVars, wordVars, serverVars, senderVars
<1>13. ASSUME NEW s \in Senders, SetLoad(s), UNCHANGED tclVars PROVE AskedInv'
    BY <1>13 DEF SetLoad, Go, LoadWord,
        allVars, vars, tclVars, wordVars, serverVars, senderVars
<1>14. ASSUME NEW s \in Senders, SetStore(s), UNCHANGED tclVars PROVE AskedInv'
    BY <1>14 DEF SetStore, Go, StoreOr, StoreWord,
        allVars, vars, tclVars, wordVars, serverVars, senderVars
<1>15. ASSUME NEW s \in Senders, Close(s), UNCHANGED tclVars PROVE AskedInv'
    BY <1>15 DEF Close, Go,
        allVars, vars, tclVars, wordVars, serverVars, senderVars
<1>16. CASE Load
    BY <1>16 DEF Load,
        allVars, vars, tclVars, wordVars, serverVars, senderVars
<1>17. CASE Unload
    BY <1>17 DEF Unload,
        allVars, vars, tclVars, wordVars, serverVars, senderVars
<1>18. CASE Quit
    BY <1>18 DEF Quit,
        allVars, vars, tclVars, wordVars, serverVars, senderVars
<1>19. CASE Command
  <2>1. PICK signals \in SUBSET Signals, prefixed \in BOOLEAN :
          IF Known(signals, prefixed)
            THEN step' = "find" /\ value' = signals /\ asked' = asked \cup signals
            ELSE UNCHANGED <<step, value, asked>>
    BY <1>19 DEF Command
  <2>2. asked \subseteq asked' /\ value' \subseteq asked'
    BY <2>1
  <2>3. QED
    BY <1>19, <2>2 DEF Command, wordVars, serverVars, senderVars
<1>20. CASE Find
    BY <1>20 DEF Find,
        allVars, vars, tclVars, wordVars, serverVars, senderVars
<1>21. CASE Map
    BY <1>21 DEF Map,
        allVars, vars, tclVars, wordVars, serverVars, senderVars
<1>22. CASE TclLoad
    BY <1>22 DEF TclLoad, LoadWord,
        allVars, vars, tclVars, wordVars, serverVars, senderVars
<1>23. CASE TclStore
    BY <1>23 DEF TclStore, StoreOr, StoreWord,
        allVars, vars, tclVars, wordVars, serverVars, senderVars
<1>24. CASE UNCHANGED allVars
    BY <1>24 DEF allVars, vars, tclVars, wordVars, serverVars, senderVars
<1>25. QED
    BY <1>1, <1>2, <1>3, <1>4, <1>5, <1>6, <1>7, <1>8, <1>9, <1>10, <1>11, <1>12, <1>13, <1>14, <1>15, <1>16, <1>17, <1>18, <1>19, <1>20, <1>21, <1>22, <1>23, <1>24
    DEF TclNext, Next, Monitor, Send, Extension

\* Every step that gives up the memory has left the places where it is used.
LEMMA HeldStep == WinkillInv /\ [TclNext]_allVars => HeldInv'
<1> SUFFICES ASSUME WinkillInv, [TclNext]_allVars PROVE HeldInv'
    OBVIOUS
<1> USE PartiesAssumption, ServerAssumption, SignalsAssumption, BadNameAssumption,
         ClientsAssumption, TclBoundsAssumption
    DEF WinkillInv,
            TclTypeOK, TypeOK, WordTypeOK, Hosts, MonitorPlaces, SenderPlaces, Steps, Lisps,
            HeldInv, HolderInv, MappedWhenUsed, ListedIsOpen
<1>1. CASE StartWithout /\ UNCHANGED tclVars
    BY <1>1 DEF StartWithout,
        allVars, vars, tclVars, wordVars, serverVars, senderVars
<1>2. CASE CreateSegment /\ UNCHANGED tclVars
    BY <1>2 DEF CreateSegment,
        allVars, vars, tclVars, wordVars, serverVars, senderVars
<1>3. CASE MapSegment /\ UNCHANGED tclVars
    BY <1>3 DEF MapSegment,
        allVars, vars, tclVars, wordVars, serverVars, senderVars
<1>4. CASE CheckSignal /\ UNCHANGED tclVars
    BY <1>4 DEF CheckSignal, Turn,
        allVars, vars, tclVars, wordVars, serverVars, senderVars
<1>5. CASE ResetLoad /\ UNCHANGED tclVars
    BY <1>5 DEF ResetLoad, LoadWord,
        allVars, vars, tclVars, wordVars, serverVars, senderVars
<1>6. CASE ResetStore /\ UNCHANGED tclVars
    BY <1>6 DEF ResetStore, StoreReset, StoreWord,
        allVars, vars, tclVars, wordVars, serverVars, senderVars
<1>7. CASE Raise /\ UNCHANGED tclVars
    BY <1>7 DEF Raise, Settle, Turn,
        allVars, vars, tclVars, wordVars, serverVars, senderVars
<1>8. CASE Exit /\ UNCHANGED tclVars
    BY <1>8 DEF Exit,
        allVars, vars, tclVars, wordVars, serverVars, senderVars
<1>9. ASSUME NEW s \in Senders, Parse(s), UNCHANGED tclVars PROVE HeldInv'
  <2>1. PICK arg \in Names, pidOk \in BOOLEAN :
          IF arg # BadName /\ pidOk
            THEN Go(s, "start", "open gcl")
            ELSE Go(s, "start", "failed")
    BY <1>9 DEF Parse
  <2>2. \A t \in Senders : at'[t] \in {"map", "load", "store", "close"} => at[t] = at'[t]
    BY <2>1 DEF Go
  <2>3. QED
    BY <1>9, <2>2 DEF Parse, wordVars, serverVars, tclVars
<1>10. ASSUME NEW s \in Senders, OpenGcl(s), UNCHANGED tclVars PROVE HeldInv'
    BY <1>10 DEF OpenGcl, OpenAs, Go,
        allVars, vars, tclVars, wordVars, serverVars, senderVars
<1>11. ASSUME NEW s \in Senders, OpenMaxima(s), UNCHANGED tclVars PROVE HeldInv'
    BY <1>11 DEF OpenMaxima, OpenAs, Go,
        allVars, vars, tclVars, wordVars, serverVars, senderVars
<1>12. ASSUME NEW s \in Senders, MapView(s), UNCHANGED tclVars PROVE HeldInv'
    BY <1>12 DEF MapView, Go,
        allVars, vars, tclVars, wordVars, serverVars, senderVars
<1>13. ASSUME NEW s \in Senders, SetLoad(s), UNCHANGED tclVars PROVE HeldInv'
    BY <1>13 DEF SetLoad, Go, LoadWord,
        allVars, vars, tclVars, wordVars, serverVars, senderVars
<1>14. ASSUME NEW s \in Senders, SetStore(s), UNCHANGED tclVars PROVE HeldInv'
    BY <1>14 DEF SetStore, Go, StoreOr, StoreWord,
        allVars, vars, tclVars, wordVars, serverVars, senderVars
<1>15. ASSUME NEW s \in Senders, Close(s), UNCHANGED tclVars PROVE HeldInv'
    BY <1>15 DEF Close, Go,
        allVars, vars, tclVars, wordVars, serverVars, senderVars
<1>16. CASE Load
  <2>1. refcount' <= loads'
    BY <1>16, CountStep DEF HeldInv, WinkillInv
  <2>2. HolderInv'
    BY <1>16, Zenon DEF Load, vars, wordVars, serverVars, senderVars
  <2>3. QED
    BY <2>1, <2>2
<1>17. CASE Unload
  <2>1. refcount' <= loads'
    BY <1>17, CountStep DEF HeldInv, WinkillInv
  <2>2. HolderInv'
    BY <1>17, Zenon DEF Unload, wordVars, serverVars, senderVars
  <2>3. QED
    BY <2>1, <2>2
<1>18. CASE Quit
  <2>1. refcount' <= loads'
    BY <1>18, CountStep DEF HeldInv, WinkillInv
  <2>2. HolderInv'
    BY <1>18, Zenon DEF Quit, wordVars, serverVars, senderVars
  <2>3. QED
    BY <2>1, <2>2
<1>19. CASE Command
    BY <1>19 DEF Command,
        allVars, vars, tclVars, wordVars, serverVars, senderVars
<1>20. CASE Find
    BY <1>20 DEF Find,
        allVars, vars, tclVars, wordVars, serverVars, senderVars
<1>21. CASE Map
    BY <1>21 DEF Map,
        allVars, vars, tclVars, wordVars, serverVars, senderVars
<1>22. CASE TclLoad
    BY <1>22 DEF TclLoad, LoadWord,
        allVars, vars, tclVars, wordVars, serverVars, senderVars
<1>23. CASE TclStore
    BY <1>23 DEF TclStore, StoreOr, StoreWord,
        allVars, vars, tclVars, wordVars, serverVars, senderVars
<1>24. CASE UNCHANGED allVars
    BY <1>24 DEF allVars, vars, tclVars, wordVars, serverVars, senderVars
<1>25. QED
    BY <1>1, <1>2, <1>3, <1>4, <1>5, <1>6, <1>7, <1>8, <1>9, <1>10, <1>11, <1>12, <1>13, <1>14, <1>15, <1>16, <1>17, <1>18, <1>19, <1>20, <1>21, <1>22, <1>23, <1>24
    DEF TclNext, Next, Monitor, Send, Extension

\* The monitor takes out of the word what it interrupts for next.
LEMMA DueStep == WinkillInv /\ [TclNext]_allVars => DueInv'
<1> SUFFICES ASSUME WinkillInv, [TclNext]_allVars PROVE DueInv'
    OBVIOUS
<1> USE DEF WinkillInv, HeldInv, HolderInv, DueInv
<1>1. CASE StartWithout /\ UNCHANGED tclVars
    BY <1>1 DEF StartWithout,
        allVars, vars, tclVars, wordVars, serverVars, senderVars
<1>2. CASE CreateSegment /\ UNCHANGED tclVars
    BY <1>2 DEF CreateSegment,
        allVars, vars, tclVars, wordVars, serverVars, senderVars
<1>3. CASE MapSegment /\ UNCHANGED tclVars
    BY <1>3 DEF MapSegment,
        allVars, vars, tclVars, wordVars, serverVars, senderVars
<1>4. CASE CheckSignal /\ UNCHANGED tclVars
    BY <1>4 DEF CheckSignal,
        allVars, vars, tclVars, wordVars, serverVars, senderVars
<1>5. CASE ResetLoad /\ UNCHANGED tclVars
    BY <1>5 DEF ResetLoad, LoadWord,
        allVars, vars, tclVars, wordVars, serverVars, senderVars
<1>6. CASE ResetStore /\ UNCHANGED tclVars
    BY <1>6 DEF ResetStore, StoreReset, StoreWord,
        allVars, vars, tclVars, wordVars, serverVars, senderVars
<1>7. CASE Raise /\ UNCHANGED tclVars
    BY <1>7 DEF Raise, Settle,
        allVars, vars, tclVars, wordVars, serverVars, senderVars
<1>8. CASE Exit /\ UNCHANGED tclVars
    BY <1>8 DEF Exit,
        allVars, vars, tclVars, wordVars, serverVars, senderVars
<1>9. ASSUME NEW s \in Senders, Parse(s), UNCHANGED tclVars PROVE DueInv'
    BY <1>9 DEF Parse,
        allVars, vars, tclVars, wordVars, serverVars, senderVars
<1>10. ASSUME NEW s \in Senders, OpenGcl(s), UNCHANGED tclVars PROVE DueInv'
    BY <1>10 DEF OpenGcl, OpenAs,
        allVars, vars, tclVars, wordVars, serverVars, senderVars
<1>11. ASSUME NEW s \in Senders, OpenMaxima(s), UNCHANGED tclVars PROVE DueInv'
    BY <1>11 DEF OpenMaxima, OpenAs,
        allVars, vars, tclVars, wordVars, serverVars, senderVars
<1>12. ASSUME NEW s \in Senders, MapView(s), UNCHANGED tclVars PROVE DueInv'
    BY <1>12 DEF MapView,
        allVars, vars, tclVars, wordVars, serverVars, senderVars
<1>13. ASSUME NEW s \in Senders, SetLoad(s), UNCHANGED tclVars PROVE DueInv'
    BY <1>13 DEF SetLoad, LoadWord,
        allVars, vars, tclVars, wordVars, serverVars, senderVars
<1>14. ASSUME NEW s \in Senders, SetStore(s), UNCHANGED tclVars PROVE DueInv'
    BY <1>14 DEF SetStore, StoreOr, StoreWord,
        allVars, vars, tclVars, wordVars, serverVars, senderVars
<1>15. ASSUME NEW s \in Senders, Close(s), UNCHANGED tclVars PROVE DueInv'
    BY <1>15 DEF Close,
        allVars, vars, tclVars, wordVars, serverVars, senderVars
<1>16. CASE Load
    BY <1>16 DEF Load,
        allVars, vars, tclVars, wordVars, serverVars, senderVars
<1>17. CASE Unload
    BY <1>17 DEF Unload,
        allVars, vars, tclVars, wordVars, serverVars, senderVars
<1>18. CASE Quit
    BY <1>18 DEF Quit,
        allVars, vars, tclVars, wordVars, serverVars, senderVars
<1>19. CASE Command
    BY <1>19 DEF Command,
        allVars, vars, tclVars, wordVars, serverVars, senderVars
<1>20. CASE Find
    BY <1>20 DEF Find,
        allVars, vars, tclVars, wordVars, serverVars, senderVars
<1>21. CASE Map
    BY <1>21 DEF Map,
        allVars, vars, tclVars, wordVars, serverVars, senderVars
<1>22. CASE TclLoad
    BY <1>22 DEF TclLoad, LoadWord,
        allVars, vars, tclVars, wordVars, serverVars, senderVars
<1>23. CASE TclStore
    BY <1>23 DEF TclStore, StoreOr, StoreWord,
        allVars, vars, tclVars, wordVars, serverVars, senderVars
<1>24. CASE UNCHANGED allVars
    BY <1>24 DEF allVars, vars, tclVars, wordVars, serverVars, senderVars
<1>25. QED
    BY <1>1, <1>2, <1>3, <1>4, <1>5, <1>6, <1>7, <1>8, <1>9, <1>10, <1>11, <1>12, <1>13, <1>14, <1>15, <1>16, <1>17, <1>18, <1>19, <1>20, <1>21, <1>22, <1>23, <1>24
    DEF TclNext, Next, Monitor, Send, Extension

-----------------------------------------------------------------------------
LEMMA BoundsInit == 0 \in -1..MaxInterps /\ 0 \in 0..MaxInterps /\ 0 \in 0..MaxCommands
BY TclBoundsAssumption

LEMMA WinkillInvInit == TclInit => WinkillInv
<1> SUFFICES ASSUME TclInit PROVE WinkillInv
    OBVIOUS
<1> USE PartiesAssumption, ServerAssumption, SignalsAssumption, BadNameAssumption,
         ClientsAssumption, TclBoundsAssumption
    DEF TclInit, Init, WordInit
<1>1. WordTypeOK
    BY DEF WordTypeOK
<1>2. TypeOK
    BY <1>1 DEF TypeOK, Names, Hosts, MonitorPlaces, SenderPlaces, Lisps
<1>3. 0 \in -1..MaxInterps /\ 0 \in 0..MaxInterps /\ 0 \in 0..MaxCommands
    BY BoundsInit
<1>4. TclTypeOK
    BY <1>2, <1>3 DEF TclTypeOK, Steps
<1>5. WordInv
    BY DEF WordInv, OnlyRacesLose
<1>6. AskedInv
    BY DEF AskedInv, RaisedWasAsked
<1>7. HeldInv
    BY DEF HeldInv, HolderInv, MappedWhenUsed, ListedIsOpen
<1>8. DueInv
    BY DEF DueInv
<1>9. QED
    BY <1>4, <1>5, <1>6, <1>7, <1>8 DEF WinkillInv

\* The invariant holds in every reachable state.
THEOREM WinkillInvariant == TclSpec => []WinkillInv
<1>1. TclInit => WinkillInv
    BY WinkillInvInit
<1>2. WinkillInv /\ [TclNext]_allVars => WinkillInv'
    BY TypeStep, WordStep, AskedStep, HeldStep, DueStep DEF WinkillInv
<1>3. QED
    BY <1>1, <1>2, PTL DEF TclSpec

\* Type correctness of the memory, of Maxima, of winkill and of the extension.
THEOREM WinkillTypes == TclSpec => []TclTypeOK
BY WinkillInvariant, PTL DEF WinkillInv

\* A signal is lost, or comes back, only if two statements on the word overlap.
THEOREM WinkillRaces == TclSpec => []OnlyRacesLose
<1>1. WinkillInv => OnlyRacesLose
    BY DEF WinkillInv, WordInv
<1>2. QED
    BY <1>1, WinkillInvariant, PTL

\* Maxima is interrupted only for signals that somebody has sent.
THEOREM WinkillAsked == TclSpec => []RaisedWasAsked
<1>1. WinkillInv => RaisedWasAsked
    BY DEF WinkillInv, AskedInv
<1>2. QED
    BY <1>1, WinkillInvariant, PTL

\* No program reads or writes the word through a view that it does not have.
THEOREM WinkillMapped == TclSpec => [](MappedWhenUsed /\ ListedIsOpen)
<1>1. WinkillInv => MappedWhenUsed /\ ListedIsOpen
    BY DEF WinkillInv, HeldInv, HolderInv
<1>2. QED
    BY <1>1, WinkillInvariant, PTL

\* As long as no race has happened, a signal that was sent is in the word, or its
\* interrupt comes next, or the main thread has been interrupted for it since.
THEOREM WinkillDue == TclSpec => []DueIsUnderway
<1>1. WinkillInv => DueIsUnderway
    BY DEF WinkillInv, WordInv, OnlyRacesLose, DueInv, DueIsUnderway
<1>2. QED
    BY <1>1, WinkillInvariant, PTL
=============================================================================

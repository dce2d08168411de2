CONSTANTS
    Senders = {s1}
    Server = Server
    Tcl = Tcl
    Clients = {Tcl}
    SigInt = SIGINT
    SigTerm = SIGTERM
    BadName = BadName
    Signals = {SIGINT, SIGTERM}
    Parties <- MCParties
    MaxInterps = 2
    MaxCommands = 2
SPECIFICATION TclSpec
INVARIANTS
    OnlyRacesLose
    RaisedWasAsked
    DueIsUnderway
    ListedIsOpen
PROPERTIES
    Taken
    TermEnds
CHECK_DEADLOCK FALSE

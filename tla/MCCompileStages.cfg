SPECIFICATION Spec
CONSTANTS
    Constitutional <- MCConstitutional
    Task <- MCTask
    Packs <- MCPacks
    Shipped <- MCShipped
    Requests <- MCRequests
INVARIANTS
    CoherentPacksCompile
    OwnersRunTheirObligations
    UnknownsStayVisible
    ObligationsConserved
    TerminalCrossesConvergence
    ArchitectureIsAnswered
CHECK_DEADLOCK FALSE

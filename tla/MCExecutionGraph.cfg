SPECIFICATION Spec
CONSTANT Graphs <- MCGraphs
INVARIANTS
    OrderRespectsEdges
    ValidatorIsExact
    ChainKeepsStepOrder
PROPERTY Terminates
CHECK_DEADLOCK FALSE

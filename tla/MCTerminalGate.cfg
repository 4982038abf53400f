SPECIFICATION Spec
CONSTANTS
    Obligations = {"realization", "architecture", "delivery", "note"}
    Required = {"realization", "architecture", "delivery"}
    Architecture = "architecture"
    Delivery = "delivery"
    Properties = {"realized", "integrity", "idempotency"}
    Binds <- MCBinds
    Dispositions = {"SATISFIED", "VALID_BLOCK", "NOT_APPLICABLE_WITH_DETERMINISTIC_PROOF"}
    Statuses = {"passed", "failed", "not_run", "not_applicable_with_reason"}
INVARIANT ConvergedReceiptIsClosed
PROPERTY ConvergesOnEvidence
CHECK_DEADLOCK FALSE

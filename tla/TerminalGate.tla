---------------------------- MODULE TerminalGate ----------------------------
(***************************************************************************)
(* compiler/convergence.py: the terminal success gate over a compiled      *)
(* bundle and the receipt made from its report.  The bundle is worked on   *)
(* by an executor outside this repository, which records a disposition of  *)
(* each obligation once and the status of a validation property as often   *)
(* as it is run; the gate may be evaluated, and a receipt made of its last *)
(* report, at any moment of that work.                                     *)
(***************************************************************************)
EXTENDS Naturals, FiniteSets

CONSTANTS
    Obligations,  \* obligation ids of the execution contract
    Required,     \* those with required = true
    Architecture, \* OBL.ARCHITECTURE, an obligation or not
    Delivery,     \* OBL.DELIVERY, an obligation or not
    Properties,   \* ids of the required validation properties
    Binds,        \* property -> obligation_ref
    Dispositions, \* legal dispositions the executor records
    Statuses      \* statuses a property can have

\* _LEGAL_TERMINAL and _BLOCKING_STATUSES.
LegalTerminal == {"SATISFIED", "VALID_BLOCK", "SUPERSEDED_BY_HIGHER_AUTHORITY",
                  "NOT_APPLICABLE_WITH_DETERMINISTIC_PROOF"}
BlockingStatuses == {"failed", "blocked", "unknown", "not_run"}

ASSUME GateAssumption ==
    /\ Required \subseteq Obligations
    /\ Binds \in [Properties -> Required]
    /\ Dispositions \subseteq LegalTerminal
    /\ "not_run" \in Statuses

VARIABLES disposition, status, report, receipt

vars == <<disposition, status, report, receipt>>

None == [kind |-> "none"]

Init ==
    /\ disposition = [o \in Obligations |-> "PENDING"]
    /\ status = [p \in Properties |-> "not_run"]
    /\ report = None
    /\ receipt = None

-----------------------------------------------------------------------------
(* The executor.                                                           *)

Dispose(o, d) ==
    /\ receipt = None
    /\ disposition[o] = "PENDING"
    /\ disposition' = [disposition EXCEPT ![o] = d]
    /\ UNCHANGED <<status, report, receipt>>

RunProperty(p, s) ==
    /\ receipt = None
    /\ status' = [status EXCEPT ![p] = s]
    /\ UNCHANGED <<disposition, report, receipt>>

-----------------------------------------------------------------------------
(* evaluate_terminal_success.                                              *)

IllegallyDisposed == {o \in Required : disposition[o] \notin LegalTerminal}

Pending == {o \in Required : disposition[o] = "PENDING"}

\* Mutant of BlockingProperties: a property that was never run does not block.
FailedProperties == {p \in Properties : status[p] \in BlockingStatuses \ {"not_run"}}

BlockingProperties == {p \in Properties : status[p] \in BlockingStatuses}

\* Architecture needs its evidence passed, once the obligation is disposed of.
ArchitectureUnproven ==
    /\ Architecture \in Required
    /\ disposition[Architecture] # "PENDING"
    /\ \E p \in Properties : Binds[p] = Architecture /\ status[p] # "passed"

\* Mutant of DeliveryMissing: any legal disposition will do.
DeliveryUndisposed == Delivery \in Required /\ disposition[Delivery] \notin LegalTerminal

DeliveryMissing == Delivery \in Required /\ disposition[Delivery] # "SATISFIED"

\* An unmet condition goes on the list under its name.
Names(condition, name) == IF condition THEN {name} ELSE {}

Unmet ==
    Names(IllegallyDisposed # {}, "all_required_obligations_have_legal_disposition")
    \cup Names(Pending # {}, "no_required_obligation_is_UNKNOWN")
    \cup Names(BlockingProperties # {}, "no_blocking_validation_failed")
    \cup Names(ArchitectureUnproven, "architectural_integrity_satisfied_when_applicable")
    \cup Names(DeliveryMissing, "requested_delivery_satisfied")

Evaluate ==
    /\ receipt = None
    /\ report' = [kind |-> "report", converged |-> Unmet = {},
                  unmet |-> Unmet \cup Names(Unmet # {}, "no_false_completion_condition")]
    /\ UNCHANGED <<disposition, status, receipt>>

\* convergence_receipt: the report as it was, the dispositions as they are.
MakeReceipt ==
    /\ receipt = None /\ report # None
    /\ receipt' = [kind |-> "receipt",
                   terminal_disposition |-> IF report.converged THEN "CONVERGED"
                                            ELSE "NOT_CONVERGED",
                   obligation_dispositions |-> disposition,
                   gate_report |-> report]
    /\ UNCHANGED <<disposition, status, report>>

Next ==
    \/ \E o \in Obligations, d \in Dispositions : Dispose(o, d)
    \/ \E p \in Properties, s \in Statuses : RunProperty(p, s)
    \/ Evaluate
    \/ MakeReceipt

Spec == Init /\ [][Next]_vars

-----------------------------------------------------------------------------
(* Properties.                                                             *)

\* A CONVERGED receipt lists no required obligation without a legal disposition
\* and no requested delivery but a satisfied one, although the executor may have
\* worked on between the gate and the receipt.
ConvergedReceiptIsClosed ==
    receipt # None /\ receipt.terminal_disposition = "CONVERGED" =>
        /\ \A o \in Required : receipt.obligation_dispositions[o] \in LegalTerminal
        /\ Delivery \in Required => receipt.obligation_dispositions[Delivery] = "SATISFIED"

\* The gate converges only on evidence: every property passed or is excused, and
\* those of the architecture obligation passed.
ConvergesOnEvidence ==
    [][report' # report /\ report'.converged =>
          \A p \in Properties :
             /\ status[p] \notin BlockingStatuses
             /\ Binds[p] = Architecture => status[p] = "passed"]_vars
=============================================================================

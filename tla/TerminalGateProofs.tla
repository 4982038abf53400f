------------------------- MODULE TerminalGateProofs -------------------------
(***************************************************************************)
(* The terminal gate for any set of obligations, properties, dispositions  *)
(* and statuses.  A receipt is made of a report and of dispositions read   *)
(* later, so ConvergedReceiptIsClosed is not inductive by itself: GateInv  *)
(* adds that what a converged report saw is still so, which holds because  *)
(* the executor disposes of an obligation once.                            *)
(***************************************************************************)
EXTENDS TerminalGate, TLAPS

TypeOK ==
    /\ disposition \in [Obligations -> Dispositions \cup {"PENDING"}]
    /\ status \in [Properties -> Statuses]

\* What a converged gate vouches for.
Settled == /\ \A o \in Required : disposition[o] \in LegalTerminal
           /\ Delivery \in Required => disposition[Delivery] = "SATISFIED"

ReportHolds == report # None /\ report.converged => Settled

GateInv == TypeOK /\ ReportHolds /\ ConvergedReceiptIsClosed

\* A gate with nothing unmet has seen each of its conditions hold.
LEMMA NothingUnmet ==
    ASSUME Unmet = {}
    PROVE  /\ IllegallyDisposed = {}
           /\ Pending = {}
           /\ BlockingProperties = {}
           /\ ~ArchitectureUnproven
           /\ ~DeliveryMissing
  BY DEF Unmet, Names

\* A gate without unmet conditions found every required obligation settled.
LEMMA NothingUnmetSettles == Unmet = {} => Settled
  BY NothingUnmet DEF IllegallyDisposed, DeliveryMissing, Settled

\* There is neither a report nor a receipt before the executor's first step.
LEMMA GateInit == Init => GateInv
  BY GateAssumption
  DEF Init, GateInv, TypeOK, ReportHolds, ConvergedReceiptIsClosed, None

\* What a converged report found settled stays settled up to the receipt.
LEMMA GateStep == GateInv /\ [Next]_vars => GateInv'
  <1>. SUFFICES ASSUME GateInv, [Next]_vars
                PROVE  GateInv'
    OBVIOUS
  <1>. USE GateAssumption DEF GateInv
  <1>1. ASSUME NEW o \in Obligations, NEW d \in Dispositions, Dispose(o, d)
        PROVE  GateInv'
    <2>1. TypeOK'
      BY <1>1 DEF Dispose, TypeOK
    <2>2. ASSUME Settled PROVE Settled'
      \* o was pending, so it is neither required nor the requested delivery.
      <3>1. o \notin Required
        BY <1>1, <2>2 DEF Settled, Dispose, LegalTerminal
      <3>. QED
        BY <1>1, <2>2, <3>1 DEF Settled, Dispose, TypeOK
    <2>3. ReportHolds'
      BY <1>1, <2>2 DEF ReportHolds, Dispose
    <2>4. ConvergedReceiptIsClosed'
      BY <1>1 DEF ConvergedReceiptIsClosed, Dispose
    <2>. QED
      BY <2>1, <2>3, <2>4
  <1>2. ASSUME NEW p \in Properties, NEW s \in Statuses, RunProperty(p, s)
        PROVE  GateInv'
    BY <1>2 DEF RunProperty, TypeOK, ReportHolds, Settled, ConvergedReceiptIsClosed
  <1>3. CASE Evaluate
    <2>1. TypeOK'
      BY <1>3 DEF Evaluate, TypeOK
    <2>2. ReportHolds'
      <3>1. report'.converged => Unmet = {}
        BY <1>3 DEF Evaluate
      <3>2. report'.converged => Settled
        BY <3>1, NothingUnmetSettles
      <3>. QED
        BY <1>3, <3>2 DEF Evaluate, ReportHolds, Settled
    <2>3. ConvergedReceiptIsClosed'
      BY <1>3 DEF Evaluate, ConvergedReceiptIsClosed
    <2>. QED
      BY <2>1, <2>2, <2>3
  <1>4. CASE MakeReceipt
    <2>1. TypeOK'
      BY <1>4 DEF MakeReceipt, TypeOK
    <2>2. ReportHolds'
      BY <1>4 DEF MakeReceipt, ReportHolds, Settled
    <2>3. ConvergedReceiptIsClosed'
      \* The dispositions read now are the ones the report vouches for.
      <3>1. /\ receipt'.terminal_disposition = "CONVERGED" => report.converged
            /\ receipt'.obligation_dispositions = disposition
        BY <1>4 DEF MakeReceipt
      <3>. QED
        BY <1>4, <3>1 DEF MakeReceipt, ReportHolds, Settled, ConvergedReceiptIsClosed
    <2>. QED
      BY <2>1, <2>2, <2>3
  <1>5. CASE UNCHANGED vars
    BY <1>5 DEF vars, TypeOK, ReportHolds, Settled, ConvergedReceiptIsClosed
  <1>. QED
    BY <1>1, <1>2, <1>3, <1>4, <1>5 DEF Next

\* A CONVERGED receipt of convergence_receipt never lists an open obligation.
THEOREM ReceiptTheorem == Spec => []ConvergedReceiptIsClosed
  <1>1. GateInv => ConvergedReceiptIsClosed
    BY DEF GateInv
  <1>. QED
    BY <1>1, GateInit, GateStep, PTL DEF Spec

\* evaluate_terminal_success converges on evidence only.
THEOREM EvidenceTheorem == Spec => ConvergesOnEvidence
  <1>1. ASSUME TypeOK, [Next]_vars
        PROVE  [report' # report /\ report'.converged =>
                  \A p \in Properties :
                     /\ status[p] \notin BlockingStatuses
                     /\ Binds[p] = Architecture => status[p] = "passed"]_vars
    <2>1. CASE Evaluate
      <3>. SUFFICES ASSUME report'.converged, NEW p \in Properties
                    PROVE  /\ status[p] \notin BlockingStatuses
                           /\ Binds[p] = Architecture => status[p] = "passed"
        OBVIOUS
      <3>1. Unmet = {}
        BY <2>1 DEF Evaluate
      <3>2. status[p] \notin BlockingStatuses
        BY <3>1, NothingUnmet DEF BlockingProperties
      <3>3. ASSUME Binds[p] = Architecture PROVE status[p] = "passed"
        <4>1. Architecture \in Required
          BY <3>3, GateAssumption
        <4>2. disposition[Architecture] # "PENDING"
          BY <3>1, <4>1, NothingUnmet DEF Pending
        <4>. QED
          BY <3>1, <3>3, <4>1, <4>2, NothingUnmet DEF ArchitectureUnproven
      <3>. QED
        BY <3>2, <3>3
    <2>2. CASE ~Evaluate
      BY <1>1, <2>2 DEF Next, Dispose, RunProperty, MakeReceipt, vars
    <2>. QED
      BY <2>1, <2>2
  <1>2. GateInv => TypeOK
    BY DEF GateInv
  <1>. QED
    BY <1>1, <1>2, GateInit, GateStep, PTL DEF Spec, ConvergesOnEvidence
=============================================================================

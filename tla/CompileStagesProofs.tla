------------------------ MODULE CompileStagesProofs -------------------------
(***************************************************************************)
(* Proofs about the compile stages, for every pack, every request and      *)
(* every activation plan, the planner's or one the caller hands in.        *)
(*                                                                         *)
(* What a bundle promises follows from the checks of the stages alone:     *)
(* nothing is assumed of the plan, which may be stale, edited or at odds   *)
(* with the pack.  That the planner's own plans are refused for nothing but*)
(* a contradiction in their context needs a pack whose rules and pipeline  *)
(* agree, and what those plans look like: the sections on sequences and on *)
(* the planner.                                                            *)
(***************************************************************************)
EXTENDS CompileStages, FiniteSetTheorems, NaturalsInduction, TLAPS

-----------------------------------------------------------------------------
(* The inductive invariant: what each stage hands on is still there, as the *)
(* stage made it, in every later one.                                      *)

FromBundle      == {"bundle"}
FromPacket      == FromBundle \cup {"packet"}
FromGraph       == FromPacket \cup {"graph"}
FromHandoff     == FromGraph \cup {"handoff"}
FromValidation  == FromHandoff \cup {"validation"}
FromExecution   == FromValidation \cup {"execution"}
FromObligations == FromExecution \cup {"obligations"}

Contract == [obligations |-> obligations, steps |-> Steps]

ObligationsOK == stage \in FromObligations => obligations = Derived /\ Indexed(obligations)

ExecutionOK == stage \in FromExecution => execution = Contract

ValidationOK == stage \in FromValidation => properties = PropertiesOf(execution)

HandoffOK == stage \in FromHandoff => handoff = execution.obligations

GraphOK == stage \in FromGraph => graph = GraphOf(execution) /\ UniqueSteps(execution)

PacketOK == stage \in FromPacket => packet = PacketOf /\ ValidPacket(packet)

BundleOK == stage \in FromBundle => Live

IInv ==
    /\ ObligationsOK /\ ExecutionOK /\ ValidationOK /\ HandoffOK
    /\ GraphOK /\ PacketOK /\ BundleOK

-----------------------------------------------------------------------------
(* What a stage computes from depends on the state it is given alone.      *)

Inputs == <<pack, request, supplied, plan>>

LEMMA InputsFixed ==
    ASSUME [Next]_vars
    PROVE  UNCHANGED Inputs
    BY DEF Next, vars, Inputs, Refused, DeriveObligations, CompileExecution, CompileValidation,
           CompileHandoff, DeriveGraph, BuildPacket, ValidateLiveness

LEMMA DerivedFixed ==
    ASSUME UNCHANGED Inputs
    PROVE  Derived' = Derived /\ bindings' = bindings
    BY DEF Inputs, Derived, bindings

LEMMA ContractFixed ==
    ASSUME UNCHANGED Inputs, UNCHANGED obligations
    PROVE  Contract' = Contract
<1>1. /\ \A x : PrimaryOf(x)' = PrimaryOf(x) /\ OutputsOf(x)' = OutputsOf(x)
      /\ \A x : KindPhase(x)' = KindPhase(x)
      /\ plan' = plan /\ pack' = pack /\ bindings' = bindings
  BY DEF Inputs, PrimaryOf, OutputsOf, KindPhase, bindings
<1>2. \A x : StepKernels(x)' = StepKernels(x)
  BY <1>1 DEF StepKernels
<1>3. \A x : Step(x)' = Step(x)
  BY <1>1, <1>2 DEF Step
<1>4. Steps' = Steps
  BY <1>1, <1>3 DEF Steps
<1> QED BY <1>4 DEF Contract

\* The bundle's last check reads everything but the stage.
LEMMA LiveFixed ==
    ASSUME UNCHANGED Inputs,
           UNCHANGED <<obligations, execution, properties, handoff, graph, packet>>, Live
    PROVE  Live'
<1>1. /\ bindings' = bindings /\ plan' = plan /\ request' = request
      /\ \A x : OutputsOf(x)' = OutputsOf(x)
      /\ Nodes' = Nodes /\ Invoked' = Invoked /\ Pending' = Pending
      /\ \A kinds : PendingOf(kinds)' = PendingOf(kinds)
  BY DEF Inputs, bindings, OutputsOf, Nodes, Invoked, Pending, PendingOf
<1>2. KernelsLive'
  BY <1>1 DEF Live, KernelsLive, Realized
<1>3. ObligationsLive'
  BY <1>1 DEF Live, ObligationsLive
<1>4. TerminalLive' /\ NoOrphan' /\ ~ Contradicted'
  BY <1>1 DEF Live, TerminalLive, NoOrphan, Contradicted
<1> QED BY <1>2, <1>3, <1>4 DEF Live

\* What an earlier stage has made stays as it made it.
LEMMA Handed ==
    ASSUME IInv, UNCHANGED Inputs
    PROVE  /\ stage \in FromObligations /\ UNCHANGED obligations
                => (obligations = Derived /\ Indexed(obligations))'
           /\ stage \in FromExecution /\ UNCHANGED <<obligations, execution>>
                => (execution = Contract)'
           /\ stage \in FromValidation /\ UNCHANGED <<execution, properties>>
                => (properties = PropertiesOf(execution))'
           /\ stage \in FromHandoff /\ UNCHANGED <<execution, handoff>>
                => (handoff = execution.obligations)'
           /\ stage \in FromGraph /\ UNCHANGED <<execution, graph>>
                => (graph = GraphOf(execution) /\ UniqueSteps(execution))'
           /\ stage \in FromPacket /\ UNCHANGED <<execution, properties, packet>>
                => (packet = PacketOf /\ ValidPacket(packet))'
<1> USE DEF IInv
<1>1. Derived' = Derived /\ bindings' = bindings /\ plan' = plan /\ pack' = pack
  BY DerivedFixed DEF Inputs
<1>2. ASSUME stage \in FromObligations, UNCHANGED obligations
      PROVE  (obligations = Derived /\ Indexed(obligations))'
  BY <1>1, <1>2 DEF ObligationsOK, Indexed
<1>3. ASSUME stage \in FromExecution, UNCHANGED <<obligations, execution>>
      PROVE  (execution = Contract)'
  BY <1>3, ContractFixed DEF ExecutionOK
<1>4. ASSUME stage \in FromValidation, UNCHANGED <<execution, properties>>
      PROVE  (properties = PropertiesOf(execution))'
  BY <1>1, <1>4 DEF ValidationOK, PropertiesOf
<1>5. ASSUME stage \in FromHandoff, UNCHANGED <<execution, handoff>>
      PROVE  (handoff = execution.obligations)'
  BY <1>5 DEF HandoffOK
<1>6. ASSUME stage \in FromGraph, UNCHANGED <<execution, graph>>
      PROVE  (graph = GraphOf(execution) /\ UniqueSteps(execution))'
  BY <1>6 DEF GraphOK, GraphOf, UniqueSteps
<1>7. ASSUME stage \in FromPacket, UNCHANGED <<execution, properties, packet>>
      PROVE  (packet = PacketOf /\ ValidPacket(packet))'
  <2>1. PacketOf' = PacketOf
    BY <1>1, <1>7 DEF PacketOf
  <2> QED BY <1>1, <1>7, <2>1 DEF PacketOK, ValidPacket, OutputsOf
<1> QED BY <1>2, <1>3, <1>4, <1>5, <1>6, <1>7

\* A refused compile hands nothing on.
LEMMA RefusedOK ==
    ASSUME Refused
    PROVE  IInv'
<1>1. stage' \notin FromObligations
  BY DEF Refused, FromObligations, FromExecution, FromValidation, FromHandoff, FromGraph,
         FromPacket, FromBundle
<1> QED BY <1>1 DEF IInv, ObligationsOK, ExecutionOK, ValidationOK, HandoffOK, GraphOK, PacketOK,
                    BundleOK, FromObligations, FromExecution, FromValidation, FromHandoff,
                    FromGraph, FromPacket

\* The stages a stage has behind it.
LEMMA Behind ==
    /\ "requested" \notin FromObligations
    /\ "obligations" \in FromObligations /\ "obligations" \notin FromExecution
    /\ "execution" \in FromExecution /\ "execution" \notin FromValidation
    /\ "validation" \in FromValidation /\ "validation" \notin FromHandoff
    /\ "handoff" \in FromHandoff /\ "handoff" \notin FromGraph
    /\ "graph" \in FromGraph /\ "graph" \notin FromPacket
    /\ "packet" \in FromPacket /\ "packet" \notin FromBundle
    /\ FromBundle \subseteq FromPacket /\ FromPacket \subseteq FromGraph
    /\ FromGraph \subseteq FromHandoff /\ FromHandoff \subseteq FromValidation
    /\ FromValidation \subseteq FromExecution /\ FromExecution \subseteq FromObligations
    BY DEF FromObligations, FromExecution, FromValidation, FromHandoff, FromGraph, FromPacket,
           FromBundle

LEMMA DeriveObligationsOK ==
    ASSUME IInv, DeriveObligations, UNCHANGED Inputs
    PROVE  IInv'
<1>1. CASE Refused
  BY <1>1, RefusedOK
<1>2. CASE /\ OwnersResolve(Derived, plan, bindings)
           /\ stage' = "obligations" /\ obligations' = Derived
  <2>1. Indexed(obligations') /\ Derived' = Derived
    BY <1>2, DerivedFixed DEF OwnersResolve
  <2> QED BY <1>2, <2>1, Behind DEF IInv, ObligationsOK, ExecutionOK, ValidationOK, HandoffOK,
                                    GraphOK, PacketOK, BundleOK
<1> QED BY <1>1, <1>2 DEF DeriveObligations

LEMMA CompileExecutionOK ==
    ASSUME IInv, CompileExecution, UNCHANGED Inputs
    PROVE  IInv'
<1>1. CASE Refused
  BY <1>1, RefusedOK
<1>2. CASE /\ stage' = "execution" /\ execution' = Contract /\ UNCHANGED obligations
  <2>1. stage \in FromObligations /\ Contract' = Contract
    BY <1>2, Behind, ContractFixed DEF CompileExecution
  <2>2. ObligationsOK'
    BY <1>2, <2>1, Handed DEF ObligationsOK
  <2> QED BY <1>2, <2>1, <2>2, Behind DEF IInv, ExecutionOK, ValidationOK, HandoffOK,
                                          GraphOK, PacketOK, BundleOK
<1> QED BY <1>1, <1>2 DEF CompileExecution, Contract

LEMMA CompileValidationOK ==
    ASSUME IInv, CompileValidation, UNCHANGED Inputs
    PROVE  IInv'
<1>1. CASE Refused
  BY <1>1, RefusedOK
<1>2. CASE /\ stage' = "validation" /\ properties' = PropertiesOf(execution)
           /\ UNCHANGED <<obligations, execution>>
  <2>1. stage \in FromObligations /\ stage \in FromExecution
    BY Behind DEF CompileValidation
  <2>2. ObligationsOK' /\ ExecutionOK'
    BY <1>2, <2>1, Handed DEF ObligationsOK, ExecutionOK
  <2>3. ValidationOK'
    BY <1>2 DEF ValidationOK, PropertiesOf, Inputs
  <2> QED BY <1>2, <2>2, <2>3, Behind DEF IInv, HandoffOK, GraphOK, PacketOK, BundleOK
<1> QED BY <1>1, <1>2 DEF CompileValidation

LEMMA CompileHandoffOK ==
    ASSUME IInv, CompileHandoff, UNCHANGED Inputs
    PROVE  IInv'
<1>1. CASE Refused
  BY <1>1, RefusedOK
<1>2. CASE /\ stage' = "handoff" /\ handoff' = execution.obligations
           /\ UNCHANGED <<obligations, execution, properties>>
  <2>1. stage \in FromObligations /\ stage \in FromExecution /\ stage \in FromValidation
    BY Behind DEF CompileHandoff
  <2>2. ObligationsOK' /\ ExecutionOK' /\ ValidationOK'
    BY <1>2, <2>1, Handed DEF ObligationsOK, ExecutionOK, ValidationOK
  <2>3. HandoffOK'
    BY <1>2 DEF HandoffOK
  <2> QED BY <1>2, <2>2, <2>3, Behind DEF IInv, GraphOK, PacketOK, BundleOK
<1> QED BY <1>1, <1>2 DEF CompileHandoff

LEMMA DeriveGraphOK ==
    ASSUME IInv, DeriveGraph, UNCHANGED Inputs
    PROVE  IInv'
<1>1. CASE Refused
  BY <1>1, RefusedOK
<1>2. CASE /\ stage' = "graph" /\ graph' = GraphOf(execution) /\ UniqueSteps(execution)
           /\ UNCHANGED <<obligations, execution, properties, handoff>>
  <2>1. /\ stage \in FromObligations /\ stage \in FromExecution /\ stage \in FromValidation
        /\ stage \in FromHandoff
    BY Behind DEF DeriveGraph
  <2>2. ObligationsOK' /\ ExecutionOK' /\ ValidationOK' /\ HandoffOK'
    BY <1>2, <2>1, Handed DEF ObligationsOK, ExecutionOK, ValidationOK, HandoffOK
  <2>3. GraphOK'
    BY <1>2 DEF GraphOK, GraphOf, UniqueSteps
  <2> QED BY <1>2, <2>2, <2>3, Behind DEF IInv, PacketOK, BundleOK
<1> QED BY <1>1, <1>2 DEF DeriveGraph

LEMMA BuildPacketOK ==
    ASSUME IInv, BuildPacket, UNCHANGED Inputs
    PROVE  IInv'
<1>1. CASE Refused
  BY <1>1, RefusedOK
<1>2. CASE /\ stage' = "packet" /\ packet' = PacketOf /\ ValidPacket(PacketOf)
           /\ UNCHANGED <<obligations, execution, properties, handoff, graph>>
  <2>1. /\ stage \in FromObligations /\ stage \in FromExecution /\ stage \in FromValidation
        /\ stage \in FromHandoff /\ stage \in FromGraph
    BY Behind DEF BuildPacket
  <2>2. ObligationsOK' /\ ExecutionOK' /\ ValidationOK' /\ HandoffOK' /\ GraphOK'
    BY <1>2, <2>1, Handed DEF ObligationsOK, ExecutionOK, ValidationOK, HandoffOK, GraphOK
  <2>3. PacketOf' = PacketOf
    BY <1>2, DerivedFixed DEF PacketOf
  <2>4. PacketOK'
    BY <1>2, <2>3 DEF PacketOK, ValidPacket, OutputsOf, Inputs
  <2> QED BY <1>2, <2>2, <2>4, Behind DEF IInv, BundleOK
<1> QED BY <1>1, <1>2 DEF BuildPacket

LEMMA ValidateLivenessOK ==
    ASSUME IInv, ValidateLiveness, UNCHANGED Inputs
    PROVE  IInv'
<1>1. CASE Refused
  BY <1>1, RefusedOK
<1>2. CASE /\ stage' = "bundle" /\ Live
           /\ UNCHANGED <<obligations, execution, properties, handoff, graph, packet>>
  <2>1. /\ stage \in FromObligations /\ stage \in FromExecution /\ stage \in FromValidation
        /\ stage \in FromHandoff /\ stage \in FromGraph /\ stage \in FromPacket
    BY Behind DEF ValidateLiveness
  <2>2. /\ ObligationsOK' /\ ExecutionOK' /\ ValidationOK' /\ HandoffOK' /\ GraphOK'
        /\ PacketOK'
    BY <1>2, <2>1, Handed DEF ObligationsOK, ExecutionOK, ValidationOK, HandoffOK, GraphOK,
                              PacketOK
  <2>3. Live'
    BY <1>2, LiveFixed
  <2> QED BY <2>2, <2>3 DEF IInv, BundleOK
<1> QED BY <1>1, <1>2 DEF ValidateLiveness

LEMMA Stutters ==
    ASSUME IInv, UNCHANGED vars
    PROVE  IInv'
<1>1. /\ UNCHANGED Inputs /\ stage' = stage
      /\ UNCHANGED <<obligations, execution, properties, handoff, graph, packet>>
  BY DEF vars, Inputs
<1>2. /\ ObligationsOK' /\ ExecutionOK' /\ ValidationOK' /\ HandoffOK' /\ GraphOK' /\ PacketOK'
  BY <1>1, Handed DEF ObligationsOK, ExecutionOK, ValidationOK, HandoffOK, GraphOK, PacketOK
<1>3. BundleOK'
  BY <1>1, LiveFixed DEF IInv, BundleOK
<1> QED BY <1>2, <1>3 DEF IInv

\* Every representation of a compile is the one its stage made, and a bundle
\* has passed the checks of every stage.
THEOREM Invariance == Spec => []IInv
<1>1. Init => IInv
  BY Behind DEF Init, IInv, ObligationsOK, ExecutionOK, ValidationOK, HandoffOK, GraphOK,
                PacketOK, BundleOK
<1>2. IInv /\ [Next]_vars => IInv'
  <2> SUFFICES ASSUME IInv, [Next]_vars PROVE IInv'
    OBVIOUS
  <2>1. UNCHANGED Inputs
    BY InputsFixed
  <2>2. CASE UNCHANGED vars
    BY <2>2, Stutters
  <2>3. CASE Next
    BY <2>1, <2>3, DeriveObligationsOK, CompileExecutionOK, CompileValidationOK,
       CompileHandoffOK, DeriveGraphOK, BuildPacketOK, ValidateLivenessOK DEF Next
  <2> QED BY <2>2, <2>3
<1> QED BY <1>1, <1>2, PTL DEF Spec

-----------------------------------------------------------------------------
(* The obligations of a compile. *)

\* What the deriver says of every entry.
LEMMA EntryFacts ==
    ASSUME NEW o \in Derived
    PROVE  /\ o.disposition = "PENDING"
           /\ o.kind = "CONVERGENCE" <=> o.id = Obl("CONVERGENCE")
           /\ o.id = Obl("ARCHITECTURE") => o.kind = "ARCHITECTURE"
           /\ \A i : o.id = <<"NOTE", i>> => ~ o.required
<1> DEFINE fixed == {"AUTHORITY", "RUNTIME_INTEGRITY", "REALIZATION", "VALIDATION", "DELIVERY",
                     "CONVERGENCE", "ARCHITECTURE", "RESOLUTION"}
<1>1. \/ \E name \in fixed : \E kind, owner :
           /\ o = Fixed(name, kind, owner)
           /\ kind = "CONVERGENCE" <=> name = "CONVERGENCE"
           /\ name = "ARCHITECTURE" => kind = "ARCHITECTURE"
      \/ \E i : o = ContextUnknown(request.unknowns, i)
      \/ \E i : o = Note(i)
  BY DEF Derived, Derive, When
<1>2. ASSUME NEW name \in fixed, NEW kind, NEW owner, o = Fixed(name, kind, owner)
      PROVE  /\ o.disposition = "PENDING" /\ o.kind = kind
             /\ o.id = <<"OBL", name>> /\ \A i : o.id # <<"NOTE", i>>
  BY <1>2 DEF Fixed, Obligation, Obl
<1>3. ASSUME NEW i, o = ContextUnknown(request.unknowns, i)
      PROVE  /\ o.disposition = "PENDING" /\ o.kind = "EPISTEMIC"
             /\ \A name : o.id # <<"OBL", name>>
             /\ \A j : o.id # <<"NOTE", j>>
  BY <1>3 DEF ContextUnknown, Obligation
<1>4. ASSUME NEW i, o = Note(i)
      PROVE  /\ o.disposition = "PENDING" /\ o.kind = "EPISTEMIC" /\ ~ o.required
             /\ \A name : o.id # <<"OBL", name>>
  BY <1>4 DEF Note, Obligation
<1> QED BY <1>1, <1>2, <1>3, <1>4 DEF Obl

\* The entries the deriver never leaves out.
LEMMA DerivedEntries ==
    /\ plan.materiality.required =>
         \E o \in Derived : o.id = Obl("ARCHITECTURE") /\ o.required
    /\ Objective(request.mission).mode = "UNKNOWN" =>
         \E o \in Derived : o.id = Obl("RESOLUTION") /\ o.required
    /\ \A i \in DOMAIN request.unknowns :
         \E o \in Derived : o.id = <<"CONTEXT", request.unknowns[i]>> /\ o.required
    /\ \A i \in DOMAIN request.notes :
         request.notes[i] # "realization_mode_UNKNOWN" =>
           \E o \in Derived : o.id = <<"NOTE", i>>
<1>1. \A name, kind, owner : LET o == Fixed(name, kind, owner) IN o.id = Obl(name) /\ o.required
  BY DEF Fixed, Obligation
<1>2. plan.materiality.required => Fixed("ARCHITECTURE", "ARCHITECTURE", GAR) \in Derived
  BY DEF Derived, Derive, When
<1>3. Objective(request.mission).mode = "UNKNOWN" =>
        Fixed("RESOLUTION", "EPISTEMIC", "objective_deriver") \in Derived
  BY DEF Derived, Derive, When
<1>4. \A i \in DOMAIN request.unknowns : ContextUnknown(request.unknowns, i) \in Derived
  BY DEF Derived, Derive
<1>5. \A i \in DOMAIN request.unknowns :
        LET o == ContextUnknown(request.unknowns, i)
        IN  o.id = <<"CONTEXT", request.unknowns[i]>> /\ o.required
  BY DEF ContextUnknown, Obligation
<1>6. \A i \in DOMAIN request.notes :
        request.notes[i] # "realization_mode_UNKNOWN" => Note(i) \in Derived
  BY DEF Derived, Derive
<1>7. \A i : Note(i).id = <<"NOTE", i>>
  BY DEF Note, Obligation
<1> QED BY <1>1, <1>2, <1>3, <1>4, <1>5, <1>6, <1>7

\* What a bundle is made of.
LEMMA BundleFacts ==
    ASSUME IInv, Compiled
    PROVE  /\ obligations = Derived /\ Indexed(obligations)
           /\ execution.obligations = obligations /\ execution.steps = Steps
           /\ handoff = obligations
           /\ properties = PropertiesOf(execution)
           /\ graph = GraphOf(execution) /\ graph.nodes = Steps /\ UniqueSteps(execution)
           /\ packet = PacketOf /\ ValidPacket(packet)
           /\ Live
<1>1. stage \in FromBundle
  BY DEF Compiled, FromBundle
<1>2. execution = Contract /\ handoff = execution.obligations /\ graph = GraphOf(execution)
  BY <1>1, Behind DEF IInv, ExecutionOK, HandoffOK, GraphOK
<1>3. execution.obligations = obligations /\ execution.steps = Steps
  BY <1>2 DEF Contract
<1>4. graph.nodes = execution.steps
  BY <1>2 DEF GraphOf
<1> QED BY <1>1, <1>2, <1>3, <1>4, Behind
        DEF IInv, ObligationsOK, ValidationOK, GraphOK, PacketOK, BundleOK

\* A step is for one phase of the plan; it carries the obligations of the kinds
\* of that phase and runs the kernels of that phase.
LEMMA StepFacts ==
    ASSUME NEW i \in DOMAIN Steps
    PROVE  /\ i \in DOMAIN plan.phases /\ Steps[i].phase = plan.phases[i]
           /\ Steps[i].obligations = Ids({o \in obligations : KindPhase(o.kind) = plan.phases[i]})
           /\ Steps[i].kernels = StepKernels(plan.phases[i])
           /\ \A k \in Steps[i].kernels : OutputsOf(k) \subseteq Steps[i].outputs
<1>1. i \in DOMAIN plan.phases
  BY DEF Steps
<1>2. /\ Steps[i].phase = Step(plan.phases[i]).phase
      /\ Steps[i].obligations = Step(plan.phases[i]).obligations
      /\ Steps[i].kernels = Step(plan.phases[i]).kernels
      /\ Steps[i].outputs = Step(plan.phases[i]).outputs
  BY <1>1 DEF Steps
<1> DEFINE s == Step(plan.phases[i])
<1>3. /\ s.phase = plan.phases[i]
      /\ s.obligations = Ids({o \in obligations : KindPhase(o.kind) = plan.phases[i]})
      /\ s.kernels = StepKernels(plan.phases[i])
      /\ UNION {OutputsOf(k) : k \in StepKernels(plan.phases[i])} \subseteq s.outputs
  BY DEF Step
<1> HIDE DEF s
<1> QED BY <1>1, <1>2, <1>3 DEF s

\* A node that carries an obligation is the step of the obligation's kind: no
\* other entry of the index could have brought the id there.
LEMMA CarrierPhase ==
    ASSUME IInv, Compiled, NEW o \in obligations, NEW i \in Carriers(o.id)
    PROVE  i \in DOMAIN graph.nodes /\ graph.nodes[i].phase = KindPhase(o.kind)
<1>1. i \in DOMAIN graph.nodes /\ o.id \in graph.nodes[i].obligations
  BY DEF Carriers
<1>2. graph.nodes = Steps /\ Indexed(obligations)
  BY BundleFacts
<1>3. PICK p \in obligations : p.id = o.id /\ KindPhase(p.kind) = plan.phases[i]
  BY <1>1, <1>2, StepFacts DEF Ids
<1>4. p = o
  BY <1>2, <1>3 DEF Indexed
<1> QED BY <1>1, <1>2, <1>3, <1>4, StepFacts

\* Hence a required obligation is on one node.
LEMMA OneCarrier ==
    ASSUME IInv, Compiled, NEW o \in obligations, o.required
    PROVE  \E i \in DOMAIN graph.nodes : Carriers(o.id) = {i}
<1>1. /\ execution.obligations = obligations /\ obligations = Derived
      /\ graph.nodes = execution.steps /\ UniqueSteps(execution) /\ Live
  BY BundleFacts
<1>2. o.id \in Pending
  BY <1>1, EntryFacts DEF Pending, RequiredPending
<1>3. PICK i \in DOMAIN graph.nodes : o.id \in graph.nodes[i].obligations
  BY <1>1, <1>2 DEF Live, ObligationsLive, Nodes
<1>4. i \in Carriers(o.id)
  BY <1>3 DEF Carriers
<1>5. ASSUME NEW j \in Carriers(o.id) PROVE j = i
  BY <1>1, <1>4, <1>5, CarrierPhase DEF UniqueSteps
<1> QED BY <1>4, <1>5

\* A required obligation is asked for by the packet.
LEMMA RequiredInPacket ==
    ASSUME IInv, Compiled
    PROVE  packet.required = {o.id : o \in {p \in obligations : p.required}}
<1>1. /\ packet.required = RequiredPending(obligations)
      /\ \A o \in obligations : o.disposition = "PENDING"
  BY BundleFacts, EntryFacts DEF PacketOf
<1> QED BY <1>1 DEF RequiredPending

-----------------------------------------------------------------------------
(* Sequences: what is left of one when it is filtered or repetitions are   *)
(* removed, and what joining and inserting make of several.                *)

\* Induction over a set: what holds of 0 and is handed on holds of every number.
LEMMA NumbersFollow ==
    ASSUME NEW B, 0 \in B, \A n \in Nat : n \in B => n + 1 \in B
    PROVE  Nat \subseteq B
<1> SUFFICES ASSUME Nat \ B # {} PROVE FALSE
  OBVIOUS
<1>1. PICK n \in Nat \ B : \A m \in Nat \ B : ~ (<<m, n>> \in OpToRel(<, Nat))
  BY NatLessThanWellFounded, WFMin
<1>2. \A m \in Nat : m < n => m \in B
  BY <1>1 DEF OpToRel
<1>3. n \in Nat \ {0}
  BY <1>1
<1>4. n - 1 \in Nat /\ n - 1 < n /\ (n - 1) + 1 = n
  BY <1>3
<1>5. n - 1 \in B
  BY <1>2, <1>4
<1> QED BY <1>1, <1>4, <1>5

\* place counts the places of P upwards, and s is read there.
Enumerates(place, s, P) ==
    /\ place \in [1..Cardinality(P) -> P]
    /\ \A n \in 1..Cardinality(P) : Entries(s, P)[n] = s[place[n]]
    /\ \A i \in P : \E n \in 1..Cardinality(P) : place[n] = i
    /\ \A m, n \in 1..Cardinality(P) : m < n => place[m] < place[n]

\* The places of P can be counted so.
LEMMA PlacesInOrder ==
    ASSUME NEW s, NEW len \in Nat, NEW P \in SUBSET (1..len)
    PROVE  IsFiniteSet(P) /\ Cardinality(P) \in Nat /\ \E place : Enumerates(place, s, P)
<1> DEFINE N == Cardinality(P)
           below(i) == {j \in P : j <= i}
           rank == [i \in P |-> Cardinality(below(i))]
           place == [n \in 1..N |-> CHOOSE i \in P : Cardinality({j \in P : j <= i}) = n]
<1>1. IsFiniteSet(P) /\ N \in Nat
  <2>1. IsFiniteSet(1..len)
    BY FS_Interval
  <2>2. IsFiniteSet(P)
    BY <2>1, FS_Subset
  <2> QED BY <2>2, FS_CardinalityType
<1>2. \A i \in P : i \in Nat
  OBVIOUS
<1>3. ASSUME NEW i \in P PROVE rank[i] \in 1..N
  <2>1. below(i) \in SUBSET P /\ i \in below(i)
    BY <1>2
  <2>2. IsFiniteSet(below(i)) /\ Cardinality(below(i)) <= N
    BY <1>1, <2>1, FS_Subset
  <2>3. Cardinality(below(i)) \in Nat /\ Cardinality(below(i)) # 0
    BY <2>1, <2>2, FS_CardinalityType, FS_EmptySet
  <2> QED BY <1>1, <2>2, <2>3
<1>4. ASSUME NEW i \in P, NEW k \in P, i < k PROVE rank[i] < rank[k]
  <2>1. below(i) \in SUBSET below(k) /\ k \in below(k) /\ k \notin below(i)
    <3>1. i \in Nat /\ k \in Nat
      BY <1>2
    <3>2. \A j \in P : j <= i => j <= k
      BY <1>2, <1>4, <3>1
    <3>3. below(i) \in SUBSET below(k)
      BY <3>2
    <3>4. k <= k /\ ~ (k <= i)
      BY <1>4, <3>1
    <3> QED BY <3>3, <3>4
  <2>2. below(k) \in SUBSET P
    OBVIOUS
  <2> HIDE DEF below
  <2>3. IsFiniteSet(below(k))
    BY <1>1, <2>2, FS_Subset
  <2>4. /\ Cardinality(below(i)) <= Cardinality(below(k))
        /\ Cardinality(below(i)) # Cardinality(below(k))
    BY <2>1, <2>3, FS_Subset
  <2>5. rank[i] \in Nat /\ rank[k] \in Nat
    BY <1>1, <1>3
  <2> QED BY <2>4, <2>5
<1>5. rank \in Injection(P, 1..N)
  <2>1. rank \in [P -> 1..N]
    BY <1>3
  <2>2. \A i, k \in P : rank[i] = rank[k] => i = k
    <3> SUFFICES ASSUME NEW i \in P, NEW k \in P, i # k PROVE rank[i] # rank[k]
      OBVIOUS
    <3>1. i < k \/ k < i
      BY <1>2
    <3>2. rank[i] \in Nat /\ rank[k] \in Nat
      BY <1>1, <1>3
    <3> QED BY <1>4, <3>1, <3>2
  <2> QED BY <2>1, <2>2 DEF Injection, IsInjective
<1>6. IsFiniteSet(1..N) /\ Cardinality(1..N) = N
  BY <1>1, FS_Interval
<1>7. rank \in Surjection(P, 1..N)
  BY <1>1, <1>5, <1>6, FS_Injection
<1>8. \A n \in 1..N : \E i \in P : Cardinality({j \in P : j <= i}) = n
  BY <1>7 DEF Surjection
<1>9. \A n \in 1..N : place[n] \in P /\ rank[place[n]] = n
  BY <1>8
<1>10. place \in [1..N -> P]
  BY <1>9
<1>11. \A n \in 1..N : Entries(s, P)[n] = s[place[n]]
  BY DEF Entries
<1>12. ASSUME NEW i \in P PROVE \E n \in 1..N : place[n] = i
  <2>1. rank[i] \in 1..N /\ rank[place[rank[i]]] = rank[i]
    BY <1>3, <1>9
  <2>2. place[rank[i]] = i
    BY <1>5, <1>9, <2>1 DEF Injection, IsInjective
  <2> QED BY <2>1, <2>2
<1>13. ASSUME NEW m \in 1..N, NEW n \in 1..N, m < n PROVE place[m] < place[n]
  <2>1. place[m] \in P /\ place[n] \in P /\ rank[place[m]] = m /\ rank[place[n]] = n
    BY <1>9
  <2> HIDE DEF place, rank
  <2>2. m \in Nat /\ n \in Nat /\ place[m] \in Nat /\ place[n] \in Nat
    <3>1. place[m] \in Nat /\ place[n] \in Nat
      BY <1>2, <2>1
    <3>2. m \in Nat /\ n \in Nat
      BY <1>1
    <3> QED BY <3>1, <3>2
  <2>3. ~ (place[n] < place[m])
    BY <1>4, <1>13, <2>1, <2>2
  <2>4. place[n] # place[m]
    BY <1>13, <2>1, <2>2
  <2> QED BY <2>2, <2>3, <2>4
<1> HIDE DEF place, rank, below
<1>14. Enumerates(place, s, P)
  BY <1>10, <1>11, <1>12, <1>13 DEF Enumerates
<1> QED BY <1>1, <1>14

\* What is taken from a sequence: entries at the places, in order.
LEMMA EntriesFacts ==
    ASSUME NEW T, NEW s \in Seq(T), NEW P \in SUBSET (DOMAIN s)
    PROVE  /\ Entries(s, P) \in Seq(T)
           /\ ToSet(Entries(s, P)) = {s[i] : i \in P}
           /\ IsInjective(s) => IsInjective(Entries(s, P))
           /\ Len(s) \in P => Last(Entries(s, P)) = Last(s)
<1> DEFINE N == Cardinality(P)
           e == Entries(s, P)
<1>1. P \in SUBSET (1..Len(s)) /\ Len(s) \in Nat
  OBVIOUS
<1>2. IsFiniteSet(P) /\ Cardinality(P) \in Nat /\ \E place : Enumerates(place, s, P)
  BY <1>1, PlacesInOrder
<1>3. PICK place : Enumerates(place, s, P)
  BY <1>2
<1>4. /\ place \in [1..N -> P]
      /\ \A n \in 1..N : e[n] = s[place[n]]
      /\ \A i \in P : \E n \in 1..N : place[n] = i
      /\ \A m, n \in 1..N : m < n => place[m] < place[n]
  BY <1>3 DEF Enumerates
<1>5. N \in Nat /\ DOMAIN e = 1..N /\ e = [n \in 1..N |-> e[n]]
  BY <1>2 DEF Entries
<1> HIDE DEF e, N
<1>6. \A i \in P : i \in DOMAIN s /\ s[i] \in T
  OBVIOUS
<1>7. \A n \in 1..N : place[n] \in P /\ e[n] = s[place[n]]
  BY <1>4
<1>8. e \in [1..N -> T]
  BY <1>5, <1>6, <1>7
<1>9. e \in Seq(T) /\ Len(e) = N /\ DOMAIN e = 1..N
  BY <1>5, <1>8
<1>10. ToSet(e) = {s[i] : i \in P}
  <2>1. ASSUME NEW x \in ToSet(e) PROVE x \in {s[i] : i \in P}
    BY <1>7, <1>9 DEF ToSet
  <2>2. ASSUME NEW i \in P PROVE s[i] \in ToSet(e)
    <3>1. PICK n \in 1..N : place[n] = i
      BY <1>4, Zenon
    <3>2. e[n] = s[i] /\ n \in DOMAIN e
      BY <1>7, <1>9, <3>1
    <3> QED BY <3>2 DEF ToSet
  <2> QED BY <2>1, <2>2
<1>11. ASSUME IsInjective(s) PROVE IsInjective(e)
  <2> SUFFICES ASSUME NEW m \in 1..N, NEW n \in 1..N, e[m] = e[n] PROVE m = n
    BY <1>9 DEF IsInjective
  <2>1. place[m] = place[n]
    BY <1>6, <1>7, <1>11 DEF IsInjective
  <2>2. place[m] \in Nat
    BY <1>1, <1>7
  <2>3. m \in Nat /\ n \in Nat /\ ~ (m < n) /\ ~ (n < m)
    BY <1>4, <1>5, <2>1, <2>2
  <2> QED BY <2>3
<1>12. ASSUME Len(s) \in P PROVE Last(e) = Last(s)
  <2>1. PICK n \in 1..N : place[n] = Len(s)
    BY <1>4, <1>12, Zenon
  <2>2. N \in 1..N /\ n \in Nat
    BY <1>5, <2>1
  <2>3. place[N] \in 1..Len(s)
    BY <1>1, <1>7, <2>2
  <2>4. ~ (n < N)
    BY <1>1, <1>4, <2>1, <2>2, <2>3
  <2>5. n = N
    BY <1>5, <2>1, <2>2, <2>4
  <2> QED BY <1>7, <1>9, <2>1, <2>5 DEF Last
<1> QED BY <1>9, <1>10, <1>11, <1>12 DEF e

\* A filtered sequence has the members asked for; distinct ones stay distinct and
\* the last one, if kept, stays last.
LEMMA KeptFacts ==
    ASSUME NEW T, NEW s \in Seq(T), NEW S
    PROVE  /\ Kept(s, S) \in Seq(T)
           /\ ToSet(Kept(s, S)) = ToSet(s) \cap S
           /\ IsInjective(s) => IsInjective(Kept(s, S))
           /\ Len(s) > 0 /\ Last(s) \in S => Last(Kept(s, S)) = Last(s)
<1> DEFINE P == {i \in DOMAIN s : s[i] \in S}
<1>1. Kept(s, S) = Entries(s, P)
  BY DEF Kept
<1>2. P \in SUBSET (DOMAIN s)
  OBVIOUS
<1>3. ToSet(s) \cap S = {s[i] : i \in P}
  BY DEF ToSet
<1>4. Len(s) > 0 /\ Last(s) \in S => Len(s) \in P
  BY DEF Last
<1> HIDE DEF P
<1> QED BY <1>1, <1>2, <1>3, <1>4, EntriesFacts

\* What comes first of its kind.
LEMMA FirstPlace ==
    ASSUME NEW T, NEW s \in Seq(T), NEW x \in ToSet(s)
    PROVE  \E i \in DOMAIN s : s[i] = x /\ \A j \in 1..(i - 1) : s[j] # x
<1> DEFINE hits == {i \in DOMAIN s : s[i] = x}
<1>1. hits # {} /\ hits \subseteq Nat
  BY DEF ToSet
<1>2. PICK i \in hits : \A j \in hits : ~ (<<j, i>> \in OpToRel(<, Nat))
  BY <1>1, NatLessThanWellFounded, WFMin
<1>3. \A j \in hits : ~ (j < i)
  BY <1>1, <1>2 DEF OpToRel
<1>4. i \in DOMAIN s /\ s[i] = x
  BY <1>2
<1>5. ASSUME NEW j \in 1..(i - 1) PROVE s[j] # x
  <2>1. i \in 1..Len(s) /\ Len(s) \in Nat
    BY <1>4
  <2>2. j \in 1..Len(s) /\ j < i
    BY <2>1
  <2> QED BY <1>3, <2>2
<1> QED BY <1>4, <1>5

\* Removing repetitions removes nothing else.
LEMMA DistinctFacts ==
    ASSUME NEW T, NEW s \in Seq(T)
    PROVE  Distinct(s) \in Seq(T) /\ ToSet(Distinct(s)) = ToSet(s)
<1> DEFINE P == {i \in DOMAIN s : \A j \in 1..(i - 1) : s[j] # s[i]}
<1>1. Distinct(s) = Entries(s, P)
  BY DEF Distinct
<1>2. P \in SUBSET (DOMAIN s)
  OBVIOUS
<1>3. {s[i] : i \in P} \subseteq ToSet(s)
  BY DEF ToSet
<1>4. ASSUME NEW x \in ToSet(s) PROVE \E i \in P : s[i] = x
  BY FirstPlace
<1>5. {s[i] : i \in P} = ToSet(s)
  BY <1>3, <1>4
<1> HIDE DEF P
<1> QED BY <1>1, <1>2, <1>5, EntriesFacts

\* list.remove on a list without repetitions.
LEMMA WithoutFirstFacts ==
    ASSUME NEW T, NEW s \in Seq(T), IsInjective(s), NEW x \in ToSet(s)
    PROVE  /\ WithoutFirst(s, x) \in Seq(T) /\ IsInjective(WithoutFirst(s, x))
           /\ ToSet(WithoutFirst(s, x)) = ToSet(s) \ {x}
<1>1. PICK i \in DOMAIN s : s[i] = x
  BY DEF ToSet
<1>2. {j \in DOMAIN s : s[j] = x} = {i}
  BY <1>1 DEF IsInjective
<1>3. Min({i}) = i
  BY DEF Min
<1> DEFINE P == DOMAIN s \ {i}
<1>4. WithoutFirst(s, x) = Entries(s, P)
  BY <1>2, <1>3 DEF WithoutFirst
<1>5. {s[j] : j \in P} = ToSet(s) \ {x}
  BY <1>1 DEF ToSet, IsInjective
<1>6. P \in SUBSET (DOMAIN s)
  OBVIOUS
<1> HIDE DEF P
<1> QED BY <1>4, <1>5, <1>6, EntriesFacts

\* Concatenation adds up the members.
LEMMA ConcatFacts ==
    ASSUME NEW T, NEW s \in Seq(T), NEW t \in Seq(T)
    PROVE  s \o t \in Seq(T) /\ ToSet(s \o t) = ToSet(s) \cup ToSet(t)
<1>1. s \o t \in Seq(T) /\ Len(s \o t) = Len(s) + Len(t)
  OBVIOUS
<1>2. ASSUME NEW x \in ToSet(s \o t) PROVE x \in ToSet(s) \cup ToSet(t)
  <2>1. PICK i \in 1..(Len(s) + Len(t)) : (s \o t)[i] = x
    BY <1>1, <1>2 DEF ToSet
  <2>2. CASE i <= Len(s)
    BY <2>1, <2>2 DEF ToSet
  <2>3. CASE ~ (i <= Len(s))
    <3>1. (s \o t)[i] = t[i - Len(s)] /\ i - Len(s) \in 1..Len(t)
      BY <2>1, <2>3
    <3> QED BY <2>1, <3>1 DEF ToSet
  <2> QED BY <2>2, <2>3
<1>3. ASSUME NEW i \in 1..Len(s) PROVE s[i] \in ToSet(s \o t)
  <2>1. (s \o t)[i] = s[i] /\ i \in 1..Len(s \o t)
    BY <1>1, <1>3
  <2> QED BY <1>1, <2>1 DEF ToSet
<1>4. ASSUME NEW i \in 1..Len(t) PROVE t[i] \in ToSet(s \o t)
  <2>1. (s \o t)[Len(s) + i] = t[i] /\ Len(s) + i \in 1..Len(s \o t)
    BY <1>1, <1>4
  <2> QED BY <1>1, <2>1 DEF ToSet
<1>5. ToSet(s) \subseteq ToSet(s \o t) /\ ToSet(t) \subseteq ToSet(s \o t)
  <2>1. DOMAIN s = 1..Len(s) /\ DOMAIN t = 1..Len(t)
    OBVIOUS
  <2>2. ToSet(s) = {s[i] : i \in 1..Len(s)} /\ ToSet(t) = {t[i] : i \in 1..Len(t)}
    BY <2>1 DEF ToSet
  <2> QED BY <1>3, <1>4, <2>2
<1> QED BY <1>1, <1>2, <1>5

\* The concatenation of the first sequences, one after the other, exists.
LEMMA Concatenated ==
    ASSUME NEW q, NEW n \in Nat
    PROVE  \E g : g = [i \in 1..n |-> IF i = 1 THEN q[i] ELSE g[i - 1] \o q[i]]
<1> DEFINE Upto(m) == \E g : g = [i \in 1..m |-> IF i = 1 THEN q[i] ELSE g[i - 1] \o q[i]]
           B == {m \in Nat : Upto(m)}
<1>1. Upto(0)
  <2> DEFINE g == [i \in 1..0 |-> q[i]]
  <2>1. g = [i \in 1..0 |-> IF i = 1 THEN q[i] ELSE g[i - 1] \o q[i]]
    OBVIOUS
  <2> QED BY <2>1
<1>2. ASSUME NEW m \in Nat, Upto(m) PROVE Upto(m + 1)
  <2>1. PICK g : g = [i \in 1..m |-> IF i = 1 THEN q[i] ELSE g[i - 1] \o q[i]]
    BY <1>2
  <2> DEFINE next == IF m = 0 THEN q[1] ELSE g[m] \o q[m + 1]
             h == [i \in 1..(m + 1) |-> IF i = m + 1 THEN next ELSE g[i]]
  <2> HIDE DEF next
  <2>2. \A i \in 1..m : h[i] = g[i] /\ i \in 1..(m + 1)
    OBVIOUS
  <2>3. h[m + 1] = next
    OBVIOUS
  <2>4. ASSUME NEW i \in 1..(m + 1)
        PROVE  h[i] = IF i = 1 THEN q[i] ELSE h[i - 1] \o q[i]
    <3> HIDE DEF h
    <3>1. CASE i = m + 1 /\ m = 0
      BY <2>3, <3>1 DEF next
    <3>2. CASE i = m + 1 /\ m # 0
      <4>1. m \in 1..m /\ i - 1 = m /\ i # 1
        BY <3>2
      <4>2. h[m] = g[m]
        BY <2>2, <4>1
      <4> QED BY <2>3, <3>2, <4>1, <4>2 DEF next
    <3>3. CASE i # m + 1
      <4>1. i \in 1..m /\ (i # 1 => i - 1 \in 1..m)
        BY <3>3
      <4>2. g[i] = IF i = 1 THEN q[i] ELSE g[i - 1] \o q[i]
        BY <2>1, <4>1
      <4> QED BY <2>2, <4>1, <4>2
    <3> QED BY <3>1, <3>2, <3>3
  <2>5. h = [i \in 1..(m + 1) |-> h[i]]
    OBVIOUS
  <2> HIDE DEF h
  <2>6. h = [i \in 1..(m + 1) |-> IF i = 1 THEN q[i] ELSE h[i - 1] \o q[i]]
    BY <2>4, <2>5
  <2> QED BY <2>6
<1> HIDE DEF Upto
<1>3. 0 \in B /\ \A m \in Nat : m \in B => m + 1 \in B
  BY <1>1, <1>2
<1> HIDE DEF B
<1>4. Nat \subseteq B
  BY <1>3, NumbersFollow
<1> QED BY <1>4 DEF B, Upto

\* Flattening keeps every member of every sequence, and adds none.
LEMMA FlattenFacts ==
    ASSUME NEW T, NEW n \in Nat, NEW q \in [1..n -> Seq(T)]
    PROVE  /\ FlattenSeq(q) \in Seq(T)
           /\ ToSet(FlattenSeq(q)) = UNION {ToSet(q[i]) : i \in 1..n}
<1>1. q \in Seq(Seq(T)) /\ Len(q) = n
  OBVIOUS
<1>2. CASE n = 0
  <2>1. FlattenSeq(q) = q
    BY <1>1, <1>2 DEF FlattenSeq
  <2>2. q \in Seq(T) /\ DOMAIN q = {} /\ 1..n = {}
    BY <1>1, <1>2
  <2> QED BY <2>1, <2>2 DEF ToSet
<1>3. CASE n # 0
  <2> DEFINE F == CHOOSE g : g = [i \in 1..n |-> IF i = 1 THEN q[i] ELSE g[i - 1] \o q[i]]
  <2>1. F = [i \in 1..n |-> IF i = 1 THEN q[i] ELSE F[i - 1] \o q[i]]
    BY Concatenated, Zenon
  <2>2. FlattenSeq(q) = F[n]
    <3>1. Len(q) # 0
      BY <1>1, <1>3
    <3> QED BY <1>1, <3>1, Zenon DEF FlattenSeq
  <2> HIDE DEF F
  <2> DEFINE Fine(m) == /\ F[m] \in Seq(T)
                        /\ ToSet(F[m]) = UNION {ToSet(q[i]) : i \in 1..m}
             B == {m \in Nat : m \in 1..n => Fine(m)}
  <2>3. ASSUME NEW m \in Nat, m \in B, m + 1 \in 1..n PROVE Fine(m + 1)
    <3>1. q[m + 1] \in Seq(T)
      BY <2>3
    <3>2. CASE m = 0
      <4>1. F[1] = q[1] /\ 1..1 = {1}
        BY <2>1, <2>3, <3>2
      <4> QED BY <3>1, <3>2, <4>1
    <3>3. CASE m # 0
      <4>1. m \in 1..n /\ m + 1 # 1 /\ (m + 1) - 1 = m /\ 1..(m + 1) = (1..m) \cup {m + 1}
        BY <2>3, <3>3
      <4>2. F[m + 1] = F[m] \o q[m + 1]
        BY <2>1, <2>3, <4>1
      <4>3. Fine(m)
        BY <2>3, <4>1
      <4>4. F[m + 1] \in Seq(T) /\ ToSet(F[m + 1]) = ToSet(F[m]) \cup ToSet(q[m + 1])
        BY <3>1, <4>2, <4>3, ConcatFacts
      <4> QED BY <4>1, <4>3, <4>4
    <3> QED BY <3>2, <3>3
  <2> HIDE DEF Fine
  <2>4. 0 \in B /\ \A m \in Nat : m \in B => m + 1 \in B
    BY <2>3
  <2> HIDE DEF B
  <2>5. Nat \subseteq B
    BY <2>4, NumbersFollow
  <2>6. n \in B /\ n \in 1..n
    BY <1>3, <2>5
  <2>7. Fine(n)
    BY <2>6 DEF B
  <2> QED BY <2>2, <2>7 DEF Fine
<1> QED BY <1>2, <1>3

\* A set of positions has a last one.
LEMMA LastPlace ==
    ASSUME NEW n \in Nat, NEW S \in SUBSET (1..n), S # {}
    PROVE  Max(S) \in S /\ \A i \in S : i <= Max(S)
<1> DEFINE D == {n - i : i \in S}
<1>1. D # {} /\ D \subseteq Nat
  <2>1. \A i \in S : i \in Nat /\ i <= n
    OBVIOUS
  <2>2. \A i \in S : n - i \in Nat
    BY <2>1
  <2> QED BY <2>2
<1>2. PICK d \in D : \A e \in D : ~ (<<e, d>> \in OpToRel(<, Nat))
  BY <1>1, NatLessThanWellFounded, WFMin
<1>3. \A e \in D : ~ (e < d)
  BY <1>1, <1>2 DEF OpToRel
<1>4. PICK k \in S : d = n - k
  BY <1>2
<1>5. \A i \in S : i \in Nat /\ i <= k
  <2> SUFFICES ASSUME NEW i \in S PROVE i \in Nat /\ i <= k
    OBVIOUS
  <2>1. i \in Nat /\ k \in Nat /\ ~ (n - i < n - k)
    BY <1>3, <1>4
  <2> QED BY <2>1
<1>6. \E x \in S : \A y \in S : x >= y
  BY <1>4, <1>5
<1>7. Max(S) \in S /\ \A y \in S : Max(S) >= y
  BY <1>6 DEF Max
<1> QED BY <1>5, <1>7

\* A part of a sequence, from the front or the back.
LEMMA SplitFacts ==
    ASSUME NEW T, NEW s \in Seq(T), NEW c \in 0..Len(s)
    PROVE  /\ SubSeq(s, 1, c) \in Seq(T) /\ SubSeq(s, c + 1, Len(s)) \in Seq(T)
           /\ ToSet(s) = ToSet(SubSeq(s, 1, c)) \cup ToSet(SubSeq(s, c + 1, Len(s)))
<1>1. Len(s) \in Nat /\ c \in Nat /\ c <= Len(s)
  OBVIOUS
<1>2. /\ SubSeq(s, 1, c) \in Seq(T) /\ Len(SubSeq(s, 1, c)) = c
      /\ \A i \in 1..c : SubSeq(s, 1, c)[i] = s[i]
  BY <1>1
<1>3. /\ SubSeq(s, c + 1, Len(s)) \in Seq(T) /\ Len(SubSeq(s, c + 1, Len(s))) = Len(s) - c
      /\ \A i \in 1..(Len(s) - c) : SubSeq(s, c + 1, Len(s))[i] = s[c + i]
  BY <1>1
<1>4. /\ DOMAIN s = 1..Len(s) /\ DOMAIN SubSeq(s, 1, c) = 1..c
      /\ DOMAIN SubSeq(s, c + 1, Len(s)) = 1..(Len(s) - c)
  BY <1>2, <1>3
<1> DEFINE front == SubSeq(s, 1, c)
           back  == SubSeq(s, c + 1, Len(s))
<1> HIDE DEF front, back
<1>5. ASSUME NEW i \in 1..Len(s) PROVE s[i] \in ToSet(front) \cup ToSet(back)
  <2>1. CASE i <= c
    <3>1. i \in 1..c
      BY <1>1, <2>1
    <3> QED BY <1>2, <1>4, <3>1 DEF ToSet, front
  <2>2. CASE ~ (i <= c)
    <3>1. i - c \in 1..(Len(s) - c) /\ c + (i - c) = i
      BY <1>1, <2>2
    <3>2. back[i - c] = s[i]
      BY <1>3, <3>1 DEF back
    <3> QED BY <1>4, <3>1, <3>2 DEF ToSet, back
  <2> QED BY <2>1, <2>2
<1>6. ASSUME NEW i \in 1..c PROVE front[i] \in ToSet(s)
  <2>1. i \in 1..Len(s) /\ front[i] = s[i]
    BY <1>1, <1>2 DEF front
  <2> QED BY <1>4, <2>1 DEF ToSet
<1>7. ASSUME NEW i \in 1..(Len(s) - c) PROVE back[i] \in ToSet(s)
  <2>1. c + i \in 1..Len(s) /\ back[i] = s[c + i]
    BY <1>1, <1>3 DEF back
  <2> QED BY <1>4, <2>1 DEF ToSet
<1>8. ToSet(s) \subseteq ToSet(front) \cup ToSet(back)
  BY <1>4, <1>5 DEF ToSet
<1>9. ToSet(front) \subseteq ToSet(s) /\ ToSet(back) \subseteq ToSet(s)
  <2>1. DOMAIN front = 1..c /\ DOMAIN back = 1..(Len(s) - c)
    BY <1>4 DEF front, back
  <2> QED BY <1>6, <1>7, <2>1 DEF ToSet
<1> QED BY <1>2, <1>3, <1>8, <1>9 DEF front, back

\* Task kernels go in and nothing is lost, wherever the constitutional kernels are.
LEMMA InsertFacts ==
    ASSUME NEW T, NEW active \in Seq(T), NEW tasks \in Seq(T)
    PROVE  /\ InsertTasks(active, tasks) \in Seq(T)
           /\ ToSet(InsertTasks(active, tasks)) = ToSet(active) \cup ToSet(tasks)
<1> DEFINE new == Kept(tasks, ToSet(tasks) \ ToSet(active))
           law == {i \in DOMAIN active : active[i] \in Constitutional}
           cut == IF law = {} THEN Len(active) ELSE Max(law)
           front == SubSeq(active, 1, cut)
           back  == SubSeq(active, cut + 1, Len(active))
<1>1. InsertTasks(active, tasks) = front \o new \o back
  BY DEF InsertTasks
<1>2. new \in Seq(T) /\ ToSet(new) = ToSet(tasks) \ ToSet(active)
  <2>1. ToSet(tasks) \cap (ToSet(tasks) \ ToSet(active)) = ToSet(tasks) \ ToSet(active)
    OBVIOUS
  <2> QED BY <2>1, KeptFacts
<1>3. cut \in 0..Len(active)
  <2>1. Len(active) \in Nat /\ law \in SUBSET (1..Len(active))
    OBVIOUS
  <2> HIDE DEF law
  <2>2. CASE law = {}
    BY <2>1, <2>2
  <2>3. CASE law # {}
    <3>1. Max(law) \in law
      BY <2>1, <2>3, LastPlace
    <3>2. Max(law) \in 1..Len(active)
      BY <2>1, <3>1
    <3> QED BY <2>1, <2>3, <3>2
  <2> QED BY <2>2, <2>3
<1> HIDE DEF cut, new
<1>4. /\ front \in Seq(T) /\ back \in Seq(T)
      /\ ToSet(active) = ToSet(front) \cup ToSet(back)
  BY <1>3, SplitFacts
<1> HIDE DEF front, back
<1> DEFINE first == front \o new
<1>5. first \in Seq(T) /\ ToSet(first) = ToSet(front) \cup ToSet(new)
  BY <1>2, <1>4, ConcatFacts
<1>6. InsertTasks(active, tasks) = first \o back
  BY <1>1
<1> HIDE DEF first
<1>7. first \o back \in Seq(T) /\ ToSet(first \o back) = ToSet(first) \cup ToSet(back)
  BY <1>4, <1>5, ConcatFacts
<1> QED BY <1>2, <1>4, <1>5, <1>6, <1>7

-----------------------------------------------------------------------------
(* What the planner makes under a coherent pack. *)

\* Some route has the highest score and is the first one that has.
LEMMA SomeRouteWins ==
    ASSUME NEW n \in Nat \ {0}, NEW score, \A i \in 1..n : score[i] \in Nat
    PROVE  \E i \in 1..n : \A j \in 1..n :
              score[j] <= score[i] /\ (j < i => score[j] < score[i])
<1> DEFINE Wins(i, m) == \A j \in 1..m : score[j] <= score[i] /\ (j < i => score[j] < score[i])
           B == {m \in Nat : m \in 1..n => \E i \in 1..m : Wins(i, m)}
<1>1. 0 \in B
  OBVIOUS
<1>2. ASSUME NEW m \in Nat, m \in B, m + 1 \in 1..n
      PROVE  \E i \in 1..(m + 1) : Wins(i, m + 1)
  <2>1. CASE m = 0
    <3>1. 1..(m + 1) = {1} /\ score[1] \in Nat
      BY <1>2, <2>1
    <3> QED BY <3>1
  <2>2. CASE m # 0
    <3>1. m \in 1..n
      BY <1>2, <2>2
    <3>2. PICK i \in 1..m : Wins(i, m)
      BY <1>2, <3>1
    <3>3. /\ i \in 1..n /\ score[i] \in Nat /\ score[m + 1] \in Nat /\ i < m + 1
          /\ \A j \in 1..(m + 1) : j \in 1..m \/ j = m + 1
          /\ \A j \in 1..m : score[j] \in Nat /\ j \in Nat
      BY <1>2, <3>1
    <3>4. CASE score[m + 1] <= score[i]
      <4>1. Wins(i, m + 1)
        BY <3>2, <3>3, <3>4
      <4> QED BY <3>3, <4>1
    <3>5. CASE ~ (score[m + 1] <= score[i])
      <4>1. Wins(m + 1, m + 1)
        BY <3>2, <3>3, <3>5
      <4> QED BY <3>3, <4>1
    <3> QED BY <3>4, <3>5
  <2> QED BY <2>1, <2>2
<1>3. \A m \in Nat : m \in B => m + 1 \in B
  <2> HIDE DEF Wins
  <2> QED BY <1>2
<1> HIDE DEF B
<1>4. Nat \subseteq B
  BY <1>1, <1>3, NumbersFollow
<1>5. n \in B /\ n \in 1..n
  BY <1>4
<1> QED BY <1>5 DEF B

\* A mission is matched with a route of the rules.
LEMMA RouteIsListed ==
    ASSUME NEW p, p.routes \in Seq(ToSet(p.routes)), p.routes # <<>>,
           NEW mission, mission.score \in [ToSet(p.routes) -> Nat]
    PROVE  MatchRoute(p, mission) \in ToSet(p.routes)
<1> DEFINE n == Len(p.routes)
           score == [i \in 1..n |-> mission.score[p.routes[i]]]
           best == CHOOSE i \in DOMAIN p.routes :
                     \A j \in DOMAIN p.routes :
                        /\ mission.score[p.routes[j]] <= mission.score[p.routes[i]]
                        /\ j < i => mission.score[p.routes[j]] < mission.score[p.routes[i]]
<1>1. n \in Nat \ {0} /\ DOMAIN p.routes = 1..n
  OBVIOUS
<1>2. \A i \in 1..n : p.routes[i] \in ToSet(p.routes)
  BY <1>1 DEF ToSet
<1>3. \A i \in 1..n : score[i] \in Nat
  BY <1>2
<1>4. \E i \in 1..n : \A j \in 1..n : score[j] <= score[i] /\ (j < i => score[j] < score[i])
  <2> HIDE DEF score, n
  <2> QED BY <1>1, <1>3, SomeRouteWins
<1>5. \E i \in DOMAIN p.routes :
         \A j \in DOMAIN p.routes :
            /\ mission.score[p.routes[j]] <= mission.score[p.routes[i]]
            /\ j < i => mission.score[p.routes[j]] < mission.score[p.routes[i]]
  BY <1>1, <1>4
<1>6. best \in DOMAIN p.routes
  BY <1>5
<1>7. MatchRoute(p, mission) = p.routes[best]
  BY DEF MatchRoute
<1> QED BY <1>1, <1>2, <1>6, <1>7

\* What the phases of a plan list as primary kernels is what goes in, but for P2.
LEMMA PrimaryFacts ==
    ASSUME NEW p, NEW S, NEW phases \in Seq(S),
           \A phase \in ToSet(phases) : p.primary[phase] \in Seq(p.files)
    PROVE  /\ PrimaryKernels(p, phases) \in Seq(p.files)
           /\ \A k : k \in ToSet(PrimaryKernels(p, phases)) <=>
                \E phase \in ToSet(phases) \ {"P2"} : k \in ToSet(p.primary[phase])
<1> DEFINE n == Len(phases)
           q == [i \in DOMAIN phases |-> IF phases[i] = "P2" THEN <<>> ELSE p.primary[phases[i]]]
<1>1. n \in Nat /\ DOMAIN phases = 1..n
  OBVIOUS
<1>2. \A i \in 1..n : phases[i] \in ToSet(phases)
  BY <1>1 DEF ToSet
<1>3. ASSUME NEW i \in 1..n PROVE q[i] \in Seq(p.files)
  <2>1. q[i] = IF phases[i] = "P2" THEN <<>> ELSE p.primary[phases[i]]
    BY <1>1
  <2>2. <<>> \in Seq(p.files) /\ p.primary[phases[i]] \in Seq(p.files)
    BY <1>2
  <2> HIDE DEF q, n
  <2> QED BY <2>1, <2>2
<1>4. q \in [1..n -> Seq(p.files)]
  BY <1>1, <1>3
<1>5. PrimaryKernels(p, phases) = Distinct(FlattenSeq(q))
  BY DEF PrimaryKernels
<1>6. \A k : k \in UNION {ToSet(q[i]) : i \in 1..n} <=>
        \E phase \in ToSet(phases) \ {"P2"} : k \in ToSet(p.primary[phase])
  <2>1. ASSUME NEW i \in 1..n, NEW k \in ToSet(q[i])
        PROVE  phases[i] # "P2" /\ k \in ToSet(p.primary[phases[i]])
    <3>1. phases[i] # "P2"
      <4>1. ToSet(<<>>) = {}
        BY DEF ToSet
      <4> QED BY <1>1, <2>1, <4>1
    <3> QED BY <1>1, <2>1, <3>1
  <2>2. ASSUME NEW phase \in ToSet(phases) \ {"P2"}, NEW k \in ToSet(p.primary[phase])
        PROVE  \E i \in 1..n : k \in ToSet(q[i])
    <3>1. PICK i \in 1..n : phases[i] = phase
      BY <1>1, <2>2 DEF ToSet
    <3>2. q[i] = p.primary[phase]
      BY <1>1, <2>2, <3>1
    <3> QED BY <2>2, <3>2
  <2> HIDE DEF q, n
  <2>3. ASSUME NEW k, k \in UNION {ToSet(q[i]) : i \in 1..n}
        PROVE  \E phase \in ToSet(phases) \ {"P2"} : k \in ToSet(p.primary[phase])
    <3>1. PICK i \in 1..n : k \in ToSet(q[i])
      BY <2>3
    <3> QED BY <1>2, <2>1, <3>1
  <2>4. ASSUME NEW k, NEW phase \in ToSet(phases) \ {"P2"}, k \in ToSet(p.primary[phase])
        PROVE  k \in UNION {ToSet(q[i]) : i \in 1..n}
    BY <2>2, <2>4
  <2> QED BY <2>3, <2>4
<1> HIDE DEF q, n
<1>7. /\ FlattenSeq(q) \in Seq(p.files)
      /\ ToSet(FlattenSeq(q)) = UNION {ToSet(q[i]) : i \in 1..n}
  BY <1>1, <1>4, FlattenFacts
<1>8. /\ Distinct(FlattenSeq(q)) \in Seq(p.files)
      /\ ToSet(Distinct(FlattenSeq(q))) = ToSet(FlattenSeq(q))
  BY <1>7, DistinctFacts
<1> QED BY <1>5, <1>6, <1>7, <1>8

\* A plan that the stages can follow: what is activated is invoked by some phase.
Fits(q, p) ==
    /\ q.phases \in Seq(CanonicalPhases) /\ IsInjective(q.phases)
    /\ ToSet(q.phases) \subseteq ToSet(p.order)
    /\ {"P0", "P1", "P2"} \subseteq ToSet(q.phases)
    /\ q.materiality.required => "P3" \in ToSet(q.phases)
    /\ q.terminal_allowed <=> "P7" \in ToSet(q.phases)
    /\ ~ q.blocked
    /\ q.active \in Seq(p.files)
    /\ \A k \in ToSet(q.active) : \E phase \in ToSet(q.phases) : k \in ToSet(p.primary[phase])
    /\ \A phase \in ToSet(q.phases) \ {"P2"} :
          ToSet(p.primary[phase]) \subseteq ToSet(q.active) \cup {FV}

\* The planner makes such plans under a coherent pack.  When the terminal phase is
\* struck out its only kernel goes with it.
LEMMA PlansFit ==
    ASSUME NEW p, Coherent(p), NEW r, r.mission.score \in [ToSet(p.routes) -> Nat]
    PROVE  Fits(Plan(p, r), p)
<1> DEFINE route == p.route[MatchRoute(p, r.mission)]
           mat   == Materiality(p, r.mission, r.signals)
           asked == AskedPhases(p, route, r, mat)
           ordered == Kept(p.order, asked)
           primary == PrimaryKernels(p, ordered)
           active  == InsertTasks(primary, route.tasks)
           allowed == r.mission.phrase \/ r.include_terminal
           struck  == Contains(ordered, "P7") /\ ~ allowed
           phases  == IF struck THEN WithoutFirst(ordered, "P7") ELSE ordered
           kernels == IF struck THEN Kept(active, ToSet(active) \ {FV}) ELSE active
           q == Plan(p, r)
<1>1. /\ q.phases = phases /\ q.active = kernels /\ q.materiality = mat
      /\ q.terminal_allowed = (Contains(ordered, "P7") /\ allowed)
      /\ q.blocked = (r.mission.l9 /\ ~ Contains(phases, "P1"))
  BY DEF Plan
<1>2. /\ route.tasks \in Seq(ToSet(p.primary["P2"]))
      /\ {"P0", "P1", "P2"} \subseteq asked /\ (mat.required => "P3" \in asked)
  <2>1. MatchRoute(p, r.mission) \in ToSet(p.routes)
    BY RouteIsListed DEF Coherent
  <2>2. route.tasks \in Seq(ToSet(p.primary["P2"])) /\ {"P0", "P1", "P2"} \subseteq route.phases
    BY <2>1 DEF Coherent
  <2> HIDE DEF route, mat
  <2>3. route.phases \subseteq asked /\ (mat.required => "P3" \in asked)
    BY DEF AskedPhases, Coherent
  <2> QED BY <2>2, <2>3
<1> HIDE DEF q, mat, asked, route
<1>3. /\ ordered \in Seq(CanonicalPhases) /\ IsInjective(ordered)
      /\ ToSet(ordered) = ToSet(p.order) \cap asked
  BY KeptFacts DEF Coherent
<1>4. {"P0", "P1", "P2"} \subseteq ToSet(ordered) /\ (mat.required => "P3" \in ToSet(ordered))
  BY <1>2, <1>3 DEF Coherent
<1> HIDE DEF ordered
<1>5. \A phase \in ToSet(ordered) : p.primary[phase] \in Seq(p.files)
  BY <1>3 DEF Coherent
<1>6. /\ primary \in Seq(p.files)
      /\ \A k : k \in ToSet(primary) <=>
           \E phase \in ToSet(ordered) \ {"P2"} : k \in ToSet(p.primary[phase])
  BY <1>3, <1>5, PrimaryFacts
<1> HIDE DEF primary
<1>7. route.tasks \in Seq(p.files) /\ ToSet(route.tasks) \subseteq ToSet(p.primary["P2"])
  <2>1. p.primary["P2"] \in Seq(p.files)
    BY <1>4, <1>5
  <2>2. ToSet(p.primary["P2"]) \subseteq p.files
    BY <2>1 DEF ToSet
  <2>3. \A i \in DOMAIN route.tasks : route.tasks[i] \in ToSet(p.primary["P2"])
    BY <1>2
  <2>4. route.tasks \in Seq(p.files)
    BY <1>2, <2>2
  <2> QED BY <2>3, <2>4 DEF ToSet
<1>8. active \in Seq(p.files) /\ ToSet(active) = ToSet(primary) \cup ToSet(route.tasks)
  BY <1>6, <1>7, InsertFacts
<1> HIDE DEF active
<1>9. \A k \in ToSet(active) : \E phase \in ToSet(ordered) : k \in ToSet(p.primary[phase])
  BY <1>4, <1>6, <1>7, <1>8
<1>10. \A phase \in ToSet(ordered) \ {"P2"} : ToSet(p.primary[phase]) \subseteq ToSet(active)
  BY <1>6, <1>8
<1>11. Contains(ordered, "P7") <=> "P7" \in ToSet(ordered)
  <2>1. DOMAIN ordered = 1..Len(ordered)
    BY <1>3
  <2> QED BY <2>1 DEF Contains, ToSet
<1>12. /\ phases \in Seq(CanonicalPhases) /\ IsInjective(phases)
       /\ ToSet(phases) = IF struck THEN ToSet(ordered) \ {"P7"} ELSE ToSet(ordered)
  BY <1>3, <1>11, WithoutFirstFacts
<1>13. /\ kernels \in Seq(p.files)
       /\ ToSet(kernels) = IF struck THEN ToSet(active) \ {FV} ELSE ToSet(active)
  <2>1. ToSet(active) \cap (ToSet(active) \ {FV}) = ToSet(active) \ {FV}
    OBVIOUS
  <2> QED BY <1>8, <2>1, KeptFacts
<1> HIDE DEF phases, kernels
<1>14. \A k \in ToSet(kernels) : \E phase \in ToSet(phases) : k \in ToSet(p.primary[phase])
  <2> SUFFICES ASSUME NEW k \in ToSet(kernels)
               PROVE  \E phase \in ToSet(phases) : k \in ToSet(p.primary[phase])
    OBVIOUS
  <2>1. PICK phase \in ToSet(ordered) : k \in ToSet(p.primary[phase])
    BY <1>9, <1>13
  <2>2. CASE struck /\ phase = "P7"
    <3>1. k = FV
      BY <1>3, <2>1, <2>2 DEF Coherent
    <3> QED BY <1>13, <2>2, <3>1
  <2>3. CASE ~ (struck /\ phase = "P7")
    BY <1>12, <2>1, <2>3
  <2> QED BY <2>2, <2>3
<1>15. \A phase \in ToSet(phases) \ {"P2"} :
          ToSet(p.primary[phase]) \subseteq ToSet(kernels) \cup {FV}
  BY <1>10, <1>12, <1>13
<1>16. Contains(phases, "P1")
  <2>1. DOMAIN phases = 1..Len(phases) /\ "P1" \in ToSet(phases)
    BY <1>4, <1>12
  <2> QED BY <2>1 DEF Contains, ToSet
<1>17. /\ ToSet(phases) \subseteq ToSet(p.order)
       /\ {"P0", "P1", "P2"} \subseteq ToSet(phases)
       /\ mat.required => "P3" \in ToSet(phases)
       /\ (Contains(ordered, "P7") /\ allowed) <=> "P7" \in ToSet(phases)
  BY <1>3, <1>4, <1>11, <1>12
<1> HIDE DEF struck, allowed
<1>18. Fits(q, p)
  BY <1>1, <1>12, <1>13, <1>14, <1>15, <1>16, <1>17 DEF Fits
<1> QED BY <1>18 DEF q

-----------------------------------------------------------------------------
(* The theorems. *)

\* INV-003, for every pack and every plan: a required obligation of a bundle is
\* realized by exactly one node, validated, handed on and in the packet
\* (conserve, conserve_ids, validate_packet, the liveness ladder).
THEOREM ObligationsAreConserved == Spec => []ObligationsConserved
<1>1. ASSUME IInv PROVE ObligationsConserved
  <2> SUFFICES ASSUME Compiled, NEW o \in obligations, o.required
               PROVE  /\ Cardinality(Carriers(o.id)) = 1
                      /\ o.id \in packet.required
                      /\ o.id \in PropertyRefs(properties)
                      /\ o.id \in Ids(handoff)
    BY DEF ObligationsConserved
  <2>1. Cardinality(Carriers(o.id)) = 1
    BY <1>1, OneCarrier, FS_Singleton
  <2>2. o.id \in packet.required
    BY <1>1, RequiredInPacket
  <2>3. properties = PropertiesOf(execution) /\ execution.obligations = obligations /\ handoff = obligations
    BY <1>1, BundleFacts
  <2>4. EvidenceOf(o) \in properties /\ EvidenceOf(o).obligation = o.id
    BY <2>3 DEF PropertiesOf, EvidenceOf
  <2>5. o.id \in PropertyRefs(properties)
    BY <2>4 DEF PropertyRefs
  <2> QED BY <2>1, <2>2, <2>3, <2>5 DEF Ids
<1> QED BY <1>1, Invariance, PTL

\* INV-CTX-024, A0203, for every pack and every plan: blocking unknowns and an
\* unresolved mode are required to the end, and the caller's notes are carried
\* and block nothing (ObligationDeriver, the packet).
THEOREM UnknownsAreVisible == Spec => []UnknownsStayVisible
<1>1. ASSUME IInv PROVE UnknownsStayVisible
  <2> SUFFICES ASSUME Compiled
        PROVE  /\ \A u \in ToSet(request.unknowns) : <<"CONTEXT", u>> \in packet.required
               /\ Objective(request.mission).mode = "UNKNOWN" => Obl("RESOLUTION") \in packet.required
               /\ \A i \in DOMAIN request.notes :
                    /\ <<"NOTE", i>> \notin packet.required
                    /\ request.notes[i] # "realization_mode_UNKNOWN" => <<"NOTE", i>> \in Ids(handoff)
    BY DEF UnknownsStayVisible
  <2>1. obligations = Derived /\ handoff = Derived
    BY <1>1, BundleFacts
  <2>2. packet.required = {o.id : o \in {p \in Derived : p.required}}
    BY <1>1, <2>1, RequiredInPacket
  <2>3. ASSUME NEW u \in ToSet(request.unknowns) PROVE <<"CONTEXT", u>> \in packet.required
    <3>1. PICK i \in DOMAIN request.unknowns : u = request.unknowns[i]
      BY DEF ToSet
    <3>2. PICK o \in Derived : o.id = <<"CONTEXT", u>> /\ o.required
      BY <3>1, DerivedEntries
    <3> QED BY <2>2, <3>2
  <2>4. Objective(request.mission).mode = "UNKNOWN" => Obl("RESOLUTION") \in packet.required
    BY <2>2, DerivedEntries
  <2>5. ASSUME NEW i \in DOMAIN request.notes
        PROVE  /\ <<"NOTE", i>> \notin packet.required
               /\ request.notes[i] # "realization_mode_UNKNOWN" => <<"NOTE", i>> \in Ids(handoff)
    BY <2>1, <2>2, DerivedEntries, EntryFacts DEF Ids
  <2> QED BY <2>3, <2>4, <2>5
<1> QED BY <1>1, Invariance, PTL

\* DONE-010, A0702, for every pack and every plan: when the change is material
\* to the architecture, the Global Architect runs and its outputs are produced,
\* P3 answers for it, and temporal semantics bring evidence of their own
\* (validate_packet, the liveness ladder, ValidationContractCompiler).
THEOREM ArchitectureAnswers == Spec => []ArchitectureIsAnswered
<1>1. ASSUME IInv PROVE ArchitectureIsAnswered
  <2> SUFFICES ASSUME Compiled, plan.materiality.required
        PROVE  /\ \E i \in Invokers(GAR) : pack.outputs[GAR] \subseteq graph.nodes[i].outputs
               /\ \E i \in Carriers(Obl("ARCHITECTURE")) : graph.nodes[i].phase = "P3"
               /\ plan.materiality.temporal =>
                    Cardinality({p \in packet.properties : p.obligation = Obl("ARCHITECTURE")}) = 2
    BY DEF ArchitectureIsAnswered
  <2>1. PICK o \in obligations : o.id = Obl("ARCHITECTURE") /\ o.required
    BY <1>1, BundleFacts, DerivedEntries
  <2>2. \E i \in Invokers(GAR) : pack.outputs[GAR] \subseteq graph.nodes[i].outputs
    <3>1. /\ GAR \in packet.kernels /\ OutputsOf(GAR) # {} /\ packet = PacketOf
          /\ graph.nodes = Steps /\ Live
      BY <1>1, <2>1, BundleFacts, RequiredInPacket DEF ValidPacket
    <3>2. GAR \in ToSet(bindings) /\ pack.outputs[GAR] = OutputsOf(GAR)
      BY <3>1 DEF PacketOf, OutputsOf
    <3>3. PICK i \in DOMAIN graph.nodes : GAR \in graph.nodes[i].kernels
      BY <3>1, <3>2 DEF Live, KernelsLive, Invoked, Nodes
    <3>4. OutputsOf(GAR) \subseteq graph.nodes[i].outputs
      BY <3>1, <3>3, StepFacts
    <3> QED BY <3>2, <3>3, <3>4 DEF Invokers
  <2>3. \E i \in Carriers(Obl("ARCHITECTURE")) : graph.nodes[i].phase = "P3"
    <3>1. PICK i \in DOMAIN graph.nodes : Carriers(o.id) = {i}
      BY <1>1, <2>1, OneCarrier
    <3>2. graph.nodes[i].phase = KindPhase("ARCHITECTURE")
      BY <1>1, <2>1, <3>1, CarrierPhase, BundleFacts, EntryFacts
    <3>3. KindPhase("ARCHITECTURE") = "P3"
      BY DEF KindPhase
    <3> QED BY <2>1, <3>1, <3>2, <3>3
  <2>4. ASSUME plan.materiality.temporal
        PROVE  Cardinality({p \in packet.properties : p.obligation = Obl("ARCHITECTURE")}) = 2
    <3> DEFINE a == EvidenceOf(o)
               b == IdempotencyEvidence
               required == {p \in obligations : p.required}
    <3>1. packet.properties = PropertiesOf(execution) /\ execution.obligations = obligations
      BY <1>1, BundleFacts DEF PacketOf
    <3>2. packet.properties = {EvidenceOf(p) : p \in required} \cup {b}
      BY <2>1, <2>4, <3>1 DEF PropertiesOf, Ids
    <3>3. \A p \in required : EvidenceOf(p).obligation = p.id
      BY DEF EvidenceOf
    <3>4. \A p \in required : p.id = Obl("ARCHITECTURE") => EvidenceOf(p) = a
      BY <2>1 DEF EvidenceOf
    <3>5. b.obligation = Obl("ARCHITECTURE") /\ a.obligation = Obl("ARCHITECTURE")
      BY <2>1 DEF EvidenceOf, IdempotencyEvidence
    <3>6. a # b
      <4>1. a.property = <<"PROP", Obl("ARCHITECTURE")>>
        BY <2>1 DEF EvidenceOf
      <4>2. b.property = <<"PROP", "GAR", "IDEMPOTENCY">>
        BY DEF IdempotencyEvidence
      <4>3. <<"PROP", Obl("ARCHITECTURE")>> # <<"PROP", "GAR", "IDEMPOTENCY">>
        OBVIOUS
      <4> QED BY <4>1, <4>2, <4>3
    <3>7. {p \in packet.properties : p.obligation = Obl("ARCHITECTURE")} = {a} \cup {b}
      <4>1. a \in {EvidenceOf(p) : p \in required}
        BY <2>1
      <4> HIDE DEF b, a, required
      <4> QED BY <3>2, <3>3, <3>4, <3>5, <4>1
    <3> HIDE DEF a, b
    <3>8. IsFiniteSet({a}) /\ Cardinality({a}) = 1 /\ b \notin {a}
      BY <3>6, FS_Singleton
    <3>9. Cardinality({a} \cup {b}) = Cardinality({a}) + 1
      BY <3>8, FS_AddElement
    <3>10. Cardinality({a} \cup {b}) = 2
      BY <3>8, <3>9
    <3> QED BY <3>7, <3>10, Zenon
  <2> QED BY <2>2, <2>3, <2>4
<1> QED BY <1>1, Invariance, PTL

\* What is compiled was asked of a pack, and a plan that was not handed in is the
\* planner's.
PlannedOK == /\ pack \in Packs /\ request \in Requests(pack)
             /\ ~ supplied => plan = Plan(pack, request)

LEMMA PlansAreMade == Spec => []PlannedOK
<1>1. Init => PlannedOK
  BY DEF Init, PlannedOK
<1>2. PlannedOK /\ [Next]_vars => PlannedOK'
  <2> SUFFICES ASSUME PlannedOK, [Next]_vars PROVE PlannedOK'
    OBVIOUS
  <2>1. pack' = pack /\ request' = request /\ supplied' = supplied /\ plan' = plan
    BY InputsFixed DEF Inputs
  <2> QED BY <2>1 DEF PlannedOK
<1> QED BY <1>1, <1>2, PTL DEF Spec

\* Where phase_order ends with P7, so does a plan that allows it.
LEMMA TerminalLast ==
    ASSUME NEW p, p.order \in Seq(STRING), Last(p.order) = "P7",
           NEW r, Plan(p, r).terminal_allowed
    PROVE  Plan(p, r).phases \in Seq(STRING) /\ Last(Plan(p, r).phases) = "P7"
<1> DEFINE asked == AskedPhases(p, p.route[MatchRoute(p, r.mission)], r,
                                Materiality(p, r.mission, r.signals))
           ordered == Kept(p.order, asked)
<1>1. Contains(ordered, "P7") /\ (r.mission.phrase \/ r.include_terminal)
  BY DEF Plan
<1>2. Plan(p, r).phases = ordered
  BY <1>1 DEF Plan
<1> HIDE DEF asked
<1>3. ordered \in Seq(STRING) /\ ToSet(ordered) = ToSet(p.order) \cap asked
  BY KeptFacts
<1>4. "P7" \in ToSet(ordered)
  <2> HIDE DEF ordered
  <2>1. DOMAIN ordered = 1..Len(ordered)
    BY <1>3
  <2> QED BY <1>1, <2>1 DEF Contains, ToSet
<1>5. Len(p.order) > 0 /\ Last(p.order) \in asked
  <2>1. "P7" \in ToSet(p.order)
    BY <1>3, <1>4
  <2>2. Len(p.order) # 0
    BY <2>1 DEF ToSet
  <2> QED BY <1>3, <1>4, <2>2
<1>6. Last(ordered) = "P7"
  BY <1>5, KeptFacts
<1> QED BY <1>2, <1>3, <1>6

\* INV-008, for every pack and every plan, whatever the order of its phases: a
\* terminal step was allowed and is the one that answers for convergence, and
\* the graph claims CONVERGED exactly when it has one.  Where phase_order ends with
\* P7 it is the terminal node of every plan of the planner (the liveness ladder,
\* derive_execution_graph).
THEOREM TerminalCrosses == Spec => []TerminalCrossesConvergence
<1>1. ASSUME IInv, PlannedOK PROVE TerminalCrossesConvergence
  <2> SUFFICES ASSUME Compiled
        PROVE  /\ graph.disposition = "CONVERGED" <=> "P7" \in {n.phase : n \in Nodes}
               /\ \A i \in DOMAIN graph.nodes : graph.nodes[i].phase = "P7" =>
                    /\ plan.terminal_allowed
                    /\ ~ supplied /\ Last(pack.order) = "P7" => i = graph.terminal
                    /\ Carriers(Obl("CONVERGENCE")) = {i}
    BY DEF TerminalCrossesConvergence
  <2>1. /\ graph = GraphOf(execution) /\ graph.nodes = Steps /\ execution.steps = Steps
        /\ obligations = Derived /\ execution.obligations = obligations /\ Live
    BY <1>1, BundleFacts
  <2>2. graph.disposition = "CONVERGED" <=> "P7" \in {n.phase : n \in Nodes}
    BY <2>1 DEF GraphOf, Nodes
  <2>3. ASSUME NEW i \in DOMAIN graph.nodes, graph.nodes[i].phase = "P7"
        PROVE  /\ plan.terminal_allowed
               /\ ~ supplied /\ Last(pack.order) = "P7" => i = graph.terminal
               /\ Carriers(Obl("CONVERGENCE")) = {i}
    <3>1. plan.terminal_allowed
      BY <2>1, <2>3 DEF Live, TerminalLive
    <3>2. i \in DOMAIN plan.phases /\ plan.phases[i] = "P7"
      BY <2>1, <2>3, StepFacts
    <3>3. ASSUME ~ supplied, Last(pack.order) = "P7" PROVE i = graph.terminal
      <4>1. plan.phases \in Seq(STRING) /\ Last(plan.phases) = "P7"
        BY <1>1, <3>1, <3>3, TerminalLast, PacksAssumption DEF PlannedOK
      <4> DEFINE n == Len(plan.phases)
      <4>2. n \in DOMAIN plan.phases /\ plan.phases[n] = "P7"
        BY <3>2, <4>1 DEF Last
      <4>3. DOMAIN Steps = DOMAIN plan.phases /\ Len(Steps) = n
        BY <4>1 DEF Steps
      <4> HIDE DEF n
      <4>4. Steps[n].phase = "P7" /\ n \in DOMAIN Steps
        BY <4>2, <4>3, StepFacts
      <4>5. i = n
        BY <1>1, <2>1, <2>3, <4>4, BundleFacts DEF UniqueSteps
      <4> QED BY <2>1, <4>3, <4>5 DEF GraphOf
    <3>4. PICK o \in obligations : o.kind = "CONVERGENCE" /\ o.required
      BY <2>1, <3>1 DEF Live, TerminalLive
    <3>5. o.id = Obl("CONVERGENCE")
      BY <2>1, <3>4, EntryFacts
    <3>6. PICK j \in DOMAIN graph.nodes : Carriers(o.id) = {j}
      BY <1>1, <3>4, OneCarrier
    <3>7. graph.nodes[j].phase = KindPhase("CONVERGENCE")
      BY <1>1, <3>4, <3>6, CarrierPhase
    <3>8. KindPhase("CONVERGENCE") = "P7"
      <4>1. "P7" \in ToSet(plan.phases)
        BY <3>2 DEF ToSet
      <4> QED BY <4>1 DEF KindPhase
    <3>9. j = i
      BY <1>1, <2>1, <2>3, <3>7, <3>8, BundleFacts DEF UniqueSteps
    <3> QED BY <3>1, <3>3, <3>5, <3>6, <3>9
  <2> QED BY <2>2, <2>3
<1> QED BY <1>1, Invariance, PlansAreMade, PTL

-----------------------------------------------------------------------------
(* Owners and the steps that run them. *)

\* A kernel that is bound is a file of the pack: resolution went before all else.
Resolved == stage \in FromObligations => bindings \in Seq(pack.files)

\* Once resolved, kernels stay so: no stage binds another one.
LEMMA KernelsAreResolved == Spec => []Resolved
<1>1. Init => Resolved
  BY Behind DEF Init, Resolved
<1>2. ASSUME Resolved, [Next]_vars PROVE Resolved'
  <2>1. UNCHANGED <<pack, plan>>
    BY <1>2, InputsFixed DEF Inputs
  <2>2. UNCHANGED bindings
    BY <2>1 DEF bindings
  <2>3. stage' \in FromObligations => stage \in FromObligations \/ DeriveObligations
    <3>1. "refused" \notin FromObligations
      BY DEF FromObligations, FromExecution, FromValidation, FromHandoff, FromGraph, FromPacket,
             FromBundle
    <3>2. {"obligations", "execution", "validation", "handoff", "graph", "packet"}
            \subseteq FromObligations
      BY DEF FromObligations, FromExecution, FromValidation, FromHandoff, FromGraph, FromPacket,
             FromBundle
    <3> QED BY <1>2, <3>1, <3>2
            DEF Next, CompileExecution, CompileValidation, CompileHandoff, DeriveGraph,
                BuildPacket, ValidateLiveness, Refused, vars
  <2>4. ASSUME DeriveObligations, stage' \in FromObligations PROVE bindings \in Seq(pack.files)
    <3>1. ~ Refused
      BY <2>4 DEF Refused, FromObligations, FromExecution, FromValidation, FromHandoff, FromGraph,
                  FromPacket, FromBundle
    <3> QED BY <2>4, <3>1 DEF DeriveObligations, Resolvable, bindings
  <2> QED BY <1>2, <2>1, <2>2, <2>3, <2>4 DEF Resolved
<1> QED BY <1>1, <1>2, PTL DEF Spec

\* The first kernel of a family is bound and of that family.
LEMMA FirstOfIsOfFamily ==
    ASSUME NEW S, NEW b \in Seq(S), NEW family, NEW otherwise
    PROVE  FirstOf(b, family, otherwise) \in (family \cap ToSet(b)) \cup {otherwise}
<1> DEFINE hits == {i \in DOMAIN b : b[i] \in family}
<1>1. CASE hits = {}
  BY <1>1 DEF FirstOf
<1>2. CASE hits # {}
  <2>1. hits \subseteq Nat
    OBVIOUS
  <2>2. PICK i \in hits : \A j \in hits : ~ (<<j, i>> \in OpToRel(<, Nat))
    BY <1>2, <2>1, NatLessThanWellFounded, WFMin
  <2> HIDE DEF hits
  <2>3. \A j \in hits : i <= j
    <3>1. \A j \in hits : ~ (j < i)
      BY <2>1, <2>2 DEF OpToRel
    <3> QED BY <2>1, <3>1
  <2>4. Min(hits) \in hits
    BY <2>3 DEF Min
  <2> QED BY <1>2, <2>4 DEF FirstOf, hits, ToSet
<1> QED BY <1>1, <1>2

\* Who owns what: a component, or the kernel that the kind calls for.
LEMMA OwnersByKind ==
    ASSUME bindings \in Seq(pack.files), NEW o \in Derived
    PROVE  \/ o.owner \in Components
           \/ o.kind = "AUTHORITY" /\ o.owner = K01
           \/ o.kind = "REALIZATION" /\ o.owner \in Task
           \/ o.kind = "ARCHITECTURE" /\ o.owner = GAR
           \/ o.kind \in {"DELIVERY", "CONVERGENCE"} /\ o.owner = FV
<1> DEFINE terminal == FirstOf(bindings, {FV}, "terminal:flawless_victory")
           realizer == FirstOf(bindings, Task, "phase:P2")
<1>1. terminal \in {FV} \cup Components /\ realizer \in Task \cup Components
  BY FirstOfIsOfFamily DEF Components
<1>2. \/ \E name, kind, owner :
           /\ o = Fixed(name, kind, owner)
           /\ \/ kind = "AUTHORITY" /\ owner = K01
              \/ kind = "REALIZATION" /\ owner = realizer
              \/ kind = "ARCHITECTURE" /\ owner = GAR
              \/ kind \in {"DELIVERY", "CONVERGENCE"} /\ owner = terminal
              \/ owner \in Components
      \/ \E i : o = ContextUnknown(request.unknowns, i)
      \/ \E i : o = Note(i)
  BY DEF Derived, Derive, When, Components
<1> HIDE DEF terminal, realizer
<1>3. ASSUME NEW name, NEW kind, NEW owner, o = Fixed(name, kind, owner)
      PROVE  o.kind = kind /\ o.owner = owner
  BY <1>3 DEF Fixed, Obligation
<1>4. ASSUME NEW i, o = ContextUnknown(request.unknowns, i)
      PROVE  o.owner \in Components
  BY <1>4 DEF ContextUnknown, Obligation, Components
<1>5. ASSUME NEW i, o = Note(i)
      PROVE  o.owner \in Components
  BY <1>5 DEF Note, Obligation, Components
<1> QED BY <1>1, <1>2, <1>3, <1>4, <1>5

\* A pack that places its owners has them on the step of what they own: the
\* ladder has made sure that a bound kernel is invoked, so that Flawless Victory,
\* which only the terminal phase lists, is bound only with a terminal step.
LEMMA OwnerIsPrimary ==
    ASSUME IInv, Resolved, Compiled, PlacesOwners(pack),
           NEW o \in obligations, o.owner \in ToSet(bindings)
    PROVE  o.owner \in PrimaryOf(KindPhase(o.kind))
<1>1. /\ obligations = Derived /\ graph.nodes = Steps /\ Live /\ bindings \in Seq(pack.files)
  BY BundleFacts DEF Resolved, Compiled, FromObligations, FromExecution, FromValidation,
                     FromHandoff, FromGraph, FromPacket, FromBundle
<1>2. o.owner \notin Components
  BY <1>1 DEF PlacesOwners, ToSet
<1>3. CASE o.kind = "AUTHORITY" /\ o.owner = K01
  BY <1>3 DEF KindPhase, PrimaryOf, PlacesOwners, Lists
<1>4. CASE o.kind = "REALIZATION" /\ o.owner \in Task
  BY <1>4 DEF KindPhase, PrimaryOf, PlacesOwners, Lists
<1>5. CASE o.kind = "ARCHITECTURE" /\ o.owner = GAR
  BY <1>5 DEF KindPhase, PrimaryOf, PlacesOwners, Lists
<1>6. CASE o.kind \in {"DELIVERY", "CONVERGENCE"} /\ o.owner = FV
  <2>1. PICK i \in DOMAIN graph.nodes : FV \in graph.nodes[i].kernels
    BY <1>1, <1>6 DEF Live, KernelsLive, Invoked, Nodes
  <2>2. i \in DOMAIN plan.phases /\ FV \in PrimaryOf(plan.phases[i])
    BY <1>1, <2>1, StepFacts DEF StepKernels
  <2>3. Lists(pack, plan.phases[i], FV)
    BY <2>2 DEF PrimaryOf, Lists
  <2>4. plan.phases[i] = "P7"
    BY <2>3 DEF PlacesOwners, Lists
  <2>5. "P7" \in ToSet(plan.phases)
    BY <2>2, <2>4 DEF ToSet
  <2>6. KindPhase(o.kind) = "P7"
    BY <1>6, <2>5 DEF KindPhase
  <2> QED BY <1>6, <2>2, <2>4, <2>6
<1> QED BY <1>1, <1>2, <1>3, <1>4, <1>5, <1>6, OwnersByKind

\* Under every pack that places its owners, the shipped one among them, and under
\* every plan, a handed-in one too, the kernel that owns an obligation is invoked
\* by the very step that carries it (ExecutionContractCompiler, the ladder).
THEOREM OwnersRunUnderEveryPlan ==
    Spec => [](Compiled /\ PlacesOwners(pack) =>
                 \A o \in obligations :
                   o.owner \in ToSet(bindings) => Carriers(o.id) \subseteq Invokers(o.owner))
<1>1. ASSUME IInv, Resolved, Compiled, PlacesOwners(pack),
             NEW o \in obligations, o.owner \in ToSet(bindings), NEW i \in Carriers(o.id)
      PROVE  i \in Invokers(o.owner)
  <2>1. i \in DOMAIN graph.nodes /\ graph.nodes[i].phase = KindPhase(o.kind)
    BY <1>1, CarrierPhase
  <2>2. graph.nodes = Steps
    BY <1>1, BundleFacts
  <2>3. graph.nodes[i].kernels = StepKernels(KindPhase(o.kind))
    BY <2>1, <2>2, StepFacts
  <2>4. o.owner \in graph.nodes[i].kernels
    BY <1>1, <2>3, OwnerIsPrimary DEF StepKernels
  <2> QED BY <2>1, <2>4 DEF Invokers
<1>2. IInv /\ Resolved =>
        (Compiled /\ PlacesOwners(pack) =>
           \A o \in obligations :
             o.owner \in ToSet(bindings) => Carriers(o.id) \subseteq Invokers(o.owner))
  BY <1>1
<1> QED BY <1>2, Invariance, KernelsAreResolved, PTL

\* Under the shipped pack, for every request: the kernel that owns an obligation
\* is invoked by the very step that carries it.
THEOREM OwnersRun == Spec => []OwnersRunTheirObligations
<1>1. (Compiled /\ PlacesOwners(pack) =>
         \A o \in obligations :
           o.owner \in ToSet(bindings) => Carriers(o.id) \subseteq Invokers(o.owner))
      => OwnersRunTheirObligations
  BY ShippedIsCoherent DEF OwnersRunTheirObligations
<1> QED BY <1>1, OwnersRunUnderEveryPlan, PTL

-----------------------------------------------------------------------------
(* Packs that compile. *)

\* The kind and the owner of the obligations that are not made of an unknown.
Kinds == [AUTHORITY |-> "AUTHORITY", RUNTIME_INTEGRITY |-> "VALIDATION",
          REALIZATION |-> "REALIZATION", VALIDATION |-> "VALIDATION",
          DELIVERY |-> "DELIVERY", CONVERGENCE |-> "CONVERGENCE",
          ARCHITECTURE |-> "ARCHITECTURE", RESOLUTION |-> "EPISTEMIC"]

Owners ==
    LET terminal == FirstOf(bindings, {FV}, "terminal:flawless_victory")
    IN  [AUTHORITY |-> K01, RUNTIME_INTEGRITY |-> "validation_runtime",
         REALIZATION |-> FirstOf(bindings, Task, "phase:P2"),
         VALIDATION |-> "validation_runtime", DELIVERY |-> terminal, CONVERGENCE |-> terminal,
         ARCHITECTURE |-> GAR, RESOLUTION |-> "objective_deriver"]

FixedEntry(name) == Fixed(name, Kinds[name], Owners[name])

\* Every entry comes from one of three places, and which it was shows in its id.
LEMMA EntryShape ==
    ASSUME NEW o \in Derived
    PROVE  \/ \E name \in DOMAIN Kinds :
                /\ o = FixedEntry(name) /\ o.id = <<"OBL", name>>
                /\ name = "ARCHITECTURE" => plan.materiality.required
           \/ \E i \in DOMAIN request.unknowns :
                /\ o = ContextUnknown(request.unknowns, i)
                /\ o.id = <<"CONTEXT", request.unknowns[i]>>
           \/ \E i : o = Note(i) /\ o.id = <<"NOTE", i>>
<1>1. \/ \E name \in DOMAIN Kinds :
           /\ o = Fixed(name, Kinds[name], Owners[name])
           /\ name = "ARCHITECTURE" => plan.materiality.required
      \/ \E i \in DOMAIN request.unknowns : o = ContextUnknown(request.unknowns, i)
      \/ \E i : o = Note(i)
  BY DEF Derived, Derive, When, Kinds, Owners
<1>2. ASSUME NEW name, o = FixedEntry(name) PROVE o.id = <<"OBL", name>>
  BY <1>2 DEF FixedEntry, Fixed, Obligation, Obl
<1>3. ASSUME NEW i, o = ContextUnknown(request.unknowns, i)
      PROVE  o.id = <<"CONTEXT", request.unknowns[i]>>
  BY <1>3 DEF ContextUnknown, Obligation
<1>4. ASSUME NEW i, o = Note(i) PROVE o.id = <<"NOTE", i>>
  BY <1>4 DEF Note, Obligation
<1> QED BY <1>1, <1>2, <1>3, <1>4 DEF FixedEntry

\* No two obligations have one id, as long as no two unknowns have.
LEMMA DerivedIndexed ==
    ASSUME IsInjective(request.unknowns)
    PROVE  Indexed(Derived)
<1> SUFFICES ASSUME NEW o \in Derived, NEW p \in Derived, o.id = p.id PROVE o = p
  BY DEF Indexed
<1>1. CASE \E name \in DOMAIN Kinds : o = FixedEntry(name) /\ o.id = <<"OBL", name>>
  <2>1. PICK name \in DOMAIN Kinds : o = FixedEntry(name) /\ o.id = <<"OBL", name>>
    BY <1>1
  <2>2. \A x : p.id # <<"CONTEXT", x>> /\ p.id # <<"NOTE", x>>
    BY <2>1
  <2>3. PICK other \in DOMAIN Kinds : p = FixedEntry(other) /\ p.id = <<"OBL", other>>
    BY <2>2, EntryShape
  <2>4. name = other
    BY <2>1, <2>3
  <2> QED BY <2>1, <2>3, <2>4
<1>2. CASE \E i \in DOMAIN request.unknowns :
              /\ o = ContextUnknown(request.unknowns, i)
              /\ o.id = <<"CONTEXT", request.unknowns[i]>>
  <2>1. PICK i \in DOMAIN request.unknowns :
              /\ o = ContextUnknown(request.unknowns, i)
              /\ o.id = <<"CONTEXT", request.unknowns[i]>>
    BY <1>2
  <2>2. \A x : p.id # <<"OBL", x>> /\ p.id # <<"NOTE", x>>
    BY <2>1
  <2>3. PICK j \in DOMAIN request.unknowns :
              /\ p = ContextUnknown(request.unknowns, j)
              /\ p.id = <<"CONTEXT", request.unknowns[j]>>
    BY <2>2, EntryShape
  <2>4. i = j
    BY <2>1, <2>3 DEF IsInjective
  <2> QED BY <2>1, <2>3, <2>4
<1>3. CASE \E i : o = Note(i) /\ o.id = <<"NOTE", i>>
  <2>1. PICK i : o = Note(i) /\ o.id = <<"NOTE", i>>
    BY <1>3
  <2>2. \A x : p.id # <<"OBL", x>> /\ p.id # <<"CONTEXT", x>>
    BY <2>1
  <2>3. PICK j : p = Note(j) /\ p.id = <<"NOTE", j>>
    BY <2>2, EntryShape
  <2>4. i = j
    BY <2>1, <2>3
  <2> QED BY <2>1, <2>3, <2>4
<1> QED BY <1>1, <1>2, <1>3, EntryShape

\* Required are all but the caller's notes; the architecture obligation is derived
\* for a material change only, and convergence is one wherever a terminal step is.
LEMMA EntriesByShape ==
    ASSUME NEW o \in Derived
    PROVE  /\ o.required \/ \E i : o.id = <<"NOTE", i>>
           /\ o.id \in {Obl("ARCHITECTURE"), Obl("DELIVERY")} => o.required
           /\ o.kind \in {Kinds[name] : name \in DOMAIN Kinds}
           /\ o.kind = "ARCHITECTURE" => plan.materiality.required
<1>1. ASSUME NEW name \in DOMAIN Kinds, o = FixedEntry(name), o.id = <<"OBL", name>>
      PROVE  o.required /\ o.kind = Kinds[name]
  BY <1>1 DEF FixedEntry, Fixed, Obligation
<1>2. \A name \in DOMAIN Kinds : Kinds[name] = "ARCHITECTURE" => name = "ARCHITECTURE"
  BY DEF Kinds
<1>3. ASSUME NEW i, o = ContextUnknown(request.unknowns, i)
      PROVE  o.required /\ o.kind = "EPISTEMIC"
  BY <1>3 DEF ContextUnknown, Obligation
<1>4. ASSUME NEW i, o = Note(i), o.id = <<"NOTE", i>>
      PROVE  o.kind = "EPISTEMIC" /\ \A name : o.id # <<"OBL", name>>
  BY <1>4 DEF Note, Obligation
<1>5. "EPISTEMIC" \in {Kinds[name] : name \in DOMAIN Kinds}
  BY DEF Kinds
<1> QED BY <1>1, <1>2, <1>3, <1>4, <1>5, EntryShape DEF Obl

LEMMA ConvergenceDerived ==
    ASSUME plan.terminal_allowed
    PROVE  \E o \in Derived : o.kind = "CONVERGENCE" /\ o.required
<1>1. FixedEntry("CONVERGENCE") \in Derived
  BY DEF Derived, Derive, When, FixedEntry, Kinds, Owners
<1>2. FixedEntry("CONVERGENCE").kind = "CONVERGENCE" /\ FixedEntry("CONVERGENCE").required
  BY DEF FixedEntry, Fixed, Obligation, Kinds
<1> QED BY <1>1, <1>2

\* A coherent pack, a plan that fits it and a context without repeated unknowns.
Acceptable == Coherent(pack) /\ Fits(plan, pack) /\ IsInjective(request.unknowns)

\* The kernels bound are those activated.
LEMMA BoundAsActivated ==
    ASSUME Acceptable
    PROVE  /\ bindings \in Seq(pack.files) /\ ToSet(bindings) = ToSet(plan.active)
           /\ K01 \in ToSet(bindings)
           /\ plan.materiality.required => GAR \in ToSet(bindings)
<1>1. plan.active \in Seq(pack.files)
  BY DEF Acceptable, Fits
<1>2. bindings \in Seq(pack.files) /\ ToSet(bindings) = ToSet(plan.active)
  BY <1>1, DistinctFacts DEF bindings, Bindings
<1>3. \A phase \in ToSet(plan.phases) \ {"P2"} :
         ToSet(pack.primary[phase]) \subseteq ToSet(bindings) \cup {FV}
  BY <1>2 DEF Acceptable, Fits
<1>4. K01 \in ToSet(pack.primary["P1"]) /\ GAR \in ToSet(pack.primary["P3"])
  BY DEF Acceptable, Coherent, Lists
<1>5. K01 # FV /\ GAR # FV
  BY DEF K01, GAR, FV
<1>6. "P1" \in ToSet(plan.phases) /\ (plan.materiality.required => "P3" \in ToSet(plan.phases))
  BY DEF Acceptable, Fits
<1> QED BY <1>2, <1>3, <1>4, <1>5, <1>6

\* KernelResolver.resolve and validate_obligations accept.
LEMMA OwnersAccepted ==
    ASSUME Acceptable
    PROVE  Resolvable(pack, plan.active) /\ OwnersResolve(Derived, plan, bindings)
<1>1. /\ bindings \in Seq(pack.files) /\ K01 \in ToSet(bindings)
      /\ plan.materiality.required => GAR \in ToSet(bindings)
  BY BoundAsActivated
<1>2. Resolvable(pack, plan.active)
  BY <1>1 DEF Resolvable, bindings
<1>3. Indexed(Derived)
  BY DerivedIndexed DEF Acceptable
<1>4. Contains(plan.phases, "P2")
  <2>1. plan.phases \in Seq(CanonicalPhases) /\ "P2" \in ToSet(plan.phases)
    BY DEF Acceptable, Fits
  <2>2. DOMAIN plan.phases = 1..Len(plan.phases)
    BY <2>1
  <2> QED BY <2>1, <2>2 DEF Contains, ToSet
<1>5. ASSUME NEW o \in Derived PROVE o.owner \in Components \cup ToSet(bindings)
  <2> DEFINE terminal == FirstOf(bindings, {FV}, "terminal:flawless_victory")
             realizer == FirstOf(bindings, Task, "phase:P2")
  <2>1. /\ terminal \in Components \cup ToSet(bindings)
        /\ realizer \in Components \cup ToSet(bindings)
    <3>1. terminal \in ({FV} \cap ToSet(bindings)) \cup {"terminal:flawless_victory"}
      BY <1>1, FirstOfIsOfFamily
    <3>2. realizer \in (Task \cap ToSet(bindings)) \cup {"phase:P2"}
      BY <1>1, FirstOfIsOfFamily
    <3> QED BY <3>1, <3>2 DEF Components
  <2>2. ASSUME NEW name \in DOMAIN Kinds, o = FixedEntry(name),
               name = "ARCHITECTURE" => plan.materiality.required
        PROVE  o.owner \in Components \cup ToSet(bindings)
    <3>1. o.owner = Owners[name]
      BY <2>2 DEF FixedEntry, Fixed, Obligation
    <3> HIDE DEF terminal, realizer
    <3>2. Owners = [AUTHORITY |-> K01, RUNTIME_INTEGRITY |-> "validation_runtime",
                    REALIZATION |-> realizer, VALIDATION |-> "validation_runtime",
                    DELIVERY |-> terminal, CONVERGENCE |-> terminal,
                    ARCHITECTURE |-> GAR, RESOLUTION |-> "objective_deriver"]
      BY DEF Owners, terminal, realizer
    <3>3. {"validation_runtime", "objective_deriver"} \subseteq Components
      BY DEF Components
    <3> QED BY <1>1, <2>1, <2>2, <3>1, <3>2, <3>3 DEF Kinds
  <2>3. ASSUME NEW i, o = ContextUnknown(request.unknowns, i) \/ o = Note(i)
        PROVE  o.owner \in Components
    BY <2>3 DEF ContextUnknown, Note, Obligation, Components
  <2> QED BY <2>2, <2>3, EntryShape
<1> QED BY <1>2, <1>3, <1>4, <1>5 DEF OwnersResolve

\* Every kind of obligation has a step.
LEMMA KindHasStep ==
    ASSUME Acceptable, NEW o \in Derived
    PROVE  KindPhase(o.kind) \in ToSet(plan.phases)
<1>1. /\ {"P0", "P1", "P2"} \subseteq ToSet(plan.phases)
      /\ plan.materiality.required => "P3" \in ToSet(plan.phases)
      /\ plan.phases \in Seq(CanonicalPhases)
  BY DEF Acceptable, Fits
<1>2. Last(plan.phases) \in ToSet(plan.phases)
  <2>1. DOMAIN plan.phases = 1..Len(plan.phases) /\ Len(plan.phases) \in Nat
    BY <1>1
  <2>2. DOMAIN plan.phases # {}
    BY <1>1 DEF ToSet
  <2>3. Len(plan.phases) \in DOMAIN plan.phases
    BY <2>1, <2>2
  <2> QED BY <2>3 DEF Last, ToSet
<1>3. /\ o.kind \in {"AUTHORITY", "VALIDATION", "REALIZATION", "DELIVERY", "CONVERGENCE",
                     "ARCHITECTURE", "EPISTEMIC"}
      /\ o.kind = "ARCHITECTURE" => plan.materiality.required
  BY EntriesByShape DEF Kinds
<1> QED BY <1>1, <1>2, <1>3 DEF KindPhase

\* ExecutionContractCompiler accepts.
LEMMA ExecutionAccepted ==
    ASSUME Acceptable, obligations = Derived
    PROVE  /\ ~ plan.blocked /\ ToSet(plan.phases) \subseteq CanonicalPhases
           /\ Doctrine \subseteq pack.declares
           /\ plan.phases # <<>>
           /\ Conserve(obligations, obligations)
<1>1. ~ plan.blocked /\ plan.phases \in Seq(CanonicalPhases) /\ "P0" \in ToSet(plan.phases)
  BY DEF Acceptable, Fits
<1>2. ToSet(plan.phases) \subseteq CanonicalPhases /\ plan.phases # <<>>
  BY <1>1 DEF ToSet
<1>3. Indexed(obligations)
  BY DerivedIndexed DEF Acceptable
<1>4. Doctrine \subseteq pack.declares
  BY DEF Acceptable, Coherent
<1> QED BY <1>1, <1>2, <1>3, <1>4 DEF Conserve

\* What evidence is asked for is of the required obligations, no more and no less.
LEMMA EvidenceIsOfRequired ==
    ASSUME NEW contract, contract.obligations = Derived
    PROVE  /\ PropertyRefs(PropertiesOf(contract)) = RequiredPending(Derived)
           /\ RequiredPending(Derived) = {o.id : o \in {p \in Derived : p.required}}
           /\ RequiredPending(Derived) \subseteq Ids(Derived)
<1> DEFINE required == {p \in Derived : p.required}
<1>1. RequiredPending(Derived) = {o.id : o \in required}
  BY EntryFacts DEF RequiredPending
<1>2. \A o : EvidenceOf(o).obligation = o.id
  BY DEF EvidenceOf
<1>3. IdempotencyEvidence.obligation = Obl("ARCHITECTURE")
  BY DEF IdempotencyEvidence
<1>4. Obl("ARCHITECTURE") \in Ids(Derived) => Obl("ARCHITECTURE") \in {o.id : o \in required}
  BY EntriesByShape DEF Ids
<1> DEFINE extra == IF Obl("ARCHITECTURE") \in Ids(Derived) /\ plan.materiality.temporal
                    THEN {IdempotencyEvidence} ELSE {}
<1>5. PropertiesOf(contract) = {EvidenceOf(o) : o \in required} \cup extra
  BY DEF PropertiesOf
<1>6. \A e \in extra : e.obligation \in {o.id : o \in required}
  BY <1>3, <1>4
<1> HIDE DEF extra
<1>7. PropertyRefs(PropertiesOf(contract)) = {o.id : o \in required}
  <2>1. ASSUME NEW o \in required PROVE o.id \in PropertyRefs(PropertiesOf(contract))
    <3>1. EvidenceOf(o) \in PropertiesOf(contract)
      BY <1>5
    <3> QED BY <1>2, <3>1 DEF PropertyRefs
  <2>2. ASSUME NEW e \in PropertiesOf(contract) PROVE e.obligation \in {o.id : o \in required}
    <3>1. CASE e \in extra
      BY <1>6, <3>1
    <3>2. CASE e \notin extra
      <4>1. PICK o \in required : e = EvidenceOf(o)
        BY <1>5, <3>2
      <4> QED BY <1>2, <4>1
    <3> QED BY <3>1, <3>2
  <2> QED BY <2>1, <2>2 DEF PropertyRefs
<1> QED BY <1>1, <1>7 DEF Ids

\* A graph of the steps has every node it needs.
LEMMA GraphAccepted ==
    ASSUME Acceptable, execution = Contract
    PROVE  execution.steps # <<>> /\ UniqueSteps(execution)
<1>1. /\ plan.phases \in Seq(CanonicalPhases) /\ IsInjective(plan.phases)
      /\ "P0" \in ToSet(plan.phases)
  BY DEF Acceptable, Fits
<1>2. execution.steps = Steps
  BY DEF Contract
<1>3. DOMAIN Steps = DOMAIN plan.phases
  BY DEF Steps
<1>4. DOMAIN Steps # {}
  BY <1>1, <1>3 DEF ToSet
<1>5. \A i, j \in DOMAIN Steps : Steps[i].phase = Steps[j].phase => i = j
  BY <1>1, <1>3, StepFacts DEF IsInjective
<1> QED BY <1>2, <1>4, <1>5 DEF UniqueSteps

\* validate_packet accepts.
LEMMA PacketAccepted ==
    ASSUME Acceptable, execution.obligations = Derived, properties = PropertiesOf(execution)
    PROVE  ValidPacket(PacketOf)
<1>1. /\ PacketOf.properties = properties /\ PacketOf.required = RequiredPending(Derived)
      /\ PacketOf.kernels = ToSet(bindings)
      /\ PacketOf.delivery \subseteq Derived
  BY DEF PacketOf
<1>2. PropertyRefs(PacketOf.properties) = PacketOf.required
  BY <1>1, EvidenceIsOfRequired
<1>3. \A o \in PacketOf.delivery : o.required => o.id \in PacketOf.required
  BY <1>1, EvidenceIsOfRequired
<1>4. ASSUME Obl("ARCHITECTURE") \in PacketOf.required
      PROVE  GAR \in PacketOf.kernels /\ OutputsOf(GAR) # {}
  <2>1. PICK o \in Derived : o.id = Obl("ARCHITECTURE")
    BY <1>1, <1>4, EvidenceIsOfRequired DEF Ids
  <2>2. plan.materiality.required
    BY <2>1, EntryFacts, EntriesByShape
  <2>3. GAR \in ToSet(bindings)
    BY <2>2, BoundAsActivated
  <2>4. OutputsOf(GAR) # {}
    BY DEF Acceptable, Coherent, OutputsOf
  <2> QED BY <1>1, <2>3, <2>4
<1> QED BY <1>2, <1>3, <1>4 DEF ValidPacket

\* What stands before the liveness ladder.
Assembled ==
    /\ obligations = Derived /\ execution = Contract /\ properties = PropertiesOf(execution)
    /\ handoff = execution.obligations /\ graph = GraphOf(execution) /\ packet = PacketOf

LEMMA AssembledFacts ==
    ASSUME Assembled
    PROVE  /\ execution.obligations = Derived /\ execution.steps = Steps
           /\ graph.nodes = Steps /\ Nodes = {Steps[i] : i \in DOMAIN Steps}
           /\ DOMAIN Steps = DOMAIN plan.phases
           /\ Pending = RequiredPending(Derived) /\ packet.required = Pending
           /\ graph.terminal = Len(Steps)
           /\ graph.edges = {<<i, i + 1>> : i \in 1..(Len(Steps) - 1)}
<1>1. execution.obligations = Derived /\ execution.steps = Steps
  BY DEF Assembled, Contract
<1>2. /\ graph.nodes = Steps /\ graph.terminal = Len(Steps)
      /\ graph.edges = {<<i, i + 1>> : i \in 1..(Len(Steps) - 1)}
  BY <1>1 DEF Assembled, GraphOf
<1>3. Pending = RequiredPending(Derived) /\ packet.required = Pending
  BY <1>1 DEF Assembled, Pending, PacketOf
<1>4. DOMAIN Steps = DOMAIN plan.phases
  BY DEF Steps
<1> QED BY <1>1, <1>2, <1>3, <1>4 DEF Nodes

\* Checks 2, 4, 5 and 13 pass: what is bound is listed by a phase of the plan.
LEMMA KernelsAccepted ==
    ASSUME Acceptable, Assembled
    PROVE  KernelsLive
<1>1. ToSet(bindings) = ToSet(plan.active)
  BY BoundAsActivated
<1>2. ASSUME NEW k \in ToSet(bindings) PROVE \E i \in DOMAIN Steps : k \in Steps[i].kernels
  <2>1. PICK phase \in ToSet(plan.phases) : k \in ToSet(pack.primary[phase])
    BY <1>1, <1>2 DEF Acceptable, Fits
  <2>2. phase \in ToSet(pack.order)
    BY <2>1 DEF Acceptable, Fits
  <2>3. k \in StepKernels(phase)
    BY <1>2, <2>1, <2>2 DEF StepKernels, PrimaryOf
  <2>4. PICK i \in DOMAIN plan.phases : plan.phases[i] = phase
    BY <2>1 DEF ToSet
  <2> QED BY <2>3, <2>4, AssembledFacts, StepFacts
<1>3. ASSUME NEW i \in DOMAIN Steps PROVE Steps[i].kernels \subseteq ToSet(bindings)
  BY StepFacts DEF StepKernels
<1>4. Invoked = UNION {Steps[i].kernels : i \in DOMAIN Steps}
  BY AssembledFacts DEF Invoked
<1>5. ToSet(bindings) = Invoked
  BY <1>2, <1>3, <1>4
<1>6. ASSUME NEW k \in ToSet(bindings), NEW x \in OutputsOf(k) PROVE Realized(Steps, k, x)
  BY <1>2, StepFacts DEF Realized
<1> QED BY <1>1, <1>5, <1>6, AssembledFacts DEF KernelsLive

\* Checks 1, 7, 8, 9, 15, 16 and 24 pass: the kind of every entry has its step.
LEMMA ObligationsAccepted ==
    ASSUME Acceptable, Assembled
    PROVE  ObligationsLive
<1>1. /\ execution.obligations = Derived /\ obligations = Derived /\ handoff = Derived
      /\ Pending = RequiredPending(Derived) /\ packet.required = Pending
      /\ properties = PropertiesOf(execution)
  BY AssembledFacts DEF Assembled
<1>2. /\ Pending \subseteq Ids(Derived) /\ Pending = PropertyRefs(properties)
  BY <1>1, EvidenceIsOfRequired
<1>3. \A kinds : PendingOf(kinds) \subseteq Pending
  BY DEF PendingOf
<1>4. ASSUME NEW id \in Pending PROVE \E n \in Nodes : id \in n.obligations
  <2>1. PICK o \in Derived : o.id = id
    BY <1>2, <1>4 DEF Ids
  <2>2. PICK i \in DOMAIN plan.phases : plan.phases[i] = KindPhase(o.kind)
    BY <2>1, KindHasStep DEF ToSet
  <2>3. i \in DOMAIN Steps /\ Steps[i] \in Nodes
    BY <2>2, AssembledFacts
  <2>4. o \in {e \in obligations : KindPhase(e.kind) = plan.phases[i]}
    BY <1>1, <2>1, <2>2
  <2>5. o.id \in Steps[i].obligations
    BY <2>3, <2>4, StepFacts DEF Ids
  <2> QED BY <2>1, <2>3, <2>5
<1>5. Pending \subseteq UNION {n.obligations : n \in Nodes}
  BY <1>4
<1>6. \A u \in ToSet(request.unknowns) : <<"CONTEXT", u>> \in Ids(Derived)
  <2> SUFFICES ASSUME NEW i \in DOMAIN request.unknowns
               PROVE  <<"CONTEXT", request.unknowns[i]>> \in Ids(Derived)
    BY DEF ToSet
  <2>1. PICK o \in Derived : o.id = <<"CONTEXT", request.unknowns[i]>>
    BY DerivedEntries
  <2> QED BY <2>1 DEF Ids
<1>7. \A o \in obligations : o.id \in Ids(execution.obligations)
  BY <1>1 DEF Ids
<1> QED BY <1>1, <1>2, <1>3, <1>5, <1>6, <1>7 DEF ObligationsLive

\* The ladder accepts unless a contradiction of the context is also selected.
LEMMA LadderAccepted ==
    ASSUME Acceptable, Assembled, ~ Contradicted
    PROVE  Live
<1>1. KernelsLive /\ ObligationsLive
  BY KernelsAccepted, ObligationsAccepted
<1>2. TerminalLive
  <2>1. CASE plan.terminal_allowed
    BY <2>1, ConvergenceDerived, AssembledFacts DEF TerminalLive
  <2>2. CASE ~ plan.terminal_allowed
    <3>1. "P7" \notin ToSet(plan.phases)
      BY <2>2 DEF Acceptable, Fits
    <3>2. \A i \in DOMAIN Steps : Steps[i].phase # "P7"
      BY <3>1, AssembledFacts, StepFacts DEF ToSet
    <3> QED BY <2>2, <3>2, AssembledFacts DEF TerminalLive
  <2> QED BY <2>1, <2>2
<1>3. NoOrphan
  <2> SUFFICES ASSUME NEW i \in DOMAIN Steps, i # Len(Steps)
               PROVE  \E e \in graph.edges : e[1] = i
    BY AssembledFacts DEF NoOrphan
  <2>1. plan.phases \in Seq(CanonicalPhases)
    BY DEF Acceptable, Fits
  <2>2. DOMAIN Steps = 1..Len(plan.phases) /\ Len(plan.phases) \in Nat
    BY <2>1, AssembledFacts
  <2>3. Len(Steps) = Len(plan.phases)
    BY <2>2 DEF Steps
  <2>4. i \in 1..(Len(Steps) - 1)
    BY <2>2, <2>3
  <2>5. <<i, i + 1>> \in graph.edges
    BY <2>4, AssembledFacts
  <2> QED BY <2>5
<1> QED BY <1>1, <1>2, <1>3 DEF Live

\* The stages accept whatever the ones before them made of an acceptable plan, up
\* to the ladder, which refuses a contradicted context and nothing else.
LEMMA OnlyContradictedRefused ==
    ASSUME IInv, Acceptable, Next, Refused
    PROVE  stage = "packet" /\ Contradicted
<1> USE Behind
<1>1. /\ stage \in FromObligations => obligations = Derived
      /\ stage \in FromExecution => execution = Contract /\ execution.obligations = Derived
      /\ stage \in FromValidation => properties = PropertiesOf(execution)
  BY DEF IInv, ObligationsOK, ExecutionOK, ValidationOK, Contract
<1>2. Indexed(Derived)
  BY DerivedIndexed DEF Acceptable
<1>3. CASE DeriveObligations
  BY <1>3, OwnersAccepted DEF DeriveObligations, Refused
<1>4. CASE CompileExecution
  <2>1. stage = "obligations" /\ obligations = Derived
    BY <1>1, <1>4 DEF CompileExecution
  <2> QED BY <1>4, <2>1, ExecutionAccepted DEF CompileExecution, Refused
<1>5. CASE CompileValidation
  <2>1. stage = "execution" /\ execution.obligations = Derived
    BY <1>1, <1>5 DEF CompileValidation
  <2>2. ConserveIds(execution.obligations, PropertyRefs(PropertiesOf(execution)))
    BY <1>2, <2>1, EvidenceIsOfRequired DEF ConserveIds
  <2> QED BY <1>5, <2>2 DEF CompileValidation, Refused
<1>6. CASE CompileHandoff
  <2>1. stage = "validation" /\ execution.obligations = Derived
    BY <1>1, <1>6 DEF CompileHandoff
  <2>2. Conserve(execution.obligations, execution.obligations)
    BY <1>2, <2>1 DEF Conserve
  <2> QED BY <1>6, <2>2 DEF CompileHandoff, Refused
<1>7. CASE DeriveGraph
  <2>1. stage = "handoff" /\ execution = Contract
    BY <1>1, <1>7 DEF DeriveGraph
  <2>2. GraphOf(execution).obligations = RequiredPending(execution.obligations)
    BY DEF GraphOf
  <2> QED BY <1>7, <2>1, <2>2, GraphAccepted DEF DeriveGraph, Refused
<1>8. CASE BuildPacket
  <2>1. stage = "graph" /\ execution.obligations = Derived /\ properties = PropertiesOf(execution)
    BY <1>1, <1>8 DEF BuildPacket
  <2> QED BY <1>8, <2>1, PacketAccepted DEF BuildPacket, Refused
<1>9. CASE ValidateLiveness
  <2>1. stage = "packet"
    BY <1>9 DEF ValidateLiveness
  <2>2. Assembled
    BY <1>1, <2>1 DEF Assembled, IInv, HandoffOK, GraphOK, PacketOK
  <2>3. ~ Live
    BY <1>9, <2>1 DEF ValidateLiveness, Refused
  <2> QED BY <2>1, <2>2, <2>3, LadderAccepted
<1> QED BY <1>3, <1>4, <1>5, <1>6, <1>7, <1>8, <1>9 DEF Next

\* For every pack whose rules and pipeline agree and every request: no plan of the
\* planner is refused by a stage after it (KernelResolver.resolve,
\* validate_obligations, ExecutionContractCompiler, conserve, validate_packet), nor
\* by validate_runtime_semantic_liveness unless the compiled context has an item
\* selected under the kind and key of one of its conflicts.
THEOREM CoherentPacksAreCompiled == Spec => []CoherentPacksCompile
<1>1. Init => CoherentPacksCompile
  BY DEF Init, CoherentPacksCompile
<1>2. ASSUME IInv, PlannedOK, CoherentPacksCompile, [Next]_vars
      PROVE  CoherentPacksCompile'
  <2>1. pack' = pack /\ supplied' = supplied /\ Contradicted' = Contradicted
    BY <1>2, InputsFixed DEF Inputs, Contradicted
  <2>2. CASE UNCHANGED vars
    BY <1>2, <2>1, <2>2 DEF vars, CoherentPacksCompile
  <2>3. CASE Next
    <3> SUFFICES ASSUME Coherent(pack), ~ supplied, stage' = "refused"
                 PROVE  packet' # Empty /\ Contradicted
      BY <2>1 DEF CoherentPacksCompile
    <3>1. /\ plan = Plan(pack, request)
          /\ request.mission.score \in [ToSet(pack.routes) -> Nat]
          /\ IsInjective(request.unknowns)
      BY <1>2, RequestsAssumption DEF PlannedOK
    <3>2. Acceptable
      BY <3>1, PlansFit DEF Acceptable
    <3>3. Refused
      BY <2>3 DEF Next, DeriveObligations, CompileExecution, CompileValidation, CompileHandoff,
                  DeriveGraph, BuildPacket, ValidateLiveness, Refused
    <3>4. stage = "packet" /\ Contradicted
      BY <1>2, <2>3, <3>2, <3>3, OnlyContradictedRefused
    <3>5. packet' = PacketOf
      BY <1>2, <3>3, <3>4, Behind DEF IInv, PacketOK, Refused
    <3>6. PacketOf # Empty
      <4>1. "required" \in DOMAIN PacketOf
        BY DEF PacketOf
      <4> QED BY <4>1 DEF Empty
    <3> QED BY <3>4, <3>5, <3>6
  <2> QED BY <1>2, <2>2, <2>3
<1>3. IInv /\ PlannedOK /\ CoherentPacksCompile /\ [Next]_vars => CoherentPacksCompile'
  BY <1>2
<1> QED BY <1>1, <1>3, Invariance, PlansAreMade, PTL DEF Spec

=============================================================================

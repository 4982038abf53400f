--------------------------- MODULE CompileStages ----------------------------
(***************************************************************************)
(* The suffix of CompilePipeline._compile (compiler/pipeline.py), from the *)
(* activation plan to the RuntimeBundle: one action per stage, each of     *)
(* which refuses the compile (raises) or hands its representation on.      *)
(*                                                                         *)
(* The pack is any of Packs: the one the repository ships and packs whose  *)
(* rules and pipeline disagree, which the loader accepts since it checks   *)
(* digests and shapes only.  The plan is the planner's, or one the caller  *)
(* hands in (compile_from_root with activation_plan), made under an older  *)
(* pack or edited since.  ContextCompiler and ContextClosure are about the *)
(* context; a request here is one whose context closure has accepted, and  *)
(* comes with what the later stages read of that context:                  *)
(*   unknowns   the ids of its blocking unknowns                           *)
(*   conflicts  <<kind, key>> of its conflict unknowns, those of discovery *)
(*              and of every requirement, blocking or not                  *)
(*   selected   <<kind, key>> of its selected items                        *)
(***************************************************************************)
EXTENDS Obligations

CONSTANTS
    Packs,      \* packs a deployment may install
    Shipped,    \* the pack of the repository
    Requests(_) \* the requests compiled under a pack

ASSUME ShippedAssumption == Shipped \in Packs

\* Packs are read as YAML, phase_order as a list of strings.
ASSUME PacksAssumption == \A p \in Packs : p.order \in Seq(STRING)

\* A mission has a score for every route, and the compiled context has no two
\* unknowns with one id (ContextCompiler indexes them by id).
ASSUME RequestsAssumption ==
    \A p \in Packs : \A r \in Requests(p) :
        /\ r.mission.score \in [ToSet(p.routes) -> Nat]
        /\ IsInjective(r.unknowns)

VARIABLES
    stage,      \* the representation last produced, or "refused"
    pack,       \* rules, pipeline and kernel files of the pack compiled from
    request,    \* the CompileRequest, what the snapshot proves and leaves in doubt
    supplied,   \* the caller handed the activation plan in
    plan,       \* ActivationPlan
    obligations,\* intent.obligations
    execution,  \* ExecutionContract: obligations and execution_steps
    properties, \* validation_properties of the ValidationContract
    handoff,    \* obligations of the HandoffContract
    graph,      \* ExecutionGraph
    packet      \* execution packet

vars == <<stage, pack, request, supplied, plan, obligations, execution, properties,
          handoff, graph, packet>>

Empty == <<>>

bindings == Bindings(plan.active)

-----------------------------------------------------------------------------
(* Activation plans.                                                       *)

\* A KERNEL_ACTIVATION_PLAN.yaml handed in: the plan of this request under some
\* pack, as written or with a phase struck out, the phases in another order or
\* terminal_allowed flipped.  from_mapping checks that the fields are present and
\* nothing else.
SuppliedPlans(r) ==
    LET made == {Plan(old, r) : old \in Packs}
    IN  made
        \cup {[p EXCEPT !.phases = Remove(p.phases, h)] : p \in made, h \in {"P1", "P2", "P3"}}
        \cup {[p EXCEPT !.phases = Reverse(p.phases)] : p \in made}
        \cup {[p EXCEPT !.terminal_allowed = ~p.terminal_allowed] : p \in made}

\* compile_execution_from_plan passes no snapshot and no include_terminal.
BareRequest(r) == /\ ~r.include_terminal
                  /\ r.signals = {}
                  /\ r.unknowns = <<>>
                  /\ r.notes = <<>>
                  /\ r.conflicts = {} /\ r.selected = {}

Init ==
    /\ stage = "requested"
    /\ pack \in Packs
    /\ request \in Requests(pack)
    /\ \/ supplied = FALSE /\ plan = Plan(pack, request)
       \/ BareRequest(request) /\ supplied = TRUE /\ plan \in SuppliedPlans(request)
    /\ obligations = {} /\ execution = Empty /\ properties = Empty
    /\ handoff = Empty /\ graph = Empty /\ packet = Empty

\* A stage whose checks fail raises; nothing is returned to the caller.
Refused == /\ stage' = "refused"
           /\ UNCHANGED <<pack, request, supplied, plan, obligations, execution,
                          properties, handoff, graph, packet>>

-----------------------------------------------------------------------------
(* KernelResolver.resolve, then ObligationDeriver and validate_obligations. *)

Derived == Derive(Objective(request.mission), plan, bindings, request.unknowns, request.notes)

DeriveObligations ==
    /\ stage = "requested"
    /\ IF Resolvable(pack, plan.active) /\ OwnersResolve(Derived, plan, bindings)
       THEN /\ stage' = "obligations"
            /\ obligations' = Derived
            /\ UNCHANGED <<pack, request, supplied, plan, execution, properties, handoff,
                           graph, packet>>
       ELSE Refused

-----------------------------------------------------------------------------
(* ExecutionContractCompiler.                                              *)

\* The phases PHASE_STEP_MAP has a step for.
CanonicalPhases == {"P0", "P1", "P2", "P3", "P4", "P5", "P6", "P7"}

\* Mutants of KindPhase: no fallback when the alignment phase is not planned; the
\* terminal kinds left on the routing step.
KindPhaseNoFallback(kind) ==
    CASE kind = "AUTHORITY"    -> "P1"
      [] kind = "REALIZATION"  -> "P2"
      [] kind = "ARCHITECTURE" -> "P3"
      [] kind = "EPISTEMIC"    -> "P0"
      [] kind = "VALIDATION"   -> "P4"
      [] OTHER                 -> Last(plan.phases)

KindPhaseTerminalLost(kind) ==
    CASE kind = "AUTHORITY"    -> "P1"
      [] kind = "ARCHITECTURE" -> "P3"
      [] kind = "EPISTEMIC"    -> "P0"
      [] OTHER                 -> "P2"

\* The phase whose step carries the obligations of a kind.
KindPhase(kind) ==
    LET terminal == IF "P7" \in ToSet(plan.phases) THEN "P7" ELSE Last(plan.phases)
    IN  CASE kind = "AUTHORITY"    -> "P1"
          [] kind = "REALIZATION"  -> "P2"
          [] kind = "ARCHITECTURE" -> "P3"
          [] kind = "EPISTEMIC"    -> "P0"
          [] kind = "VALIDATION"   -> IF "P4" \in ToSet(plan.phases) THEN "P4" ELSE "P2"
          [] kind \in {"DELIVERY", "CONVERGENCE"} -> terminal

\* A phase of a supplied plan that the pipeline does not list has no kernels.
PrimaryOf(phase) == IF phase \in ToSet(pack.order) THEN ToSet(pack.primary[phase]) ELSE {}

OutputsOf(x) == IF x \in DOMAIN pack.outputs THEN pack.outputs[x] ELSE {}

StepKernels(phase) == ToSet(bindings) \cap PrimaryOf(phase)

Step(phase) ==
    [phase       |-> phase,
     kernels     |-> StepKernels(phase),
     obligations |-> Ids({o \in obligations : KindPhase(o.kind) = phase}),
     outputs     |-> (IF phase \in ToSet(pack.order) THEN OutputsOf(phase) ELSE {})
                     \cup UNION {OutputsOf(k) : k \in StepKernels(phase)}]

\* Steps in plan order, each fed by the outputs of the one before it.
Steps == LET step == [i \in DOMAIN plan.phases |-> Step(plan.phases[i])]
         IN  [i \in DOMAIN step |->
                 [phase |-> step[i].phase, kernels |-> step[i].kernels,
                  obligations |-> step[i].obligations, outputs |-> step[i].outputs,
                  inputs |-> IF i = 1 THEN {} ELSE step[i - 1].outputs]]

\* What the pipeline says of itself and every contract repeats.
Doctrine == {"terminal_contract", "pipeline_id"}

CompileExecution ==
    /\ stage = "obligations"
    /\ IF /\ ~plan.blocked
          /\ Doctrine \subseteq pack.declares
          /\ ToSet(plan.phases) \subseteq CanonicalPhases
          /\ plan.phases # <<>>
       THEN LET contract == [obligations |-> obligations, steps |-> Steps]
            IN  IF Conserve(obligations, contract.obligations)
                THEN /\ stage' = "execution"
                     /\ execution' = contract
                     /\ UNCHANGED <<pack, request, supplied, plan, obligations, properties,
                                    handoff, graph, packet>>
                ELSE Refused
       ELSE Refused

-----------------------------------------------------------------------------
(* ValidationContractCompiler and HandoffContractCompiler.                 *)

EvidenceOf(o) == [property |-> <<"PROP", o.id>>, obligation |-> o.id]

\* Mutant of PropertiesOf: temporal semantics ask for no evidence of their own.
PropertiesWithoutIdempotency(contract) ==
    {EvidenceOf(o) : o \in {p \in contract.obligations : p.required}}

IdempotencyEvidence ==
    [property |-> <<"PROP", "GAR", "IDEMPOTENCY">>, obligation |-> Obl("ARCHITECTURE")]

PropertiesOf(contract) ==
    {EvidenceOf(o) : o \in {p \in contract.obligations : p.required}}
    \cup (IF Obl("ARCHITECTURE") \in Ids(contract.obligations) /\ plan.materiality.temporal
          THEN {IdempotencyEvidence} ELSE {})

PropertyRefs(props) == {p.obligation : p \in props}

CompileValidation ==
    /\ stage = "execution"
    /\ LET props == PropertiesOf(execution)
       IN  IF ConserveIds(execution.obligations, PropertyRefs(props))
           THEN /\ stage' = "validation"
                /\ properties' = props
                /\ UNCHANGED <<pack, request, supplied, plan, obligations, execution, handoff,
                               graph, packet>>
           ELSE Refused

CompileHandoff ==
    /\ stage = "validation"
    /\ LET carried == execution.obligations
       IN  IF Conserve(execution.obligations, carried)
           THEN /\ stage' = "handoff"
                /\ handoff' = carried
                /\ UNCHANGED <<pack, request, supplied, plan, obligations, execution,
                               properties, graph, packet>>
           ELSE Refused

-----------------------------------------------------------------------------
(* derive_execution_graph: a chain of nodes, one per step.                 *)

GraphOf(contract) ==
    LET n == Len(contract.steps)
    IN  [nodes       |-> contract.steps,
         edges       |-> {<<i, i + 1>> : i \in 1..(n - 1)},
         terminal    |-> n,
         disposition |-> IF \E i \in DOMAIN contract.steps : contract.steps[i].phase = "P7"
                         THEN "CONVERGED" ELSE "NONE",
         obligations |-> RequiredPending(contract.obligations)]

\* Mutant of UniqueSteps: a repeated step id goes unnoticed.
AnySteps(contract) == TRUE

UniqueSteps(contract) ==
    \A i, j \in DOMAIN contract.steps : contract.steps[i].phase = contract.steps[j].phase => i = j

DeriveGraph ==
    /\ stage = "handoff"
    /\ IF /\ execution.steps # <<>>
          /\ UniqueSteps(execution)
          /\ GraphOf(execution).obligations = RequiredPending(execution.obligations)
       THEN /\ stage' = "graph"
            /\ graph' = GraphOf(execution)
            /\ UNCHANGED <<pack, request, supplied, plan, obligations, execution,
                           properties, handoff, packet>>
       ELSE Refused

-----------------------------------------------------------------------------
(* build_execution_packet and validate_packet.                             *)

PacketOf ==
    [required   |-> RequiredPending(execution.obligations),
     delivery   |-> {o \in execution.obligations : o.id = Obl("DELIVERY")},
     properties |-> properties,
     kernels    |-> ToSet(bindings)]

ValidPacket(p) ==
    /\ PropertyRefs(p.properties) = p.required
    /\ \A o \in p.delivery : o.required => o.id \in p.required
    /\ Obl("ARCHITECTURE") \in p.required
          => GAR \in p.kernels /\ OutputsOf(GAR) # {}

BuildPacket ==
    /\ stage = "graph"
    /\ IF ValidPacket(PacketOf)
       THEN /\ stage' = "packet"
            /\ packet' = PacketOf
            /\ UNCHANGED <<pack, request, supplied, plan, obligations, execution, properties,
                           handoff, graph>>
       ELSE Refused

-----------------------------------------------------------------------------
(* validate_runtime_semantic_liveness: the last check before the bundle.   *)

Nodes == {graph.nodes[i] : i \in DOMAIN graph.nodes}
Invoked == UNION {n.kernels : n \in Nodes}
Pending == RequiredPending(execution.obligations)
PendingOf(kinds) == {o.id : o \in {p \in execution.obligations :
                                     p.id \in Pending /\ p.kind \in kinds}}

\* Some place that invokes the kernel produces the output.
Realized(places, kernel, output) ==
    \E i \in DOMAIN places : kernel \in places[i].kernels /\ output \in places[i].outputs

\* Checks 2, 4, 5 and 13: what is activated is bound, what is bound is invoked
\* and produces its outputs, on the step and on the node, and nothing else is.
KernelsLive ==
    /\ ToSet(plan.active) \subseteq ToSet(bindings)
    /\ ToSet(bindings) = Invoked
    /\ \A k \in ToSet(bindings) : \A x \in OutputsOf(k) :
          Realized(execution.steps, k, x) /\ Realized(graph.nodes, k, x)

\* Checks 1, 7, 8, 9, 15, 16 and 24: every required obligation is realized by a
\* node, validated, delivered and handed on.
ObligationsLive ==
    /\ \A o \in obligations : o.required => o.id \in Ids(execution.obligations)
    /\ Pending \subseteq UNION {n.obligations : n \in Nodes}
    /\ PendingOf({"VALIDATION", "ARCHITECTURE"}) \subseteq PropertyRefs(properties)
    /\ PendingOf({"DELIVERY"}) \subseteq Ids(handoff)
    /\ Pending \subseteq packet.required
    /\ Pending \subseteq Ids(handoff)
    /\ \A u \in ToSet(request.unknowns) : <<"CONTEXT", u>> \in Ids(execution.obligations)

\* Mutant of TerminalLive: a plan that does not allow it may still have a P7.
TerminalUnchecked ==
    plan.terminal_allowed
        => \E o \in execution.obligations : o.kind = "CONVERGENCE" /\ o.required

\* Check 10.
TerminalLive ==
    IF plan.terminal_allowed
    THEN \E o \in execution.obligations : o.kind = "CONVERGENCE" /\ o.required
    ELSE \A i \in DOMAIN execution.steps : execution.steps[i].phase # "P7"

\* Check 12: every node but the terminal one feeds the chain.
NoOrphan == \A i \in DOMAIN graph.nodes :
               i # graph.terminal => \E e \in graph.edges : e[1] = i

\* Check 21 fails: an item is selected under the kind and key of some conflict.
\* The conflict may be one that only discovery or another requirement sees, whose
\* view is wider than that of the requirement that selected the item.
Contradicted == request.conflicts \cap request.selected # {}

\* Every obligation of a fresh compile is pending and every binding has a digest
\* and named consumers, so checks 3, 6, 11 and 14 hold of any state here.  Closure
\* has just made the comparisons of 17 to 20 on the same context, and 22 and 23
\* compare digests and copies of it made by this very compile.
Live == KernelsLive /\ ObligationsLive /\ TerminalLive /\ NoOrphan /\ ~Contradicted

ValidateLiveness ==
    /\ stage = "packet"
    /\ IF Live
       THEN /\ stage' = "bundle"
            /\ UNCHANGED <<pack, request, supplied, plan, obligations, execution, properties,
                           handoff, graph, packet>>
       ELSE Refused

-----------------------------------------------------------------------------
Next == \/ DeriveObligations
        \/ CompileExecution
        \/ CompileValidation
        \/ CompileHandoff
        \/ DeriveGraph
        \/ BuildPacket
        \/ ValidateLiveness

Spec == Init /\ [][Next]_vars
-----------------------------------------------------------------------------
(* What a pack must be for its plans to compile.                           *)

Lists(p, phase, k) == phase \in ToSet(p.order) /\ k \in ToSet(p.primary[phase])

\* The pipeline has every kernel that can own an obligation among the primary
\* kernels of the phase of the obligation's kind, and no kernel file bears the
\* name of a component.
PlacesOwners(p) ==
    /\ Lists(p, "P1", K01) /\ Lists(p, "P3", GAR)
    /\ \A k \in Task : Lists(p, "P2", k)
    /\ \A phase \in ToSet(p.order) : Lists(p, phase, FV) => phase = "P7"
    /\ p.files \cap Components = {}

\* The rules and the pipeline agree.  Every phase has a step and is listed once,
\* its kernels are files of the pack; every route unpacks, takes source law first
\* and routes to task kernels that P2 lists; architecture is decided in P3, by a
\* Global Architect with outputs; only Flawless Victory is terminal.  The pipeline
\* names itself and its terminal contract.
Coherent(p) ==
    /\ Doctrine \subseteq p.declares
    /\ p.order \in Seq(CanonicalPhases) /\ IsInjective(p.order)
    /\ {"P0", "P1", "P2", "P3"} \subseteq ToSet(p.order)
    /\ \A phase \in ToSet(p.order) : p.primary[phase] \in Seq(p.files)
    /\ p.routes \in Seq(ToSet(p.routes)) /\ p.routes # <<>>
    /\ \A r \in ToSet(p.routes) :
          /\ {"P0", "P1", "P2"} \subseteq p.route[r].phases
          /\ p.route[r].tasks \in Seq(ToSet(p.primary["P2"]))
    /\ p.adds = "P3"
    /\ Lists(p, "P1", K01) /\ Lists(p, "P3", GAR)
    /\ GAR \in DOMAIN p.outputs /\ p.outputs[GAR] # {}
    /\ "P7" \in ToSet(p.order) => ToSet(p.primary["P7"]) \subseteq {FV}

ASSUME ShippedIsCoherent == Coherent(Shipped) /\ PlacesOwners(Shipped)

-----------------------------------------------------------------------------
(* Properties.                                                             *)

Compiled == stage = "bundle"

\* The nodes that carry an obligation, and those that invoke a kernel.
Carriers(id) == {i \in DOMAIN graph.nodes : id \in graph.nodes[i].obligations}
Invokers(k)  == {i \in DOMAIN graph.nodes : k \in graph.nodes[i].kernels}

\* What the planner activates under a pack whose rules and pipeline agree, the
\* shipped one above all, the kernel resolver, the obligation registry, the
\* execution compiler and the packet accept, and so does the liveness ladder but
\* for one case: check 21, when the compiled context has an item selected under
\* the kind and key of a conflict (validate_runtime_semantic_liveness).
CoherentPacksCompile ==
    Coherent(pack) /\ ~supplied /\ stage = "refused" => packet # Empty /\ Contradicted

\* INV-003: whatever the pack and the plan, a required obligation of a compiled
\* bundle has exactly one step to realize it, a validation property, a place in
\* the handoff and one in the packet.
ObligationsConserved ==
    Compiled => \A o \in obligations :
        o.required => /\ Cardinality(Carriers(o.id)) = 1
                      /\ o.id \in packet.required
                      /\ o.id \in PropertyRefs(properties)
                      /\ o.id \in Ids(handoff)

\* INV-008: a terminal step was allowed and is the one that answers for
\* convergence, and the last one of a plan the planner made from a phase_order that
\* ends with P7; without it the graph claims no CONVERGED outcome.
TerminalCrossesConvergence ==
    Compiled =>
        /\ graph.disposition = "CONVERGED" <=> "P7" \in {n.phase : n \in Nodes}
        /\ \A i \in DOMAIN graph.nodes : graph.nodes[i].phase = "P7" =>
              /\ plan.terminal_allowed
              /\ ~supplied /\ Last(pack.order) = "P7" => i = graph.terminal
              /\ Carriers(Obl("CONVERGENCE")) = {i}

\* A material architecture change is answered for: the Global Architect runs and
\* produces its outputs, P3 carries the obligation, and temporal semantics also
\* need idempotency evidence (DONE-010, A0702).
ArchitectureIsAnswered ==
    Compiled /\ plan.materiality.required =>
        /\ \E i \in Invokers(GAR) : pack.outputs[GAR] \subseteq graph.nodes[i].outputs
        /\ \E i \in Carriers(Obl("ARCHITECTURE")) : graph.nodes[i].phase = "P3"
        /\ plan.materiality.temporal =>
              Cardinality({p \in packet.properties : p.obligation = Obl("ARCHITECTURE")}) = 2

\* INV-CTX-024, A0203: blocking context unknowns and an unresolved realization
\* mode stay required to the packet; the caller's notes reach the handoff and
\* block nothing.
UnknownsStayVisible ==
    Compiled =>
        /\ \A u \in ToSet(request.unknowns) : <<"CONTEXT", u>> \in packet.required
        /\ Objective(request.mission).mode = "UNKNOWN" => Obl("RESOLUTION") \in packet.required
        /\ \A i \in DOMAIN request.notes :
              /\ <<"NOTE", i>> \notin packet.required
              /\ request.notes[i] # "realization_mode_UNKNOWN" => <<"NOTE", i>> \in Ids(handoff)

\* Under the shipped pack the kernel that owns an obligation is invoked by the
\* very step that carries it.
OwnersRunTheirObligations ==
    Compiled /\ pack = Shipped /\ ~supplied =>
        \A o \in obligations :
            o.owner \in ToSet(bindings) => Carriers(o.id) \subseteq Invokers(o.owner)

=============================================================================

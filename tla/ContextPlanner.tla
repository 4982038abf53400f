--------------------------- MODULE ContextPlanner ---------------------------
(***************************************************************************)
(* The prefix of a compile that decides what context it will ask for: the  *)
(* task scope (compiler/task_scope.py), the discovery projection of        *)
(* compiler/task_context.py, the architecture materiality it proves        *)
(* (compiler/architecture_materiality.py) and the requirement planner      *)
(* (compiler/context_requirements.py), as operators on a task and the      *)
(* candidates S a host supplies.                                           *)
(*                                                                         *)
(* A task is a record                                                      *)
(*   targets, inScope, excluded   the references its scope hints name      *)
(*   mode, validation, delivery   its objective                            *)
(*   terminal    the activation plan reaches the convergence gate          *)
(*   tokens      the mission contains a materiality token                  *)
(*   mapped      constraint keys that context_signal_map turns into a      *)
(*               trigger                                                   *)
(*   handed      materiality of a plan the caller handed in, or None       *)
(*   needs       the context needs of its kernels: [kernel, kind, mode,    *)
(*               floor, keys, required, reason], where reason also orders  *)
(*               the requirements as their ids, digests of them, would     *)
(***************************************************************************)
EXTENDS ContextResolution

CONSTANTS
  PerRequirementMaxItems,   \* PER_REQUIREMENT_MAX_ITEMS, 16
  PerRequirementMaxBytes,   \* PER_REQUIREMENT_MAX_BYTES, 65536
  MemoryMinItems,           \* MEMORY_MIN_ITEMS, 3
  SnapshotMaxItems,         \* SNAPSHOT_MAX_ITEMS, 256
  SnapshotMaxBytes          \* SNAPSHOT_MAX_BYTES, 1048576

ASSUME PlannerBoundsAssumption ==
  /\ PerRequirementMaxItems \in Nat \ {0}
  /\ PerRequirementMaxBytes \in Nat \ {0}
  /\ MemoryMinItems \in Nat \ {0}
  /\ SnapshotMaxItems \in Nat /\ SnapshotMaxBytes \in Nat

\* What the items of S cost together: their bytes, counted one by one.
Bytes(S) == UNION {{x} \X (1 .. x.cost) : x \in S}

CostOf(S) == Cardinality(Bytes(S))

\* preflight_snapshot; the canonical size is that of the items.
Preflight(S) == Cardinality(S) <= SnapshotMaxItems /\ CostOf(S) <= SnapshotMaxBytes

-----------------------------------------------------------------------------
(* TaskScopeCompiler *)

Included(task) == task.targets \cup task.inScope

EligibleRefs(task) == Included(task) \ task.excluded

\* An unknown that no requirement raised.
Free(reason, key, blocking, details) ==
  [requirement |-> None, reason |-> reason, key |-> key, blocking |-> blocking,
   details |-> details]

\* A reference both included and excluded blocks; a delivery that names no
\* subject is only noted.
ScopeUnknowns(task) ==
  LET torn == Included(task) \cap task.excluded IN
  {u \in {Free("scope", None, TRUE, torn), Free("scope", None, FALSE, {})} :
     IF u.blocking THEN torn # {} ELSE task.delivery /\ Included(task) = {}}

-----------------------------------------------------------------------------
(* ContextDiscoveryCompiler *)

DiscoveryKinds == {"entity", "repository", "constraint", "law", "dependency"}

\* discovery_eligible
DiscoveryEligible(task, x) ==
  /\ x.kind \in DiscoveryKinds
  /\ x.rank \in GovernedRanks
  /\ x.refs = {} \/ x.refs \cap EligibleRefs(task) # {}

Discovered(task, S) == Resolve({x \in S : DiscoveryEligible(task, x)})

\* The constraints that prove an architecture signal, named by their key.
SignalItems(task, S) == {x \in Discovered(task, S).eligible : x.kind = "constraint"}

\* A supersession unknown is reported as it was resolved.
Unbound(u) == Free(u.reason, u.key, u.blocking, u.claims)

DiscoveryUnknowns(task, S) ==
  LET view == Discovered(task, S) IN
  {Unbound(u) : u \in view.unknowns}
    \cup {Free("conflict", g[2], FALSE, {g[1]}) : g \in view.conflicts}

-----------------------------------------------------------------------------
(* assess_materiality: a mapped signal or a mission token is material. *)

Material(task, S) ==
  IF task.handed # None THEN task.handed
  ELSE task.tokens \/ \E x \in SignalItems(task, S) : x.key \in task.mapped

-----------------------------------------------------------------------------
(* ContextRequirementPlanner *)

\* PRIORITY: the kinds in the order their requirements are served.
Ladder == <<"constraint", "law", "repository", "entity", "dependency", "decision",
            "evidence", "authority", "capability", "memory">>

\* Kinds whose own requirement is bound to the task's references.
ScopedKinds == {"constraint", "law", "decision", "authority",
                "repository", "entity", "dependency"}

\* Mutant of GoverningScope: governing context is planned globally.
GoverningScopeGlobal(task, kind) ==
  IF kind \in {"repository", "entity", "dependency"} THEN EligibleRefs(task) ELSE {}

\* governing_scope; no references is the global mode.
GoverningScope(task, kind) == IF kind \in ScopedKinds THEN EligibleRefs(task) ELSE {}

\* What the task itself makes required: the subject it names, and constraints
\* once governed signals prove the materiality.
Demanded(task, S, kind) ==
  \/ kind = "repository" /\ EligibleRefs(task) # {}
  \/ kind = "constraint" /\ Material(task, S) /\ SignalItems(task, S) # {}

\* The planner's own requirement for a kind.
Baseline(task, S, kind) ==
  LET required == Demanded(task, S, kind)
      memory == kind = "memory"
  IN  [kind |-> kind, refs |-> GoverningScope(task, kind), coordinate |-> None,
       required |-> required, policy |-> IF required THEN "preserve_unknown" ELSE "optional",
       floor |-> CASE kind \in GovernedOnlyKinds \cup {"repository"} -> 1
                   [] kind = "evidence" -> 3
                   [] OTHER -> 2,
       mode |-> IF memory THEN "minimum" ELSE "all_eligible",
       min |-> IF memory THEN MemoryMinItems ELSE IF required THEN 1 ELSE 0,
       keys |-> {},
       maxItems |-> IF memory THEN MemoryMinItems ELSE PerRequirementMaxItems,
       maxBytes |-> PerRequirementMaxBytes]

\* _parse_context_needs: what a kernel file may declare; all else is refused.
LegalNeed(n) ==
  /\ n.kind \in Range(Ladder) /\ n.required \in BOOLEAN
  /\ n.mode \in {"minimum", "all_eligible", "semantic_keys"} /\ n.floor \in 0 .. 3
  /\ (n.mode = "semantic_keys") = (n.keys # {})

\* _authority_floor
Floor(n) == IF n.kind \in GovernedOnlyKinds /\ n.floor > 1 THEN 1 ELSE n.floor

\* _need_signature: equal needs of several kernels are one requirement.
Signature(n) ==
  [kind |-> n.kind, required |-> n.required, reason |-> n.reason, mode |-> n.mode,
   floor |-> Floor(n), keys |-> n.keys]

\* Mutant of KernelRequirement: any one item will do for a need that names keys.
KernelRequirementAnyItem(task, s) ==
  [kind |-> s.kind, refs |-> IF s.kind = "memory" THEN {} ELSE EligibleRefs(task),
   coordinate |-> None,
   required |-> s.required, policy |-> IF s.required THEN "preserve_unknown" ELSE "optional",
   floor |-> s.floor,
   mode |-> IF s.mode = "semantic_keys" THEN "minimum" ELSE s.mode,
   min |-> IF s.required THEN 1 ELSE 0, keys |-> {},
   maxItems |-> PerRequirementMaxItems, maxBytes |-> PerRequirementMaxBytes]

\* _kernel_requirements, for one signature.
KernelRequirement(task, s) ==
  LET min == IF s.mode = "semantic_keys" THEN Cardinality(s.keys)
             ELSE IF s.required THEN 1 ELSE 0
  IN  [kind |-> s.kind, refs |-> IF s.kind = "memory" THEN {} ELSE EligibleRefs(task),
       coordinate |-> None,
       required |-> s.required, policy |-> IF s.required THEN "preserve_unknown" ELSE "optional",
       floor |-> s.floor, mode |-> s.mode, min |-> min, keys |-> s.keys,
       maxItems |-> IF min > PerRequirementMaxItems THEN min ELSE PerRequirementMaxItems,
       maxBytes |-> PerRequirementMaxBytes]

\* The requirements, each at its order_key: the rung of its kind, the planner's own
\* before those of the kernels, which stand in the order of their ids.
Entries(task, S) ==
  UNION {{[place |-> <<i, 0>>, requirement |-> Baseline(task, S, Ladder[i])]}
           \cup {[place |-> <<i, n.reason>>,
                  requirement |-> KernelRequirement(task, Signature(n))] :
                   n \in {m \in task.needs : m.kind = Ladder[i]}} :
         i \in DOMAIN Ladder}

\* plan and ContextRequirementPlan._canonical_plan: the requirements in that order.
RequirementPlan(task, S) ==
  LET entries == Entries(task, S)
      position == [e \in entries |->
                     1 + Cardinality({f \in entries : Before(f.place, e.place)})]
  IN  [i \in 1 .. Cardinality(entries) |->
         (CHOOSE e \in entries : position[e] = i).requirement]
=============================================================================

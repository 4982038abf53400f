--------------------------- MODULE ContextCompiler ---------------------------
(***************************************************************************)
(* Detailed context selection: ContextCompiler of compiler/task_context.py *)
(* and the prefix of the pipeline that plans what it selects.              *)
(*                                                                         *)
(* The requirements of the plan are served in order.  Each one resolves    *)
(* the candidates it may see, walks what is left in a fixed order and      *)
(* admits items until its coverage mode is met or a bound stops it; the    *)
(* selection and the global budget are shared by all requirements.  What a *)
(* requirement could not take is disposed of by its missing policy.        *)
(*                                                                         *)
(* In the end the capabilities and authorities the task needs are disposed *)
(* of by what the selected facts prove.                                    *)
(***************************************************************************)
EXTENDS ContextDispositions

CONSTANTS
  Inputs,   \* [snapshot, task, plan]: candidates a host supplies, the task, and the
            \* requirements, a sequence, or None when the planner is to make them
  Budgets   \* global budgets: [items, bytes]

CoverageModes == {"minimum", "all_eligible", "semantic_keys"}
Policies == {"block", "preserve_unknown", "optional"}

\* ContextRequirement._validate_requirement
LegalRequirement(q) ==
  /\ q.mode \in CoverageModes /\ q.policy \in Policies /\ q.required \in BOOLEAN
  /\ q.min \in Nat
  /\ q.maxItems # None \/ q.maxBytes # None
  /\ q.maxItems # None => q.maxItems \in Nat \ {0} /\ q.maxItems >= q.min
  /\ q.maxBytes # None => q.maxBytes \in Nat \ {0}
  /\ q.required => q.min >= 1 /\ q.policy # "optional"
  /\ IF q.mode = "semantic_keys"
       THEN q.keys # {} /\ q.min >= Cardinality(q.keys)
       ELSE q.keys = {}

\* The bounds, in the order they are tried, and the records of having met one.
Bounds == <<"requirement_max_items", "requirement_max_bytes", "global_max_items", "global_max_bytes">>

Witnesses ==
  [bound : Range(Bounds), blocked : Nat, cost : Nat, limit : Nat, count : Nat, bytes : Nat]

ASSUME NoneAssumption == None \notin Nat /\ None \notin Witnesses

\* The requirements an input is served.
PlanOf(i) == IF i.plan = None THEN RequirementPlan(i.task, i.snapshot) ELSE i.plan

ASSUME PlansAssumption ==
  \A i \in Inputs :
    /\ i.plan # None => i.plan \in Seq(Range(i.plan))
    /\ \A n \in DOMAIN PlanOf(i) : LegalRequirement(PlanOf(i)[n])

\* Different needs have different ids.
ASSUME NeedsAssumption ==
  \A i \in Inputs :
    /\ IsFiniteSet(i.task.needs)
    /\ \A n \in i.task.needs : LegalNeed(n) /\ n.reason \in Nat \ {0}
    /\ \A m, n \in i.task.needs :
         m.kind = n.kind /\ m.reason = n.reason => Signature(m) = Signature(n)

ASSUME BudgetsAssumption ==
  \A b \in Budgets : b.items \in Nat \ {0} /\ b.bytes \in Nat \ {0}

\* item_id is unique in a snapshot, claim_payload holds all that a candidate asserts,
\* a capability's key is its id, and memory is informative at most.
ASSUME SnapshotsAssumption ==
  \A i \in Inputs :
    /\ IsFiniteSet(i.snapshot)
    /\ \A x \in i.snapshot :
         /\ x.id \in Nat /\ x.key \in Nat /\ x.rank \in Nat /\ x.source \in Nat
         /\ x.cost \in Nat /\ x.precedence \in Nat \cup {None}
         /\ x.kind = "memory" => x.rank \notin GovernedRanks
    /\ \A x, y \in i.snapshot :
         /\ x.id = y.id => x = y
         /\ x.kind = y.kind /\ x.key = y.key /\ x.claim = y.claim
              => x.precedence = y.precedence /\ x.state = y.state
         /\ x.kind = "capability" /\ y.kind = "capability"
              => (x.key = y.key) = (x.names = y.names)

VARIABLES
  snapshot, task, budget,   \* the inputs
  plan,        \* the requirements, in the order they are served
  pc,          \* "plan", "begin", "select", "dispose", "done" or "failed"
  turn,        \* the requirement being served
  todo,        \* its candidates not yet looked at
  disposed,    \* disposed_keys: its keys in unresolved conflict
  taken,       \* [count, bytes, keys] of what it has selected
  stop,        \* budget_stop: the witness of the bound that stopped it, or None
  chosen,      \* by_item and reasons: item id -> the requirements that admitted it
  total,       \* total_bytes of the selection
  unknowns     \* the ContextUnknowns so far

inputs == <<snapshot, task, budget, plan>>
vars == <<snapshot, task, budget, plan, pc, turn, todo, disposed, taken, stop, chosen, total, unknowns>>

Requirement == plan[turn]

\* Mutant of View: resolved first, over everything supplied, and filtered after.
ViewResolvedFirst(q) ==
  [Resolve(snapshot) EXCEPT
     !.eligible = {x \in @ : MatchesRequirement(q, x)},
     !.conflicts = {g \in @ : g[1] = q.kind}]

\* Exactly the candidates a requirement may see, resolved among themselves.
View(q) == Resolve({x \in snapshot : MatchesRequirement(q, x)})

Nothing == [count |-> 0, bytes |-> 0, keys |-> {}]

Init ==
  /\ \E i \in Inputs : snapshot = i.snapshot /\ task = i.task /\ plan = i.plan
  /\ budget \in Budgets
  /\ pc = "plan"
  /\ turn = 1
  /\ todo = {} /\ disposed = {} /\ taken = Nothing /\ stop = None
  /\ chosen = <<>>
  /\ total = 0
  /\ unknowns = {}

-----------------------------------------------------------------------------
(* _prepare_context_plan, as far as context is concerned *)

PlanContext ==
  /\ pc = "plan" /\ Preflight(snapshot)
  /\ plan' = IF plan = None THEN RequirementPlan(task, snapshot) ELSE plan
  /\ unknowns' = ScopeUnknowns(task) \cup DiscoveryUnknowns(task, snapshot)
  /\ pc' = "begin"
  /\ UNCHANGED <<snapshot, task, budget, turn, todo, disposed, taken, stop, chosen, total>>

RefuseSnapshot ==
  /\ pc = "plan" /\ ~ Preflight(snapshot)
  /\ pc' = "failed"
  /\ UNCHANGED <<inputs, turn, todo, disposed, taken, stop, chosen, total, unknowns>>

-----------------------------------------------------------------------------
(* _select_for *)

\* _materiality_for
Unknown(n, reason, key, details) ==
  [requirement |-> n, reason |-> reason, key |-> key, blocking |-> plan[n].required,
   details |-> details]

\* Resolve, report the contradictions, and line up what is eligible.
BeginRequirement ==
  LET view == View(Requirement) IN
  /\ pc = "begin"
  /\ turn \in DOMAIN plan
  /\ pc' = "select"
  /\ todo' = view.eligible
  /\ disposed' = {g[2] : g \in view.conflicts}
  /\ unknowns' = unknowns \cup {Unbound(u) : u \in view.unknowns}
                          \cup {Unknown(turn, "conflict", k, {}) : k \in disposed'}
  /\ taken' = Nothing
  /\ stop' = None
  /\ UNCHANGED <<inputs, turn, chosen, total>>

\* The coverage mode is met, or no candidate is left.
Enough == Requirement.mode = "minimum" /\ taken.count >= Requirement.min

EndSelection ==
  /\ pc = "select"
  /\ todo = {} \/ Enough
  /\ pc' = "dispose"
  /\ UNCHANGED <<inputs, turn, todo, disposed, taken, stop, chosen, total, unknowns>>

Unrequested(x) == Requirement.mode = "semantic_keys" /\ x.key \notin Requirement.keys

\* x is looked at next: the first of what is left, in selection order.
Upcoming(x) ==
  /\ pc = "select" /\ ~ Enough
  /\ x \in todo
  /\ \A y \in todo \ {x} : SelectedBefore(x, y)

SkipUnrequested(x) ==
  /\ Upcoming(x) /\ Unrequested(x)
  /\ todo' = todo \ {x}
  /\ UNCHANGED <<inputs, pc, turn, disposed, taken, stop, chosen, total, unknowns>>

\* An item that is already selected costs the global budget nothing.
Exceeds(b, x) ==
  LET q == Requirement
      new == x.id \notin DOMAIN chosen
  IN  CASE b = "requirement_max_items" -> q.maxItems # None /\ taken.count + 1 > q.maxItems
        [] b = "requirement_max_bytes" -> q.maxBytes # None /\ taken.bytes + x.cost > q.maxBytes
        [] b = "global_max_items" -> new /\ Cardinality(DOMAIN chosen) + 1 > budget.items
        [] b = "global_max_bytes" -> new /\ total + x.cost > budget.bytes

Limit(b) ==
  CASE b = "requirement_max_items" -> Requirement.maxItems
    [] b = "requirement_max_bytes" -> Requirement.maxBytes
    [] b = "global_max_items" -> budget.items
    [] b = "global_max_bytes" -> budget.bytes

\* Mutant of Witness: the requirement's own numbers, whichever bound stopped it.
WitnessOfOwnBound(b, x) ==
  [bound |-> b, blocked |-> x.id, cost |-> x.cost, limit |-> Limit(b),
   count |-> taken.count, bytes |-> taken.bytes]

\* _budget_stop_record
Witness(b, x) ==
  LET own == b \in {"requirement_max_items", "requirement_max_bytes"} IN
  [bound |-> b, blocked |-> x.id, cost |-> x.cost, limit |-> Limit(b),
   count |-> IF own THEN taken.count ELSE Cardinality(DOMAIN chosen),
   bytes |-> IF own THEN taken.bytes ELSE total]

StopOnBudget(x, n) ==
  /\ Upcoming(x) /\ ~ Unrequested(x)
  /\ Exceeds(Bounds[n], x)
  /\ \A m \in 1 .. n - 1 : ~ Exceeds(Bounds[m], x)
  /\ stop' = Witness(Bounds[n], x)
  /\ pc' = "dispose"
  /\ UNCHANGED <<inputs, turn, todo, disposed, taken, chosen, total, unknowns>>

\* selection.admit: a reused item is paid for once.
Admit(x) ==
  /\ Upcoming(x) /\ ~ Unrequested(x)
  /\ \A n \in DOMAIN Bounds : ~ Exceeds(Bounds[n], x)
  /\ chosen' = [i \in DOMAIN chosen \cup {x.id} |->
                  (IF i \in DOMAIN chosen THEN chosen[i] ELSE {})
                    \cup (IF i = x.id THEN {turn} ELSE {})]
  /\ total' = IF x.id \in DOMAIN chosen THEN total ELSE total + x.cost
  /\ taken' = [count |-> taken.count + 1, bytes |-> taken.bytes + x.cost,
               keys |-> taken.keys \cup {x.key}]
  /\ todo' = todo \ {x}
  /\ UNCHANGED <<inputs, pc, turn, disposed, stop, unknowns>>

-----------------------------------------------------------------------------
(* _satisfied and _dispose_unsatisfied *)

MissingKeys == Requirement.keys \ (taken.keys \cup disposed)

Satisfied ==
  /\ taken.count >= Requirement.min
  /\ Requirement.mode = "semantic_keys" => MissingKeys = {}
  /\ Requirement.mode = "all_eligible" => stop = None

NextRequirement ==
  /\ turn' = turn + 1
  /\ pc' = "begin"
  /\ UNCHANGED <<inputs, todo, disposed, taken, stop, chosen, total>>

EndSatisfied ==
  /\ pc = "dispose" /\ Satisfied
  /\ NextRequirement
  /\ UNCHANGED unknowns

\* OPTIONAL: absence is legal; a budget stop is recorded all the same.
EndOptional ==
  /\ pc = "dispose" /\ ~ Satisfied
  /\ Requirement.policy = "optional" /\ stop = None
  /\ NextRequirement
  /\ UNCHANGED unknowns

EndRecorded ==
  /\ pc = "dispose" /\ ~ Satisfied
  /\ Requirement.policy = "preserve_unknown" \/ (Requirement.policy = "optional" /\ stop # None)
  /\ unknowns' = unknowns \cup
       {Unknown(turn, IF stop = None THEN "missing" ELSE "budget", None,
                [missing |-> MissingKeys, witness |-> stop])}
  /\ NextRequirement

EndBlocked ==
  /\ pc = "dispose" /\ ~ Satisfied
  /\ Requirement.policy = "block"
  /\ pc' = "failed"
  /\ UNCHANGED <<inputs, turn, todo, disposed, taken, stop, chosen, total, unknowns>>

Selected == {x \in snapshot : x.id \in DOMAIN chosen}

\* _unknown_status_decisions
StatusUnknowns ==
  {Free("status", x.key, x.rank \in GovernedRanks, {x.id}) :
     x \in {y \in Selected : y.kind = "decision" /\ y.status = "unknown"}}

\* Every requirement is served; what the selection leaves open is reported.
Finish ==
  LET material == Material(task, snapshot) IN
  /\ pc = "begin"
  /\ turn \notin DOMAIN plan
  /\ pc' = "done"
  /\ unknowns' = unknowns \cup StatusUnknowns
                          \cup CapabilityUnknowns(task, material, Selected)
                          \cup AuthorityUnknowns(task, material, Selected)
  /\ UNCHANGED <<inputs, turn, todo, disposed, taken, stop, chosen, total>>

Next ==
  \/ PlanContext \/ RefuseSnapshot
  \/ BeginRequirement
  \/ EndSelection
  \/ \E x \in todo : \/ SkipUnrequested(x) \/ Admit(x)
                     \/ \E n \in DOMAIN Bounds : StopOnBudget(x, n)
  \/ EndSatisfied \/ EndOptional \/ EndRecorded \/ EndBlocked
  \/ Finish

Spec == Init /\ [][Next]_vars

-----------------------------------------------------------------------------
(* Properties. *)

\* A budget stop is recorded whatever the policy and the coverage mode.
TruncationIsRecorded ==
  [][stop # None /\ pc = "dispose" /\ pc' = "begin" =>
       \E u \in unknowns' : u.requirement = turn /\ u.reason = "budget"]_vars
=============================================================================

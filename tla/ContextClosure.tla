--------------------------- MODULE ContextClosure ---------------------------
(***************************************************************************)
(* Context closure: ContextClosureValidator of compiler/context_closure.py *)
(*                                                                         *)
(* The validator judges a finished context against views it resolves       *)
(* itself.  A context is a record: chosen (item id -> the requirements     *)
(* that admitted it), unknowns, and authorities (the authority             *)
(* requirements it carries).  The checks of provenance, identity recipes   *)
(* and kernel equality (2 in part, 3, 5) are not part of this module.      *)
(***************************************************************************)
EXTENDS ContextCompiler

material == Material(task, snapshot)

compiled == [chosen |-> chosen, unknowns |-> unknowns,
             authorities |-> RequiredAuthorities(task, material, Selected)]

Items(ctx) == {x \in snapshot : x.id \in DOMAIN ctx.chosen}

\* The items bound to requirement n.
Bound(ctx, n) == {x \in Items(ctx) : n \in ctx.chosen[x.id]}

Reported(ctx, n, reasons) == {u \in ctx.unknowns : u.requirement = n /\ u.reason \in reasons}

\* 1. Every required requirement is bound by an item or disposed.
Disposed(ctx, n) ==
  plan[n].required =>
    Bound(ctx, n) # {} \/ Reported(ctx, n, {"missing", "budget", "conflict"}) # {}

\* 2. Repository truth never rests on an unverified claim.
NoUnverifiedState(ctx) == \A x \in Items(ctx) : x.kind = "repository" => x.rank # 3

\* 4. Every item is there for a planned reason.
Planned(ctx) ==
  \A i \in DOMAIN ctx.chosen : ctx.chosen[i] # {} /\ ctx.chosen[i] \subseteq DOMAIN plan

\* Mutant of ConflictsVisible: only the keys that made it into the selection.
ConflictsVisibleIfSelected(ctx, n, view) ==
  \A g \in {h \in view.conflicts : \E x \in Bound(ctx, n) : x.key = h[2]} :
    \E u \in Reported(ctx, n, {"conflict"}) : u.key = g[2]

\* 6. Every contradiction a requirement could see is bound to it.
ConflictsVisible(ctx, n, view) ==
  \A g \in view.conflicts : \E u \in Reported(ctx, n, {"conflict"}) : u.key = g[2]

\* 7. Memory enriches only requirements for memory, and is never governed.
MemoryEnriches(ctx) ==
  \A x \in Items(ctx) : x.kind = "memory" =>
    /\ \A n \in ctx.chosen[x.id] : plan[n].kind = "memory"
    /\ x.rank \notin GovernedRanks

\* 8. _undisposed_capabilities and _undisposed_authorities: what is not proven is
\* on record, and no capability is both there and not there.
GapsExplicit(ctx) ==
  /\ \A c \in RequiredCapabilities(task, material) :
       \/ CapabilityDisposition(c, Items(ctx)) = "available"
       \/ \E u \in ctx.unknowns : u.reason = "capability" /\ u.details.about = c
  /\ \A q \in ctx.authorities :
       \/ AuthorityDisposition(q, Items(ctx)) = "granted"
       \/ \E u \in ctx.unknowns : u.reason = "authority" /\ u.details.about = q
  /\ Contradictory(Items(ctx)) = {}

\* _conflict_disposed_keys: a conflict unknown counts only if the view shows it.
ConflictKeys(ctx, n, view) ==
  {u.key : u \in Reported(ctx, n, {"conflict"})} \cap {g[2] : g \in view.conflicts}

\* 9. _requirement_breach: ceilings, then the floor as far as it is not disposed.
WithinBounds(ctx, n, view) ==
  LET q == plan[n]
      items == Bound(ctx, n)
      keys == {x.key : x \in items}
      disposedKeys == ConflictKeys(ctx, n, view)
      shortfalls == Reported(ctx, n, {"missing", "budget"})
      missing == UNION {u.details.missing : u \in shortfalls}
  IN  /\ q.maxItems # None => Cardinality(items) <= q.maxItems
      /\ q.maxBytes # None => CostOf(items) <= q.maxBytes
      /\ q.required =>
           /\ \/ Cardinality(items) + Cardinality(disposedKeys \ keys) >= q.min
              \/ shortfalls # {}
           /\ q.mode = "semantic_keys" => q.keys \subseteq keys \cup disposedKeys \cup missing

WithinBudget(ctx) ==
  /\ Cardinality(Items(ctx)) <= budget.items
  /\ CostOf(Items(ctx)) <= budget.bytes

\* _eligible_frontier: what the selector was entitled to look at.
Frontier(q, view) ==
  CASE q.mode = "minimum" ->
         {x \in view.eligible :
            Cardinality({y \in view.eligible : SelectedBefore(y, x)}) < q.min}
    [] q.mode = "semantic_keys" -> {x \in view.eligible : x.key \in q.keys}
    [] q.mode = "all_eligible" -> view.eligible

\* The first of S in the order of selection.
FirstOf(S) == CHOOSE x \in S : \A y \in S \ {x} : SelectedBefore(x, y)

\* The selection at the moment requirement n met the candidate that blocked it.
AtStop(ctx, n, admitted) ==
  {x \in Items(ctx) : \E m \in ctx.chosen[x.id] : m < n} \cup admitted

\* Mutant of Proven: a record that names the right candidate is believed.
ProvenByRecord(ctx, n, view, w) ==
  LET left == Frontier(plan[n], view) \ Bound(ctx, n)
  IN  left # {} /\ w.blocked = FirstOf(left).id /\ w.cost = FirstOf(left).cost

\* The bound that witness w names does not admit x: its numbers are those of what
\* the requirement had admitted, or of what all requirements shared by then.
Reached(q, w, x, admitted, shared) ==
  CASE w.bound = "requirement_max_items" ->
         /\ q.maxItems # None /\ w.limit = q.maxItems
         /\ w.count = Cardinality(admitted)
         /\ Cardinality(admitted) + 1 > q.maxItems
    [] w.bound = "requirement_max_bytes" ->
         /\ q.maxBytes # None /\ w.limit = q.maxBytes
         /\ w.bytes = CostOf(admitted)
         /\ CostOf(admitted) + x.cost > q.maxBytes
    [] w.bound = "global_max_items" ->
         /\ x \notin shared
         /\ w.limit = budget.items
         /\ w.count = Cardinality(shared)
         /\ Cardinality(shared) + 1 > budget.items
    [] w.bound = "global_max_bytes" ->
         /\ x \notin shared
         /\ w.limit = budget.bytes
         /\ w.bytes = CostOf(shared)
         /\ CostOf(shared) + x.cost > budget.bytes

\* _budget_stop_independently_proven, for the witness w and the first item of the
\* frontier that was not taken.
Proven(ctx, n, view, w) ==
  LET frontier == Frontier(plan[n], view)
      mine == Bound(ctx, n)
      admitted == frontier \cap mine
      left == frontier \ mine
  IN  /\ left # {}
      /\ w.blocked = FirstOf(left).id
      /\ w.cost = FirstOf(left).cost
      /\ Reached(plan[n], w, FirstOf(left), admitted, AtStop(ctx, n, admitted))

Truncated(ctx, n, view) ==
  \E u \in Reported(ctx, n, {"budget"}) : Proven(ctx, n, view, u.details.witness)

\* 10. _coverage_breach: each coverage mode means what it says.
Covered(ctx, n, view) ==
  LET q == plan[n]
      items == Bound(ctx, n)
      keys == {x.key : x \in items}
      expected == IF q.min < Cardinality(view.eligible) THEN q.min ELSE Cardinality(view.eligible)
      reachable == {x.key : x \in view.eligible} \cap q.keys
  IN  /\ items \subseteq view.eligible
      /\ CASE q.mode = "all_eligible" -> view.eligible \subseteq items \/ Truncated(ctx, n, view)
           [] q.mode = "minimum" ->
                /\ Cardinality(items) <= expected
                /\ Cardinality(items) >= expected \/ Truncated(ctx, n, view)
           [] q.mode = "semantic_keys" ->
                /\ keys \subseteq q.keys
                /\ reachable \subseteq keys \cup ConflictKeys(ctx, n, view) \/ Truncated(ctx, n, view)

\* 11. Every bound unknown names a planned requirement, of a policy it may have.
UnknownsBound(ctx) ==
  \A u \in ctx.unknowns :
    \/ u.requirement = None
    \/ /\ u.requirement \in DOMAIN plan
       /\ plan[u.requirement].required => plan[u.requirement].policy # "optional"

\* validate: the first breach raises.
Accepts(ctx) ==
  /\ \A n \in DOMAIN plan : Disposed(ctx, n)
  /\ NoUnverifiedState(ctx)
  /\ Planned(ctx)
  /\ \A n \in DOMAIN plan :
       LET view == View(plan[n]) IN
       /\ ConflictsVisible(ctx, n, view)
       /\ WithinBounds(ctx, n, view)
       /\ Covered(ctx, n, view)
  /\ MemoryEnriches(ctx)
  /\ GapsExplicit(ctx)
  /\ WithinBudget(ctx)
  /\ UnknownsBound(ctx)

-----------------------------------------------------------------------------
(* Properties. *)

\* A requirement let in a repository fact that nobody verified: a kernel's need may
\* ask for that, closure never lets it pass.
UnverifiedWasAsked ==
  /\ \E n \in DOMAIN plan : \E x \in Bound(compiled, n) :
       plan[n].kind = "repository" /\ x.rank = 3
  /\ plan = RequirementPlan(task, snapshot) =>
       \E n \in task.needs : n.kind = "repository" /\ n.floor = 3

\* Two requirements selected facts about one capability that contradict each other:
\* one of the two may not see the other's.  In a planner's plan a kernel asks for
\* capabilities, the task names references, and the stronger fact about them
\* contradicts the global one, which the planner's own requirement selects.
CapabilityIsTorn ==
  /\ \E m, n \in DOMAIN plan : \E x \in Bound(compiled, m), y \in Bound(compiled, n) :
       /\ plan[m].kind = "capability" /\ y.key = x.key /\ y.state # x.state
       /\ ~ MatchesRequirement(plan[m], y)
  /\ plan = RequirementPlan(task, snapshot) =>
       /\ \E n \in task.needs : n.kind = "capability"
       /\ \E x, y \in Selected : /\ x.kind = "capability" /\ x.refs = {}
                                 /\ y.key = x.key /\ y.state # x.state /\ y.rank < x.rank
                                 /\ y.refs \cap EligibleRefs(task) # {}

\* What the compiler produces, closure accepts, whatever the snapshot, task, plan
\* and budget, but for these two cases.
CompiledContextIsClosed ==
  pc = "done" => Accepts(compiled) \/ UnverifiedWasAsked \/ CapabilityIsTorn

\* The context of a selector that failed to bind item i to requirement n.
WithoutBinding(i, n) ==
  LET left == [j \in DOMAIN chosen |-> IF j = i THEN chosen[j] \ {n} ELSE chosen[j]]
  IN  [compiled EXCEPT !.chosen = Restrict(left, {j \in DOMAIN left : left[j] # {}})]

\* The most plausible budget record for that context: the numbers are right and
\* only the claim that the bound was exceeded can be wrong.
Excuse(ctx, n, b) ==
  LET view == View(plan[n])
      frontier == Frontier(plan[n], view)
      mine == Bound(ctx, n)
      admitted == frontier \cap mine
      shared == AtStop(ctx, n, admitted)
      own == b \in {"requirement_max_items", "requirement_max_bytes"}
      base == IF own THEN admitted ELSE shared
      x == FirstOf(frontier \ mine)
  IN  [bound |-> b, blocked |-> x.id, cost |-> x.cost,
       limit |-> CASE b = "requirement_max_items" -> plan[n].maxItems
                   [] b = "requirement_max_bytes" -> plan[n].maxBytes
                   [] b = "global_max_items" -> budget.items
                   [] b = "global_max_bytes" -> budget.bytes,
       count |-> Cardinality(base), bytes |-> CostOf(base)]

WithExcuse(ctx, n, b) ==
  [ctx EXCEPT !.unknowns = (@ \ Reported(ctx, n, {"budget"})) \cup
     {Unknown(n, "budget", None, [missing |-> {}, witness |-> Excuse(ctx, n, b)])}]

\* An eligible item that a selector silently fails to take is noticed, in
\* all_eligible and minimum coverage, under every missing policy, and no record
\* of a budget stop excuses it.
DroppedItemIsNoticed ==
  pc = "done" =>
    \A i \in DOMAIN chosen : \A n \in chosen[i] :
      plan[n].mode # "semantic_keys" =>
        LET ctx == WithoutBinding(i, n) IN
        /\ ~ Accepts(ctx)
        /\ \A k \in DOMAIN Bounds : ~ Accepts(WithExcuse(ctx, n, Bounds[k]))

\* A context that hides a contradiction some requirement met, a budget stop that
\* truncated coverage, a required requirement's shortfall for which no
\* contradiction accounts, or a capability or authority gap is refused.
HiddenUnknownIsNoticed ==
  pc = "done" =>
    \A u \in unknowns :
      \/ u.reason = "conflict" /\ u.requirement # None
      \/ u.reason \in {"capability", "authority"}
      \/ u.reason = "budget" /\ plan[u.requirement].mode # "semantic_keys"
      \/ /\ u.reason = "missing" /\ u.blocking
         /\ Reported(compiled, u.requirement, {"conflict"}) = {}
      => ~ Accepts([compiled EXCEPT !.unknowns = @ \ {u}])

\* x is named as superseded by y, or names y as its superseder.
NamedBy(x, y) ==
  \/ y.supersedes \cap {x.id, x.domain} # {}
  \/ x.supersededBy \cap {y.id, y.domain} # {}

\* y goes before x under one key: no less authority, or a better declared precedence.
Outweighs(y, x) ==
  \/ y.rank <= x.rank
  \/ None \notin {y.precedence, x.precedence} /\ y.precedence < x.precedence

\* A candidate that a requirement asked for in full and did not get is accounted
\* for by what that requirement itself may see: a recorded budget stop, conflict
\* or cycle, a superseder of no less authority, or a rival under the same key that
\* outweighs it and that the requirement did get.  Context that is not eligible
\* for the requirement removes nothing from it.
NoSilentLoss ==
  pc = "done" =>
    \A n \in {m \in DOMAIN plan : plan[m].mode = "all_eligible"} :
      LET seen == {y \in snapshot : MatchesRequirement(plan[n], y)} IN
      \A x \in seen \ Bound(compiled, n) :
        \/ Reported(compiled, n, {"budget"}) # {}
        \/ \E u \in Reported(compiled, n, {"conflict"}) : u.key = x.key
        \/ \E u \in unknowns : u.reason = "cycle" /\ x.id \in u.details
        \/ x.status = "superseded"
        \/ \E y \in seen \ {x} : y.rank <= x.rank /\ NamedBy(x, y)
        \/ \E y \in Bound(compiled, n) : y.key = x.key /\ Outweighs(y, x)

\* The governed constraint that fires architecture materiality reaches the
\* compiled context: it is selected, or the bound that kept it out is on record
\* (INV-CTX-015).
MaterialityIsCarried ==
  pc = "done" /\ plan = RequirementPlan(task, snapshot) =>
    \A x \in SignalItems(task, snapshot) :
      \/ x \in Selected
      \/ \E u \in unknowns : /\ u.reason = "budget"
                             /\ plan[u.requirement].kind = "constraint"
                             /\ Material(task, snapshot) => u.blocking

\* Absence is never a grant (INV-CTX-021, INV-CTX-022): a required authority that
\* leaves no unknown is covered by a governed grant that applies to the task and
\* that no applicable fact of equal or greater authority under its key denies, and
\* a required capability that leaves none is proven available by a governed fact.
NoUnprovenPermission ==
  LET applies(x) == /\ x.rank \in GovernedRanks
                    /\ x.refs = {} \/ x.refs \cap EligibleRefs(task) # {}
      open(reason, about) == \E u \in unknowns : u.reason = reason /\ u.details.about = about
  IN
  pc = "done" /\ plan = RequirementPlan(task, snapshot) =>
    /\ \A q \in compiled.authorities :
         \/ open("authority", q)
         \/ \E x \in {y \in Facts(snapshot, "authority", "granted") : applies(y)} :
              /\ GrantCovers(x, q)
              /\ \A y \in snapshot : /\ y.kind = "authority" /\ y.key = x.key
                                     /\ applies(y) /\ y.rank <= x.rank
                                     => y.state = "granted"
    /\ \A c \in RequiredCapabilities(task, material) :
         \/ open("capability", c)
         \/ \E x \in Facts(snapshot, "capability", "available") : applies(x) /\ x.names = c

\* A kernel's required need is met or visible (INV-CTX-020): each key it names, or
\* some item if it names none, is selected at the authority it asks for, or an
\* unknown bound to a requirement of that kind says why not.
KernelNeedsAreMet ==
  pc = "done" /\ plan = RequirementPlan(task, snapshot) =>
    \A n \in {m \in task.needs : m.required} :
      LET met(x) == x.kind = n.kind /\ x.rank <= n.floor
          said(k) == \E u \in unknowns :
                       /\ u.requirement # None
                       /\ plan[u.requirement].kind = n.kind
                       /\ \/ u.reason = "conflict" /\ k \in {None, u.key}
                          \/ u.reason \in {"missing", "budget"} /\ k \in {None} \cup u.details.missing
      IN  IF n.keys = {}
            THEN said(None) \/ \E x \in Selected : met(x)
            ELSE \A k \in n.keys : said(k) \/ \E x \in Selected : met(x) /\ x.key = k
=============================================================================

-------------------------- MODULE SupersessionRules --------------------------
(***************************************************************************)
(* Explicit supersession among the laws, or among the prior decisions, of  *)
(* one candidate set: _resolve_supersession of compiler/task_context.py.   *)
(*                                                                         *)
(* Every operator takes the index c (by_item in the code): a function from *)
(* item ids to claims                                                      *)
(*   domain        law_id or decision_id                                   *)
(*   rank          AUTHORITY_RANK of the claim, 0 is the strongest         *)
(*   supersedes    supersedes_refs, each an item id or a domain            *)
(*   supersededBy  superseded_by_refs of a decision, empty for a law       *)
(*   status        of a decision; a law counts as "active"                 *)
(***************************************************************************)
EXTENDS Naturals, FiniteSets

Statuses == {"active", "superseded", "unknown"}

\* GOVERNED_LEVELS as ranks.
GovernedRanks == {0, 1}

\* by_domain
Members(c, d) == {i \in DOMAIN c : c[i].domain = d}

\* _expand_supersession_ref: an item id names that item, a domain all its
\* items; a claim names neither itself nor its own domain.
Expand(c, i, ref) ==
  IF ref \in DOMAIN c THEN {ref} \ {i}
  ELSE IF ref = c[i].domain THEN {} ELSE Members(c, ref) \ {i}

\* A reference that names nothing in the candidate set.
Unresolved(c, ref) == ref \notin DOMAIN c /\ Members(c, ref) = {}

\* Pairs <<superseder, superseded>>, from either end's references.
Proposed(c) ==
  {e \in (DOMAIN c) \X (DOMAIN c) :
     \/ \E ref \in c[e[1]].supersedes : e[2] \in Expand(c, e[1], ref)
     \/ \E ref \in c[e[2]].supersededBy : e[1] \in Expand(c, e[2], ref)}

\* Mutant of Edges: no authority gate.
EdgesUngated(c) == Proposed(c)

\* The authority gate: a weaker claim may not retire a stronger one.
Edges(c) == {e \in Proposed(c) : c[e[1]].rank <= c[e[2]].rank}

\* C holds every successor of i and of its own members.
ClosedFrom(E, C, i) == \A e \in E : e[1] \in C \cup {i} => e[2] \in C

\* _reachable_set: the least such set.
Reachable(N, E, i) ==
  {j \in N : \A C \in SUBSET N : ClosedFrom(E, C, i) => j \in C}

\* The claims of N that lie on a cycle of E.
Cyclic(N, E) == {i \in N : i \in Reachable(N, E, i)}

\* _cycle_components: the cycle that i is on.
Component(N, E, i) ==
  LET below == Reachable(N, E, i) IN {j \in below : i \in Reachable(N, E, j)}

\* Mutant of Retired: the members of a cycle retire each other.
RetiredByAnyone(E, cyclic) == {e[2] : e \in E}

\* Claims on a cycle supersede nothing.
Retired(E, cyclic) == {e[2] : e \in {d \in E : d[1] \notin cyclic}}

\* The claims that stay active; a decision marked superseded never does.
Surviving(c, E, cyclic) ==
  {i \in DOMAIN c \ (cyclic \cup Retired(E, cyclic)) : c[i].status # "superseded"}

\* _truth_tier_materiality
InDoubt(c, S) == \E i \in S : c[i].rank \in GovernedRanks

\* The unknowns: one per cycle and domain, per refused edge, per dangling reference.
CycleUnknowns(c, E, cyclic) ==
  {LET loop == Component(DOMAIN c, E, i)
   IN  [reason |-> "cycle", key |-> c[i].domain, claims |-> loop,
        blocking |-> InDoubt(c, loop)] : i \in cyclic}

RefusedUnknowns(c, E) ==
  {[reason |-> "refused", key |-> c[e[1]].domain, claims |-> {e[1], e[2]},
    blocking |-> FALSE] : e \in Proposed(c) \ E}

DanglingUnknowns(c) ==
  LET refs(i) == {ref \in c[i].supersedes \cup c[i].supersededBy : Unresolved(c, ref)}
  IN  UNION {{[reason |-> "dangling", key |-> c[i].domain, blocking |-> FALSE,
               claims |-> {j \in Members(c, c[i].domain) : ref \in refs(j)}] : ref \in refs(i)} :
               i \in DOMAIN c}

\* What _resolve_supersession makes of the candidates.
Outcome(c) ==
  LET E == Edges(c)
      cyclic == Cyclic(DOMAIN c, E)
  IN  [edges |-> E, cyclic |-> cyclic, survivors |-> Surviving(c, E, cyclic),
       unknowns |-> CycleUnknowns(c, E, cyclic) \cup RefusedUnknowns(c, E)
                      \cup DanglingUnknowns(c)]
=============================================================================

-------------------------- MODULE ContextResolution --------------------------
(***************************************************************************)
(* Eligibility and conflict resolution: matches_requirement and            *)
(* _resolve_candidates of compiler/task_context.py, as operators on a set  *)
(* of candidates with distinct ids.                                        *)
(*                                                                         *)
(* A candidate is a record                                                 *)
(*   id, kind, key, rank    item_id, context_kind, semantic_key, rank of   *)
(*                          the authority level; ids and keys are numbers  *)
(*                          in the order their strings sort in             *)
(*   claim                  what it asserts, its source and scope aside    *)
(*   source                 place of its source in the order of immutable  *)
(*                          coordinate and content digest                  *)
(*   refs                   scope_refs, empty when it applies globally     *)
(*   coordinates            its source's coordinate and its revision       *)
(*   version                revision or version_or_revision                *)
(*   precedence             declared precedence, or None                   *)
(*   supersedes, supersededBy, status, domain (= key)                      *)
(*   cost                   canonical_cost, bytes                          *)
(* and a requirement a record with the fields of ContextRequirement.       *)
(***************************************************************************)
EXTENDS SupersessionRules, SequencesExt

CONSTANT None

GovernedOnlyKinds == {"authority", "capability"}

GloballyApplicableKinds == {"constraint", "law", "decision", "authority", "capability"}

SupersessionKinds == {"law", "decision"}

\* Kinds whose distinct claims under one key coexist.
CoexistingKinds == {"evidence", "memory"}

\* Kinds in which a differing version is a conflict whatever the authority.
VersionedKinds == {"repository", "dependency"}

\* matches_requirement
MatchesRequirement(q, x) ==
  /\ x.kind = q.kind
  /\ x.rank <= q.floor
  /\ x.kind \in GovernedOnlyKinds => x.rank \in GovernedRanks
  /\ IF q.refs = {}
       THEN x.refs = {}
       ELSE \/ x.refs \cap q.refs # {}
            \/ x.refs = {} /\ q.kind \in GloballyApplicableKinds
  /\ q.coordinate # None => q.coordinate \in x.coordinates

\* k comes before l in the lexicographic order of tuples of one length.
Before(k, l) == \E n \in DOMAIN k : k[n] < l[n] /\ \A m \in 1 .. n - 1 : k[m] = l[m]

\* _representative: of the candidates with one claim and one applicability the
\* strongest, then by source, then by id.
Representatives(G) ==
  {x \in G : \A y \in G \ {x} : y.claim = x.claim /\ y.refs = x.refs =>
               Before(<<x.rank, x.source, x.id>>, <<y.rank, y.source, y.id>>)}

\* _strongest
Strongest(R) == {x \in R : \A y \in R : x.rank <= y.rank}

\* Those with the best declared precedence, if all declare one.
Foremost(R) ==
  IF \A x \in R : x.precedence # None
    THEN {x \in R : \A y \in R : x.precedence <= y.precedence}
    ELSE R

\* _resolve_by_authority; no winner is a conflict.
ByAuthority(R) == IF Cardinality(Strongest(R)) = 1 THEN Strongest(R) ELSE {}

\* _resolve_group and _resolve_law
Winners(kind, R) ==
  IF Cardinality(R) = 1 \/ kind \in CoexistingKinds THEN R
  ELSE IF kind = "law" THEN ByAuthority(Foremost(R))
  ELSE IF kind \in VersionedKinds /\ Cardinality({x.version : x \in R}) > 1 THEN {}
  ELSE ByAuthority(R)

\* by_item over the candidates of one kind.
IndexOf(S, kind) ==
  LET ids == {x.id : x \in {y \in S : y.kind = kind}}
  IN  [i \in ids |-> CHOOSE x \in S : x.id = i]

\* One GroupResolution per kind and key.
ResolveGroups(S) ==
  {[group |-> g, items |-> Winners(g[1], Representatives({x \in S : <<x.kind, x.key>> = g}))] :
     g \in {<<x.kind, x.key>> : x \in S}}

\* ResolvedCandidates; a group without a winner is a conflict.
Resolved(groups, unknowns) ==
  [eligible  |-> UNION {r.items : r \in groups},
   conflicts |-> {r.group : r \in {s \in groups : s.items = {}}},
   unknowns  |-> unknowns]

\* _resolve_candidates: supersession over the whole kind first, then each group.
Resolve(S) ==
  LET outcomes == {Outcome(IndexOf(S, kind)) : kind \in SupersessionKinds}
      survivors == UNION {o.survivors : o \in outcomes}
  IN  Resolved(ResolveGroups({x \in S : x.kind \in SupersessionKinds => x.id \in survivors}),
               UNION {o.unknowns : o \in outcomes})

\* _candidate_sort_key: scoped before global, then authority, key and id.
SelectedBefore(x, y) ==
  Before(<<IF x.refs = {} THEN 1 ELSE 0, x.rank, x.key, x.id>>,
         <<IF y.refs = {} THEN 1 ELSE 0, y.rank, y.key, y.id>>)
=============================================================================

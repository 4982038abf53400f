---------------------------- MODULE Supersession ----------------------------
(***************************************************************************)
(* A candidate snapshot that grows, and what supersession makes of it.     *)
(*                                                                         *)
(* The host supplies claims one by one, in any order.  An item id is the   *)
(* digest of everything a claim says, of where it applies and of its       *)
(* source, but not of its authority level: the same item may be supplied   *)
(* twice at two levels.  resolve_snapshot sorts candidates by id and keeps *)
(* the copies of one id in input order; by_item keeps the last one.        *)
(***************************************************************************)
EXTENDS SupersessionRules, SequencesExt

CONSTANTS
  Ids,            \* item ids: numbers, in an order in which they can be derived
  Domains,        \* law ids or decision ids
  Ranks,          \* the authority ranks in use
  StatusesInUse,  \* the decision statuses in use
  MaxRefs,        \* bound on the references of one claim
  MaxCandidates   \* bound on the snapshot, SNAPSHOT_MAX_ITEMS in the code

ASSUME IdsAssumption == Ids \subseteq Nat
ASSUME DomainsAssumption == Ids \cap Domains = {}
ASSUME RanksAssumption == Ranks \subseteq Nat
ASSUME StatusesAssumption == StatusesInUse \subseteq Statuses
ASSUME BoundsAssumption == MaxRefs \in Nat /\ MaxCandidates \in Nat

VARIABLES
  snapshot,   \* item id -> the claim and the levels it was supplied at
  outcome     \* _resolve_supersession of the snapshot

vars == <<snapshot, outcome>>

\* A digest is known only after the claim it is taken of: a claim can name by
\* item id only claims whose id could be derived before its own.
RefsOf(i) == {j \in Ids : j < i} \cup Domains

\* The pairs <<supersedes, supersededBy>> a host may write down.
RefSets ==
  {p \in (SUBSET (Ids \cup Domains)) \X (SUBSET (Ids \cup Domains)) :
     Cardinality(p[1]) + Cardinality(p[2]) <= MaxRefs}

Claims(i) ==
  [domain : Domains, supersedes : SUBSET RefsOf(i), supersededBy : SUBSET RefsOf(i),
   status : StatusesInUse, levels : Seq(Ranks)]

\* _supersession_index: of several copies of an item the last one wins.
ByItem(s) ==
  [i \in DOMAIN s |->
     [domain |-> s[i].domain, supersedes |-> s[i].supersedes,
      supersededBy |-> s[i].supersededBy, status |-> s[i].status,
      rank |-> Last(s[i].levels)]]

Size(s) == FoldSet(LAMBDA i, n : Len(s[i].levels) + n, 0, DOMAIN s)

\* The candidates are s, and supersession is resolved over all of them.
Resolve(s) ==
  /\ snapshot' = s
  /\ outcome' = Outcome(ByItem(s))

Init ==
  /\ snapshot = <<>>
  /\ outcome = Outcome(ByItem(snapshot))

\* A new item; its id has been validated against its content.
Supply(i, d, over, under, st, r) ==
  /\ i \notin DOMAIN snapshot
  /\ over \cup under \subseteq RefsOf(i)
  /\ Resolve([j \in DOMAIN snapshot \cup {i} |->
                IF j = i
                  THEN [domain |-> d, supersedes |-> over, supersededBy |-> under,
                        status |-> st, levels |-> <<r>>]
                  ELSE snapshot[j]])

\* The same item once more, at any level.
SupplyCopy(i, r) ==
  /\ i \in DOMAIN snapshot
  /\ Resolve([snapshot EXCEPT ![i].levels = Append(@, r)])

Next ==
  /\ Size(snapshot) < MaxCandidates
  /\ \E i \in Ids, r \in Ranks :
       \/ SupplyCopy(i, r)
       \/ \E d \in Domains, st \in StatusesInUse, p \in RefSets :
            Supply(i, d, p[1], p[2], st, r)

Spec == Init /\ [][Next]_vars

-----------------------------------------------------------------------------
(* Properties. *)

rank(i) == Last(snapshot[i].levels)

\* The type of the state: every claim carries a level and refers only to ids
\* that its own digest could contain.
TypeOK ==
  /\ DOMAIN snapshot \subseteq Ids
  /\ \A i \in DOMAIN snapshot : snapshot[i] \in Claims(i) /\ snapshot[i].levels # <<>>
  /\ outcome.survivors \cup outcome.cyclic \subseteq DOMAIN snapshot

\* One more item never changes the fate of a strictly stronger claim: whether
\* that claim survives, and whether it is caught in a cycle, is decided by
\* claims at least as strong as itself.
WeakerIsInertStep ==
  \A n \in DOMAIN snapshot' \ DOMAIN snapshot : \A i \in DOMAIN snapshot :
    rank(i) < rank(n)' =>
      /\ i \in outcome.survivors <=> i \in outcome'.survivors
      /\ i \in outcome.cyclic <=> i \in outcome'.cyclic

WeakerIsInert == [][WeakerIsInertStep]_vars

\* A blocking unknown puts governed truth in doubt and nothing else: no
\* informative or unverified claim is caught in a governed cycle.
OnlyGovernedBlocks ==
  \A u \in outcome.unknowns : u.blocking => \A i \in u.claims : rank(i) \in GovernedRanks

\* A claim retired by another one is retired by something that stands: along
\* the edges it can be traced to a survivor, or to a decision its own author
\* marked superseded.  No chain of retirements ends in a cycle.
RetiredByAStandingClaim ==
  \A j \in Retired(outcome.edges, outcome.cyclic) : \E i \in DOMAIN snapshot :
    /\ i \in outcome.survivors \/ snapshot[i].status = "superseded"
    /\ j \in Reachable(DOMAIN snapshot, outcome.edges, i)

\* The documented order independence: the inverse input order of the copies
\* leaves the same surviving set.
OrderIndependent ==
  outcome.survivors
    = Outcome(ByItem([i \in DOMAIN snapshot |->
                        [snapshot[i] EXCEPT !.levels = Reverse(@)]])).survivors

\* The documented rule on self-reference: only a claim with a different domain
\* identifier may supersede another.
OnlyOtherDomains ==
  \A e \in outcome.edges : snapshot[e[1]].domain # snapshot[e[2]].domain
=============================================================================

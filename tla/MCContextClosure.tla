-------------------------- MODULE MCContextClosure --------------------------
(***************************************************************************)
(* Context compilation and closure for TLC: a pool of candidates of which  *)
(* a host supplies any part, and plans of two requirements.  Ids are       *)
(* 1, 2, ..., semantic keys 11, 12, ..., so a reference is never both.     *)
(***************************************************************************)
EXTENDS ContextClosure

Candidate(i, kind, key, rank, refs, cost) ==
  [id |-> i, kind |-> kind, key |-> key, domain |-> key, rank |-> rank, claim |-> i, source |-> 0,
   refs |-> refs, coordinates |-> {}, version |-> None, precedence |-> None,
   supersedes |-> {}, supersededBy |-> {}, status |-> "active", cost |-> cost,
   names |-> None, state |-> None, subject |-> None, actions |-> {}]

\* Two readings of one law in conflict, a scoped law that retires them, an
\* informative law, and two pieces of evidence under one key.
Pool ==
  {Candidate(1, "law", 11, 0, {}, 1),
   Candidate(2, "law", 11, 0, {}, 2),
   [Candidate(3, "law", 12, 0, {"here"}, 2) EXCEPT !.supersedes = {11}],
   Candidate(4, "law", 13, 2, {}, 1),
   Candidate(5, "evidence", 14, 3, {}, 1),
   Candidate(6, "evidence", 14, 2, {}, 2)}

Need(kind, mode, min, keys) ==
  [kind |-> kind, mode |-> mode, min |-> min, keys |-> keys, floor |-> 3, refs |-> {},
   coordinate |-> None, required |-> FALSE, policy |-> "optional",
   maxItems |-> 2, maxBytes |-> None]

AllLaw == Need("law", "all_eligible", 0, {})

LawNeeds ==
  {AllLaw,
   [AllLaw EXCEPT !.refs = {"here"}, !.maxItems = 3],
   [AllLaw EXCEPT !.maxItems = 1, !.floor = 1],
   [AllLaw EXCEPT !.maxItems = None, !.maxBytes = 2, !.policy = "preserve_unknown"],
   [AllLaw EXCEPT !.min = 1, !.required = TRUE, !.policy = "preserve_unknown", !.refs = {"here"}],
   [AllLaw EXCEPT !.min = 2, !.required = TRUE, !.policy = "block"],
   Need("law", "minimum", 1, {}),
   [Need("law", "minimum", 2, {}) EXCEPT !.required = TRUE, !.policy = "preserve_unknown"],
   [Need("law", "semantic_keys", 2, {11, 13}) EXCEPT !.refs = {"here"}]}

EvidenceNeeds ==
  {Need("evidence", "all_eligible", 0, {}),
   Need("evidence", "minimum", 1, {}),
   [Need("evidence", "semantic_keys", 1, {14}) EXCEPT
      !.required = TRUE, !.policy = "preserve_unknown", !.maxItems = 1]}

\* Any of them, followed by evidence or by law bound to another scope or mode.
LawPlans ==
  {<<p, q>> : p \in LawNeeds,
              q \in EvidenceNeeds \cup {r \in LawNeeds : r.refs # {} \/ (r.mode = "minimum" /\ r.required)}}

\* Readings of one law with a declared precedence, which outweighs authority, one
\* of them from two sources.
RankedLaws ==
  {[Candidate(1, "law", 11, 0, {}, 1) EXCEPT !.precedence = 2],
   [Candidate(2, "law", 11, 1, {}, 1) EXCEPT !.precedence = 1],
   [Candidate(3, "law", 11, 2, {}, 1) EXCEPT !.precedence = 1, !.claim = 2],
   [Candidate(4, "law", 11, 2, {}, 1) EXCEPT !.precedence = 1]}

SmallBudgets == {[items |-> 1, bytes |-> 9], [items |-> 3, bytes |-> 3], [items |-> 9, bytes |-> 9]}

-----------------------------------------------------------------------------
(* The other kinds: decisions that contradict each other or whose status is  *)
(* unknown, one repository fact at two revisions and from two sources, an    *)
(* informative and a governed capability, and memory.                        *)

KindPool ==
  {[Candidate(1, "decision", 11, 1, {}, 1) EXCEPT !.supersedes = {12}],
   [Candidate(2, "decision", 12, 1, {}, 1) EXCEPT !.supersedes = {11}],
   [Candidate(3, "decision", 13, 2, {}, 1) EXCEPT
      !.status = "unknown", !.supersedes = {12}, !.supersededBy = {11}],
   [Candidate(4, "repository", 14, 0, {"here"}, 2) EXCEPT
      !.version = "v1", !.coordinates = {"v1"}, !.claim = 5, !.source = 1],
   [Candidate(5, "repository", 14, 0, {"here"}, 2) EXCEPT
      !.version = "v1", !.coordinates = {"v1"}],
   [Candidate(6, "repository", 14, 1, {"here"}, 1) EXCEPT
      !.version = "v2", !.coordinates = {"v2"}],
   Candidate(7, "capability", 15, 2, {}, 1),
   Candidate(8, "capability", 15, 1, {}, 1),
   Candidate(9, "memory", 16, 2, {}, 1)}

RepositoryNeed ==
  [Need("repository", "all_eligible", 1, {}) EXCEPT
     !.required = TRUE, !.policy = "preserve_unknown", !.refs = {"here"}]

KindPlan(repository, decision) ==
  <<repository, decision, Need("capability", "all_eligible", 0, {}), Need("memory", "minimum", 2, {})>>

AllDecisions == Need("decision", "all_eligible", 0, {})
OneDecision == [Need("decision", "semantic_keys", 1, {13}) EXCEPT !.floor = 2]

KindPlans ==
  {KindPlan(RepositoryNeed, AllDecisions),
   KindPlan([RepositoryNeed EXCEPT !.coordinate = "v1"], OneDecision),
   KindPlan([RepositoryNeed EXCEPT !.policy = "block", !.floor = 0], AllDecisions)}

-----------------------------------------------------------------------------
(* Tasks whose requirements the planner makes. *)

\* A question: nothing is changed, delivered or validated, and no reference named.
Question ==
  [targets |-> {}, inScope |-> {}, excluded |-> {}, mode |-> "ANALYSIS",
   validation |-> FALSE, delivery |-> FALSE, terminal |-> FALSE, tokens |-> FALSE,
   mapped |-> {21, 22}, handed |-> None, needs |-> {}]

Change == [Question EXCEPT !.mode = "MUTATION", !.validation = TRUE, !.delivery = TRUE]

KernelNeed(kernel, kind, mode, floor, keys, required, reason) ==
  [kernel |-> kernel, kind |-> kind, mode |-> mode, floor |-> floor, keys |-> keys,
   required |-> required, reason |-> reason]

Needs ==
  {KernelNeed("k1", "capability", "minimum", 2, {}, TRUE, 1),
   KernelNeed("k2", "capability", "minimum", 1, {}, TRUE, 1),
   KernelNeed("k2", "law", "semantic_keys", 1, {31, 32}, TRUE, 2),
   KernelNeed("k2", "constraint", "all_eligible", 1, {}, FALSE, 3),
   KernelNeed("k1", "memory", "minimum", 3, {}, FALSE, 4),
   KernelNeed("k1", "repository", "all_eligible", 3, {}, FALSE, 5)}

Tasks ==
  {Question,
   [Question EXCEPT !.inScope = {"here"}, !.handed = FALSE],
   Change,
   [Change EXCEPT !.targets = {"here"}],
   [Change EXCEPT !.targets = {"here", "there"}, !.excluded = {"there"}, !.tokens = TRUE],
   [Change EXCEPT !.mode = "ARTIFACT", !.inScope = {"here"}, !.terminal = TRUE, !.needs = Needs],
   [Change EXCEPT !.targets = {"here"}, !.needs = Needs]}

Fact(i, kind, key, names, state, rank, refs) ==
  [Candidate(i, kind, key, rank, refs, 1) EXCEPT !.names = names, !.state = state]

\* A signal proven here, the same one elsewhere, a global one, and informative
\* constraints that come before it in the order of selection.
Constraints ==
  {Candidate(1, "constraint", 21, 1, {"here"}, 1),
   Candidate(2, "constraint", 21, 0, {"there"}, 1),
   Candidate(3, "constraint", 22, 0, {}, 1),
   Candidate(4, "constraint", 23, 2, {"here"}, 1),
   Candidate(5, "constraint", 22, 2, {"here"}, 2)}

\* A repository, grants over it, over one target and over another repository, and
\* a limit under the key of the first.
Authorities ==
  {[Candidate(6, "repository", 24, 1, {"here"}, 1) EXCEPT !.names = "repo", !.subject = "here"],
   [Fact(7, "authority", 41, "repository_write", "granted", 1, {}) EXCEPT !.subject = "repo"],
   [Fact(8, "authority", 41, "repository_write", "limit", 0, {"here"}) EXCEPT !.subject = "repo"],
   [Fact(9, "authority", 42, "repository_write", "granted", 0, {}) EXCEPT
      !.subject = "other"],
   [Fact(10, "authority", 43, "repository_write", "granted", 1, {"here"}) EXCEPT
      !.actions = {"here"}],
   Fact(11, "authority", 44, "delivery", "unknown", 1, {})}

\* A capability there, not there, or in doubt, and the laws a kernel asks for.
Capabilities ==
  {Fact(12, "capability", 51, "workspace_mutation", "available", 1, {}),
   Fact(13, "capability", 51, "workspace_mutation", "unavailable", 0, {"here"}),
   Fact(14, "capability", 52, "validation_execution", "unavailable", 1, {}),
   Fact(15, "capability", 53, "artifact_emission", "unknown", 2, {}),
   Candidate(16, "law", 31, 1, {}, 1),
   Candidate(17, "law", 32, 0, {"there"}, 1),
   Candidate(18, "memory", 33, 2, {}, 1),
   Candidate(19, "repository", 34, 3, {"here"}, 1)}

\* Facts in conflict of which a requirement bound to the task sees one: discovery
\* reports the contradiction and the requirement selects its fact.
TwoViews ==
  {[Candidate(20, "repository", 14, 0, {}, 1) EXCEPT !.version = "v1", !.coordinates = {"v1"}],
   [Candidate(21, "repository", 14, 0, {"here"}, 1) EXCEPT
      !.version = "v2", !.coordinates = {"v2"}]}

PlannedInputs ==
  [snapshot : SUBSET Constraints \cup SUBSET Authorities \cup SUBSET Capabilities
              \cup SUBSET TwoViews,
   task : Tasks, plan : {None}]

MCInputs == [snapshot : SUBSET Pool, task : {Question}, plan : LawPlans]
            \cup [snapshot : SUBSET RankedLaws, task : {Question}, plan : {<<AllLaw>>}]
            \cup [snapshot : SUBSET KindPool, task : {Question}, plan : KindPlans]
            \cup PlannedInputs
=============================================================================

------------------------- MODULE ContextDispositions -------------------------
(***************************************************************************)
(* Capability and authority: what a task needs, derived from its objective *)
(* and scope, and what the selected facts prove of it (_compile_capabilities *)
(* and _compile_authority of compiler/task_context.py).                    *)
(*                                                                         *)
(* A candidate also has                                                    *)
(*   names     capability_id, authority_id or repository_id                *)
(*   state     of a capability or an authority fact                        *)
(*   subject   subject_ref, or None                                        *)
(*   actions   action_scope, empty when unstated                           *)
(***************************************************************************)
EXTENDS ContextPlanner

Facts(selected, kind, state) == {x \in selected : x.kind = kind /\ x.state = state}

\* The unknown of something required and not proven; a proven negative blocks.
Gap(reason, about, state, negatives) ==
  Free(reason, None, state \in negatives, [about |-> about, state |-> state])

-----------------------------------------------------------------------------
(* Capabilities *)

RequiredCapabilities(task, material) ==
  UNION {IF task.mode = "MUTATION" THEN {"workspace_mutation"} ELSE {},
         IF task.mode = "ARTIFACT" THEN {"artifact_emission"} ELSE {},
         IF task.validation THEN {"validation_execution"} ELSE {},
         IF task.terminal THEN {"terminal_convergence"} ELSE {},
         IF material THEN {"architecture_review"} ELSE {}}

\* capability_disposition: a proven negative outweighs a proven positive.
CapabilityDisposition(c, selected) ==
  LET proven(state) == \E x \in Facts(selected, "capability", state) : x.names = c IN
  IF proven("unavailable") THEN "unavailable"
  ELSE IF proven("available") THEN "available"
  ELSE IF proven("unknown") THEN "unknown"
  ELSE "absent"

CapabilityUnknowns(task, material, selected) ==
  LET state(c) == CapabilityDisposition(c, selected) IN
  {Gap("capability", c, state(c), {"unavailable"}) :
     c \in {d \in RequiredCapabilities(task, material) : state(d) # "available"}}

\* Two selected facts that say opposite things of one capability.
Contradictory(selected) ==
  {x.names : x \in Facts(selected, "capability", "available")}
    \cap {x.names : x \in Facts(selected, "capability", "unavailable")}

-----------------------------------------------------------------------------
(* Authorities: an AuthorityRequirement is [authority, subject, actions],   *)
(* which is also its semantic key.                                          *)

\* A grant contains the requirement: a field it leaves unstated is unrestricted.
GrantCovers(x, q) ==
  /\ x.names = q.authority
  /\ x.subject \in {None, q.subject}
  /\ x.actions = {} \/ q.actions \subseteq x.actions

\* A limit intersects it: an unstated field on either side is not disjoint.
LimitBears(x, q) ==
  /\ x.names = q.authority
  /\ x.subject = None \/ q.subject = None \/ x.subject = q.subject
  /\ x.actions = {} \/ q.actions = {} \/ x.actions \cap q.actions # {}

\* _repository_subjects: the repositories whose selected governed facts name a
\* target, each with those targets; targets nobody names stay without subject.
RepositorySubjects(task, selected) ==
  LET named(x) == task.targets \cap ({x.subject} \cup x.refs)
      facts == {x \in selected : x.kind = "repository" /\ x.rank \in GovernedRanks
                                                       /\ named(x) # {}}
      of(r) == UNION {named(x) : x \in {y \in facts : y.names = r}}
      unnamed == task.targets \ UNION {named(x) : x \in facts}
  IN  {[subject |-> x.names, actions |-> of(x.names)] : x \in facts}
        \cup IF unnamed # {} \/ facts = {} THEN {[subject |-> None, actions |-> unnamed]} ELSE {}

RequiredAuthorities(task, material, selected) ==
  LET whole(a) == [authority |-> a, subject |-> None, actions |-> {}] IN
  UNION {IF task.mode = "MUTATION"
           THEN {[authority |-> "repository_write", subject |-> s.subject, actions |-> s.actions] :
                   s \in RepositorySubjects(task, selected)}
           ELSE {},
         IF task.delivery THEN {whole("delivery")} ELSE {},
         IF material THEN {whole("architecture_decision")} ELSE {}}

\* The facts of one state about the authority q asks for.
About(q, selected, state) == {x \in Facts(selected, "authority", state) : x.names = q.authority}

\* Mutant of AuthorityDisposition: a grant is matched by its authority alone.
AuthorityDispositionById(q, selected) ==
  IF About(q, selected, "granted") # {} THEN "granted"
  ELSE IF \E x \in About(q, selected, "limit") : LimitBears(x, q) THEN "limited_without_grant"
  ELSE IF About(q, selected, "unknown") # {} THEN "unknown"
  ELSE "absent"

\* authority_disposition: a covering grant, else a limit that bears on the
\* requirement, else a grant that does not cover it, else doubt, else nothing.
AuthorityDisposition(q, selected) ==
  IF \E x \in About(q, selected, "granted") : GrantCovers(x, q) THEN "granted"
  ELSE IF \E x \in About(q, selected, "limit") : LimitBears(x, q) THEN "limited_without_grant"
  ELSE IF About(q, selected, "granted") # {} THEN "insufficient_scope"
  ELSE IF About(q, selected, "unknown") # {} THEN "unknown"
  ELSE "absent"

AuthorityUnknowns(task, material, selected) ==
  LET state(q) == AuthorityDisposition(q, selected) IN
  {Gap("authority", q, state(q), {"limited_without_grant", "insufficient_scope"}) :
     q \in {r \in RequiredAuthorities(task, material, selected) : state(r) # "granted"}}
=============================================================================

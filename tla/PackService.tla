----------------------------- MODULE PackService -----------------------------
(***************************************************************************)
(* What the service promises about the runtime pack (service.py,           *)
(* pack/loader.py and the semantic prefix of compiler/pipeline.py),        *)
(* without the files of the pack and without the reads of a call.          *)
(*                                                                         *)
(*   - every call takes the installed manifest at one instant, and its     *)
(*     answer is a function of that manifest and of the host's snapshot,   *)
(*     however many files a deployment replaces while the call runs;       *)
(*   - the label of the answer is the manifest of one later instant;       *)
(*   - compile_from_root() promises no manifest and says so, but its       *)
(*     answer, too, is a function of one set of sources;                   *)
(*   - a compile bound to a plan is answered only with the plan's answer,  *)
(*     and "replan required" only says that the answer would be another.   *)
(*                                                                         *)
(* PlanBinding is shown to implement this module.                          *)
(***************************************************************************)
EXTENDS Naturals, Sequences

CONSTANTS
  Callers,        \* outer hosts
  Kernels,        \* paths of kernels
  RULES_REL,      \* path of the routing rules
  PIPELINE_REL,   \* path of the pipeline definition
  Contents,       \* what a file may hold
  Malformed,      \* the contents that do not parse
  Manifests,      \* the manifests a deployment may install
  Items,          \* context items a host may supply
  Eligible,       \* those that discovery may route from
  Activate(_, _, _), \* the kernels for rules, pipeline and discovery
  Unverified,     \* the label of an answer without a manifest
  None            \* an unlisted path, no plan, no bundle

VARIABLES
  installed,  \* the manifest of the pack
  phase,      \* where each call is
  op,         \* what it was made for
  used,       \* the manifest it took
  label,      \* the manifest its answer names
  snapshot,   \* the items the host has gathered
  plan,       \* the answer to a plan, while the host holds it
  bundle,     \* the answer to a compile, with the plan it was bound to
  status      \* how the last call ended

call == <<phase, op, used, label>>
serviceVars == <<installed, call, snapshot, plan, bundle, status>>

Paths == Kernels \cup {RULES_REL, PIPELINE_REL}
Releases == [Paths -> Contents \cup {None}]
Nothing == [p \in Paths |-> None]

-----------------------------------------------------------------------------
(* The answer of a call, computed from one release in one step. *)

Discovery(c) == snapshot[c] \cap Eligible

Chosen(c, m) == Activate(m[RULES_REL], m[PIPELINE_REL], Discovery(c))

Sources(c, m) ==
  {RULES_REL, PIPELINE_REL} \cup {Chosen(c, m)[i] : i \in DOMAIN Chosen(c, m)}

\* All that the answer needs is listed and parses.
Usable(c, m) == \A p \in Sources(c, m) : m[p] # None /\ m[p] \notin Malformed

Answer(c, m) ==
  [discovery |-> Discovery(c),
   sources |-> [p \in Paths |-> IF p \in Sources(c, m) THEN m[p] ELSE None],
   kernels |-> Chosen(c, m),
   label |-> label[c]]

\* The releases a call may answer from: the one it took, or any for a bare root.
Basis(c) == IF op[c] = "root" THEN Releases ELSE {used[c]}

-----------------------------------------------------------------------------

Init ==
  /\ installed \in Manifests
  /\ phase = [c \in Callers |-> "idle"]
  /\ op = [c \in Callers |-> "plan"]
  /\ used = [c \in Callers |-> Nothing]
  /\ label = [c \in Callers |-> Unverified]
  /\ snapshot = [c \in Callers |-> {}]
  /\ plan = [c \in Callers |-> None]
  /\ bundle = [c \in Callers |-> None]
  /\ status = [c \in Callers |-> "none"]

Install(m) ==
  /\ installed' = m
  /\ UNCHANGED <<call, snapshot, plan, bundle, status>>

\* A host with a plan only compiles, and may have gathered more items.
Ask(c, o, more) ==
  /\ phase[c] = "idle"
  /\ o # "compile" => plan[c] = None /\ more = {}
  /\ phase' = [phase EXCEPT ![c] = IF o = "root" THEN "answer" ELSE "take"]
  /\ op' = [op EXCEPT ![c] = o]
  /\ used' = [used EXCEPT ![c] = Nothing]
  /\ label' = [label EXCEPT ![c] = Unverified]
  /\ snapshot' = [snapshot EXCEPT ![c] = @ \cup more]
  /\ bundle' = [bundle EXCEPT ![c] = None]
  /\ UNCHANGED <<installed, plan, status>>

\* The instant at which the call takes effect,
Take(c) ==
  /\ phase[c] = "take"
  /\ used' = [used EXCEPT ![c] = installed]
  /\ phase' = [phase EXCEPT ![c] = "label"]
  /\ UNCHANGED <<installed, op, label, snapshot, plan, bundle, status>>

\* and the one its label is of.
Label(c) ==
  /\ phase[c] = "label"
  /\ label' = [label EXCEPT ![c] = installed]
  /\ phase' = [phase EXCEPT ![c] = "answer"]
  /\ UNCHANGED <<installed, op, used, snapshot, plan, bundle, status>>

End(c, how) ==
  /\ phase' = [phase EXCEPT ![c] = "idle"]
  /\ status' = [status EXCEPT ![c] = how]
  /\ UNCHANGED <<installed, op, used, label, snapshot>>

\* A call may find a file missing, changed or malformed.
Fail(c) ==
  /\ phase[c] \in {"label", "answer"}
  /\ End(c, "failed")
  /\ UNCHANGED <<plan, bundle>>

Plan(c, m) ==
  /\ op[c] = "plan"
  /\ plan' = [plan EXCEPT ![c] = Answer(c, m)]
  /\ End(c, "plan")
  /\ UNCHANGED bundle

Replan(c, m) ==
  /\ op[c] # "plan"
  /\ plan[c] \notin {None, Answer(c, m)}
  /\ plan' = [plan EXCEPT ![c] = None]
  /\ End(c, "replan")
  /\ UNCHANGED bundle

Compile(c, m) ==
  /\ op[c] # "plan"
  /\ plan[c] \in {None, Answer(c, m)}
  /\ bundle' = [bundle EXCEPT ![c] = [bound |-> plan[c], answer |-> Answer(c, m)]]
  /\ plan' = [plan EXCEPT ![c] = None]
  /\ End(c, "bundle")

\* A later stage of the compile refuses, and the host keeps its plan.
Refuse(c, m) ==
  /\ op[c] # "plan"
  /\ plan[c] \in {None, Answer(c, m)}
  /\ End(c, "refused")
  /\ UNCHANGED <<plan, bundle>>

Reply(c, m) ==
  /\ phase[c] = "answer"
  /\ Usable(c, m)
  /\ Plan(c, m) \/ Replan(c, m) \/ Compile(c, m) \/ Refuse(c, m)

Next ==
  \/ \E m \in Manifests : Install(m)
  \/ \E c \in Callers :
       \/ \E o \in {"plan", "compile", "root"}, more \in SUBSET Items : Ask(c, o, more)
       \/ Take(c)
       \/ Label(c)
       \/ Fail(c)
       \/ \E m \in Basis(c) : Reply(c, m)

Spec == Init /\ [][Next]_serviceVars
=============================================================================

---------------------------- MODULE Obligations -----------------------------
(***************************************************************************)
(* compiler/obligations.py: the obligations a compile derives once and the *)
(* checks that carry them through every later representation.              *)
(*                                                                         *)
(* An obligation_id is a pair: <<"OBL", name>> for the fixed ones,         *)
(* <<"CONTEXT", u>> for the blocking context unknown u and <<"NOTE", i>>   *)
(* for the caller's i-th unknown.  A list of obligations is the set of its *)
(* entries, since nothing depends on their order; an entry knows its place *)
(* in the derivation, so that two entries with one id remain two.          *)
(***************************************************************************)
EXTENDS Activation

Obl(name) == <<"OBL", name>>

Obligation(place, id, kind, owner) ==
    [place |-> place, id |-> id, kind |-> kind, owner |-> owner,
     required |-> TRUE, disposition |-> "PENDING"]

Fixed(name, kind, owner) == Obligation(Obl(name), Obl(name), kind, owner)

ContextUnknown(unknowns, i) ==
    Obligation(<<"CONTEXT", i>>, <<"CONTEXT", unknowns[i]>>, "EPISTEMIC", "context_compiler")

\* Mutant of Note: the caller's unknowns block like any obligation.
NoteBlocks(i) == Obligation(<<"NOTE", i>>, <<"NOTE", i>>, "EPISTEMIC", "objective_deriver")

\* A caller's note: conserved, never blocking.
Note(i) == [Obligation(<<"NOTE", i>>, <<"NOTE", i>>, "EPISTEMIC", "objective_deriver")
               EXCEPT !.required = FALSE]

When(condition, obligation) == IF condition THEN {obligation} ELSE {}

\* The owners that are no kernels.
Components == {"objective_deriver", "validation_runtime", "adapter_renderer", "context_compiler",
               "terminal:flawless_victory", "phase:P2"}

\* The first bound kernel of a family, or the stand-in the code falls back to.
FirstOf(bindings, family, otherwise) ==
    LET hits == {i \in DOMAIN bindings : bindings[i] \in family}
    IN  IF hits = {} THEN otherwise ELSE bindings[Min(hits)]

\* ObligationDeriver.derive.  unknowns are the blocking unknowns of the compiled
\* context, notes the caller's own unknowns.
Derive(objective, plan, bindings, unknowns, notes) ==
    LET terminal == FirstOf(bindings, {FV}, "terminal:flawless_victory")
    IN  {Fixed("AUTHORITY", "AUTHORITY", K01),
         Fixed("RUNTIME_INTEGRITY", "VALIDATION", "validation_runtime"),
         Fixed("REALIZATION", "REALIZATION", FirstOf(bindings, Task, "phase:P2"))}
        \cup When(objective.validation, Fixed("VALIDATION", "VALIDATION", "validation_runtime"))
        \cup When(objective.delivery, Fixed("DELIVERY", "DELIVERY", terminal))
        \cup When(Accountable(objective) \/ plan.terminal_allowed,
                  Fixed("CONVERGENCE", "CONVERGENCE", terminal))
        \cup When(plan.materiality.required, Fixed("ARCHITECTURE", "ARCHITECTURE", GAR))
        \cup When(objective.mode = "UNKNOWN",
                  Fixed("RESOLUTION", "EPISTEMIC", "objective_deriver"))
        \cup {ContextUnknown(unknowns, i) : i \in DOMAIN unknowns}
        \cup {Note(i) : i \in {j \in DOMAIN notes : notes[j] # "realization_mode_UNKNOWN"}}

Ids(obligations) == {o.id : o \in obligations}

\* _index refuses two obligations with one id.
Indexed(obligations) == \A o, p \in obligations : o.id = p.id => o = p

RequiredPending(obligations) ==
    {o.id : o \in {p \in obligations : p.required /\ p.disposition = "PENDING"}}

\* owner_registry and validate_obligations.
OwnersResolve(obligations, plan, bindings) ==
    LET registry == (IF Contains(plan.phases, "P2") THEN Components
                     ELSE Components \ {"phase:P2"}) \cup ToSet(bindings)
    IN  /\ Indexed(obligations)
        /\ \A o \in obligations : o.owner \in registry

\* conserve: a required pending obligation of the parent is in the child under
\* its own id and kind.
Conserve(parent, child) ==
    /\ Indexed(parent) /\ Indexed(child)
    /\ \A o \in parent :
          o.required /\ o.disposition = "PENDING"
             => \E c \in child : c.id = o.id /\ c.kind = o.kind

\* conserve_ids: the child carries ids only, and no id the parent does not have.
ConserveIds(parent, ids) ==
    /\ Indexed(parent)
    /\ RequiredPending(parent) \subseteq ids
    /\ ids \subseteq Ids(parent)
=============================================================================

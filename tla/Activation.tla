----------------------------- MODULE Activation -----------------------------
(***************************************************************************)
(* What a request asks for and what the planner activates for it: the      *)
(* objective derivation (compiler/objective.py), the architecture          *)
(* materiality (compiler/architecture_materiality.py) and the activation   *)
(* planner (compiler/activation.py).                                       *)
(*                                                                         *)
(* A mission is text in the code.  Only which of the governed word lists   *)
(* it hits matters, so a mission is the record of those hits:              *)
(*   score     how many of a route's match_any tokens it contains          *)
(*   verbs     the realization modes whose verb family it contains         *)
(*   improve   it contains an improvement word ("clean", "harden", ...)    *)
(*   triggers  the materiality triggers whose tokens it contains           *)
(*   phrase    it contains a terminal_activation phrase                    *)
(*   l9        it contains an L9 word ("kernel", "runtime", "gate", ...)   *)
(* Each list has words of its own, so every combination is some mission.   *)
(*                                                                         *)
(* A pack is the record of what the two YAML sources of the pack say:      *)
(*   routes    the route names, in file order                              *)
(*   route     name -> [phases, optional : sets, tasks : sequence]         *)
(*   order     the phases of phase_order                                   *)
(*   primary   phase -> its primary_kernels                                *)
(*   outputs   phase or kernel -> the output ids it must produce           *)
(*   adds      the phase gar_activation adds                               *)
(*   signals   context_signal_map, a partial function to triggers          *)
(*   temporal  the triggers of the temporal lens                           *)
(*   files     the kernels that are files of the pack and declare their    *)
(*             identity, outputs and needs as the resolver requires        *)
(*   declares  the fields among pipeline_id and terminal_contract that the *)
(*             pipeline states                                             *)
(***************************************************************************)
EXTENDS Naturals, Sequences, FiniteSets, SequencesExt

CONSTANTS Constitutional, \* kernels under runtime/kernels/constitutional/
          Task            \* kernels under runtime/kernels/task/

\* The paths the code names: K01, the Global Architect and Flawless Victory.
K01 == "K01"
GAR == "global_architect"
FV  == "flawless_victory"

(* ------------------------------ objective ------------------------------ *)

\* The first family with a hit decides; an audit-and-fix mission is a mutation.
RealizationMode(mission) ==
    Head(SelectSeq(<<"MUTATION", "ANALYSIS", "ARTIFACT", "DECISION", "UNKNOWN">>,
                   LAMBDA mode : mode \in mission.verbs \cup {"UNKNOWN"}))

Objective(mission) ==
    LET mode == RealizationMode(mission)
    IN  [mode       |-> mode,
         validation |-> mode \in {"MUTATION", "ARTIFACT", "UNKNOWN"},
         delivery   |-> mode \in {"MUTATION", "ARTIFACT"}]

Accountable(objective) == objective.validation \/ objective.delivery

(* ----------------------------- materiality ----------------------------- *)

\* Governed signals and mission words fire triggers; any trigger is material.
Materiality(pack, mission, signals) ==
    LET triggers == mission.triggers
                    \cup {pack.signals[s] : s \in signals \cap DOMAIN pack.signals}
    IN  [required |-> triggers # {},
         temporal |-> triggers \cap pack.temporal # {}]

(* ------------------------------- planner ------------------------------- *)

\* The first route, in file order, with the highest score.
MatchRoute(pack, mission) ==
    LET Score(i) == mission.score[pack.routes[i]]
        best == CHOOSE i \in DOMAIN pack.routes :
                   \A j \in DOMAIN pack.routes :
                      /\ Score(j) <= Score(i)
                      /\ j < i => Score(j) < Score(i)
    IN  pack.routes[best]

\* The phases the route, the request and the materiality ask for.  P7 is never
\* taken from optional_phases: only include_terminal, or a route's own phases.
AskedPhases(pack, route, request, materiality) ==
    route.phases
    \cup (IF request.include_terminal THEN {"P7"}
          ELSE IF request.mission.improve THEN route.optional \cap {"P4", "P5", "P6"}
          ELSE {})
    \cup (IF materiality.required THEN {pack.adds} ELSE {})

\* The entries of s at the places of P, in order.
Entries(s, P) == [n \in 1..Cardinality(P) |->
                     s[CHOOSE i \in P : Cardinality({j \in P : j <= i}) = n]]

\* The entries of s that are in S; the first ones of their kind.
Kept(s, S)  == Entries(s, {i \in DOMAIN s : s[i] \in S})
Distinct(s) == Entries(s, {i \in DOMAIN s : \A j \in 1..(i - 1) : s[j] # s[i]})

\* Primary kernels of every phase but P2, in order, without repetition.
PrimaryKernels(pack, phases) ==
    Distinct(FlattenSeq([i \in DOMAIN phases |->
                            IF phases[i] = "P2" THEN <<>> ELSE pack.primary[phases[i]]]))

\* The route's task kernels go in after the last constitutional kernel.
InsertTasks(active, tasks) ==
    LET new == Kept(tasks, ToSet(tasks) \ ToSet(active))
        law == {i \in DOMAIN active : active[i] \in Constitutional}
        cut == IF law = {} THEN Len(active) ELSE Max(law)
    IN  SubSeq(active, 1, cut) \o new \o SubSeq(active, cut + 1, Len(active))

\* list.remove: the first occurrence goes.
WithoutFirst(s, e) == Entries(s, DOMAIN s \ {Min({i \in DOMAIN s : s[i] = e})})

Plan(pack, request) ==
    LET mission     == request.mission
        name        == MatchRoute(pack, mission)
        route       == pack.route[name]
        materiality == Materiality(pack, mission, request.signals)
        ordered     == Kept(pack.order, AskedPhases(pack, route, request, materiality))
        active      == InsertTasks(PrimaryKernels(pack, ordered), route.tasks)
        allowed     == mission.phrase \/ request.include_terminal
        struck      == Contains(ordered, "P7") /\ ~allowed
        phases      == IF struck THEN WithoutFirst(ordered, "P7") ELSE ordered
    IN  [route            |-> name,
         phases           |-> phases,
         active           |-> IF struck THEN Kept(active, ToSet(active) \ {FV}) ELSE active,
         terminal_allowed |-> Contains(ordered, "P7") /\ allowed,
         materiality      |-> materiality,
         blocked          |-> mission.l9 /\ ~Contains(phases, "P1")]

\* KernelResolver.resolve: one binding per distinct kernel, in order; none when
\* an activated kernel is not a file of the pack.
Bindings(active) == Distinct(active)
Resolvable(pack, active) == Bindings(active) \in Seq(pack.files)
=============================================================================

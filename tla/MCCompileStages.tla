-------------------------- MODULE MCCompileStages ---------------------------
(***************************************************************************)
(* The shipped rules and pipeline (runtime/kernel_pipeline/), packs whose  *)
(* two sources disagree, and the requests the runs compile.                *)
(***************************************************************************)
EXTENDS CompileStages

MCConstitutional == {"K01", "K02"}
MCTask == {"developer", "auditor", "prompt", "engine", "review"}

Base == {"P0", "P1", "P2"}
Route(phases, optional, tasks) == [phases |-> phases, optional |-> optional, tasks |-> tasks]

\* TASK_ROUTING_RULES.yaml and KERNEL_PIPELINE.yaml; K02 stands for K02 to K05
\* and one kernel for the other kernels of a phase.
MCShipped ==
    [routes   |-> <<"pack_review", "compilation", "engine_build", "review_ci", "boundary",
                    "cleanup", "feature">>,
     route    |-> [pack_review  |-> Route(Base, {"P4", "P5"}, <<"auditor">>),
                   compilation  |-> Route(Base, {"P4", "P5", "P6"}, <<"prompt">>),
                   engine_build |-> Route(Base \cup {"P3"}, {"P4", "P5", "P6", "P7"},
                                          <<"developer", "engine">>),
                   review_ci    |-> Route(Base, {"P4", "P5"}, <<"review">>),
                   boundary     |-> Route(Base \cup {"P3"}, {"P4", "P6"},
                                          <<"auditor", "developer">>),
                   cleanup      |-> Route(Base \cup {"P4", "P5", "P6"}, {"P7"},
                                          <<"auditor", "prompt">>),
                   feature      |-> Route(Base, {"P4", "P5", "P6", "P7"}, <<"developer">>)],
     order    |-> <<"P0", "P1", "P2", "P3", "P4", "P5", "P6", "P7">>,
     primary  |-> [P0 |-> <<"auditor">>, P1 |-> <<"K01", "K02">>,
                   P2 |-> <<"developer", "auditor", "prompt", "engine", "review">>,
                   P3 |-> <<"taxonomy", GAR>>, P4 |-> <<"alignment">>,
                   P5 |-> <<"improvement">>, P6 |-> <<"leverage">>, P7 |-> <<FV>>],
     outputs  |-> [P0 |-> {"system_map"}, P1 |-> {"preflight"}, P2 |-> {"plan"},
                   P3 |-> {"decision_record"}, P4 |-> {"findings"}, P5 |-> {"patch_plan"},
                   P6 |-> {"decisions"}, P7 |-> {"final_contract"},
                   global_architect |-> {"integrity", "readiness"}],
     adds     |-> "P3",
     signals  |-> [redelivery |-> "temporal", workers |-> "concurrency"],
     temporal |-> {"temporal"},
     files    |-> MCConstitutional \cup MCTask
                  \cup {"taxonomy", GAR, "alignment", "improvement", "leverage", FV},
     declares |-> {"pipeline_id", "terminal_contract"}]

\* One change each; digests and shapes are fine, so the loader accepts them all.
MCChanged ==
    {[MCShipped EXCEPT !.route.feature.phases = {"P0", "P2"}],         \* no preflight
     [MCShipped EXCEPT !.route.feature.phases = {"P1", "P2"}],         \* no unpack
     [MCShipped EXCEPT !.route.feature.phases = {"P0", "P1"}],         \* no task routing
     [MCShipped EXCEPT !.route.feature.phases = Base \cup {"P7"}],     \* terminal phase
     [MCShipped EXCEPT !.route.feature.tasks = <<"developer", "K02">>],
     [MCShipped EXCEPT !.primary.P2 = <<"auditor">>],                  \* unlisted task kernel
     [MCShipped EXCEPT !.primary.P1 = <<"K02">>],                      \* K01 not a kernel of P1
     [MCShipped EXCEPT !.primary.P7 = <<"sealing", FV>>, !.files = @ \cup {"sealing"},
                       !.route.feature.phases = Base \cup {"P7"}],
     [MCShipped EXCEPT !.adds = "P4"],                                 \* architecture elsewhere
     [MCShipped EXCEPT !.outputs.global_architect = {}],
     [MCShipped EXCEPT !.files = @ \ {GAR}],
     [MCShipped EXCEPT !.declares = {"pipeline_id"}],
     [MCShipped EXCEPT !.declares = {"terminal_contract"}],
     [MCShipped EXCEPT !.order = <<"P0", "P1", "P2", "P2", "P3", "P7">>],
     [MCShipped EXCEPT !.order = <<"P7", "P0", "P1", "P2", "P3", "P7">>,
                       !.route.feature.phases = Base \cup {"P7"}],    \* repeated
     [MCShipped EXCEPT !.order = <<"P0", "P1", "P2", "P7", "P3">>,
                       !.route.feature.phases = Base \cup {"P7"}],    \* terminal phase inside
     [MCShipped EXCEPT !.order = <<"P0", "P1", "P2", "P3", "PX", "P7">>,
                       !.route.feature.phases = Base \cup {"PX"},
                       !.primary = ("PX" :> <<"leverage">>) @@ @]}

RouteNames == ToSet(MCShipped.routes)

Mission(score, verbs, improve, triggers, phrase, l9) ==
    [score |-> score, verbs |-> verbs, improve |-> improve, triggers |-> triggers,
     phrase |-> phrase, l9 |-> l9]

Context(unknowns, conflicts, selected) ==
    [unknowns |-> unknowns, conflicts |-> conflicts, selected |-> selected]

Request(mission, terminal, signals, notes, context) ==
    [mission |-> mission, include_terminal |-> terminal, signals |-> signals, notes |-> notes,
     unknowns |-> context.unknowns, conflicts |-> context.conflicts,
     selected |-> context.selected]

NoContext == Context(<<>>, {}, {})

\* Kinds and keys: a repository fact, a law under its key, a fact under another.
Fact == <<"repository", "k">>
Law == <<"law", "k">>
OtherFact == <<"repository", "j">>

\* No route word, the words of one route, or those of two in a tie or not.
Scores == {[r \in RouteNames |-> IF r = a THEN n ELSE IF r = b THEN 1 ELSE 0] :
              a \in RouteNames, b \in {"feature", "engine_build"}, n \in {0, 1, 2}}

MCMissions ==
    {Mission(score, verbs, improve, triggers, phrase, FALSE) :
        score \in Scores,
        verbs \in {{}, {"MUTATION", "ANALYSIS"}, {"ANALYSIS"}, {"ARTIFACT", "DECISION"}},
        improve \in BOOLEAN, triggers \in {{}, {"ownership"}, {"temporal"}},
        phrase \in BOOLEAN}

MCAllRequests ==
    {Request(m, terminal, signals, ctx[1], ctx[2]) :
        m \in MCMissions, terminal \in BOOLEAN, signals \in {{}, {"redelivery", "noise"}},
        ctx \in {<<<<>>, NoContext>>,
                 <<<<"n", "realization_mode_UNKNOWN">>,
                   Context(<<"u1", "u2">>, {Fact}, {Law, OtherFact})>>}}

\* Contexts whose contradiction is also selected, one of them with a conflict that
\* blocks another requirement.
MCContradicted ==
    {Request(m, FALSE, {}, <<>>, context) :
        m \in {n \in MCMissions : ~n.improve /\ n.triggers = {}},
        context \in {Context(<<>>, {Fact}, {Fact, Law}),
                     Context(<<"u1">>, {Fact, Law}, {Law})}}

\* For the changed packs: the route with the change and one with P3 of its own.
MCFewRequests ==
    {Request(Mission([r \in RouteNames |-> IF r = a THEN 1 ELSE 0], verbs, FALSE, triggers,
                     phrase, l9),
             terminal, {}, <<>>, context) :
        a \in {"feature", "boundary"}, verbs \in {{}, {"MUTATION"}, {"ANALYSIS"}},
        triggers \in {{}, {"temporal"}}, phrase \in BOOLEAN, l9 \in BOOLEAN,
        terminal \in BOOLEAN, context \in {NoContext, Context(<<"u1">>, {Law}, {Fact})}}

MCPacks == MCChanged \cup {MCShipped}

MCRequests(p) == IF p = MCShipped THEN MCAllRequests \cup MCContradicted ELSE MCFewRequests
=============================================================================
